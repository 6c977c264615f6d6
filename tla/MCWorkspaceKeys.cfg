SPECIFICATION Spec
CONSTANTS
  Keys = {k1, k2}
  Moves <- ChangingMoves
  WritesFail = FALSE
  MaxEdits = 1
  MaxCrashes = 1
  NoSnap = NoSnap
INVARIANT IInv
PROPERTY MarkerIsEarned
SYMMETRY Symmetry
