SPECIFICATION Spec
CONSTANTS
  Keys = {k1, k2}
  Moves <- ChangingMoves
  WritesFail = FALSE
  MaxEdits = 0
  MaxCrashes = 0
  NoSnap = NoSnap
INVARIANT NoRestoreUnderContainer
