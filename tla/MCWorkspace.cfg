SPECIFICATION FairSpec
CONSTANTS
  Keys = {k1}
  Moves <- SettledMoves
  WritesFail = TRUE
  MaxEdits = 2
  MaxCrashes = 1
  NoSnap = NoSnap
INVARIANT SavingAlone
INVARIANT NothingLost
INVARIANT NoRestoreUnderContainer
PROPERTY NoLateCheckpoint
PROPERTY KeepsPromise
PROPERTY SaveConcludes
INVARIANT ArchivesAreWhole
PROPERTY AnswersHold
