SPECIFICATION FairSpec
CONSTANTS
  Sites = {"prescreen", "stream", "fallback"}
  Kinds <- MCKinds
  Junk = {"approve"}
INVARIANTS
  TypeOK
  StricterNeverLooser
  ReleasedByApproval
  RefusalHasCause
PROPERTIES
  DecidedSettles
