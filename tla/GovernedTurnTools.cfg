SPECIFICATION FairSpec
CONSTANTS
  Tools = {"t1", "t2", "t3"}
  Llms = {}
  Silent = {}
  Threads = {"t2"}
  Retried = {"t1"}
  Nested = {}
  Detached = {"t3"}
  Answers = {"allow", "stop", "hold", "error"}
  After <- MCAfter
  Configs <- ToolConfigs
INVARIANTS
  TypeOK
  RowsSentOnce
  BodyRunsGoverned
  ReturnedMeansAllowed
  OrphansClosed
PROPERTIES
  ImplementsContract
  TurnEnds
