SPECIFICATION FairSpec
CONSTANTS
  Tools = {}
  Llms = {"m1", "m2", "m3"}
  Silent = {"m1"}
  Threads = {}
  Retried = {}
  Nested = {}
  Detached = {}
  Answers = {"allow", "stop", "hold", "error"}
  After <- MCAfter
  Configs <- LlmConfigs
INVARIANTS
  ReturnedMeansAllowed
  PreScreenRowReused
  LlmCompletedOnce
PROPERTIES
  ImplementsContract
