SPECIFICATION Spec
CONSTANTS
  Tools = {}
  Llms = {"m1"}
  Silent = {}
  Threads = {}
  Retried = {}
  Nested = {}
  Detached = {}
  Answers = {"allow"}
  After <- MCAfter
  Configs <- FallbackConfigs
INVARIANTS
  LlmRowsClosed
