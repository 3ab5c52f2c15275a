SPECIFICATION Spec
CONSTANTS
  Tools = {}
  Llms = {"m1"}
  Silent = {}
  Threads = {}
  Retried = {}
  Nested = {}
  Detached = {}
  Answers = {"allow", "stop"}
  After <- MCAfter
  Configs <- NoChainConfigs
INVARIANTS
  StoppedPromptNeverRuns
