SPECIFICATION Spec
CONSTANTS
  Sends = {"first", "retry"}
  Sync = {}
  Runs = {"r1"}
  Keys = {"k1"}
  RunOf <- MCRunOf
  KeyOf <- MCKeyOf
  RetryOf <- MCRetryOf
  After <- OneByOne
  Modes <- LegacyClosed
INVARIANTS
  RetryReachesCore
