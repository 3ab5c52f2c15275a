SPECIFICATION Spec
CONSTANTS
  Sends = {"first", "again", "retry", "sync", "other"}
  Sync = {"sync"}
  Runs = {"r1", "r2"}
  Keys = {"k1", "k2"}
  RunOf <- MCRunOf
  KeyOf <- MCKeyOf
  RetryOf <- MCRetryOf
  After <- OneByOne
  Modes <- BaseModes
INVARIANTS
  TypeOK
  SentOncePerRun
PROPERTIES
  DropsOnlyCovered
