SPECIFICATION FairSpec
CONSTANTS
  Turns = {"t1", "t2"}
  Activities = {"a1"}
  Evals = {"start", "hook1", "hook2"}
  Waits = {"callback", "repeat", "h1", "h2"}
  Verdicts = {"none", "allow", "block"}
  WorkflowOf <- MCWorkflowOf
  TurnOf <- MCTurnOf
  ActOf <- MCActOf
  EvalOf <- MCEvalOf
  KindOf <- MCKindOf
  After <- MCAfter
INVARIANTS
  TypeOK
  ReleasedOnGrant
  LateAnswerNeverReleases
  RepeatReusesDecision
  CancelledOnlyByOwnTurn
  AbortMarksAreFailures
PROPERTIES
  DecidedWaitsSettle
  ImplementsContract
