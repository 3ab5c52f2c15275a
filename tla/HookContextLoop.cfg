SPECIFICATION Spec
CONSTANTS
  Turns = {"t1", "t2"}
  Acts = {"tool", "llm", "other"}
  Tools = {"tool"}
  Callback = {"other"}
  Threaded = {}
  Spans = {"tool-h1", "tool-h2"}
  Scoped = {}
  OffLoop = {"tool-h2"}
  Traces = {"k1"}
  TurnOf <- MCTurnOf
  TraceOf <- OneTrace
  ActOf <- MCActOf
  MaxPending = 1
INVARIANTS
  TypeOK
  RegistryAgrees
  SweptTurnUnbound
  AbortMarksSwept
  StagesAgree
  PinsAreLive
PROPERTIES
  SweepSparesOthers
