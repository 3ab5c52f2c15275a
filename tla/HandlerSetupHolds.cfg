SPECIFICATION Spec
CONSTANTS
  Startups = {"a", "b", "c"}
  Graphs = {"g1", "g2"}
  Plans <- MCPlans
  Environments <- MCEnvironments
  ClassDefaults = {"session"}
INVARIANTS
  TypeOK
  ConfigIsLastAccepted
  ServesOneAgent
  OnlyCheckedCredentials
  HooksOfLiveHandler
PROPERTIES
  BoundForGood
