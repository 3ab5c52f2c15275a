SPECIFICATION Spec
CONSTANTS
  Startups = {"a", "b"}
  Graphs = {"g1"}
  Plans <- OptionPlans
  Environments <- OneEnvironment
  ClassDefaults = {"session"}
INVARIANTS
  OptionsForwarded
