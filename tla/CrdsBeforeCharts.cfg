SPECIFICATION BootSpec
CONSTANTS
  Namespaces = {"llm", "home"}
  Secrets = {"deploy-key", "age"}
  MaxRuns = 2
  MaxBootFaults = 2
INVARIANTS CrdsBeforeCharts
CHECK_DEADLOCK FALSE
