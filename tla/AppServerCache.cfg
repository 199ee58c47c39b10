SPECIFICATION Spec
CONSTANTS
  Servers <- MCServers
  Paths = {"profile", "domain"}
  PathOf <- MCPathOf
  Configured <- WebLogic
  Settings = {"off", "HTTP"}
  Off = "off"
  Unknown = "unknown"
  Stable = FALSE
  MaxRunning = 2
  Twice = {"w1"}
INVARIANTS
  IInv
PROPERTIES
  ImplementsMonitoredServers
  RunningIsWhatWasFound
