SPECIFICATION Spec
CONSTANTS
  Procs = {"a", "b", "c", "d"}
  Crews = {{"a", "b"}, {"b", "c", "d"}}
  NoProc = "none"
  Inputs <- MCInputs
  MaxFaults = 1
  IntWidth = 64
  PortWidth = 16
  MAX_TTL = 5
  DEFAULT_TTL = 4
  MIN_DOH_TIMEOUT_MS = 2
  MAX_DOH_TIMEOUT_MS = 6
  DEFAULT_DOH_TIMEOUT_MS = 5
  DEFAULT_DNS_PORT = 5
  MaskValue <- MCMaskValue
INVARIANTS
  NeverGone
  SettingsHonoured
  RulesInForce
PROPERTIES
  Replaced
  SignalStops
CHECK_DEADLOCK FALSE
