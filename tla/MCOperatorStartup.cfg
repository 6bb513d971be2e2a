SPECIFICATION StartupSpec
CONSTANTS
  f1 = f1
  f2 = f2
  Default = Default
  Undecodable = Undecodable
  Paths = {f1, f2}
  ServerConfigs <- MCServerConfigs
CHECK_DEADLOCK FALSE
INVARIANT ExitCodeFaithful
PROPERTIES
  ComesToServe
  FailureEndsProcess
