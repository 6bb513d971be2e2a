SPECIFICATION FairFailoverSpec
CONSTANTS
  m1 = m1
  a = a
  b = b
  s1 = s1
  s2 = s2
  c1 = c1
  c2 = c2
  p1 = p1
  p2 = p2
  u1 = u1
  u2 = u2
  Absent = Absent
  SourceNames = {m1}
  SinkNames = {a}
  Secrets = {s1}
  Credentials = {c1}
  Policies = {p1}
  UIDs = {u1, u2}
  Specs <- FlappingSpecs
  SecretObjects <- SafetySecrets
  MaxGeneration = 2
  MaxSecretWrites = 0
  MaxFaults = 0
  MaxReadFaults = 0
  MaxCrashes = 1
  MaxDrifts = 0
  Overlap = TRUE
  MaxStaleness = 2
  DownstreamLags = FALSE
  Resyncs = TRUE
CHECK_DEADLOCK FALSE
INVARIANT FailoverInvariant
PROPERTIES
  NoLeaderUndoesEdits
  EventuallySynced
