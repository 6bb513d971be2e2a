SPECIFICATION FairQuietSpec
CONSTANTS
  m1 = m1
  a = a
  b = b
  s1 = s1
  s2 = s2
  c1 = c1
  c2 = c2
  p1 = p1
  p2 = p2
  u1 = u1
  u2 = u2
  Absent = Absent
  SourceNames = {m1}
  SinkNames = {a, b}
  Secrets = {s1}
  Credentials = {c1, c2}
  Policies = {p1}
  UIDs = {u1}
  Specs <- QuietSpecs
  SecretObjects <- QuietSecrets
  MaxGeneration = 2
  MaxSecretWrites = 2
  MaxFaults = 1
  MaxReadFaults = 0
  MaxCrashes = 1
  MaxDrifts = 0
  DownstreamLags = FALSE
  Resyncs = FALSE
CHECK_DEADLOCK FALSE
INVARIANTS
  QuietInvariant
  QuiescentSynced
PROPERTIES
  SyncedUnlessMissed
  DeletionCompletes
