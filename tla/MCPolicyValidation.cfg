SPECIFICATION Spec
CONSTANTS
  m1 = m1
  m2 = m2
  a = a
  b = b
  s1 = s1
  NoName = NoName
  Absent = Absent
  SourceNames = {m1, m2}
  SinkNames = {a, b, NoName}
  Secrets = {s1}
  Credentials = {}
  Submissions <- MCSubmissions
INVARIANTS
  AdmittedSourcesConfigured
  ErrorsAreComplete
