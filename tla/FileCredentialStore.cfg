SPECIFICATION Spec
CONSTANTS
  c1 = c1
  c2 = c2
  Invalid = Invalid
  Torn = Torn
  NoFile = NoFile
  Credentials <- MCCredentials
  LegacyFiles <- MCNoLegacy
INVARIANTS
  TypeOK
  CacheNeverTorn
PROPERTIES
  ImplementsCell
CHECK_DEADLOCK FALSE
