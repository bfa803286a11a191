SPECIFICATION Spec
CONSTANTS
  c1 = c1
  c2 = c2
  Invalid = Invalid
  Torn = Torn
  NoFile = NoFile
  Credentials <- MCCredentials
  LegacyFiles <- MCLegacy
PROPERTY LegacyReadOnce
CHECK_DEADLOCK FALSE
