SPECIFICATION Spec
CONSTANTS
  a = a
  b = b
  c = c
  Devs = {d1}
  Contents = {a, b, c}
  Fingerprint <- MCFingerprint
  Fade = 1
  RefreshDue = 1
  MaxChanges = 3
INVARIANTS
  TypeOK
  OneTickChain
  NothingIsMissed
PROPERTIES
  ScreenSettles
