SPECIFICATION FairSpec
CONSTANTS
  n1 = n1
  n2 = n2
  k1 = k1
  k2 = k2
  a = a
  b = b
  c = c
  NoRow = NoRow
  Namespaces = {n1, n2}
  Keys = {k1, k2}
  NamespaceOf <- MCNamespaceOf
  Values = {a, b, c}
  Fingerprint <- MCFingerprint
  FadeDuration = 2
  MaxLag = 1
INVARIANTS
  TypeOK
  RowsMetaAgree
  LiveRowsAreLastDump
PROPERTIES
  HighlightFollowsDumps
  RemovedRowStays
  HighlightsEnd
