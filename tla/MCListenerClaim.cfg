SPECIFICATION FairSpec
CONSTANTS
  Namespaces = {self, ns1}
  Self = self
  Paths = {proc, mnt}
  SelfPath = proc
  Streams <- OneStream
  Slots = {s1, s2}
  None = None
PROPERTY EveryDiscoveredNamespaceIsHeard
