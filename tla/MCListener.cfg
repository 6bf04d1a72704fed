SPECIFICATION Spec
CONSTANTS
  Namespaces = {self, ns1}
  Self = self
  Paths = {proc, mnt}
  SelfPath = proc
  Streams <- TwoStreams
  Slots = {s1, s2}
  None = None
SYMMETRY SlotSymmetry
INVARIANTS TypeOK InOneHand NoGap
PROPERTIES ImplementsFeed
