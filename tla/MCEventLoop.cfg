SPECIFICATION Spec
CONSTANTS
  n1 = n1
  links = links
  neigh = neigh
  Namespaces = {n1}
  Kinds = {links, neigh}
  Links = links
  Aggregation = 1
  Throttle = 2
  QueueCap = 2
  MaxLag = 1
INVARIANTS
  TypeOK
  EntriesConsistent
  NoLostUpdate
PROPERTIES
  ReloadsAreThrottled
  ReloadsAreNotPostponed
