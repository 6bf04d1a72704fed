SPECIFICATION FairSpec
CONSTANTS
  n1 = n1
  links = links
  neigh = neigh
  Namespaces = {n1}
  Kinds = {links}
  Links = links
  Aggregation = 1
  Throttle = 2
  QueueCap = 2
  MaxLag = 1
PROPERTIES
  WaitingReloadsHappen
  StoreConverges
