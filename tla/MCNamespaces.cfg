SPECIFICATION Spec
CONSTANTS
  root = root
  self = self
  other = other
  procRoot = procRoot
  procSelf = procSelf
  mount = mount
  proc = proc
  Ids = {root, self, other}
  Root = root
  Self = self
  RootPath = procRoot
  SelfPath = procSelf
  MountPaths <- Mounts
  ProcPaths <- Procs
  MountSets <- SetsOfMounts
  ProcSets <- SetsOfProcs
  Permissions = {{root, other}}
  Heard = {other}
  None = None
  Files = {1, 2, 3, 4, 5, 6}
  NoFile = NoFile
INVARIANTS
  TypeOK
  DescriptorsHaveOneOwner
  HandlesLeadHome
  ErrorsAreShown
PROPERTIES HandlesOpenInTheEnd
CHECK_DEADLOCK FALSE
