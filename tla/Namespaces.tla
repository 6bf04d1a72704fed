------------------------------ MODULE Namespaces ------------------------------
(***************************************************************************)
(* Namespace discovery and the life of netlink handles                     *)
(* (internal/store/namespaces.go).                                         *)
(*                                                                         *)
(* A sync takes a list of the namespaces that are mounted and that         *)
(* processes are in, then goes through it: a namespace known under the     *)
(* same path keeps its state, any other is opened anew, and what is left   *)
(* over is closed at the end.  The store's lock is held throughout, so     *)
(* readers see `inventory' only before and after; but the paths are those  *)
(* of other processes.  They may lead elsewhere by the time they are       *)
(* opened; and the table of mounts names the namespace of each mount       *)
(* without opening it, also of one that another mount on the same path, or *)
(* above it, hides.  Nothing asks a handle which namespace it leads to.    *)
(*                                                                         *)
(* A descriptor stands for a namespace file (netns.NsHandle) or for the    *)
(* sockets of a netlink.Handle; opened[f] is the namespace it leads to.    *)
(* Times are left out: any subset of the pending reloads may be due.       *)
(***************************************************************************)
EXTENDS Naturals, Sequences, FiniteSets

CONSTANTS
  Ids,         \* network namespaces, by inode number
  Root, Self,  \* those of process 1 and of vxmon; equal if process 1 may not be read
  RootPath,    \* /proc/1/ns/net
  SelfPath,    \* /proc/self/ns/net
  MountPaths,  \* sequence: mount points of nsfs mounts, as mountinfo lists them
  ProcPaths,   \* sequence: /proc/<pid>/ns/net, by pid
  MountSets,   \* bound: sequence, the namespaces each mount may be of
  ProcSets,    \* bound: sequence, the namespaces each process may be in
  Permissions, \* bound: the sets of namespaces vxmon may enter besides its own
  Heard,       \* bound: the namespaces with a netlink subscription
  None,        \* where a path leads that does not exist
  Files,       \* descriptors the process may have open
  NoFile       \* a closed NsHandle, a nil Handle

ASSUME IdsAssumption ==
  /\ {Root, Self} \cup Heard \subseteq Ids /\ None \notin Ids
  /\ Permissions \subseteq SUBSET Ids
ASSUME FilesAssumption == NoFile \notin Files

VARIABLES
  at,         \* where each path leads now
  mounts,     \* of each mount, its namespace; None if it is not there
  permitted,  \* the namespaces vxmon may enter besides its own; fixed
  calm,       \* from here on no path changes and no call fails for a while
  inventory,  \* inventory.namespaceState
  listed,     \* inventory.namespaces: what the views show, per namespace
  next,       \* nextStates of a running sync
  todo,       \* discovered items it has not come to yet
  by,         \* what the sync belongs to: a scheduled reload or another event
  dirty,      \* reloadState.ns: namespaces with a pending reload
  opened,     \* open descriptors
  asked,      \* namespaces asked for their links without a handle: vxmon is gone
  astray,     \* history: items of todo whose path did not lead to them when
              \* they were discovered, or has changed since
  strayed     \* history: namespaces last opened while they were astray

history == <<astray, strayed>>
vars == <<at, mounts, permitted, calm, inventory, listed, next, todo, by, dirty,
          opened, asked, history>>
world == <<at, mounts, permitted, calm>>

-----------------------------------------------------------------------------
Others == {MountPaths[i] : i \in DOMAIN MountPaths}
            \cup {ProcPaths[i] : i \in DOMAIN ProcPaths}
Paths == Others \cup {RootPath, SelfPath}
ASSUME PathsAssumption ==
  /\ MountPaths \in Seq(Paths) /\ ProcPaths \in Seq(Paths)
  /\ {RootPath, SelfPath} \cap Others = {}
  /\ \A i \in DOMAIN MountPaths : MountSets[i] \subseteq Ids
  /\ \A i \in DOMAIN ProcPaths : ProcSets[i] \subseteq Ids

(* discoverNamespaces: the last mount of a namespace names it, or else the *)
(* process with the lowest number; those of process 1 and of vxmon itself  *)
(* are found under fixed paths.  Mounts are told by the table, processes   *)
(* by opening their paths.                                                 *)
MountsOf(n) == {i \in DOMAIN MountPaths : mounts[i] = n}
ProcsOf(n) == {i \in DOMAIN ProcPaths : at[ProcPaths[i]] = n}
MountOf(n) == CHOOSE i \in MountsOf(n) : \A j \in MountsOf(n) : j <= i
ProcOf(n) == CHOOSE i \in ProcsOf(n) : \A j \in ProcsOf(n) : i <= j
NamedPath(n) == IF MountsOf(n) # {} THEN MountPaths[MountOf(n)] ELSE ProcPaths[ProcOf(n)]
PathOf(n) == IF n = Self THEN SelfPath ELSE IF n = Root THEN RootPath ELSE NamedPath(n)

Mounted == {mounts[i] : i \in DOMAIN MountPaths}
Peopled == {at[ProcPaths[i]] : i \in DOMAIN ProcPaths}
(* Mutated form: a path that leads nowhere is taken for a namespace.       *)
FoundBroken == Mounted \cup Peopled \cup {Root, Self}
Found == ((Mounted \cup Peopled) \ {None}) \cup {Root, Self}
Item(n) == [id |-> n, path |-> PathOf(n), isRoot |-> n = Root, isCurrent |-> n = Self]
Items == [id : Ids, path : Paths, isRoot : BOOLEAN, isCurrent : BOOLEAN]

(* namespaceState.                                                         *)
State(item, got, err) ==
  [path |-> item.path, isRoot |-> item.isRoot, isCurrent |-> item.isCurrent,
   handle |-> got.handle, file |-> got.file, err |-> err]
States == [path : Paths, isRoot : BOOLEAN, isCurrent : BOOLEAN,
           handle : Files \cup {NoFile}, file : Files \cup {NoFile}, err : BOOLEAN]

(* What the process holds in a state.                                      *)
Holds(state) == {state.handle, state.file} \ {NoFile}
Without(files, closed) == [f \in DOMAIN files \ closed |-> files[f]]
With(files, f, n) == [g \in DOMAIN files \cup {f} |-> IF g = f THEN n ELSE files[g]]

TypeOK ==
  /\ at \in [Paths -> Ids \cup {None}]
  /\ mounts \in [DOMAIN MountPaths -> Ids \cup {None}]
  /\ permitted \subseteq Ids /\ calm \in BOOLEAN
  /\ DOMAIN inventory \subseteq Ids /\ inventory \in [DOMAIN inventory -> States]
  /\ DOMAIN next \subseteq Ids /\ next \in [DOMAIN next -> States]
  /\ listed \in [DOMAIN inventory -> [path : Paths, err : BOOLEAN]]
  /\ todo \subseteq Items
  /\ by \in {"none", "scheduled", "other"}
  /\ dirty \subseteq Ids /\ asked \subseteq Ids /\ strayed \subseteq Ids
  /\ astray \subseteq {item.id : item \in todo}
  /\ DOMAIN opened \subseteq Files /\ opened \in [DOMAIN opened -> Ids]

(* External.  Of the mounts on one path only the last is seen, and that    *)
(* only if no mount above it hides them all; which it is may change.       *)
Visible(p, m, n) == n = None \/ \E i \in DOMAIN MountPaths : MountPaths[i] = p /\ m[i] = n

Empty == [x \in {} |-> {}]
Init ==
  /\ mounts \in [DOMAIN MountPaths -> Ids \cup {None}]
  /\ \A i \in DOMAIN MountPaths : mounts[i] \in MountSets[i] \cup {None}
  /\ at \in [Paths -> Ids \cup {None}]
  /\ at[RootPath] = Root /\ at[SelfPath] = Self
  /\ \A i \in DOMAIN MountPaths : Visible(MountPaths[i], mounts, at[MountPaths[i]])
  /\ \A i \in DOMAIN ProcPaths : at[ProcPaths[i]] \in ProcSets[i] \cup {None}
  /\ permitted \in Permissions /\ calm = FALSE
  /\ inventory = Empty /\ listed = Empty /\ next = Empty /\ opened = Empty
  /\ todo = {} /\ by = "none"
  /\ dirty = {} /\ asked = {} /\ astray = {} /\ strayed = {}

-----------------------------------------------------------------------------
(* newNamespaceHandle: the outcomes of opening an item with `files' open.  *)
(* The handle of vxmon's own namespace needs no path and its file is a     *)
(* best effort; elsewhere the file comes first and is closed again if no   *)
(* handle can be made of it.  Any call may fail until it is calm.          *)
Nothing(files) == [handle |-> NoFile, file |-> NoFile, files |-> files]
Free(files) == Files \ DOMAIN files
New(files) == CHOOSE f \in Free(files) : TRUE

OpenedFile(path, files) ==
  IF at[path] # None /\ Free(files) # {}
    THEN [handle |-> NoFile, file |-> New(files), files |-> With(files, New(files), at[path])]
    ELSE Nothing(files)
OpenedHandle(n, got) ==
  [handle |-> New(got.files), file |-> got.file,
   files |-> With(got.files, New(got.files), n)]

OpenedCurrent(item, files) ==
  IF Free(files) = {} THEN Nothing(files)
  ELSE LET h == OpenedHandle(Self, Nothing(files))
           f == OpenedFile(item.path, h.files)
       IN  [handle |-> h.handle, file |-> f.file, files |-> f.files]

OpenedOther(item, files) ==
  LET f == OpenedFile(item.path, files)
  IN  IF /\ f.file # NoFile
         /\ f.files[f.file] \in permitted
         /\ Free(f.files) # {}
        THEN OpenedHandle(f.files[f.file], f)
        ELSE Nothing(files)

Failed(item, files) ==
  {Nothing(files)}
    \cup (IF item.isCurrent /\ Free(files) # {} THEN {OpenedHandle(Self, Nothing(files))}
                                                 ELSE {})
(* Mutated form: the shortcut for vxmon's own namespace taken for process  *)
(* 1's.                                                                    *)
OpenedRoot(item, files) ==
  {IF item.isRoot THEN OpenedCurrent(item, files) ELSE OpenedOther(item, files)}
    \cup (IF calm THEN {} ELSE Failed(item, files))
Opened(item, files) ==
  {IF item.isCurrent THEN OpenedCurrent(item, files) ELSE OpenedOther(item, files)}
    \cup (IF calm THEN {} ELSE Failed(item, files))

-----------------------------------------------------------------------------
Running == asked = {}

(* syncNamespaces, called for a sync event, for a scheduled reload or for  *)
(* FetchLatest, which first cancels the pending reloads and is the first   *)
(* event of all.  A discovery that fails changes nothing else.             *)
BeginSync(event) ==
  /\ Running /\ by = "none"
  /\ inventory = Empty => event = "fetch"
  /\ by' = IF event = "scheduled" THEN "scheduled" ELSE "other"
  /\ todo' = {Item(n) : n \in Found}
  /\ dirty' = IF event = "fetch" THEN {} ELSE dirty
  /\ astray' = {n \in Found : at[PathOf(n)] # n}
  /\ UNCHANGED <<world, inventory, listed, next, opened, asked, strayed>>

SameId(state, item) ==
  /\ state.path = item.path
  /\ state.isRoot = item.isRoot /\ state.isCurrent = item.isCurrent

(* Mutated form: the error of the last attempt stays in a state whose      *)
(* namespace could be opened in the end.                                   *)
ReusedErrorKept(item, got) == State(item, got, TRUE)
Reused(item, got) == State(item, got, got.handle = NoFile)

(* Mutated form: a namespace that could not be opened is left at that.     *)
NeedsNoHandleEver(state) == TRUE
NeedsNoHandle(state) == state.handle # NoFile

Known(item) == item.id \in DOMAIN inventory
Reusable(item) == Known(item) /\ SameId(inventory[item.id], item)

(* The items are sorted, process 1's first, the others by their paths in   *)
(* an order that does not matter here.                                     *)
Proceed(item) ==
  /\ Running /\ item \in todo
  /\ item.isRoot \/ \A i \in todo : ~i.isRoot
  /\ todo' = todo \ {item} /\ astray' = astray \ {item.id}
  /\ UNCHANGED <<world, inventory, listed, by, dirty, asked>>
Strayed(item) == IF item.id \in astray THEN strayed \cup {item.id} ELSE strayed \ {item.id}

(* reuseNamespaceState when there is a handle already.                     *)
Keep(item) ==
  LET state == inventory[item.id] IN
  /\ Proceed(item)
  /\ Reusable(item) /\ NeedsNoHandle(state)
  /\ next' = With(next, item.id, State(item, state, FALSE))
  /\ UNCHANGED <<opened, strayed>>

(* reuseNamespaceState otherwise: one more attempt.                        *)
Retry(item) ==
  /\ Proceed(item)
  /\ Reusable(item) /\ ~NeedsNoHandle(inventory[item.id])
  /\ \E got \in Opened(item, opened) :
       /\ next' = With(next, item.id, Reused(item, got))
       /\ opened' = got.files
  /\ strayed' = Strayed(item)

(* closeNamespaceState of the state an item replaces, if there is one.     *)
(* Mutated form: the state is replaced without being closed.               *)
ReleasedNot(item) == opened
Released(item) ==
  IF Known(item) THEN Without(opened, Holds(inventory[item.id])) ELSE opened

(* openNamespaceState.                                                     *)
Open(item) ==
  /\ Proceed(item)
  /\ ~Reusable(item)
  /\ \E got \in Opened(item, Released(item)) :
       /\ next' = With(next, item.id, State(item, got, got.handle = NoFile))
       /\ opened' = got.files
  /\ strayed' = Strayed(item)

(* applyDueNamespaceReloadLocked with the reloads S due: those of known    *)
(* namespaces begin with a dump of its links, made with its handle.        *)
RunDue(S, pending, states) ==
  /\ dirty' = pending \ S
  /\ asked' = {n \in S \cap DOMAIN states : states[n].handle = NoFile}

(* closeRemovedNamespaceStates.                                            *)
ClosedRemoved ==
  Without(opened, UNION {Holds(inventory[n]) : n \in DOMAIN inventory \ DOMAIN next})

(* The end of syncNamespacesWithProcScan, pruneNamespaceCaches included,   *)
(* and of the handler: a scheduled reload marks what is new, for later,    *)
(* and then runs what is due.  FetchLatest dumps every namespace that has  *)
(* a handle.                                                               *)
FinishSync ==
  /\ Running /\ by # "none" /\ todo = {}
  /\ by' = "none"
  /\ inventory' = next /\ next' = Empty
  /\ listed' = [n \in DOMAIN next |-> [path |-> next[n].path, err |-> next[n].err]]
  /\ opened' = ClosedRemoved
  /\ strayed' = strayed \cap DOMAIN next
  /\ LET kept == dirty \cap DOMAIN next
         new == DOMAIN next \ DOMAIN inventory
     IN  \/ /\ by = "scheduled"
            /\ \E S \in SUBSET kept : RunDue(S, kept \cup new, next)
         \/ /\ by # "scheduled"
            /\ dirty' = kept /\ UNCHANGED asked
  /\ UNCHANGED <<world, todo, astray>>

(* An event from a subscription, which is made by path as well.  What it   *)
(* marks is due later.                                                     *)
ReloadEvent(n) ==
  /\ Running /\ by = "none"
  /\ n \in Heard \cap (permitted \cup {Self})
  /\ \E S \in SUBSET dirty : RunDue(S, dirty \cup {n}, inventory)
  /\ UNCHANGED <<world, inventory, listed, next, todo, by, opened, history>>

(* Any other event: what is due is run.                                    *)
FadeTick ==
  /\ Running /\ by = "none"
  /\ \E S \in SUBSET dirty \ {{}} : RunDue(S, dirty, inventory)
  /\ UNCHANGED <<world, inventory, listed, next, todo, by, opened, history>>

-----------------------------------------------------------------------------
(* A process comes, goes or enters another namespace; a mount comes or     *)
(* goes, or hides or uncovers another.                                     *)
Astray(p) == astray' = astray \cup {item.id : item \in {i \in todo : i.path = p}}
Retarget(i, n) ==
  /\ ~calm /\ n \in ProcSets[i] \cup {None} /\ at[ProcPaths[i]] # n
  /\ at' = [at EXCEPT ![ProcPaths[i]] = n]
  /\ Astray(ProcPaths[i])
  /\ UNCHANGED <<mounts, permitted, calm, inventory, listed, next, todo, by, dirty, opened,
                 asked, strayed>>
Remount(i, n, seen) ==
  /\ ~calm /\ n \in MountSets[i] \cup {None}
  /\ mounts' = [mounts EXCEPT ![i] = n] /\ Visible(MountPaths[i], mounts', seen)
  /\ at' = [at EXCEPT ![MountPaths[i]] = seen] /\ <<mounts, at>>' # <<mounts, at>>
  /\ Astray(MountPaths[i])
  /\ UNCHANGED <<permitted, calm, inventory, listed, next, todo, by, dirty, opened, asked,
                 strayed>>

Settle ==
  /\ ~calm /\ by = "none" /\ calm' = TRUE
  /\ UNCHANGED <<at, mounts, permitted, inventory, listed, next, todo, by, dirty, opened,
                 asked, history>>

Step == \E item \in todo : Keep(item) \/ Retry(item) \/ Open(item)
Sync == \E event \in {"sync", "scheduled", "fetch"} : BeginSync(event)
Next ==
  \/ Sync \/ Step \/ FinishSync
  \/ \E n \in Ids : ReloadEvent(n)
  \/ FadeTick
  \/ \E i \in DOMAIN ProcPaths, n \in Ids \cup {None} : Retarget(i, n)
  \/ \E i \in DOMAIN MountPaths, n, seen \in Ids \cup {None} : Remount(i, n, seen)
  \/ Settle

(* FetchLatest is requested every RuntimeRefreshInterval (EventLoop shows  *)
(* that it is handled) and a handler that has begun goes on.               *)
Fairness == WF_vars(Sync) /\ WF_vars(Step) /\ WF_vars(FinishSync)
Spec == Init /\ [][Next]_vars /\ Fairness

-----------------------------------------------------------------------------
(* States that are in use: those of the sync, and of the inventory as long *)
(* as the sync has not replaced them.                                      *)
Live == [n \in DOMAIN inventory \cup DOMAIN next |->
           IF n \in DOMAIN next THEN next[n] ELSE inventory[n]]

(* No descriptor leaks and none is closed twice or used after it was       *)
(* closed: whatever fails on the way, those that are open are held by      *)
(* exactly one state, each in one field, and only a state with a handle    *)
(* holds any.                                                              *)
DescriptorsHaveOneOwner ==
  /\ DOMAIN opened = UNION {Holds(Live[n]) : n \in DOMAIN Live}
  /\ \A m, n \in DOMAIN Live : m # n => Holds(Live[m]) \cap Holds(Live[n]) = {}
  /\ \A n \in DOMAIN Live :
       /\ Live[n].handle = NoFile => Live[n].file = NoFile
       /\ Live[n].handle # NoFile => Live[n].handle # Live[n].file

(* A namespace is asked through a handle that leads to it, unless it was   *)
(* opened while it was astray: its path led elsewhere already when it was  *)
(* discovered, another mount being in front of the one the table names, or *)
(* the path changed before it was opened.  Then the rows of another        *)
(* namespace are shown under its name, until its path becomes another or   *)
(* the namespace goes.                                                     *)
HandlesLeadHome ==
  \A n \in DOMAIN Live : \A f \in Holds(Live[n]) : opened[f] = n \/ n \in strayed

(* The views show an error for a namespace exactly if it is not asked, and *)
(* the path it is asked through: the copies in the list follow the states. *)
ErrorsAreShown ==
  \A n \in DOMAIN inventory :
    /\ listed[n].err <=> inventory[n].handle = NoFile
    /\ listed[n].path = inventory[n].path

(* Once paths stay and calls no longer fail, every namespace whose path    *)
(* leads to one that may be entered has a handle, and every namespace that *)
(* has gone is closed: an attempt that failed is made again by the next    *)
(* sync.                                                                   *)
Enterable(n) == n = Self \/ at[PathOf(n)] \in permitted
Settled ==
  /\ DOMAIN inventory = Found
  /\ \A n \in Found : Enterable(n) => inventory[n].handle # NoFile
  /\ \A n \in Found : inventory[n].path = PathOf(n)
HandlesOpenInTheEnd == <>[](calm /\ Running => Settled)

(* README: vxmon can run with limited permissions.  A namespace it may not *)
(* enter has no handle and is left out of every reload.                    *)
NamespacesWithoutPermissionAreLeftOut == asked \subseteq permitted \cup {Self}
=============================================================================
