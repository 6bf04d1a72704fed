---------------------------- MODULE NamespacesProofs ----------------------------
(***************************************************************************)
(* Proofs about Namespaces: descriptors have one owner, handles lead where *)
(* they should, and the views are told the truth, for any number of        *)
(* namespaces, paths and descriptors.  The strengthening says what the     *)
(* items of a running sync are: one per namespace, still to be entered     *)
(* into `next', each with a path that leads to its namespace or is known   *)
(* to be astray.                                                           *)
(***************************************************************************)
EXTENDS Namespaces, WellFoundedInduction, TLAPS

FixedPaths == at[RootPath] = Root /\ at[SelfPath] = Self

ItemsOK ==
  /\ by = "none" => todo = {} /\ DOMAIN next = {}
  /\ \A i \in todo : /\ i.id \notin DOMAIN next
                     /\ i.isCurrent <=> i.id = Self
                     /\ at[i.path] = i.id \/ i.id \in astray
  /\ \A i, j \in todo : i.id = j.id => i = j

Truthful(states) == \A n \in DOMAIN states : states[n].err <=> states[n].handle = NoFile

IInv ==
  /\ TypeOK /\ FixedPaths /\ ItemsOK
  /\ Truthful(inventory) /\ Truthful(next)
  /\ DescriptorsHaveOneOwner /\ HandlesLeadHome /\ ErrorsAreShown

-----------------------------------------------------------------------------
(* Discovery: every namespace found has a path.                            *)
LEMMA Least ==
  ASSUME NEW S \in SUBSET Nat, S # {}
  PROVE  \E m \in S : \A j \in S : m <= j
<1>1. \E m \in S : \A j \in S : <<j, m>> \notin OpToRel(<, Nat)
  BY WFMin, NatLessThanWellFounded, Zenon
<1>2. PICK m \in S : \A j \in S : <<j, m>> \notin OpToRel(<, Nat)
  BY <1>1
<1>3. \A j \in S : ~(j < m)
  BY <1>2, Zenon DEF OpToRel
<1> QED BY <1>3

LEMMA Greatest ==
  ASSUME NEW k \in Nat, NEW S \in SUBSET (1..k), S # {}
  PROVE  \E m \in S : \A j \in S : j <= m
<1> DEFINE T == {k - i : i \in S}
<1>1. \A i \in S : k - i \in Nat
  OBVIOUS
<1>2. T \in SUBSET Nat /\ T # {}
  BY <1>1
<1> HIDE DEF T
<1>3. PICK n \in T : \A t \in T : n <= t
  BY <1>2, Least
<1> USE DEF T
<1>4. PICK m \in S : n = k - m
  BY <1>3
<1>5. \A j \in S : k - m <= k - j
  BY <1>3, <1>4
<1>6. \A j \in S : j <= m
  BY <1>5
<1> QED BY <1>6

LEMMA FoundPath ==
  ASSUME TypeOK, NEW n \in Found
  PROVE  n \in Ids /\ PathOf(n) \in Paths
<1>1. n \in Ids
  BY IdsAssumption DEF Found, Mounted, Peopled, TypeOK, Paths, Others
<1>2. CASE n = Self \/ n = Root
  BY <1>1, <1>2 DEF PathOf, Paths
<1>3. CASE n # Root /\ n # Self /\ MountsOf(n) # {}
  <2>1. PathOf(n) = MountPaths[MountOf(n)]
    BY <1>3 DEF PathOf, NamedPath
  <2>2. MountsOf(n) \in SUBSET (1..Len(MountPaths)) /\ Len(MountPaths) \in Nat
    BY PathsAssumption DEF MountsOf
  <2>3. MountOf(n) \in MountsOf(n)
    BY <1>3, <2>2, Greatest DEF MountOf
  <2> QED BY <1>1, <2>1, <2>3, PathsAssumption DEF MountsOf
<1>4. CASE n # Root /\ n # Self /\ MountsOf(n) = {}
  <2>1. PathOf(n) = ProcPaths[ProcOf(n)]
    BY <1>4 DEF PathOf, NamedPath
  <2>2. ProcsOf(n) \in SUBSET (1..Len(ProcPaths)) /\ Len(ProcPaths) \in Nat
    BY PathsAssumption DEF ProcsOf
  <2>3. ProcsOf(n) # {}
    BY <1>4 DEF Found, Mounted, Peopled, MountsOf, ProcsOf
  <2>4. ProcOf(n) \in ProcsOf(n)
    BY <2>2, <2>3, Least DEF ProcOf
  <2> QED BY <1>1, <2>1, <2>4, PathsAssumption DEF ProcsOf
<1> QED BY <1>1, <1>2, <1>3, <1>4

-----------------------------------------------------------------------------
(* Opening.  `got' is what opening an item gives with `files' open.        *)
FilesOK(files) == DOMAIN files \subseteq Files /\ files \in [DOMAIN files -> Ids]

Gives(got, files, n, m) ==
  /\ FilesOK(got.files)
  /\ got.handle \in Files \cup {NoFile} /\ got.file \in Files \cup {NoFile}
  /\ DOMAIN got.files = DOMAIN files \cup Holds(got)
  /\ Holds(got) \cap DOMAIN files = {}
  /\ \A f \in DOMAIN files : got.files[f] = files[f]
  /\ got.handle # NoFile => got.handle # got.file
  /\ \A f \in Holds(got) : got.files[f] \in {n, m}

LEMMA NothingGiven ==
  ASSUME NEW files, FilesOK(files), NEW n, NEW m
  PROVE  Gives(Nothing(files), files, n, m)
BY FilesAssumption DEF Gives, Nothing, Holds, FilesOK

LEMMA NewFile ==
  ASSUME NEW files, FilesOK(files), Free(files) # {}, NEW n \in Ids
  PROVE  /\ New(files) \in Files \ DOMAIN files /\ New(files) # NoFile
         /\ FilesOK(With(files, New(files), n))
         /\ DOMAIN With(files, New(files), n) = DOMAIN files \cup {New(files)}
         /\ \A f \in DOMAIN files : With(files, New(files), n)[f] = files[f]
         /\ With(files, New(files), n)[New(files)] = n
<1>1. New(files) \in Files \ DOMAIN files
  BY DEF New, Free
<1> HIDE DEF New
<1> QED BY <1>1, FilesAssumption DEF With, FilesOK

LEMMA FileGiven ==
  ASSUME TypeOK, NEW path \in Paths, NEW files, FilesOK(files), NEW m,
         NEW got, got = OpenedFile(path, files)
  PROVE  Gives(got, files, at[path], m) /\ got.handle = NoFile
<1>1. CASE at[path] # None /\ Free(files) # {}
  <2>1. at[path] \in Ids
    BY <1>1 DEF TypeOK
  <2>2. got = [handle |-> NoFile, file |-> New(files),
               files |-> With(files, New(files), at[path])]
    BY <1>1 DEF OpenedFile
  <2>3. /\ New(files) \in Files \ DOMAIN files /\ New(files) # NoFile
        /\ FilesOK(got.files)
        /\ DOMAIN got.files = DOMAIN files \cup {New(files)}
        /\ \A f \in DOMAIN files : got.files[f] = files[f]
        /\ got.files[New(files)] = at[path]
    <3>1. got.files = With(files, New(files), at[path])
      BY <2>2
    <3> QED BY <1>1, <2>1, <3>1, NewFile
  <2>4. Holds(got) = {New(files)} /\ got.file = New(files) /\ got.handle = NoFile
    BY <2>2, <2>3 DEF Holds
  <2> QED BY <2>3, <2>4 DEF Gives
<1>2. CASE ~(at[path] # None /\ Free(files) # {})
  BY <1>2, NothingGiven DEF OpenedFile, Nothing
<1> QED BY <1>1, <1>2
LEMMA HandleGiven ==
  ASSUME NEW files, NEW n, NEW m, NEW got, Gives(got, files, n, m), got.handle = NoFile,
         Free(got.files) # {}, NEW k \in Ids, k \in {n, m},
         NEW new, new = OpenedHandle(k, got)
  PROVE  Gives(new, files, n, m)
<1>1. FilesOK(got.files)
  BY DEF Gives
<1>2. new = [handle |-> New(got.files), file |-> got.file,
             files |-> With(got.files, New(got.files), k)]
  BY DEF OpenedHandle
<1>3. /\ New(got.files) \in Files \ DOMAIN got.files /\ New(got.files) # NoFile
      /\ FilesOK(new.files)
      /\ DOMAIN new.files = DOMAIN got.files \cup {New(got.files)}
      /\ \A f \in DOMAIN got.files : new.files[f] = got.files[f]
      /\ new.files[New(got.files)] = k
  <2>1. new.files = With(got.files, New(got.files), k)
    BY <1>2
  <2>2. /\ New(got.files) \in Files \ DOMAIN got.files /\ New(got.files) # NoFile
        /\ FilesOK(With(got.files, New(got.files), k))
        /\ DOMAIN With(got.files, New(got.files), k)
             = DOMAIN got.files \cup {New(got.files)}
        /\ \A f \in DOMAIN got.files :
             With(got.files, New(got.files), k)[f] = got.files[f]
        /\ With(got.files, New(got.files), k)[New(got.files)] = k
    BY <1>1, NewFile, Zenon
  <2> QED BY <2>1, <2>2, Zenon
<1>4. new.handle = New(got.files) /\ new.file = got.file
  BY <1>2
<1>5. Holds(new) = Holds(got) \cup {New(got.files)}
  BY <1>3, <1>4 DEF Holds
<1>6. got.file # NoFile => got.file \in DOMAIN got.files
  BY DEF Gives, Holds
<1>7. DOMAIN new.files = DOMAIN files \cup Holds(new) /\ Holds(new) \cap DOMAIN files = {}
  BY <1>3, <1>5 DEF Gives
<1>8. \A f \in DOMAIN files : new.files[f] = files[f]
  BY <1>3 DEF Gives
<1>9. \A f \in Holds(new) : new.files[f] \in {n, m}
  BY <1>3, <1>5 DEF Gives
<1>10. new.handle \in Files /\ new.file \in Files \cup {NoFile} /\ new.handle # new.file
  BY <1>3, <1>4, <1>6 DEF Gives
<1> QED BY <1>3, <1>7, <1>8, <1>9, <1>10 DEF Gives

(* The handle of vxmon's own namespace first, then the file.               *)
LEMMA CurrentGiven ==
  ASSUME TypeOK, NEW item, item.path \in Paths, NEW files, FilesOK(files),
         NEW got, got = OpenedCurrent(item, files)
  PROVE  /\ Gives(got, files, at[item.path], Self)
         /\ got.handle = NoFile => got.file = NoFile
<1>1. CASE Free(files) = {}
  <2>1. got = Nothing(files)
    BY <1>1 DEF OpenedCurrent
  <2> QED BY <2>1, NothingGiven DEF Nothing
<1>2. CASE Free(files) # {}
  <2> DEFINE h == OpenedHandle(Self, Nothing(files))
             f == OpenedFile(item.path, h.files)
  <2>1. got = [handle |-> h.handle, file |-> f.file, files |-> f.files]
    BY <1>2 DEF OpenedCurrent
  <2>2. Gives(h, files, at[item.path], Self)
    <3>1. Gives(Nothing(files), files, at[item.path], Self) /\ Nothing(files).handle = NoFile
          /\ Nothing(files).files = files
      BY NothingGiven DEF Nothing
    <3> QED BY <1>2, <3>1, HandleGiven, IdsAssumption
  <2>3. h.file = NoFile /\ h.handle # NoFile
    <3>1. h.file = NoFile /\ h.handle = New(files)
      BY DEF OpenedHandle, Nothing
    <3> QED BY <1>2, <3>1, NewFile, IdsAssumption
  <2> HIDE DEF h
  <2>4. Gives(f, h.files, at[item.path], Self) /\ f.handle = NoFile
    <3>1. FilesOK(h.files)
      BY <2>2 DEF Gives
    <3> QED BY <3>1, FileGiven
  <2> HIDE DEF f
  <2>5. got.handle = h.handle /\ got.file = f.file /\ got.files = f.files
    BY <2>1
  <2>6. Holds(h) = {h.handle} /\ Holds(got) = Holds(h) \cup Holds(f)
    BY <2>3, <2>4, <2>5 DEF Holds
  <2>7. /\ DOMAIN got.files = DOMAIN files \cup Holds(got)
        /\ Holds(got) \cap DOMAIN files = {}
    BY <2>2, <2>4, <2>5, <2>6 DEF Gives
  <2>8. \A g \in DOMAIN files : got.files[g] = files[g]
    BY <2>2, <2>4, <2>5 DEF Gives
  <2>9. \A g \in Holds(got) : got.files[g] \in {at[item.path], Self}
    BY <2>2, <2>4, <2>5, <2>6 DEF Gives
  <2>10. got.handle # got.file
    <3>1. h.handle \in DOMAIN h.files
      BY <2>2, <2>6 DEF Gives
    <3>2. f.file # NoFile => f.file \notin DOMAIN h.files
      BY <2>4 DEF Gives, Holds
    <3> QED BY <2>3, <2>5, <3>1, <3>2
  <2>11. /\ got.handle \in Files \cup {NoFile} /\ got.file \in Files \cup {NoFile}
         /\ FilesOK(got.files)
    BY <2>2, <2>4, <2>5 DEF Gives
  <2> QED BY <2>3, <2>5, <2>7, <2>8, <2>9, <2>10, <2>11 DEF Gives
<1> QED BY <1>1, <1>2

(* The file first, then the handle of the namespace it leads to, or else   *)
(* the file is closed again.                                               *)
LEMMA OtherGiven ==
  ASSUME TypeOK, NEW item, item.path \in Paths, NEW files, FilesOK(files),
         NEW got, got = OpenedOther(item, files)
  PROVE  /\ Gives(got, files, at[item.path], at[item.path])
         /\ got.handle = NoFile => got.file = NoFile
<1> DEFINE f == OpenedFile(item.path, files)
<1>1. Gives(f, files, at[item.path], at[item.path]) /\ f.handle = NoFile
  BY FileGiven
<1>2. CASE f.file # NoFile /\ f.files[f.file] \in permitted /\ Free(f.files) # {}
  <2>1. got = OpenedHandle(f.files[f.file], f)
    BY <1>2 DEF OpenedOther
  <2> HIDE DEF f
  <2>2. f.files[f.file] = at[item.path] /\ f.files[f.file] \in Ids
    <3>1. f.file \in Holds(f)
      BY <1>2 DEF Holds
    <3>2. f.files[f.file] \in Ids
      BY <1>2 DEF TypeOK
    <3> QED BY <1>1, <3>1, <3>2 DEF Gives
  <2>3. got.handle = New(f.files) /\ FilesOK(f.files)
    BY <1>1, <2>1 DEF OpenedHandle, Gives
  <2>4. got.handle # NoFile
    BY <1>2, <2>2, <2>3, NewFile
  <2> QED BY <1>1, <1>2, <2>1, <2>2, <2>4, HandleGiven
<1>3. CASE ~(f.file # NoFile /\ f.files[f.file] \in permitted /\ Free(f.files) # {})
  <2>1. got = Nothing(files)
    BY <1>3 DEF OpenedOther
  <2> QED BY <2>1, NothingGiven DEF Nothing
<1> QED BY <1>2, <1>3
LEMMA OpenedGiven ==
  ASSUME TypeOK, NEW item, item.path \in Paths, item.isCurrent <=> item.id = Self,
         NEW files, FilesOK(files), NEW got \in Opened(item, files)
  PROVE  /\ Gives(got, files, at[item.path], item.id)
         /\ got.handle = NoFile => got.file = NoFile
<1>1. \/ got = OpenedCurrent(item, files) /\ item.isCurrent
      \/ got = OpenedOther(item, files)
      \/ got = Nothing(files)
      \/ got = OpenedHandle(Self, Nothing(files)) /\ item.isCurrent /\ Free(files) # {}
  BY DEF Opened, Failed
<1>2. CASE got = OpenedCurrent(item, files) /\ item.isCurrent
  BY <1>2, CurrentGiven
<1>3. CASE got = OpenedOther(item, files)
  <2>1. Gives(got, files, at[item.path], at[item.path])
    BY <1>3, OtherGiven
  <2>2. got.handle = NoFile => got.file = NoFile
    BY <1>3, OtherGiven
  <2> QED BY <2>1, <2>2 DEF Gives
<1>4. CASE got = Nothing(files)
  BY <1>4, NothingGiven DEF Nothing
<1>5. CASE /\ got = OpenedHandle(Self, Nothing(files))
           /\ item.isCurrent /\ Free(files) # {}
  <2>1. Gives(Nothing(files), files, at[item.path], Self) /\ Nothing(files).handle = NoFile
        /\ Nothing(files).files = files
    BY NothingGiven DEF Nothing
  <2>2. Gives(got, files, at[item.path], Self)
    BY <1>5, <2>1, HandleGiven, IdsAssumption
  <2>3. got.file = NoFile
    BY <1>5 DEF OpenedHandle, Nothing
  <2> QED BY <1>5, <2>2, <2>3
<1> QED BY <1>1, <1>2, <1>3, <1>4, <1>5

-----------------------------------------------------------------------------
(* Owners, as a relation between the states in use and open descriptors.   *)
OwnersOK(live, files) ==
  /\ DOMAIN files = UNION {Holds(live[n]) : n \in DOMAIN live}
  /\ \A m, n \in DOMAIN live : m # n => Holds(live[m]) \cap Holds(live[n]) = {}
  /\ \A n \in DOMAIN live :
       /\ live[n].handle = NoFile => live[n].file = NoFile
       /\ live[n].handle # NoFile => live[n].handle # live[n].file
HomeOK(live, files, excused) ==
  \A n \in DOMAIN live : \A f \in Holds(live[n]) : files[f] = n \/ n \in excused

(* A state is replaced: what it held was closed before, what was opened is *)
(* its successor's.                                                        *)
LEMMA Replaced ==
  ASSUME NEW live, NEW files, OwnersOK(live, files), NEW id,
         NEW less, NEW a, NEW got, Gives(got, less, a, id),
         DOMAIN less = UNION {Holds(live[n]) : n \in DOMAIN live \ {id}},
         got.handle = NoFile => got.file = NoFile,
         NEW live2, DOMAIN live2 = DOMAIN live \cup {id},
         \A n \in DOMAIN live \ {id} : live2[n] = live[n],
         live2[id].handle = got.handle, live2[id].file = got.file
  PROVE  OwnersOK(live2, got.files)
<1>1. Holds(live2[id]) = Holds(got)
  BY DEF Holds
<1>2. DOMAIN got.files = DOMAIN less \cup Holds(got) /\ Holds(got) \cap DOMAIN less = {}
      /\ (got.handle # NoFile => got.handle # got.file)
  BY DEF Gives
<1>3. \A n \in DOMAIN live2 \ {id} : n \in DOMAIN live /\ Holds(live2[n]) = Holds(live[n])
  BY DEF Holds
<1>4. DOMAIN got.files = UNION {Holds(live2[n]) : n \in DOMAIN live2}
  BY <1>1, <1>2, <1>3
<1>5. \A n \in DOMAIN live2 \ {id} : Holds(live2[n]) \subseteq DOMAIN less
  BY <1>3
<1>6. \A m, n \in DOMAIN live2 : m # n => Holds(live2[m]) \cap Holds(live2[n]) = {}
  <2> SUFFICES ASSUME NEW m \in DOMAIN live2, NEW n \in DOMAIN live2, m # n
               PROVE  Holds(live2[m]) \cap Holds(live2[n]) = {}
    OBVIOUS
  <2>1. CASE m = id
    BY <2>1, <1>1, <1>2, <1>5
  <2>2. CASE n = id
    BY <2>2, <1>1, <1>2, <1>5
  <2>3. CASE m # id /\ n # id
    BY <2>3, <1>3 DEF OwnersOK
  <2> QED BY <2>1, <2>2, <2>3
<1>7. \A n \in DOMAIN live2 :
        /\ live2[n].handle = NoFile => live2[n].file = NoFile
        /\ live2[n].handle # NoFile => live2[n].handle # live2[n].file
  <2> SUFFICES ASSUME NEW n \in DOMAIN live2
               PROVE  /\ live2[n].handle = NoFile => live2[n].file = NoFile
                      /\ live2[n].handle # NoFile => live2[n].handle # live2[n].file
    OBVIOUS
  <2>1. CASE n = id
    BY <2>1, <1>2
  <2>2. CASE n # id
    BY <2>2, <1>3 DEF OwnersOK
  <2> QED BY <2>1, <2>2
<1> QED BY <1>4, <1>6, <1>7 DEF OwnersOK

-----------------------------------------------------------------------------
(* One item of a sync.                                                     *)
LEMMA Owned ==
  /\ DescriptorsHaveOneOwner <=> OwnersOK(Live, opened)
  /\ HandlesLeadHome <=> HomeOK(Live, opened, strayed)
BY DEF DescriptorsHaveOneOwner, OwnersOK, HandlesLeadHome, HomeOK

LEMMA OwnedNext ==
  /\ DescriptorsHaveOneOwner' <=> OwnersOK(Live', opened')
  /\ HandlesLeadHome' <=> HomeOK(Live', opened', strayed')
BY DEF DescriptorsHaveOneOwner, OwnersOK, HandlesLeadHome, HomeOK

LEMMA ItemTypes ==
  ASSUME IInv, NEW item \in todo
  PROVE  /\ TypeOK /\ item \in Items /\ item.id \in Ids /\ item.path \in Paths
         /\ item.isRoot \in BOOLEAN /\ item.isCurrent \in BOOLEAN
         /\ item.isCurrent <=> item.id = Self
         /\ item.id \notin DOMAIN next /\ by # "none"
         /\ at[item.path] = item.id \/ item.id \in astray
BY DEF IInv, TypeOK, Items, ItemsOK

LEMMA Entered ==
  ASSUME IInv, NEW item, Proceed(item), NEW st \in States,
         st.err <=> st.handle = NoFile, next' = With(next, item.id, st),
         FilesOK(opened'), strayed' \subseteq strayed \cup {item.id}
  PROVE  /\ TypeOK' /\ FixedPaths' /\ ItemsOK'
         /\ Truthful(inventory') /\ Truthful(next') /\ ErrorsAreShown'
         /\ DOMAIN Live' = DOMAIN Live \cup {item.id} /\ Live'[item.id] = st
         /\ \A n \in DOMAIN Live \ {item.id} : Live'[n] = Live[n]
<1>1. /\ item \in todo /\ todo' = todo \ {item} /\ astray' = astray \ {item.id}
      /\ UNCHANGED <<world, inventory, listed, by, dirty, asked>>
  BY DEF Proceed
<1>2. /\ TypeOK /\ item.id \in Ids /\ item.id \notin DOMAIN next /\ by # "none"
  BY <1>1, ItemTypes
<1>3. /\ DOMAIN next' = DOMAIN next \cup {item.id} /\ next'[item.id] = st
      /\ \A n \in DOMAIN next : next'[n] = next[n]
  BY <1>2 DEF With
<1>4. next' \in [DOMAIN next' -> States]
  BY <1>2 DEF With, TypeOK
<1>5. TypeOK'
  BY <1>1, <1>2, <1>3, <1>4 DEF TypeOK, FilesOK, world
<1>6. FixedPaths'
  BY <1>1 DEF IInv, FixedPaths, world
<1>7. ItemsOK'
  <2>1. \A i \in todo' : i \in todo /\ i.id # item.id
    BY <1>1 DEF IInv, ItemsOK
  <2>2. \A i \in todo' :
          /\ i.id \notin DOMAIN next'
          /\ i.isCurrent <=> i.id = Self
          /\ at'[i.path] = i.id \/ i.id \in astray'
    BY <1>1, <1>3, <2>1 DEF IInv, ItemsOK, world
  <2>3. \A i, j \in todo' : i.id = j.id => i = j
    BY <1>1 DEF IInv, ItemsOK
  <2> QED BY <1>1, <1>2, <2>2, <2>3 DEF ItemsOK
<1>8. Truthful(inventory') /\ ErrorsAreShown'
  BY <1>1 DEF IInv, ErrorsAreShown
<1>9. Truthful(next')
  BY <1>3 DEF IInv, Truthful
<1>10. /\ DOMAIN Live' = DOMAIN Live \cup {item.id} /\ Live'[item.id] = st
       /\ \A n \in DOMAIN Live \ {item.id} : Live'[n] = Live[n]
  BY <1>1, <1>3 DEF Live
<1> QED BY <1>5, <1>6, <1>7, <1>8, <1>9, <1>10

LEMMA KeepStep == ASSUME IInv, NEW item, Keep(item) PROVE IInv'
<1> DEFINE old == inventory[item.id]
           st == State(item, old, FALSE)
<1>1. Proceed(item) /\ item \in todo
  BY DEF Keep, Proceed
<1>2. /\ TypeOK /\ item.path \in Paths /\ item.isRoot \in BOOLEAN
      /\ item.isCurrent \in BOOLEAN /\ item.id \notin DOMAIN next
  BY <1>1, ItemTypes
<1>3. item.id \in DOMAIN inventory /\ old \in States /\ old.handle # NoFile
  BY <1>2 DEF Keep, Reusable, Known, NeedsNoHandle, TypeOK
<1>4. st \in States /\ st.err = FALSE /\ st.handle = old.handle /\ st.file = old.file
  BY <1>2, <1>3 DEF State, States
<1>5. next' = With(next, item.id, st) /\ opened' = opened /\ strayed' = strayed
  BY DEF Keep
<1>6. Live[item.id] = old /\ item.id \in DOMAIN Live
  BY <1>2, <1>3 DEF Live
<1> HIDE DEF old, st
<1>7. FilesOK(opened')
  BY <1>2, <1>5 DEF TypeOK, FilesOK
<1>8. /\ TypeOK' /\ FixedPaths' /\ ItemsOK'
      /\ Truthful(inventory') /\ Truthful(next') /\ ErrorsAreShown'
      /\ DOMAIN Live' = DOMAIN Live \cup {item.id} /\ Live'[item.id] = st
      /\ \A n \in DOMAIN Live \ {item.id} : Live'[n] = Live[n]
  BY <1>1, <1>3, <1>4, <1>5, <1>7, Entered
<1>9. /\ DOMAIN Live' = DOMAIN Live
      /\ \A n \in DOMAIN Live : Live'[n].handle = Live[n].handle /\ Live'[n].file = Live[n].file
  BY <1>4, <1>6, <1>8
<1>10. \A n \in DOMAIN Live : Holds(Live'[n]) = Holds(Live[n])
  BY <1>9 DEF Holds
<1>11. OwnersOK(Live, opened) /\ HomeOK(Live, opened, strayed)
  BY Owned DEF IInv
<1>12. OwnersOK(Live', opened') /\ HomeOK(Live', opened', strayed')
  BY <1>5, <1>9, <1>10, <1>11 DEF OwnersOK, HomeOK
<1> QED BY <1>8, <1>12, OwnedNext DEF IInv

(* An attempt with the descriptors `less' of the other states open.        *)
LEMMA AttemptStep ==
  ASSUME IInv, NEW item, Proceed(item), NEW less, FilesOK(less),
         DOMAIN less = UNION {Holds(Live[n]) : n \in DOMAIN Live \ {item.id}},
         \A f \in DOMAIN less : less[f] = opened[f],
         NEW got \in Opened(item, less),
         next' = With(next, item.id, State(item, got, got.handle = NoFile)),
         opened' = got.files,
         strayed' = Strayed(item)
  PROVE  IInv'
<1> DEFINE st == State(item, got, got.handle = NoFile)
<1>1. item \in todo
  BY DEF Proceed
<1>2. /\ TypeOK /\ item.path \in Paths /\ item.isRoot \in BOOLEAN
      /\ item.isCurrent \in BOOLEAN /\ (item.isCurrent <=> item.id = Self)
      /\ at[item.path] = item.id \/ item.id \in astray
  BY <1>1, ItemTypes
<1>3. Gives(got, less, at[item.path], item.id) /\ (got.handle = NoFile => got.file = NoFile)
  BY <1>2, OpenedGiven
<1>4. /\ st \in States /\ (st.err <=> st.handle = NoFile)
      /\ st.handle = got.handle /\ st.file = got.file
  BY <1>2, <1>3 DEF State, States, Gives
<1>5. FilesOK(opened')
  BY <1>3 DEF Gives
<1>6. /\ strayed' \subseteq strayed \cup {item.id}
      /\ \A n \in strayed : n # item.id => n \in strayed'
  BY DEF Strayed
<1>7. at[item.path] = item.id \/ item.id \in strayed'
  BY <1>2 DEF Strayed
<1>8. OwnersOK(Live, opened) /\ HomeOK(Live, opened, strayed)
  BY Owned DEF IInv
<1> HIDE DEF st
<1>9. next' = With(next, item.id, st)
  BY DEF st
<1>10. /\ TypeOK' /\ FixedPaths' /\ ItemsOK'
       /\ Truthful(inventory') /\ Truthful(next') /\ ErrorsAreShown'
       /\ DOMAIN Live' = DOMAIN Live \cup {item.id} /\ Live'[item.id] = st
       /\ \A n \in DOMAIN Live \ {item.id} : Live'[n] = Live[n]
  BY <1>4, <1>5, <1>6, <1>9, Entered
<1>11. OwnersOK(Live', opened')
  BY <1>3, <1>4, <1>8, <1>10, Replaced
<1>12. HomeOK(Live', opened', strayed')
  <2> SUFFICES ASSUME NEW n \in DOMAIN Live', NEW f \in Holds(Live'[n])
               PROVE  opened'[f] = n \/ n \in strayed'
    BY DEF HomeOK
  <2>1. CASE n = item.id
    <3>1. f \in Holds(got)
      BY <1>4, <1>10, <2>1 DEF Holds
    <3> QED BY <1>3, <1>7, <2>1, <3>1 DEF Gives
  <2>2. CASE n # item.id
    <3>1. n \in DOMAIN Live /\ f \in Holds(Live[n])
      BY <1>10, <2>2 DEF Holds
    <3>2. f \in DOMAIN less
      BY <2>2, <3>1
    <3>3. opened'[f] = opened[f]
      BY <1>3, <3>2 DEF Gives
    <3>4. opened[f] = n \/ n \in strayed
      BY <1>8, <3>1 DEF HomeOK
    <3> QED BY <1>6, <2>2, <3>3, <3>4
  <2> QED BY <2>1, <2>2
<1> QED BY <1>10, <1>11, <1>12, OwnedNext DEF IInv
LEMMA RetryStep == ASSUME IInv, NEW item, Retry(item) PROVE IInv'
<1>1. Proceed(item) /\ item \in todo /\ inventory[item.id].handle = NoFile
      /\ item.id \in DOMAIN inventory
  BY DEF Retry, Proceed, NeedsNoHandle, Reusable, Known
<1>2. TypeOK /\ item.id \notin DOMAIN next
  BY <1>1, ItemTypes
<1>3. OwnersOK(Live, opened)
  BY Owned DEF IInv
<1>4. item.id \in DOMAIN Live /\ Live[item.id] = inventory[item.id]
  BY <1>1, <1>2 DEF Live
<1>5. Holds(Live[item.id]) = {}
  BY <1>1, <1>3, <1>4 DEF OwnersOK, Holds
<1>6. DOMAIN opened = UNION {Holds(Live[n]) : n \in DOMAIN Live \ {item.id}}
  BY <1>3, <1>5 DEF OwnersOK
<1>7. FilesOK(opened)
  BY <1>2 DEF TypeOK, FilesOK
<1>8. PICK got \in Opened(item, opened) :
        /\ next' = With(next, item.id, State(item, got, got.handle = NoFile))
        /\ opened' = got.files
  BY DEF Retry, Reused
<1>9. strayed' = Strayed(item)
  BY DEF Retry
<1> QED BY <1>1, <1>6, <1>7, <1>8, <1>9, AttemptStep

(* The state an item replaces is closed first, if there is one.            *)
LEMMA ReleasedIs ==
  ASSUME IInv, NEW item \in todo
  PROVE  /\ FilesOK(Released(item))
         /\ DOMAIN Released(item) = UNION {Holds(Live[n]) : n \in DOMAIN Live \ {item.id}}
         /\ \A f \in DOMAIN Released(item) : Released(item)[f] = opened[f]
<1>1. TypeOK /\ item.id \notin DOMAIN next
  BY ItemTypes
<1>2. OwnersOK(Live, opened)
  BY Owned DEF IInv
<1>3. FilesOK(opened)
  BY <1>1 DEF TypeOK, FilesOK
<1>4. CASE item.id \in DOMAIN inventory
  <2>1. Released(item) = Without(opened, Holds(Live[item.id])) /\ item.id \in DOMAIN Live
    BY <1>1, <1>4 DEF Released, Known, Live
  <2>2. /\ DOMAIN Released(item) = DOMAIN opened \ Holds(Live[item.id])
        /\ \A f \in DOMAIN Released(item) : Released(item)[f] = opened[f]
        /\ FilesOK(Released(item))
    BY <2>1, <1>3 DEF Without, FilesOK
  <2>3. DOMAIN opened \ Holds(Live[item.id])
          = UNION {Holds(Live[n]) : n \in DOMAIN Live \ {item.id}}
    <3>1. \A n \in DOMAIN Live \ {item.id} : Holds(Live[n]) \cap Holds(Live[item.id]) = {}
      BY <1>2, <2>1 DEF OwnersOK
    <3>2. DOMAIN opened = UNION {Holds(Live[n]) : n \in DOMAIN Live}
      BY <1>2 DEF OwnersOK
    <3> QED BY <2>1, <3>1, <3>2
  <2> QED BY <2>2, <2>3
<1>5. CASE item.id \notin DOMAIN inventory
  <2>1. Released(item) = opened /\ item.id \notin DOMAIN Live
    BY <1>1, <1>5 DEF Released, Known, Live
  <2> QED BY <1>2, <1>3, <2>1 DEF OwnersOK
<1> QED BY <1>4, <1>5

LEMMA OpenStep == ASSUME IInv, NEW item, Open(item) PROVE IInv'
<1>1. Proceed(item) /\ item \in todo
  BY DEF Open, Proceed
<1>2. PICK got \in Opened(item, Released(item)) :
        /\ next' = With(next, item.id, State(item, got, got.handle = NoFile))
        /\ opened' = got.files
  BY DEF Open
<1>3. strayed' = Strayed(item)
  BY DEF Open
<1> QED BY <1>1, <1>2, <1>3, ReleasedIs, AttemptStep

-----------------------------------------------------------------------------
LEMMA BeginSyncStep == ASSUME IInv, Sync PROVE IInv'
<1>1. PICK e \in {"sync", "scheduled", "fetch"} : BeginSync(e)
  BY DEF Sync
<1>2. /\ by' \in {"scheduled", "other"} /\ by = "none"
      /\ astray' = {n \in Found : at[PathOf(n)] # n}
      /\ todo' = {Item(n) : n \in Found} /\ dirty' \in {{}, dirty}
      /\ UNCHANGED <<world, inventory, listed, next, opened, asked, strayed>>
  BY <1>1 DEF BeginSync
<1>3. TypeOK /\ FixedPaths /\ DOMAIN next = {}
  BY <1>2 DEF IInv, ItemsOK
<1>4. \A n \in Found : /\ Item(n) \in Items /\ Item(n).id = n
                       /\ Item(n).path = PathOf(n)
                       /\ Item(n).isCurrent <=> n = Self
  BY <1>3, FoundPath DEF Item, Items
<1>5. TypeOK'
  <2>1. todo' \subseteq Items
    BY <1>2, <1>4
  <2>2. \A n \in astray' : Item(n) \in todo' /\ Item(n).id = n
    BY <1>2, <1>4
  <2>3. astray' \subseteq {item.id : item \in todo'}
    BY <2>2
  <2> QED BY <1>2, <1>3, <2>1, <2>3 DEF TypeOK, world
<1>6. ItemsOK'
  <2>1. \A i \in todo' : /\ i.isCurrent <=> i.id = Self
                         /\ at[i.path] = i.id \/ i.id \in astray'
                         /\ i = Item(i.id)
    BY <1>2, <1>4
  <2> QED BY <1>2, <1>3, <2>1 DEF ItemsOK, world
<1>7. FixedPaths' /\ Truthful(inventory') /\ Truthful(next') /\ ErrorsAreShown'
  BY <1>2 DEF IInv, FixedPaths, ErrorsAreShown, world
<1>8. Live' = Live
  BY <1>2 DEF Live
<1>9. DescriptorsHaveOneOwner' /\ HandlesLeadHome'
  BY <1>2, <1>8, Owned, OwnedNext DEF IInv
<1> QED BY <1>5, <1>6, <1>7, <1>9 DEF IInv

(* The sync's states replace the inventory, and what only the inventory    *)
(* held is closed.                                                         *)
LEMMA FinishSyncStep == ASSUME IInv, FinishSync PROVE IInv'
<1>1. /\ todo = {} /\ todo' = todo /\ by' = "none" /\ inventory' = next /\ next' = Empty
      /\ listed' = [n \in DOMAIN next |-> [path |-> next[n].path, err |-> next[n].err]]
      /\ opened' = ClosedRemoved /\ strayed' = strayed \cap DOMAIN next
      /\ UNCHANGED <<world, astray>>
  BY DEF FinishSync
<1>2. TypeOK /\ FixedPaths /\ Truthful(next)
  BY DEF IInv
<1>3. DOMAIN next' = {} /\ next' \in [DOMAIN next' -> States]
  BY <1>1 DEF Empty
<1>4. dirty' \subseteq Ids /\ asked' \subseteq Ids
  BY <1>2 DEF FinishSync, RunDue, TypeOK
<1>5. /\ DOMAIN Live' = DOMAIN next /\ \A n \in DOMAIN next : Live'[n] = next[n]
  BY <1>1, <1>3 DEF Live
<1>6. /\ DOMAIN Live = DOMAIN inventory \cup DOMAIN next
      /\ \A n \in DOMAIN next : Live[n] = next[n]
      /\ \A n \in DOMAIN inventory \ DOMAIN next : Live[n] = inventory[n]
  BY DEF Live
<1> DEFINE removed == UNION {Holds(inventory[n]) : n \in DOMAIN inventory \ DOMAIN next}
<1>7. /\ DOMAIN opened' = DOMAIN opened \ removed
      /\ \A f \in DOMAIN opened' : opened'[f] = opened[f]
      /\ FilesOK(opened')
  BY <1>1, <1>2 DEF ClosedRemoved, Without, TypeOK, FilesOK
<1>8. OwnersOK(Live, opened) /\ HomeOK(Live, opened, strayed)
  BY Owned DEF IInv
<1>9. DOMAIN opened' = UNION {Holds(next[n]) : n \in DOMAIN next}
  <2>1. \A m \in DOMAIN next, n \in DOMAIN inventory \ DOMAIN next :
          Holds(next[m]) \cap Holds(inventory[n]) = {}
    BY <1>6, <1>8 DEF OwnersOK
  <2>2. DOMAIN opened = UNION {Holds(Live[n]) : n \in DOMAIN Live}
    BY <1>8 DEF OwnersOK
  <2>3. ASSUME NEW f \in DOMAIN opened'
        PROVE  \E n \in DOMAIN next : f \in Holds(next[n])
    <3>1. PICK n \in DOMAIN Live : f \in Holds(Live[n])
      BY <1>7, <2>2
    <3>2. n \in DOMAIN next
      BY <1>6, <1>7, <3>1
    <3> QED BY <1>6, <3>1, <3>2
  <2>4. ASSUME NEW n \in DOMAIN next, NEW f \in Holds(next[n])
        PROVE  f \in DOMAIN opened'
    <3>1. f \in DOMAIN opened
      BY <1>6, <2>2
    <3>2. f \notin removed
      BY <2>1
    <3> QED BY <1>7, <3>1, <3>2
  <2> QED BY <2>3, <2>4
<1>10. OwnersOK(Live', opened')
  BY <1>5, <1>6, <1>8, <1>9 DEF OwnersOK
<1>11. HomeOK(Live', opened', strayed')
  <2> SUFFICES ASSUME NEW n \in DOMAIN next, NEW f \in Holds(next[n])
               PROVE  opened'[f] = n \/ n \in strayed'
    BY <1>5 DEF HomeOK
  <2>1. opened'[f] = opened[f]
    BY <1>7, <1>9
  <2> QED BY <1>1, <1>6, <1>8, <2>1 DEF HomeOK
<1>12. TypeOK'
  <2>1. listed' \in [DOMAIN inventory' -> [path : Paths, err : BOOLEAN]]
    BY <1>1, <1>2 DEF TypeOK, States
  <2> QED BY <1>1, <1>2, <1>3, <1>4, <1>7, <2>1 DEF TypeOK, FilesOK, world
<1>13. FixedPaths' /\ ItemsOK'
  BY <1>1, <1>2, <1>3 DEF FixedPaths, ItemsOK, world
<1>14. Truthful(inventory') /\ Truthful(next')
  BY <1>1, <1>2, <1>3 DEF Truthful
<1>15. ErrorsAreShown'
  BY <1>1, <1>2 DEF ErrorsAreShown, Truthful
<1> QED BY <1>10, <1>11, <1>12, <1>13, <1>14, <1>15, OwnedNext DEF IInv

-----------------------------------------------------------------------------
LEMMA ReloadStep ==
  ASSUME IInv, dirty' \subseteq Ids, asked' \subseteq Ids,
         UNCHANGED <<world, inventory, listed, next, todo, by, opened, history>>
  PROVE  IInv'
<1>1. TypeOK'
  BY DEF IInv, TypeOK, world, history
<1>2. FixedPaths' /\ ItemsOK' /\ Truthful(inventory') /\ Truthful(next') /\ ErrorsAreShown'
  BY DEF IInv, FixedPaths, ItemsOK, ErrorsAreShown, world, history
<1>3. Live' = Live
  BY DEF Live
<1>4. DescriptorsHaveOneOwner' /\ HandlesLeadHome'
  BY <1>3, Owned, OwnedNext DEF IInv, history
<1> QED BY <1>1, <1>2, <1>4 DEF IInv

LEMMA EventStep == ASSUME IInv, (\E n \in Ids : ReloadEvent(n)) \/ FadeTick PROVE IInv'
<1>1. /\ dirty' \subseteq Ids /\ asked' \subseteq Ids
      /\ UNCHANGED <<world, inventory, listed, next, todo, by, opened, history>>
  BY DEF ReloadEvent, FadeTick, RunDue, IInv, TypeOK
<1> QED BY <1>1, ReloadStep

(* A path that changes leads its pending item astray.                      *)
LEMMA WorldStep ==
  ASSUME IInv, NEW p \in Others, NEW n \in Ids \cup {None},
         at' = [at EXCEPT ![p] = n], Astray(p),
         mounts' \in [DOMAIN MountPaths -> Ids \cup {None}],
         UNCHANGED <<permitted, calm, inventory, listed, next, todo, by, dirty, opened, asked,
                     strayed>>
  PROVE  IInv'
<1>1. astray' = astray \cup {item.id : item \in {i \in todo : i.path = p}}
  BY DEF Astray
<1>2. p \in Paths /\ p # RootPath /\ p # SelfPath
  BY PathsAssumption DEF Paths
<1>3. at' \in [Paths -> Ids \cup {None}] /\ \A q \in Paths : q # p => at'[q] = at[q]
  BY <1>2 DEF IInv, TypeOK
<1>4. astray' \subseteq {item.id : item \in todo'}
  BY <1>1 DEF IInv, TypeOK
<1>5. TypeOK'
  BY <1>3, <1>4 DEF IInv, TypeOK
<1>6. FixedPaths'
  BY <1>2, <1>3 DEF IInv, FixedPaths, Paths
<1>7. ItemsOK'
  <2>1. \A i \in todo : at'[i.path] = i.id \/ i.id \in astray'
    <3> SUFFICES ASSUME NEW i \in todo PROVE at'[i.path] = i.id \/ i.id \in astray'
      OBVIOUS
    <3>1. i.path \in Paths /\ (at[i.path] = i.id \/ i.id \in astray)
      BY ItemTypes
    <3> QED BY <1>1, <1>3, <3>1
  <2> QED BY <2>1 DEF IInv, ItemsOK
<1>8. Truthful(inventory') /\ Truthful(next') /\ ErrorsAreShown'
  BY DEF IInv, ErrorsAreShown
<1>9. Live' = Live
  BY DEF Live
<1>10. DescriptorsHaveOneOwner' /\ HandlesLeadHome'
  BY <1>9, Owned, OwnedNext DEF IInv
<1> QED BY <1>5, <1>6, <1>7, <1>8, <1>10 DEF IInv

LEMMA RetargetStep ==
  ASSUME IInv, NEW i \in DOMAIN ProcPaths, NEW n \in Ids \cup {None}, Retarget(i, n)
  PROVE  IInv'
<1>1. ProcPaths[i] \in Others
  BY DEF Others
<1>2. mounts' \in [DOMAIN MountPaths -> Ids \cup {None}]
  BY DEF Retarget, IInv, TypeOK
<1> QED BY <1>1, <1>2, WorldStep DEF Retarget

LEMMA RemountStep ==
  ASSUME IInv, NEW i \in DOMAIN MountPaths, NEW n \in Ids \cup {None},
         NEW seen \in Ids \cup {None}, Remount(i, n, seen)
  PROVE  IInv'
<1>1. MountPaths[i] \in Others
  BY DEF Others
<1>2. mounts' \in [DOMAIN MountPaths -> Ids \cup {None}]
  BY DEF Remount, IInv, TypeOK
<1> QED BY <1>1, <1>2, WorldStep DEF Remount

LEMMA SettleStep == ASSUME IInv, Settle \/ UNCHANGED vars PROVE IInv'
<1>1. /\ calm' \in BOOLEAN
      /\ UNCHANGED <<at, mounts, permitted, inventory, listed, next, todo, by, dirty, opened,
                      asked, history>>
  BY DEF Settle, vars, IInv, TypeOK
<1>2. TypeOK'
  BY <1>1 DEF IInv, TypeOK, history
<1>3. FixedPaths' /\ ItemsOK' /\ Truthful(inventory') /\ Truthful(next') /\ ErrorsAreShown'
  BY <1>1 DEF IInv, FixedPaths, ItemsOK, ErrorsAreShown, history
<1>4. Live' = Live
  BY <1>1 DEF Live
<1>5. DescriptorsHaveOneOwner' /\ HandlesLeadHome'
  BY <1>1, <1>4, Owned, OwnedNext DEF IInv, history
<1> QED BY <1>2, <1>3, <1>5 DEF IInv

-----------------------------------------------------------------------------
LEMMA InitOK == Init => IInv
<1> SUFFICES ASSUME Init PROVE IInv
  OBVIOUS
<1>1. /\ DOMAIN inventory = {} /\ DOMAIN next = {} /\ DOMAIN listed = {}
      /\ DOMAIN opened = {} /\ DOMAIN Live = {}
  BY DEF Init, Empty, Live
<1>2. /\ inventory \in [{} -> States] /\ next \in [{} -> States]
      /\ listed \in [{} -> [path : Paths, err : BOOLEAN]] /\ opened \in [{} -> Ids]
  BY DEF Init, Empty
<1>3. permitted \subseteq Ids
  BY IdsAssumption DEF Init
<1>4. TypeOK
  BY <1>1, <1>2, <1>3 DEF Init, TypeOK
<1>5. FixedPaths /\ ItemsOK /\ Truthful(inventory) /\ Truthful(next) /\ ErrorsAreShown
  BY <1>1 DEF Init, FixedPaths, ItemsOK, Truthful, ErrorsAreShown
<1>6. DescriptorsHaveOneOwner /\ HandlesLeadHome
  BY <1>1 DEF DescriptorsHaveOneOwner, HandlesLeadHome
<1> QED BY <1>4, <1>5, <1>6 DEF IInv

LEMMA StepOK == IInv /\ [Next]_vars => IInv'
<1> SUFFICES ASSUME IInv, [Next]_vars PROVE IInv'
  OBVIOUS
<1>1. CASE Sync
  BY <1>1, BeginSyncStep
<1>2. CASE Step
  BY <1>2, KeepStep, RetryStep, OpenStep DEF Step
<1>3. CASE FinishSync
  BY <1>3, FinishSyncStep
<1>4. CASE (\E n \in Ids : ReloadEvent(n)) \/ FadeTick
  BY <1>4, EventStep
<1>5. CASE \E i \in DOMAIN ProcPaths, n \in Ids \cup {None} : Retarget(i, n)
  BY <1>5, RetargetStep
<1>6. CASE \E i \in DOMAIN MountPaths, n, seen \in Ids \cup {None} : Remount(i, n, seen)
  BY <1>6, RemountStep
<1>7. CASE Settle \/ UNCHANGED vars
  BY <1>7, SettleStep
<1> QED BY <1>1, <1>2, <1>3, <1>4, <1>5, <1>6, <1>7 DEF Next

LEMMA Inductive == Spec => []IInv
BY InitOK, StepOK, PTL DEF Spec

-----------------------------------------------------------------------------
(* Whatever is found, reused, opened and closed, a state is kept under a   *)
(* path that was found and holds only descriptors the process may have,    *)
(* and the views list what the inventory has (syncNamespacesWithProcScan). *)
THEOREM NamespaceTypes == Spec => []TypeOK
<1>1. IInv => TypeOK
  BY DEF IInv
<1> QED BY <1>1, Inductive, PTL

(* No descriptor leaks, none is closed twice and none is used after it was *)
(* closed, whichever calls fail on the way (newNamespaceHandle,            *)
(* reuseNamespaceState, openNamespaceState, closeRemovedNamespaceStates).  *)
THEOREM NoDescriptorLeaks == Spec => []DescriptorsHaveOneOwner
<1>1. IInv => DescriptorsHaveOneOwner
  BY DEF IInv
<1> QED BY <1>1, Inductive, PTL

(* A handle leads to the namespace it is kept for, unless that namespace   *)
(* was last opened by a path that did not lead to it when mountinfo named  *)
(* it, because another mount hides the one listed, or that changed before  *)
(* it was opened (discoverNamespaces, openNamespaceState).                 *)
THEOREM OnlyStrayPathsMislead == Spec => []HandlesLeadHome
<1>1. IInv => HandlesLeadHome
  BY DEF IInv
<1> QED BY <1>1, Inductive, PTL

(* The list the views show has an error for exactly the namespaces that    *)
(* have no handle (syncNamespacesWithProcScan).                            *)
THEOREM ErrorsReachTheViews == Spec => []ErrorsAreShown
<1>1. IInv => ErrorsAreShown
  BY DEF IInv
<1> QED BY <1>1, Inductive, PTL
=============================================================================
