---------------------------- MODULE RecordsProofs ----------------------------
(***************************************************************************)
(* For every set of namespaces, keys and contents, every fade duration and *)
(* every lag: the invariants of Records, and the two action properties     *)
(* about highlights.  The inductive invariant is the three state           *)
(* invariants and a bound that ties the age of a record, which starts at   *)
(* the lag of the event that changed it, to the time that really passed.   *)
(***************************************************************************)
EXTENDS Records, TLAPS

AgeBound == \A k \in Keys : meta[k].age <= since[k] + MaxLag

IInv == TypeOK /\ RowsMetaAgree /\ LiveRowsAreLastDump /\ AgeBound

(* The stored form of the metadata of one key, without the map around it.  *)
MetaType == [state : States, age : 0..AgeCap, fp : Fingerprints]

(* What the invariant says of one key.                                     *)
KeyInv(m, row, lst, snc) ==
  /\ m \in MetaType /\ row \in Contents /\ lst \in Contents /\ snc \in 0..AgeCap
  /\ row = NoRow <=> m.state = "absent"
  /\ m.fp = FingerprintOf(row)
  /\ IF m.state \in {"absent", "removed"} THEN lst = NoRow ELSE lst = row
  /\ m.age <= snc + MaxLag

(* The history of how long a key has been in its state, as Update sets it. *)
SinceAfter(m, m2, snc) ==
  IF m2.state = "absent" THEN AgeCap
  ELSE IF m2.state \in Fading /\ m2 # m THEN 0
  ELSE snc

(* A dump entry of a key makes exactly the metadata the highlight rule     *)
(* asks for, and keeps what the invariant says of the key, before Advance. *)
LEMMA ReconcileKey ==
  ASSUME NEW m, NEW row, NEW lst, NEW snc, NEW v \in Contents,
         NEW lag \in 0..MaxLag, KeyInv(m, row, lst, snc)
  PROVE  LET m1 == ReconciledMeta(m, row, v, lag)
             r1 == ReconciledRow(row, v)
         IN  /\ m1 \in MetaType /\ r1 \in Contents
             /\ r1 = NoRow <=> m1.state = "absent"
             /\ m1.fp = FingerprintOf(r1)
             /\ IF m1.state \in {"absent", "removed"} THEN v = NoRow ELSE v = r1
             /\ m1 = m \/ (m1.age = lag /\ m1.state \in Fading)
<1> DEFINE m1 == ReconciledMeta(m, row, v, lag)
           r1 == ReconciledRow(row, v)
<1>0. /\ FingerprintOf(v) \in Fingerprints
      /\ lag \in 0..AgeCap
      /\ m.fp = FingerprintOf(row)
      /\ v # NoRow => v \in Values
  BY FadeAssumption, LagAssumption DEF Fingerprints, AgeCap, Contents, KeyInv
<1>1. CASE v # NoRow /\ m.state \in {"absent", "removed"}
  <2>1. m1 = [state |-> "added", age |-> lag, fp |-> FingerprintOf(v)] /\ r1 = v
    BY <1>1 DEF ReconciledMeta, ReconciledRow, Meta
  <2> QED BY <1>0, <1>1, <2>1 DEF MetaType, States, Fading
<1>2. CASE v # NoRow /\ m.state \notin {"absent", "removed"} /\ m.fp # FingerprintOf(v)
  <2>1. m1 = [state |-> "updated", age |-> lag, fp |-> FingerprintOf(v)] /\ r1 = v
    BY <1>2 DEF ReconciledMeta, ReconciledRow, Meta
  <2> QED BY <1>0, <1>2, <2>1 DEF MetaType, States, Fading
<1>3. CASE v # NoRow /\ m.state \notin {"absent", "removed"} /\ m.fp = FingerprintOf(v)
  <2>1. m1 = m /\ r1 = v
    BY <1>3 DEF ReconciledMeta, ReconciledRow
  <2> QED BY <1>0, <1>3, <2>1 DEF KeyInv
<1>4. CASE v = NoRow /\ row # NoRow /\ m.state # "removed"
  <2>1. m1 = [m EXCEPT !.state = "removed", !.age = lag] /\ r1 = row
    BY <1>4 DEF ReconciledMeta, ReconciledRow
  <2>2. m1 \in MetaType /\ m1.state = "removed" /\ m1.age = lag /\ m1.fp = m.fp
    BY <1>0, <2>1 DEF MetaType, KeyInv, States
  <2> QED BY <1>0, <1>4, <2>1, <2>2 DEF KeyInv, Fading
<1>5. CASE v = NoRow /\ ~(row # NoRow /\ m.state # "removed")
  <2>1. m1 = m /\ r1 = row
    BY <1>5 DEF ReconciledMeta, ReconciledRow
  <2> QED BY <1>0, <1>5, <2>1 DEF KeyInv
<1> QED BY <1>1, <1>2, <1>3, <1>4, <1>5

(* Advance keeps what the invariant says of a key, and drops only a key    *)
(* whose removal was stamped a whole fade before the event it runs for.    *)
LEMMA AdvanceKey ==
  ASSUME NEW m, NEW m1 \in MetaType, NEW r1 \in Contents, NEW lst \in Contents,
         NEW snc \in 0..AgeCap, NEW lag \in 0..MaxLag,
         r1 = NoRow <=> m1.state = "absent",
         m1.fp = FingerprintOf(r1),
         IF m1.state \in {"absent", "removed"} THEN lst = NoRow ELSE lst = r1,
         m1 = m \/ (m1.age = lag /\ m1.state \in Fading),
         m1 = m => m1.age <= snc + MaxLag
  PROVE  LET m2 == AdvancedMeta(m1, lag)
         IN  KeyInv(m2, AdvancedRow(m1, r1, lag), lst, SinceAfter(m, m2, snc))
<1> DEFINE m2 == AdvancedMeta(m1, lag)
           r2 == AdvancedRow(m1, r1, lag)
<1>0. /\ m1.age \in 0..AgeCap /\ m1.state \in States /\ m1.fp \in Fingerprints
      /\ MaxLag \in Nat /\ FadeDuration \in Nat \ {0} /\ AgeCap = FadeDuration + MaxLag
      /\ 0 \in 0..AgeCap /\ AgeCap \in 0..AgeCap
      /\ NoRow \in Contents /\ FingerprintOf(NoRow) = NoRow
  BY FadeAssumption, LagAssumption DEF MetaType, AgeCap, Contents, FingerprintOf
<1>1. CASE m1.state = "removed" /\ m1.age - lag >= FadeDuration
  <2>1. m2 = AbsentMeta /\ r2 = NoRow
    BY <1>0, <1>1 DEF AdvancedMeta, AdvancedRow
  <2>2. AbsentMeta = [state |-> "absent", age |-> AgeCap, fp |-> NoRow]
    BY <1>0 DEF AbsentMeta, Meta
  <2>3. NoRow \in Fingerprints
    BY <1>0 DEF Fingerprints
  <2> QED BY <1>0, <1>1, <2>1, <2>2, <2>3 DEF KeyInv, SinceAfter, MetaType, States, Fading
<1>2. CASE m1.state \in {"absent", "none"} \/ m1.age - lag < FadeDuration
  <2>1. m2 = m1 /\ r2 = r1
    BY <1>0, <1>2 DEF AdvancedMeta, AdvancedRow
  <2> QED BY <1>0, <1>2, <2>1 DEF KeyInv, SinceAfter, Fading
<1>3. CASE m1.state \notin {"absent", "none", "removed"} /\ m1.age - lag >= FadeDuration
  <2>1. m2 = [m1 EXCEPT !.state = "none"] /\ r2 = r1
    BY <1>0, <1>3 DEF AdvancedMeta, AdvancedRow
  <2>2. m2 \in MetaType /\ m2.state = "none" /\ m2.age = m1.age /\ m2.fp = m1.fp
    BY <1>0, <2>1 DEF MetaType, States
  <2>3. m1 = m
    BY <1>0, <1>3
  <2> QED BY <1>0, <1>3, <2>1, <2>2, <2>3 DEF KeyInv, SinceAfter, Fading
<1> QED BY <1>0, <1>1, <1>2, <1>3

-----------------------------------------------------------------------------
(* The invariant, key by key.                                              *)
LEMMA IInvByKey ==
  ASSUME IInv, NEW k \in Keys
  PROVE  /\ KeyInv(meta[k], rows[k], last[k], since[k])
         /\ rows[k] # NoRow => NamespaceOf[k] \in known
BY DEF IInv, TypeOK, RowsMetaAgree, LiveRowsAreLastDump, AgeBound, KeyInv, MetaType

(* What one handled event does to one key.                                 *)
LEMMA UpdateKey ==
  ASSUME IInv, NEW nss \in SUBSET Namespaces, NEW work \in SUBSET nss, NEW dump,
         NEW lag \in 0..MaxLag, \A k \in KeysOf(work) : dump[k] \in Contents,
         Update(nss, work, dump, lag), NEW k \in Keys
  PROVE  /\ KeyInv(meta'[k], rows'[k], last'[k], since'[k])
         /\ rows'[k] # NoRow => NamespaceOf[k] \in known'
<1>1. KeyInv(meta[k], rows[k], last[k], since[k])
  BY IInvByKey
<1>2. k \in KeysOf(work) => k \in KeysOf(nss) /\ dump[k] \in Contents
  BY DEF KeysOf
<1>3. CASE k \notin KeysOf(nss)
  <2>1. /\ meta'[k] = AbsentMeta /\ rows'[k] = NoRow /\ last'[k] = NoRow
    BY <1>3 DEF Update
  <2>2. AbsentMeta = [state |-> "absent", age |-> AgeCap, fp |-> NoRow]
    BY DEF AbsentMeta, Meta, FingerprintOf
  <2>3. since'[k] = AgeCap
    BY <1>3, <2>2 DEF Update
  <2>4. AgeCap \in 0..AgeCap /\ AgeCap <= AgeCap + MaxLag /\ NoRow \in Contents
        /\ FingerprintOf(NoRow) = NoRow /\ NoRow \in Fingerprints
    BY FadeAssumption, LagAssumption DEF AgeCap, Contents, FingerprintOf, Fingerprints
  <2> QED BY <2>1, <2>2, <2>3, <2>4 DEF KeyInv, MetaType, States
<1>4. CASE k \in KeysOf(nss)
  <2> DEFINE v == dump[k]
             m1 == IF k \in KeysOf(work)
                     THEN ReconciledMeta(meta[k], rows[k], v, lag) ELSE meta[k]
             r1 == IF k \in KeysOf(work) THEN ReconciledRow(rows[k], v) ELSE rows[k]
             l1 == IF k \in KeysOf(work) THEN v ELSE last[k]
             m2 == AdvancedMeta(m1, lag)
  <2>1. /\ meta'[k] = m2
        /\ rows'[k] = AdvancedRow(m1, r1, lag)
        /\ last'[k] = l1
        /\ since'[k] = SinceAfter(meta[k], m2, since[k])
    BY <1>4 DEF Update, SinceAfter
  <2>2. /\ m1 \in MetaType /\ r1 \in Contents /\ l1 \in Contents
        /\ r1 = NoRow <=> m1.state = "absent"
        /\ m1.fp = FingerprintOf(r1)
        /\ IF m1.state \in {"absent", "removed"} THEN l1 = NoRow ELSE l1 = r1
        /\ m1 = meta[k] \/ (m1.age = lag /\ m1.state \in Fading)
        /\ meta[k].age <= since[k] + MaxLag /\ since[k] \in 0..AgeCap
    <3>1. CASE k \in KeysOf(work)
      BY <1>1, <1>2, <3>1, ReconcileKey DEF KeyInv
    <3>2. CASE k \notin KeysOf(work)
      BY <1>1, <3>2 DEF KeyInv
    <3> QED BY <3>1, <3>2
  <2>3. KeyInv(m2, AdvancedRow(m1, r1, lag), l1, SinceAfter(meta[k], m2, since[k]))
    <3> HIDE DEF m1, r1, l1
    <3> QED BY <2>2, AdvanceKey
  <2>4. NamespaceOf[k] \in known'
    BY <1>4 DEF Update, KeysOf
  <2> QED BY <2>1, <2>3, <2>4
<1> QED BY <1>3, <1>4

LEMMA UpdatePreserves ==
  ASSUME IInv, NEW nss \in SUBSET Namespaces, NEW work \in SUBSET nss, NEW dump,
         NEW lag \in 0..MaxLag, \A k \in KeysOf(work) : dump[k] \in Contents,
         Update(nss, work, dump, lag)
  PROVE  IInv'
<1>1. \A k \in Keys : /\ KeyInv(meta'[k], rows'[k], last'[k], since'[k])
                      /\ rows'[k] # NoRow => NamespaceOf[k] \in known'
  BY UpdateKey
<1>2. /\ meta' = [k \in Keys |-> meta'[k]] /\ rows' = [k \in Keys |-> rows'[k]]
      /\ last' = [k \in Keys |-> last'[k]] /\ since' = [k \in Keys |-> since'[k]]
      /\ known' \subseteq Namespaces
  BY DEF Update
<1>3. TypeOK'
  BY <1>1, <1>2 DEF TypeOK, KeyInv, MetaType
<1> QED BY <1>1, <1>3 DEF IInv, RowsMetaAgree, LiveRowsAreLastDump, AgeBound, KeyInv

LEMMA TickPreserves == IInv /\ Tick => IInv'
<1> SUFFICES ASSUME IInv, Tick PROVE IInv'
  OBVIOUS
<1>0. AgeCap \in Nat /\ MaxLag \in Nat
  BY FadeAssumption, LagAssumption DEF AgeCap
<1>1. ASSUME NEW k \in Keys
      PROVE  /\ meta'[k] \in MetaType /\ since'[k] \in 0..AgeCap
             /\ meta'[k].state = meta[k].state /\ meta'[k].fp = meta[k].fp
             /\ meta'[k].age <= since'[k] + MaxLag
  <2>1. /\ meta[k] \in MetaType /\ since[k] \in 0..AgeCap
        /\ meta[k].age <= since[k] + MaxLag
    BY DEF IInv, TypeOK, AgeBound, MetaType
  <2>2. /\ meta'[k] = [meta[k] EXCEPT !.age = Older(meta[k].age)]
        /\ since'[k] = Older(since[k])
    BY DEF Tick
  <2>3. /\ meta[k].age \in 0..AgeCap
        /\ Older(meta[k].age) \in 0..AgeCap /\ Older(since[k]) \in 0..AgeCap
        /\ Older(meta[k].age) <= Older(since[k]) + MaxLag
    BY <1>0, <2>1 DEF Older, MetaType
  <2>4. /\ meta'[k] \in MetaType /\ meta'[k].state = meta[k].state
        /\ meta'[k].fp = meta[k].fp /\ meta'[k].age = Older(meta[k].age)
    BY <2>1, <2>2, <2>3 DEF MetaType
  <2> QED BY <2>2, <2>3, <2>4
<1>2. /\ meta' = [k \in Keys |-> meta'[k]] /\ since' = [k \in Keys |-> since'[k]]
      /\ known' = known /\ rows' = rows /\ last' = last
  BY DEF Tick
<1>3. TypeOK'
  BY <1>1, <1>2 DEF TypeOK, IInv, MetaType
<1> QED
  BY <1>1, <1>2, <1>3 DEF IInv, RowsMetaAgree, LiveRowsAreLastDump, AgeBound

(* Every handler is an Update, so every step is one, a tick or a stutter.  *)
LEMMA NextCases ==
  ASSUME IInv, Next
  PROVE  \/ Tick
         \/ \E nss \in SUBSET Namespaces, lag \in 0..MaxLag :
              \E work \in SUBSET nss : \E dump :
                /\ \A k \in KeysOf(work) : dump[k] \in Contents
                /\ Update(nss, work, dump, lag)
<1>1. CASE FetchLatest
  <2>1. PICK nss \in SUBSET Namespaces, lag \in 0..MaxLag :
          \E dump \in [KeysOf(nss) -> Contents] : Update(nss, nss, dump, lag)
    BY <1>1 DEF FetchLatest
  <2> QED BY <2>1
<1>2. CASE NamespaceSync
  BY <1>2 DEF NamespaceSync, KeysOf
<1>3. CASE ReloadDue
  <2>1. PICK work \in SUBSET known, lag \in 0..MaxLag :
          \E dump \in [KeysOf(work) -> Contents] : Update(known, work, dump, lag)
    BY <1>3 DEF ReloadDue
  <2> QED BY <2>1 DEF IInv, TypeOK
<1>4. CASE ScheduledReload
  <2>1. PICK nss \in SUBSET Namespaces, lag \in 0..MaxLag : \E work \in SUBSET nss :
          \E dump \in [KeysOf(work) -> Contents] : Update(nss, work, dump, lag)
    BY <1>4 DEF ScheduledReload
  <2> QED BY <2>1
<1>5. CASE FadeTick
  BY <1>5 DEF FadeTick, KeysOf, IInv, TypeOK
<1> QED BY <1>1, <1>2, <1>3, <1>4, <1>5 DEF Next

LEMMA InitInv == Init => IInv
<1> SUFFICES ASSUME Init PROVE IInv
  OBVIOUS
<1>1. AbsentMeta = [state |-> "absent", age |-> AgeCap, fp |-> NoRow]
      /\ NoRow \in Contents /\ NoRow \in Fingerprints /\ FingerprintOf(NoRow) = NoRow
  BY DEF AbsentMeta, Meta, FingerprintOf, Fingerprints, Contents
<1>2. AgeCap \in 0..AgeCap /\ AgeCap <= AgeCap + MaxLag
  BY FadeAssumption, LagAssumption DEF AgeCap
<1> QED BY <1>1, <1>2 DEF Init, IInv, TypeOK, RowsMetaAgree, LiveRowsAreLastDump,
                         AgeBound, States

LEMMA StepInv == IInv /\ [Next]_vars => IInv'
<1> SUFFICES ASSUME IInv, [Next]_vars PROVE IInv'
  OBVIOUS
<1>1. CASE Next
  BY <1>1, NextCases, TickPreserves, UpdatePreserves
<1>2. CASE UNCHANGED vars
  BY <1>2 DEF vars, IInv, TypeOK, RowsMetaAgree, LiveRowsAreLastDump, AgeBound
<1> QED BY <1>1, <1>2

LEMMA Invariance == Spec => []IInv
BY InitInv, StepInv, PTL DEF Spec

(* reconcile, Advance and pruning keep rows and metadata of every kind of  *)
(* record in step, whatever the order of events.                           *)
THEOREM RowsAndMetaAgree == Spec => [](TypeOK /\ RowsMetaAgree)
<1>1. IInv => TypeOK /\ RowsMetaAgree
  BY DEF IInv
<1> QED BY <1>1, Invariance, PTL

(* However dumps, prunings and fade ticks follow one another, a row has    *)
(* metadata only of the states reconcile and advanceMeta give it, and the  *)
(* stamps that go backwards leave no age out of range.                     *)
THEOREM RecordTypes == Spec => []TypeOK
<1>1. IInv => TypeOK
  BY DEF IInv
<1> QED BY <1>1, Invariance, PTL

(* The rows on display, other than fading removals, are those of the last  *)
(* dump of each namespace, contents included.                              *)
THEOREM DisplayIsLastDump == Spec => []LiveRowsAreLastDump
<1>1. IInv => LiveRowsAreLastDump
  BY DEF IInv
<1> QED BY <1>1, Invariance, PTL

-----------------------------------------------------------------------------
(* The rules of HighlightFollowsDumps and RemovedRowStays for one key.     *)
HighlightRule(m, lst, m2, lst2) ==
  LET was == FingerprintOf(lst)
      is  == FingerprintOf(lst2)
      started == m2.state \in Fading /\ (m2.state # m.state \/ m2.fp # m.fp)
  IN  /\ started <=> was # is
      /\ started => m2.state = (IF was = NoRow THEN "added"
                               ELSE IF is = NoRow THEN "removed" ELSE "updated")

RemovalRule(m, row, snc, m2, row2) ==
  m.state = "removed" =>
    \/ m2.state = "removed" /\ row2 = row
    \/ m2.state = "added"
    \/ m2.state = "absent" /\ snc >= FadeDuration - MaxLag

(* A highlight started by a handler survives the Advance of that handler:  *)
(* both use the same stamp, so its age is zero.                            *)
LEMMA StartedSurvives ==
  ASSUME NEW m1, NEW r1, NEW lag \in 0..MaxLag, m1.age = lag
  PROVE  AdvancedMeta(m1, lag) = m1 /\ AdvancedRow(m1, r1, lag) = r1
BY FadeAssumption, LagAssumption DEF AdvancedMeta, AdvancedRow

(* Advance by itself starts no highlight, and obeys the removal rule.      *)
LEMMA AdvanceRules ==
  ASSUME NEW m \in MetaType, NEW row, NEW lst, NEW lst2, NEW snc \in 0..AgeCap,
         NEW lag \in 0..MaxLag, m.age <= snc + MaxLag,
         FingerprintOf(lst) = FingerprintOf(lst2)
  PROVE  LET m2 == AdvancedMeta(m, lag)
         IN  /\ HighlightRule(m, lst, m2, lst2)
             /\ RemovalRule(m, row, snc, m2, AdvancedRow(m, row, lag))
<1> DEFINE m2 == AdvancedMeta(m, lag)
<1>0. /\ m.age \in 0..AgeCap /\ MaxLag \in Nat /\ FadeDuration \in Nat
      /\ AgeCap \in Nat
  BY FadeAssumption, LagAssumption DEF MetaType, AgeCap
<1>1. CASE m.state \in {"absent", "none"} \/ m.age - lag < FadeDuration
  <2>1. m2 = m /\ (m.state = "removed" => AdvancedRow(m, row, lag) = row)
    BY <1>0, <1>1 DEF AdvancedMeta, AdvancedRow
  <2> QED BY <2>1 DEF HighlightRule, RemovalRule
<1>2. CASE m.state = "removed" /\ m.age - lag >= FadeDuration
  <2>1. m2 = AbsentMeta
    BY <1>0, <1>2 DEF AdvancedMeta
  <2>2. m2.state = "absent" /\ snc >= FadeDuration - MaxLag
    BY <1>0, <1>2, <2>1 DEF AbsentMeta, Meta
  <2> QED BY <2>2 DEF HighlightRule, RemovalRule, Fading
<1>3. CASE m.state \notin {"absent", "none", "removed"} /\ m.age - lag >= FadeDuration
  <2>1. m2 = [m EXCEPT !.state = "none"]
    BY <1>0, <1>3 DEF AdvancedMeta
  <2>2. m2.state = "none"
    BY <2>1 DEF MetaType
  <2> QED BY <1>3, <2>2 DEF HighlightRule, RemovalRule, Fading
<1> QED BY <1>0, <1>1, <1>2, <1>3

LEMMA UpdateRules ==
  ASSUME NEW m, NEW row, NEW lst, NEW snc, NEW v \in Contents,
         NEW lag \in 0..MaxLag, KeyInv(m, row, lst, snc)
  PROVE  LET m1 == ReconciledMeta(m, row, v, lag)
             m2 == AdvancedMeta(m1, lag)
             r2 == AdvancedRow(m1, ReconciledRow(row, v), lag)
         IN  HighlightRule(m, lst, m2, v) /\ RemovalRule(m, row, snc, m2, r2)
<1> DEFINE m1 == ReconciledMeta(m, row, v, lag)
           r1 == ReconciledRow(row, v)
           m2 == AdvancedMeta(m1, lag)
           r2 == AdvancedRow(m1, r1, lag)
<1>0. \A w \in Contents : FingerprintOf(w) = NoRow <=> w = NoRow
  BY FingerprintAssumption DEF FingerprintOf, Contents
<1>1. CASE v # NoRow /\ m.state \in {"absent", "removed"}
  <2>1. m1 = [state |-> "added", age |-> lag, fp |-> FingerprintOf(v)] /\ r1 = v
    BY <1>1 DEF ReconciledMeta, ReconciledRow, Meta
  <2>2. m2.state = "added"
    BY <2>1, StartedSurvives
  <2>3. FingerprintOf(lst) = NoRow /\ FingerprintOf(v) # NoRow
    BY <1>0, <1>1 DEF KeyInv
  <2> QED BY <1>1, <2>2, <2>3 DEF HighlightRule, RemovalRule, Fading
<1>2. CASE v # NoRow /\ m.state \notin {"absent", "removed"} /\ m.fp # FingerprintOf(v)
  <2>1. m1 = [state |-> "updated", age |-> lag, fp |-> FingerprintOf(v)]
    BY <1>2 DEF ReconciledMeta, Meta
  <2>2. m2.state = "updated" /\ m2.fp = FingerprintOf(v)
    BY <2>1, StartedSurvives
  <2>3. /\ FingerprintOf(lst) = m.fp /\ FingerprintOf(lst) # NoRow
        /\ FingerprintOf(v) # NoRow
    BY <1>0, <1>2 DEF KeyInv
  <2> QED BY <1>2, <2>2, <2>3 DEF HighlightRule, RemovalRule, Fading
<1>3. CASE v = NoRow /\ row # NoRow /\ m.state # "removed"
  <2>1. m1 = [m EXCEPT !.state = "removed", !.age = lag]
    BY <1>3 DEF ReconciledMeta
  <2>2. m1.state = "removed" /\ m1.age = lag
    BY <2>1 DEF KeyInv, MetaType
  <2>3. m2.state = "removed"
    BY <2>2, StartedSurvives
  <2>4. FingerprintOf(lst) # NoRow /\ FingerprintOf(v) = NoRow
    BY <1>0, <1>3 DEF KeyInv
  <2> QED BY <1>3, <2>3, <2>4 DEF HighlightRule, RemovalRule, Fading
<1>4. CASE \/ v # NoRow /\ m.state \notin {"absent", "removed"} /\ m.fp = FingerprintOf(v)
           \/ v = NoRow /\ ~(row # NoRow /\ m.state # "removed")
  <2>1. m1 = m
    BY <1>4 DEF ReconciledMeta
  <2>2. m.state = "removed" => r1 = row
    BY <1>4 DEF ReconciledRow
  <2>3. FingerprintOf(lst) = FingerprintOf(v)
    BY <1>0, <1>4 DEF KeyInv
  <2>4. HighlightRule(m, lst, m2, v) /\ RemovalRule(m, r1, snc, m2, r2)
    <3>1. m \in MetaType /\ snc \in 0..AgeCap /\ m.age <= snc + MaxLag
      BY DEF KeyInv
    <3> HIDE DEF r1
    <3> QED BY <2>1, <2>3, <3>1, AdvanceRules
  <2> QED BY <2>2, <2>4 DEF RemovalRule
<1> QED BY <1>1, <1>2, <1>3, <1>4

(* Both rules, for every key of a namespace that is still there.           *)
LEMMA StepRules ==
  ASSUME IInv, [Next]_vars, NEW k \in KeysOf(known')
  PROVE  /\ HighlightRule(meta[k], last[k], meta'[k], last'[k])
         /\ RemovalRule(meta[k], rows[k], since[k], meta'[k], rows'[k])
<1>0. k \in Keys /\ KeyInv(meta[k], rows[k], last[k], since[k])
  BY IInvByKey DEF KeysOf
<1>1. CASE UNCHANGED vars
  BY <1>0, <1>1 DEF vars, HighlightRule, RemovalRule
<1>2. CASE Tick
  <2>1. /\ meta'[k].state = meta[k].state /\ meta'[k].fp = meta[k].fp
        /\ rows'[k] = rows[k] /\ last'[k] = last[k]
    BY <1>0, <1>2 DEF Tick, KeyInv, MetaType
  <2> QED BY <2>1 DEF HighlightRule, RemovalRule
<1>3. ASSUME NEW nss \in SUBSET Namespaces, NEW lag \in 0..MaxLag,
             NEW work \in SUBSET nss, NEW dump,
             \A j \in KeysOf(work) : dump[j] \in Contents,
             Update(nss, work, dump, lag)
      PROVE  /\ HighlightRule(meta[k], last[k], meta'[k], last'[k])
             /\ RemovalRule(meta[k], rows[k], since[k], meta'[k], rows'[k])
  <2>1. k \in KeysOf(nss)
    BY <1>3 DEF Update
  <2>2. CASE k \in KeysOf(work)
    <3>1. /\ meta'[k] = AdvancedMeta(ReconciledMeta(meta[k], rows[k], dump[k], lag), lag)
          /\ rows'[k] = AdvancedRow(ReconciledMeta(meta[k], rows[k], dump[k], lag),
                                   ReconciledRow(rows[k], dump[k]), lag)
          /\ last'[k] = dump[k] /\ dump[k] \in Contents
      BY <1>0, <1>3, <2>1, <2>2 DEF Update
    <3> QED BY <1>0, <3>1, UpdateRules
  <2>3. CASE k \notin KeysOf(work)
    <3>1. /\ meta'[k] = AdvancedMeta(meta[k], lag)
          /\ rows'[k] = AdvancedRow(meta[k], rows[k], lag)
          /\ last'[k] = last[k]
      BY <1>0, <1>3, <2>1, <2>3 DEF Update
    <3> QED BY <1>0, <3>1, AdvanceRules DEF KeyInv
  <2> QED BY <2>2, <2>3
<1> QED BY <1>1, <1>2, <1>3, NextCases

(* A highlight starts exactly when two successive dumps differ in the      *)
(* fingerprint of a key, and names what happened to it.                    *)
THEOREM HighlightsFollowDumps == Spec => HighlightFollowsDumps
<1>1. IInv /\ [Next]_vars =>
        [ \A k \in KeysOf(known') :
            LET was == FingerprintOf(last[k])
                is  == FingerprintOf(last'[k])
                started == meta'[k].state \in Fading
                           /\ (meta'[k].state # meta[k].state
                                \/ meta'[k].fp # meta[k].fp)
            IN  /\ started <=> was # is
                /\ started => meta'[k].state = (IF was = NoRow THEN "added"
                                                 ELSE IF is = NoRow THEN "removed"
                                                 ELSE "updated") ]_vars
  BY StepRules DEF HighlightRule
<1> QED BY <1>1, Invariance, PTL DEF Spec, HighlightFollowsDumps

(* A removed row is shown for the fade less the lag of the event that      *)
(* removed it, however stamps are ordered.                                 *)
THEOREM RemovedRowsStay == Spec => RemovedRowStays
<1>1. IInv /\ [Next]_vars =>
        [ \A k \in Keys :
            meta[k].state = "removed" /\ NamespaceOf[k] \in known' =>
              \/ meta'[k].state = "removed" /\ rows'[k] = rows[k]
              \/ meta'[k].state = "added"
              \/ meta'[k].state = "absent" /\ since[k] >= FadeDuration - MaxLag ]_vars
  BY StepRules DEF RemovalRule, KeysOf
<1> QED BY <1>1, Invariance, PTL DEF Spec, RemovedRowStays

=============================================================================
