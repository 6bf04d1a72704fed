------------------------------- MODULE Records -------------------------------
(***************************************************************************)
(* The rows the store keeps for one kind of record (interfaces,            *)
(* neighbours, FDB entries or routes), and the metadata that makes a row   *)
(* fade after it appears, changes or disappears.                           *)
(*                                                                         *)
(* Code: internal/store/reconcile.go, fade.go, reload.go, the pruning half *)
(* of namespaces.go.  A row lives in inventory.topology[ns], its metadata  *)
(* in one map shared by all namespaces, keyed by "<ns>/...": two maps that *)
(* three different pieces of code (reconcile, Advance, prune) must keep in *)
(* step.                                                                   *)
(*                                                                         *)
(* An event is stamped when it is queued and handled later, so a handler   *)
(* works with a time `at' that is up to MaxLag behind the clock, and       *)
(* successive handlers may see it go backwards.  Times are kept relative   *)
(* to the clock: age = clock - ChangedAt, lag = clock - at, so that        *)
(* at - ChangedAt = age - lag.                                             *)
(***************************************************************************)
EXTENDS Integers

CONSTANTS
  Namespaces,    \* network namespaces that may exist
  Keys,          \* record keys
  NamespaceOf,   \* the namespace in a key's prefix   (recordNamespaceID)
  Values,        \* row contents
  Fingerprint,   \* the part of a row whose change is highlighted
  NoRow,         \* not a member of Values: no row is stored
  FadeDuration,  \* constants.FadeDuration, in clock units
  MaxLag         \* how far behind the clock an event may be handled

ASSUME KeysAssumption == NamespaceOf \in [Keys -> Namespaces]
ASSUME ValuesAssumption == NoRow \notin Values
ASSUME FingerprintAssumption == \A v \in Values : Fingerprint[v] # NoRow
ASSUME FadeAssumption == FadeDuration \in Nat \ {0}
ASSUME LagAssumption == MaxLag \in Nat

VARIABLES
  known,   \* namespaces in inventory.namespaceState
  rows,    \* contents of topology[ns].<kind>; NoRow when the key is absent
  meta,    \* recordState.<kind>Meta; state "absent" when the key is absent
  last,    \* history: the contents of the last dump applied for the key
  since    \* history: time elapsed since the state of the key last changed

vars == <<known, rows, meta, last, since>>

(***************************************************************************)
(* Beyond AgeCap every comparison with FadeDuration has the same outcome,  *)
(* so ages stop there.                                                     *)
(***************************************************************************)
AgeCap == FadeDuration + MaxLag
States == {"absent", "none", "added", "updated", "removed"}
Fading == {"added", "updated", "removed"}
Contents == Values \cup {NoRow}

FingerprintOf(v) == IF v = NoRow THEN NoRow ELSE Fingerprint[v]
Fingerprints == {FingerprintOf(v) : v \in Contents}

(* Mutated form: the whole row taken for its fingerprint.                  *)
MetaWholeRow(state, age, v) == [state |-> state, age |-> age, fp |-> v]

Meta(state, age, v) == [state |-> state, age |-> age, fp |-> FingerprintOf(v)]
AbsentMeta == Meta("absent", AgeCap, NoRow)

KeysOf(nss) == {k \in Keys : NamespaceOf[k] \in nss}

TypeOK ==
  /\ known \subseteq Namespaces
  /\ rows \in [Keys -> Contents]
  /\ meta \in [Keys -> [state : States, age : 0..AgeCap, fp : Fingerprints]]
  /\ last \in [Keys -> Contents]
  /\ since \in [Keys -> 0..AgeCap]

Init ==
  /\ known = {}
  /\ rows = [k \in Keys |-> NoRow]
  /\ meta = [k \in Keys |-> AbsentMeta]
  /\ last = [k \in Keys |-> NoRow]
  /\ since = [k \in Keys |-> AgeCap]

-----------------------------------------------------------------------------
(* Mutated forms: a key that is back before its removal has faded is left  *)
(* as it was; a dump that still misses a removed key restarts its fade.    *)
ReconciledMetaNoRevival(m, row, v, lag) ==
  CASE v # NoRow /\ m.state = "absent" -> Meta("added", lag, v)
    [] v # NoRow /\ m.state # "absent" ->
         IF m.fp # FingerprintOf(v) THEN Meta("updated", lag, v) ELSE m
    [] v = NoRow /\ row # NoRow /\ m.state # "removed" ->
         [m EXCEPT !.state = "removed", !.age = lag]
    [] OTHER -> m
ReconciledMetaRestarts(m, row, v, lag) ==
  CASE v # NoRow /\ m.state \in {"absent", "removed"} -> Meta("added", lag, v)
    [] v # NoRow /\ m.state \notin {"absent", "removed"} ->
         IF m.fp # FingerprintOf(v) THEN Meta("updated", lag, v) ELSE m
    [] v = NoRow /\ row # NoRow ->
         [m EXCEPT !.state = "removed", !.age = lag]
    [] OTHER -> m

(* Metadata of a key whose row was `row', after a dump lists it as `v'     *)
(* (NoRow: the dump does not list it).                                     *)
ReconciledMeta(m, row, v, lag) ==
  CASE v # NoRow /\ m.state \in {"absent", "removed"} -> Meta("added", lag, v)
    [] v # NoRow /\ m.state \notin {"absent", "removed"} ->
         IF m.fp # FingerprintOf(v) THEN Meta("updated", lag, v) ELSE m
    [] v = NoRow /\ row # NoRow /\ m.state # "removed" ->
         [m EXCEPT !.state = "removed", !.age = lag]
    [] OTHER -> m

(* Mutated form: a row is only replaced when its fingerprint changed.      *)
ReconciledRowIfChanged(row, v) ==
  IF v # NoRow /\ FingerprintOf(v) # FingerprintOf(row) THEN v ELSE row

(* A key the dump does not list keeps its row: it is shown fading out.     *)
ReconciledRow(row, v) == IF v # NoRow THEN v ELSE row

(* Mutated form: the fade ends one unit early.                             *)
AdvancedMetaEarly(m, lag) ==
  IF m.state \in {"absent", "none"} \/ m.age - lag < FadeDuration - 1 THEN m
  ELSE IF m.state = "removed" THEN AbsentMeta
  ELSE [m EXCEPT !.state = "none"]

(* Metadata after Advance(at): a finished highlight ends, and the record   *)
(* of a removed row is dropped (state "absent").                           *)
AdvancedMeta(m, lag) ==
  IF m.state \in {"absent", "none"} \/ m.age - lag < FadeDuration THEN m
  ELSE IF m.state = "removed" THEN AbsentMeta
  ELSE [m EXCEPT !.state = "none"]

(* Mutated form: Advance forgets the row of the metadata it drops.         *)
AdvancedRowKept(m, row, lag) == row

(* Advance deletes the row of every key whose metadata it drops.           *)
AdvancedRow(m, row, lag) ==
  IF m.state = "removed" /\ m.age - lag >= FadeDuration THEN NoRow ELSE row

-----------------------------------------------------------------------------
(***************************************************************************)
(* One event handled under the store's lock (applyLockedUpdate): the       *)
(* namespaces become nss and the rest is pruned, the dumps of the          *)
(* namespaces in `work' are applied, and Advance runs, all with the stamp  *)
(* of the event.  FetchLatest has work = nss, a namespace sync has         *)
(* work = {}, a netlink event and a fade tick have nss = known, a          *)
(* scheduled reload is the general case.  dump[k] = NoRow for every k of a *)
(* namespace whose collection failed: the code applies an empty snapshot.  *)
(***************************************************************************)
Update(nss, work, dump, lag) ==
  LET kept == KeysOf(nss)
      row1 == [k \in kept |->
                 IF k \in KeysOf(work) THEN ReconciledRow(rows[k], dump[k])
                                       ELSE rows[k]]
      meta1 == [k \in kept |->
                  IF k \in KeysOf(work)
                    THEN ReconciledMeta(meta[k], rows[k], dump[k], lag)
                    ELSE meta[k]]
      meta2 == [k \in Keys |-> IF k \in kept THEN AdvancedMeta(meta1[k], lag)
                                             ELSE AbsentMeta]
  IN  /\ known' = nss
      /\ rows' = [k \in Keys |->
                    IF k \in kept THEN AdvancedRow(meta1[k], row1[k], lag)
                                  ELSE NoRow]
      /\ meta' = meta2
      /\ last' = [k \in Keys |-> IF k \notin kept THEN NoRow
                                  ELSE IF k \in KeysOf(work) THEN dump[k]
                                  ELSE last[k]]
      /\ since' = [k \in Keys |->
                     IF meta2[k].state = "absent" THEN AgeCap
                     ELSE IF meta2[k].state \in Fading
                             /\ meta2[k] # meta[k] THEN 0
                     ELSE since[k]]

(* storeEventFetchLatest: every namespace is dumped, whether the sync      *)
(* found new ones or failed and left them alone.                           *)
FetchLatest ==
  \E nss \in SUBSET Namespaces, lag \in 0..MaxLag :
    \E dump \in [KeysOf(nss) -> Contents] : Update(nss, nss, dump, lag)

(* storeEventNamespaceSync.                                                *)
NamespaceSync ==
  \E nss \in SUBSET Namespaces, lag \in 0..MaxLag :
    Update(nss, {}, <<>>, lag)

(* storeEventNamespaceSubscribed, Neigh, Route, Link: the namespaces that  *)
(* are due (none, often) are dumped.                                       *)
ReloadDue ==
  \E work \in SUBSET known, lag \in 0..MaxLag :
    \E dump \in [KeysOf(work) -> Contents] : Update(known, work, dump, lag)

(* storeEventScheduledReload: a sync, then the namespaces that are due.    *)
ScheduledReload ==
  \E nss \in SUBSET Namespaces, lag \in 0..MaxLag : \E work \in SUBSET nss :
    \E dump \in [KeysOf(work) -> Contents] : Update(nss, work, dump, lag)

(* storeEventFadeTick when no reload is due.                               *)
FadeTick == \E lag \in 0..MaxLag : Update(known, {}, <<>>, lag)

(* The clock advances by one unit.                                         *)
Older(age) == IF age < AgeCap THEN age + 1 ELSE age
Tick ==
  /\ meta' = [k \in Keys |-> [meta[k] EXCEPT !.age = Older(@)]]
  /\ since' = [k \in Keys |-> Older(since[k])]
  /\ UNCHANGED <<known, rows, last>>

Next == FetchLatest \/ NamespaceSync \/ ReloadDue \/ ScheduledReload
        \/ FadeTick \/ Tick

Spec == Init /\ [][Next]_vars

(***************************************************************************)
(* Time passes, and the loop's 100 ms ticker keeps queueing fade ticks.    *)
(***************************************************************************)
FairSpec == Spec /\ WF_vars(Tick) /\ WF_vars(FadeTick)

-----------------------------------------------------------------------------
(* The two maps agree: a key has metadata exactly when it has a row, its   *)
(* namespace is one the store knows, and the fingerprint it will be        *)
(* compared with is the one of the row on display.  Reconcile, Advance and *)
(* the pruning of a vanished namespace each edit both maps on their own.   *)
RowsMetaAgree ==
  \A k \in Keys :
    /\ rows[k] = NoRow <=> meta[k].state = "absent"
    /\ rows[k] # NoRow => NamespaceOf[k] \in known
    /\ meta[k].fp = FingerprintOf(rows[k])

(* What is shown as present is exactly the last dump of the namespace, row *)
(* contents included (also when they differ in a field the fingerprint     *)
(* leaves out), in whatever order dumps, fade ticks and pruning came:      *)
(* nothing from an older dump survives other than as a fading removal, and *)
(* a dump of one namespace never touches the rows of another.              *)
LiveRowsAreLastDump ==
  \A k \in Keys :
    IF meta[k].state \in {"absent", "removed"} THEN last[k] = NoRow
                                              ELSE last[k] = rows[k]

(* A highlight starts exactly when the fingerprint of a key differs between*)
(* two successive dumps of its namespace, and it tells the right story: a  *)
(* key that had gone and is back is "added" even while its removal is      *)
(* still fading.  A re-read of unchanged state, however late its stamp,    *)
(* never restarts one.                                                     *)
HighlightFollowsDumps ==
  [][ \A k \in KeysOf(known') :
        LET was == FingerprintOf(last[k])
            is  == FingerprintOf(last'[k])
            started == meta'[k].state \in Fading
                       /\ (meta'[k].state # meta[k].state
                            \/ meta'[k].fp # meta[k].fp)
        IN  /\ started <=> was # is
            /\ started => meta'[k].state = (IF was = NoRow THEN "added"
                                             ELSE IF is = NoRow THEN "removed"
                                             ELSE "updated")
    ]_vars

(* A removed row is on display, with its last contents, for the length of  *)
(* the fade less the lag of the event that removed it, although Advance    *)
(* runs with stamps that may go backwards: only the disappearance of the   *)
(* whole namespace, or the return of the key, cuts it short.               *)
RemovedRowStays ==
  [][ \A k \in Keys :
        meta[k].state = "removed" /\ NamespaceOf[k] \in known' =>
          \/ meta'[k].state = "removed" /\ rows'[k] = rows[k]
          \/ meta'[k].state = "added"
          \/ meta'[k].state = "absent" /\ since[k] >= FadeDuration - MaxLag
    ]_vars

(* Every highlight ends and every removed row goes away once the dumps of  *)
(* the namespace stop changing, with nothing but fade ticks left to run.   *)
HighlightsEnd ==
  \A k \in Keys :
    <>[][FingerprintOf(last'[k]) = FingerprintOf(last[k])]_vars
      => <>[](meta[k].state \notin Fading)
=============================================================================
