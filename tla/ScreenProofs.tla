------------------------------ MODULE ScreenProofs ------------------------------
(***************************************************************************)
(* Proofs about Screen.  What is on the screen is accounted for after any  *)
(* step because a handler ends with a message whenever it has changed the  *)
(* metadata of a row, its fingerprint among them, and a refresh reads all  *)
(* rows it shows; the chain of ticks is one because only a handled tick    *)
(* ends it, and only its end lets another begin.  Both are inductive       *)
(* together with the types.                                                *)
(***************************************************************************)
EXTENDS Screen, TLAPS

IInv == TypeOK /\ OneTickChain /\ NothingIsMissed

(* The parts that depend on the Model alone, so that they can be stated of *)
(* the operators it is changed with.                                       *)
ModelOK(u) ==
  /\ u \in Models
  /\ u.ticks = IF u.fadeTickActive THEN 1 ELSE 0

-----------------------------------------------------------------------------
(* A row says something, and a dump of it something or nothing.            *)
LEMMA RowData ==
  ASSUME NEW r \in Rows
  PROVE  r.data \in Contents \cup {NoData} /\ (r # NoRow <=> r.data \in Contents)
BY ScreenAssumption DEF Rows, NoRow, Row, NoData

LEMMA RowTypes ==
  ASSUME NEW r \in Rows, NEW data \in Contents \cup {NoData}
  PROVE  Reconciled(r, data) \in Rows /\ Advanced(r) \in Rows
<1>1. r = NoRow \/ r.data \in Contents
  BY RowData
<1>2. ASSUME NEW c \in Contents, NEW state \in {"added", "updated", "removed", "none"}
      PROVE  Row(state, 0, c) \in Rows
  BY ScreenAssumption DEF Rows, Row
<1>3. Advanced(r) \in Rows
  BY <1>1, <1>2 DEF Advanced, Fading, Rows, NoRow, Row
<1>4. Reconciled(r, data) \in Rows
  <2>1. CASE data = NoData
    <3>1. Reconciled(r, data) = IF r = NoRow \/ r.state = "removed" THEN r
                                ELSE Row("removed", 0, r.data)
      BY <2>1 DEF Reconciled
    <3> QED BY <1>1, <1>2, <3>1
  <2>2. CASE data # NoData /\ (r = NoRow \/ r.state = "removed")
    <3>1. Reconciled(r, data) = Row("added", 0, data)
      BY <2>2 DEF Reconciled
    <3> QED BY <1>2, <2>2, <3>1
  <2>3. CASE data # NoData /\ r # NoRow /\ r.state # "removed"
    <3>1. \/ Reconciled(r, data) = Row("updated", 0, data)
          \/ Reconciled(r, data) = [r EXCEPT !.data = data]
      BY <2>3 DEF Reconciled
    <3>2. data \in Contents
      BY <2>3
    <3>3. [r EXCEPT !.data = data] \in Rows
      BY <2>3, <3>2 DEF Rows
    <3> QED BY <1>2, <3>1, <3>2, <3>3
  <2> QED BY <2>1, <2>2, <2>3
<1> QED BY <1>3, <1>4

LEMMA AppliedType ==
  ASSUME NEW before, before.row \in [Devs -> Rows], NEW dump \in Dumps
  PROVE  Applied(before, dump) \in [Devs -> Rows]
<1> SUFFICES ASSUME NEW d \in Devs
             PROVE  Advanced(Reconciled(before.row[d], dump[d])) \in Rows
  BY DEF Applied
<1>1. dump[d] \in Contents \cup {NoData}
  BY DEF Dumps
<1>2. Reconciled(before.row[d], dump[d]) \in Rows
  BY <1>1, RowTypes
<1> QED BY <1>1, <1>2, RowTypes

LEMMA StoredType ==
  ASSUME TypeOK
  PROVE  Stored \in Dumps
<1>1. \A d \in Devs : row[d].data \in Contents \cup {NoData}
  BY RowData DEF TypeOK
<1> QED BY <1>1 DEF Stored, Dumps

LEMMA PrunedType ==
  ASSUME TypeOK, NEW gone
  PROVE  /\ Pruned(gone).row \in [Devs -> Rows]
         /\ Pruned(gone).held \in [Devs -> 0..1]
         /\ \A d \in Devs : Pruned(gone).row[d] # NoRow => Pruned(gone).held[d] = 0
         /\ gone = {} => Pruned(gone).row = row
BY DEF TypeOK, Pruned, Rows, Live

(* The end of a handler: if it has changed what is listed, or anything a   *)
(* fingerprint covers, the answer is a message.                            *)
LEMMA AnswerOK ==
  ASSUME TypeOK, NEW gone, NEW rows \in [Devs -> Rows],
         NEW onNoChange \in {"idle", "periodic"},
         Answer(Pruned(gone), rows, onNoChange)
  PROVE  /\ row' \in [Devs -> Rows] /\ held' \in [Devs -> 0..1]
         /\ \A d \in Live' : held'[d] = 0
         /\ loop' \in {"idle", "updated", "periodic"} /\ bumped' = FALSE
         /\ bumped \/ FingerprintsOf(Stored)' # FingerprintsOf(Stored) => loop' = "updated"
<1>1. row' = rows /\ held' = Held(Pruned(gone), rows) /\ bumped' = FALSE
  BY DEF Answer
<1>2. held' \in [Devs -> 0..1] /\ \A d \in Devs : rows[d] # NoRow => held'[d] = 0
  BY <1>1, PrunedType DEF Held
<1>3. loop' \in {"idle", "updated", "periodic"}
  BY DEF Answer
<1>4. ASSUME bumped \/ FingerprintsOf(Stored)' # FingerprintsOf(Stored)
      PROVE  loop' = "updated"
  <2>1. Bumped(Pruned(gone), rows)
    <3>1. CASE bumped \/ Pruned(gone).row # row
      BY <3>1 DEF Bumped
    <3>2. CASE ~bumped /\ Pruned(gone).row = row
      <4>1. PICK d \in Devs : FingerprintOf(rows[d].data) # FingerprintOf(row[d].data)
        BY <1>1, <1>4, <3>2 DEF FingerprintsOf, Stored
      <4>2. Meta(rows[d]).print # Meta(row[d]).print
        BY <4>1 DEF Meta
      <4> QED BY <3>2, <4>2 DEF Bumped
    <3> QED BY <3>1, <3>2
  <2> QED BY <2>1 DEF Answer
<1> QED BY <1>1, <1>2, <1>3, <1>4 DEF Live

LEMMA MarkTypes ==
  ASSUME NEW marks \in [Devs -> {Unlisted, Plain} \cup 0..Fade], NEW ended
  PROVE  /\ OlderMarks(marks) \in [Devs -> {Unlisted, Plain} \cup 0..Fade]
         /\ Ended(ended, marks) \in [Devs -> {Unlisted, Plain} \cup 0..Fade]
BY ScreenAssumption DEF OlderMarks, Ended, Older, Unlisted, Plain

LEMMA SyncedType ==
  ASSUME NEW u \in Models
  PROVE  Synced(u) \in [Devs -> {Unlisted, Plain} \cup 0..Fade]
BY ScreenAssumption DEF Synced, Models, Unlisted, Plain

(* A tick is sent if none is on its way.                                   *)
LEMMA MaybeStartOK ==
  ASSUME NEW u, ModelOK(u), NEW v, v = maybeStartFadeTick(u)
  PROVE  /\ ModelOK(v)
         /\ v.at = u.at /\ v.help = u.help /\ v.dirty = u.dirty
         /\ v.items = u.items /\ v.rows = u.rows
<1>1. CASE u.fadeTickActive
  BY <1>1 DEF maybeStartFadeTick
<1>2. CASE ~u.fadeTickActive
  <2>1. v = u \/ v = [u EXCEPT !.fadeTickActive = TRUE, !.ticks = u.ticks + 1]
    BY DEF maybeStartFadeTick
  <2>2. u.ticks + 1 = 1
    BY <1>2 DEF ModelOK, Models
  <2>3. CASE v = [u EXCEPT !.fadeTickActive = TRUE, !.ticks = u.ticks + 1]
    <3>1. /\ v \in Models /\ v.fadeTickActive = TRUE /\ v.ticks = 1
          /\ v.at = u.at /\ v.help = u.help /\ v.dirty = u.dirty
          /\ v.items = u.items /\ v.rows = u.rows
      <4>1. u \in Models /\ u.ticks + 1 \in Nat
        BY <2>2 DEF ModelOK
      <4>2. v \in Models
        BY <4>1, <2>3 DEF Models
      <4> QED BY <4>1, <4>2, <2>2, <2>3 DEF Models
    <3> QED BY <3>1 DEF ModelOK
  <2> QED BY <2>1, <2>3 DEF ModelOK
<1> QED BY <1>1, <1>2 DEF ModelOK, Models

LEMMA ReadingOK ==
  ASSUME TypeOK, NEW u, ModelOK(u), NEW v, v = Reading(u)
  PROVE  /\ ModelOK(v)
         /\ v.at = "reading" /\ v.help = u.help /\ v.dirty = u.dirty
         /\ NoGhosts(v.items) = Stored
<1> DEFINE items == [d \in Devs |-> IF d \in Live THEN row[d].data
                                    ELSE IF held[d] > 0 THEN Ghost ELSE NoData]
<1>1. ASSUME NEW d \in Devs
      PROVE  /\ items[d] \in Contents \cup {NoData, Ghost}
             /\ (IF items[d] = Ghost THEN NoData ELSE items[d]) = row[d].data
  <2>1. CASE d \in Live
    <3>1. row[d].data \in Contents
      BY <2>1, RowData DEF TypeOK, Live
    <3>2. Ghost \notin Contents
      BY ScreenAssumption DEF Ghost
    <3> QED BY <2>1, <3>1, <3>2
  <2>2. CASE d \notin Live
    <3>1. row[d].data = NoData
      BY <2>2 DEF Live, NoRow, Row
    <3> QED BY <2>2, <3>1
  <2> QED BY <2>1, <2>2
<1>2. items \in [Devs -> Contents \cup {NoData, Ghost}] /\ NoGhosts(items) = Stored
  BY <1>1 DEF NoGhosts, Stored
<1>3. v = [u EXCEPT !.at = "reading", !.outdated = FALSE, !.items = items]
  BY DEF Reading
<1> HIDE DEF items
<1> QED BY <1>2, <1>3 DEF ModelOK, Models, TypeOK

LEMMA RefreshUnlessHelpOK ==
  ASSUME TypeOK, NEW u, ModelOK(u), NEW v, v = RefreshUnlessHelp(u)
  PROVE  /\ ModelOK(v) /\ v.help = u.help
         /\ u.help => v = [u EXCEPT !.dirty = TRUE]
         /\ ~u.help => v.at = "reading" /\ NoGhosts(v.items) = Stored
<1>1. CASE u.help
  BY <1>1 DEF RefreshUnlessHelp, ModelOK, Models
<1>2. CASE ~u.help
  BY <1>2, ReadingOK DEF RefreshUnlessHelp
<1> QED BY <1>1, <1>2

-----------------------------------------------------------------------------
(* Steps of the event loop: the Model is as it was, but that its list of   *)
(* namespaces may be out of date.                                          *)
SameButList(u, v) ==
  /\ v.at = u.at /\ v.help = u.help /\ v.dirty = u.dirty
  /\ v.items = u.items /\ v.rows = u.rows
  /\ v.ticks = u.ticks /\ v.fadeTickActive = u.fadeTickActive

LEMMA ListChangeOK ==
  ASSUME ui \in Models, NamespacesMayChange \/ ui' = ui
  PROVE  ui' \in Models /\ SameButList(ui, ui')
<1>1. CASE ui' = ui
  BY <1>1 DEF SameButList
<1>2. CASE NamespacesMayChange
  <2>1. PICK new \in BOOLEAN : ui' = [ui EXCEPT !.outdated = ui.outdated \/ new]
    BY <1>2 DEF NamespacesMayChange
  <2>2. (ui.outdated \/ new) \in BOOLEAN
    OBVIOUS
  <2> QED BY <2>1, <2>2 DEF Models, SameButList
<1> QED BY <1>1, <1>2

LEMMA PrepareStep == ASSUME IInv, Prepare PROVE IInv'
<1>1. PICK gone \in SUBSET Devs : row' = Pruned(gone).row /\ held' = Pruned(gone).held
  BY DEF Prepare
<1>2. TypeOK
  BY DEF IInv
<1>3. /\ row' \in [Devs -> Rows] /\ held' \in [Devs -> 0..1]
      /\ \A d \in Live' : held'[d] = 0
  BY <1>1, <1>2, PrunedType DEF Live
<1>4. ui' \in Models /\ SameButList(ui, ui')
  BY <1>2, ListChangeOK DEF Prepare, TypeOK
<1>5. TypeOK'
  BY <1>2, <1>3, <1>4, ScreenAssumption DEF Prepare, Counted, TypeOK
<1>6. OneTickChain'
  BY <1>4 DEF IInv, OneTickChain, SameButList
<1>7. NothingIsMissed'
  <2>1. CASE row' = row
    BY <1>4, <2>1
       DEF Prepare, IInv, NothingIsMissed, Announced, Stored, SameButList
  <2>2. CASE row' # row
    BY <2>2 DEF Prepare, NothingIsMissed, Announced
  <2> QED BY <2>1, <2>2
<1> QED BY <1>5, <1>6, <1>7 DEF IInv

LEMMA AnswerKeepsInv ==
  ASSUME IInv, NEW gone, NEW rows \in [Devs -> Rows], loop \in {"idle", "open"},
         NEW onNoChange \in {"idle", "periodic"},
         Answer(Pruned(gone), rows, onNoChange),
         ui' \in Models, SameButList(ui, ui'), asked' \in BOOLEAN, lastFetch' \in 0..RefreshDue,
         changes' \in 0..MaxChanges
  PROVE  IInv'
<1>1. TypeOK
  BY DEF IInv
<1>2. /\ row' \in [Devs -> Rows] /\ held' \in [Devs -> 0..1]
      /\ \A d \in Live' : held'[d] = 0
      /\ loop' \in {"idle", "updated", "periodic"} /\ bumped' = FALSE
      /\ bumped \/ FingerprintsOf(Stored)' # FingerprintsOf(Stored) => loop' = "updated"
  BY <1>1, AnswerOK
<1>3. TypeOK'
  BY <1>1, <1>2 DEF TypeOK
<1>4. OneTickChain'
  BY DEF IInv, OneTickChain, SameButList
<1>5. NothingIsMissed'
  BY <1>2 DEF IInv, NothingIsMissed, Announced, SameButList
<1> QED BY <1>3, <1>4, <1>5 DEF IInv

LEMMA CompleteStep == ASSUME IInv, Complete PROVE IInv'
<1>1. PICK dump \in Dumps :
        Answer(Pruned({}), Applied(Pruned({}), dump), "idle")
  BY DEF Complete
<1>2. TypeOK
  BY DEF IInv
<1>3. Applied(Pruned({}), dump) \in [Devs -> Rows]
  BY <1>2, PrunedType, AppliedType
<1>4. ui' \in Models /\ SameButList(ui, ui')
  BY <1>2, ListChangeOK DEF Complete, TypeOK
<1> QED BY <1>1, <1>2, <1>3, <1>4, AnswerKeepsInv DEF Complete, TypeOK

LEMMA AdvancedRows ==
  ASSUME TypeOK PROVE [d \in Devs |-> Advanced(row[d])] \in [Devs -> Rows]
BY RowTypes DEF TypeOK

LEMMA FetchLatestStep == ASSUME IInv, FetchLatest PROVE IInv'
<1>1. TypeOK
  BY DEF IInv
<1>2. PICK rows \in [Devs -> Rows], gone \in SUBSET Devs :
        Answer(Pruned(gone), rows, "periodic")
  <2>1. ASSUME NEW gone \in SUBSET Devs, NEW dump \in Dumps
        PROVE  Applied(Pruned(gone), dump) \in [Devs -> Rows]
    BY <1>1, PrunedType, AppliedType
  <2> QED BY <1>1, <2>1, AdvancedRows DEF FetchLatest
<1>3. /\ loop = "idle" /\ asked' \in BOOLEAN /\ lastFetch' \in 0..RefreshDue
      /\ changes' \in 0..MaxChanges
  <2>1. 0 \in 0..RefreshDue
    BY ScreenAssumption
  <2>2. Counted => changes' \in 0..MaxChanges
    BY <1>1, ScreenAssumption DEF Counted, TypeOK
  <2>3. loop = "idle" /\ asked' = FALSE /\ lastFetch' = 0
    BY DEF FetchLatest
  <2>4. Counted \/ changes' = changes
    BY DEF FetchLatest
  <2> QED BY <1>1, <2>1, <2>2, <2>3, <2>4 DEF TypeOK
<1>4. ui' \in Models /\ SameButList(ui, ui')
  BY <1>1, ListChangeOK DEF FetchLatest, TypeOK
<1> QED BY <1>2, <1>3, <1>4, AnswerKeepsInv

LEMMA FadeTickStep == ASSUME IInv, FadeTick PROVE IInv'
<1>1. TypeOK
  BY DEF IInv
<1>2. ui' \in Models /\ SameButList(ui, ui')
  BY <1>1, ListChangeOK DEF FadeTick, TypeOK
<1> QED BY <1>1, <1>2, AdvancedRows, AnswerKeepsInv DEF FadeTick, TypeOK

-----------------------------------------------------------------------------
(* Time: a row that fades goes on fading.                                  *)
LEMMA PassStep == ASSUME IInv, Pass PROVE IInv'
<1>1. TypeOK /\ ModelOK(ui)
  BY DEF IInv, TypeOK, OneTickChain, ModelOK
<1>2. ASSUME NEW d \in Devs
      PROVE  row'[d] \in Rows /\ row'[d].data = row[d].data
  <2>1. row[d] \in Rows
    BY <1>1 DEF TypeOK
  <2>2. CASE ~Fading(row[d])
    BY <2>1, <2>2 DEF Pass
  <2>3. CASE Fading(row[d])
    <3>1. row'[d] = [row[d] EXCEPT !.age = Older(row[d].age)]
      BY <2>3 DEF Pass
    <3>2. /\ row[d].state \in {"added", "updated", "removed"} /\ row[d].age \in 0..Fade
          /\ row[d].data \in Contents
          /\ row[d] = [state |-> row[d].state, age |-> row[d].age, data |-> row[d].data]
      BY <2>1, <2>3 DEF Fading, Rows, NoRow, Row
    <3>3. Older(row[d].age) \in 0..Fade
      BY <3>2, ScreenAssumption DEF Older
    <3>4. row'[d] = [state |-> row[d].state, age |-> Older(row[d].age), data |-> row[d].data]
      BY <3>1, <3>2
    <3> QED BY <3>2, <3>3, <3>4 DEF Rows
  <2> QED BY <2>2, <2>3
<1>3. row' \in [Devs -> Rows] /\ Stored' = Stored
  BY <1>2 DEF Pass, Stored
<1>4. ModelOK(ui')
  <2>1. ui.marks \in [Devs -> {Unlisted, Plain} \cup 0..Fade] /\ Older(ui.fadeClock) \in 0..Fade
    BY <1>1, ScreenAssumption DEF ModelOK, Models, Older
  <2>2. OlderMarks(ui.marks) \in [Devs -> {Unlisted, Plain} \cup 0..Fade]
    BY <2>1, MarkTypes
  <2> QED BY <1>1, <2>1, <2>2 DEF Pass, ModelOK, Models
<1>5. /\ ui'.at = ui.at /\ ui'.help = ui.help /\ ui'.dirty = ui.dirty
      /\ ui'.items = ui.items /\ ui'.rows = ui.rows
  BY <1>1 DEF Pass, ModelOK, Models
<1>6. TypeOK'
  <2>1. held' \in [Devs -> 0..1] /\ \A d \in Live' : held'[d] = 0
    BY DEF Pass, Live
  <2>2. lastFetch' \in 0..RefreshDue
    BY <1>1, ScreenAssumption DEF Pass, TypeOK
  <2> QED BY <1>1, <1>3, <1>4, <2>1, <2>2 DEF Pass, TypeOK, ModelOK
<1>7. OneTickChain'
  BY <1>4 DEF ModelOK, OneTickChain
<1>8. NothingIsMissed'
  BY <1>3, <1>5 DEF Pass, IInv, NothingIsMissed, Announced
<1> QED BY <1>6, <1>7, <1>8 DEF IInv

-----------------------------------------------------------------------------
(* Steps of the user interface.  The store is as it was, but for the       *)
(* message taken from it.                                                  *)
LEMMA ModelKeepsTypes ==
  ASSUME IInv, ModelOK(ui'), row' = row, held' = held,
         loop' \in {loop, "idle"}, bumped' = bumped, lastFetch' = lastFetch,
         asked' \in BOOLEAN, changes' = changes
  PROVE  TypeOK' /\ OneTickChain' /\ Stored' = Stored
<1>1. Stored' = Stored /\ Live' = Live
  BY DEF Stored, Live
<1> QED BY <1>1 DEF IInv, TypeOK, OneTickChain, ModelOK

LEMMA ModelFromIInv == ASSUME IInv PROVE TypeOK /\ ModelOK(ui)
BY DEF IInv, TypeOK, OneTickChain, ModelOK

LEMMA FinishRefreshStep == ASSUME IInv, FinishRefresh PROVE IInv'
<1> DEFINE u == BottomRead([ui EXCEPT !.at = "idle", !.starts = FALSE,
                                      !.marks = Synced(ui)])
<1>1. TypeOK /\ ModelOK(ui)
  BY ModelFromIInv
<1>2. ModelOK(u) /\ u.rows = Stored /\ u.at = "idle" /\ u.help = ui.help
      /\ u.dirty = ui.dirty /\ u.items = ui.items
  <2>1. Synced(ui) \in [Devs -> {Unlisted, Plain} \cup 0..Fade]
    BY <1>1, SyncedType DEF ModelOK
  <2> QED BY <1>1, <2>1, StoredType DEF BottomRead, ModelOK, Models
<1>3. ui' = u \/ ui' = maybeStartFadeTick(u)
  BY DEF FinishRefresh
<1> HIDE DEF u
<1>4. /\ ModelOK(ui') /\ ui'.rows = Stored /\ ui'.help = ui.help
      /\ ui'.dirty = ui.dirty /\ ui'.items = ui.items
  BY <1>2, <1>3, MaybeStartOK
<1>5. TypeOK' /\ OneTickChain' /\ Stored' = Stored
  BY <1>1, <1>4, ModelKeepsTypes DEF FinishRefresh, store, TypeOK
<1>6. NothingIsMissed'
  BY <1>4, <1>5 DEF FinishRefresh, store, IInv, NothingIsMissed, Announced
<1> QED BY <1>5, <1>6 DEF IInv

LEMMA UpdatedStep == ASSUME IInv, Updated PROVE IInv'
<1>1. TypeOK /\ ModelOK(ui)
  BY ModelFromIInv
<1>2. CASE ui.help
  <2> DEFINE u == [ui EXCEPT !.dirty = TRUE]
  <2>1. ModelOK(u) /\ u.help /\ u.dirty
    BY <1>1, <1>2 DEF ModelOK, Models
  <2>2. ui' = maybeStartFadeTick(u)
    BY <1>2 DEF Updated
  <2> HIDE DEF u
  <2>3. ModelOK(ui') /\ ui'.help /\ ui'.dirty
    BY <2>1, <2>2, MaybeStartOK
  <2>4. TypeOK' /\ OneTickChain'
    BY <1>1, <2>3, ModelKeepsTypes DEF Updated, TypeOK
  <2> QED BY <2>3, <2>4 DEF IInv, NothingIsMissed, Announced
<1>3. CASE ~ui.help
  <2> DEFINE u == [ui EXCEPT !.starts = TRUE]
  <2>1. ModelOK(u)
    BY <1>1 DEF ModelOK, Models
  <2>2. ui' = Reading(u)
    BY <1>3 DEF Updated
  <2> HIDE DEF u
  <2>3. ModelOK(ui') /\ ui'.at = "reading" /\ NoGhosts(ui'.items) = Stored
    BY <1>1, <2>1, <2>2, ReadingOK
  <2>4. TypeOK' /\ OneTickChain' /\ Stored' = Stored
    BY <1>1, <2>3, ModelKeepsTypes DEF Updated, TypeOK
  <2> QED BY <2>3, <2>4 DEF IInv, NothingIsMissed
<1> QED BY <1>2, <1>3

LEMMA PeriodicUpdatedStep == ASSUME IInv, PeriodicUpdated PROVE IInv'
<1>1. TypeOK /\ ModelOK(ui)
  BY ModelFromIInv
<1>2. CASE ui.help
  <2> DEFINE u == [ui EXCEPT !.dirty = TRUE]
  <2>1. ModelOK(u) /\ u.help /\ u.dirty
    BY <1>1, <1>2 DEF ModelOK, Models
  <2>2. ui' = maybeStartFadeTick(u)
    BY <1>2 DEF PeriodicUpdated
  <2> HIDE DEF u
  <2>3. ModelOK(ui') /\ ui'.help /\ ui'.dirty
    BY <2>1, <2>2, MaybeStartOK
  <2>4. TypeOK' /\ OneTickChain'
    BY <1>1, <2>3, ModelKeepsTypes DEF PeriodicUpdated, TypeOK
  <2> QED BY <2>3, <2>4 DEF IInv, NothingIsMissed, Announced
<1>3. CASE ~ui.help /\ ui.topMode = "netns"
  <2> DEFINE u == [ui EXCEPT !.starts = TRUE]
  <2>1. ModelOK(u)
    BY <1>1 DEF ModelOK, Models
  <2>2. ui' = Reading(u)
    BY <1>3 DEF PeriodicUpdated
  <2> HIDE DEF u
  <2>3. ModelOK(ui') /\ ui'.at = "reading" /\ NoGhosts(ui'.items) = Stored
    BY <1>1, <2>1, <2>2, ReadingOK
  <2>4. TypeOK' /\ OneTickChain' /\ Stored' = Stored
    BY <1>1, <2>3, ModelKeepsTypes DEF PeriodicUpdated, TypeOK
  <2> QED BY <2>3, <2>4 DEF IInv, NothingIsMissed
<1>4. CASE ~ui.help /\ ui.topMode # "netns"
  <2>1. ui' = maybeStartFadeTick(ui)
    BY <1>4 DEF PeriodicUpdated
  <2>2. /\ ModelOK(ui') /\ ui'.items = ui.items
        /\ ui'.rows = ui.rows
    BY <1>1, <2>1, MaybeStartOK
  <2>3. TypeOK' /\ OneTickChain' /\ Stored' = Stored
    BY <1>1, <2>2, ModelKeepsTypes DEF PeriodicUpdated, TypeOK
  <2> QED BY <1>4, <2>2, <2>3 DEF PeriodicUpdated, IInv, NothingIsMissed, Announced
<1> QED BY <1>2, <1>3, <1>4

(* A tick that is handled leaves none on its way, and so may send one.     *)
LEMMA AnimTickStep == ASSUME IInv, AnimTick PROVE IInv'
<1> DEFINE ended == {d \in Lit(ui.marks) : ui.marks[d] = Fade}
           active == Lit(ui.marks) \ ended # {}
           u == [ui EXCEPT !.ticks = @ - 1, !.fadeClock = 0,
                           !.marks = Ended(ended, @)]
           next == NextTick(u, active)
<1>1. TypeOK /\ ModelOK(ui)
  BY ModelFromIInv
<1>2. u \in Models /\ u.ticks = 0 /\ u.items = ui.items
      /\ u.rows = ui.rows /\ u.help = ui.help /\ u.dirty = ui.dirty /\ u.at = ui.at
  <2>1. Ended(ended, ui.marks) \in [Devs -> {Unlisted, Plain} \cup 0..Fade]
    BY <1>1, MarkTypes DEF ModelOK, Models
  <2>2. ui.ticks - 1 = 0 /\ ui.ticks - 1 \in Nat
    <3>1. ui.ticks > 0 /\ (ui.ticks = 1 \/ ui.ticks = 0)
      BY <1>1 DEF AnimTick, ModelOK
    <3> QED BY <3>1
  <2>3. 0 \in 0..Fade /\ ui \in Models
    BY <1>1, ScreenAssumption DEF ModelOK
  <2> QED BY <1>1, <2>1, <2>2, <2>3 DEF ModelOK, Models
<1>3. \/ ui' = RefreshUnlessHelp(next)
      \/ ui.help /\ ui' = [next EXCEPT !.dirty = TRUE]
      \/ ui' = next
  BY DEF AnimTick
<1> HIDE DEF u
<1>4. ModelOK(next) /\ next.items = ui.items
      /\ next.rows = ui.rows /\ next.help = ui.help /\ next.dirty = ui.dirty
  <2>1. \/ next = [u EXCEPT !.fadeTickActive = TRUE, !.ticks = 1]
        \/ next = [u EXCEPT !.fadeTickActive = FALSE]
    BY <1>2 DEF NextTick
  <2> HIDE DEF next
  <2>2. next \in Models
    <3>1. CASE next = [u EXCEPT !.fadeTickActive = TRUE, !.ticks = 1]
      BY <1>2, <3>1 DEF Models
    <3>2. CASE next = [u EXCEPT !.fadeTickActive = FALSE]
      BY <1>2, <3>2 DEF Models
    <3> QED BY <2>1, <3>1, <3>2
  <2> QED BY <1>1, <1>2, <2>1, <2>2 DEF ModelOK, Models
<1> HIDE DEF next
<1>5. CASE ui' = RefreshUnlessHelp(next) /\ ~ui.help
  <2>1. ModelOK(ui') /\ ui'.at = "reading" /\ NoGhosts(ui'.items) = Stored
    BY <1>1, <1>4, <1>5, RefreshUnlessHelpOK
  <2>2. TypeOK' /\ OneTickChain' /\ Stored' = Stored
    BY <1>1, <2>1, ModelKeepsTypes DEF AnimTick, store, TypeOK
  <2> QED BY <2>1, <2>2 DEF IInv, NothingIsMissed
<1>6. CASE ui.help /\ ui' = [next EXCEPT !.dirty = TRUE]
  <2>1. ModelOK(ui') /\ ui'.help /\ ui'.dirty
    BY <1>4, <1>6 DEF ModelOK, Models
  <2>2. TypeOK' /\ OneTickChain'
    BY <1>1, <2>1, ModelKeepsTypes DEF AnimTick, store, TypeOK
  <2> QED BY <2>1, <2>2 DEF IInv, NothingIsMissed, Announced
<1>7. CASE ui' = next
  <2>1. TypeOK' /\ OneTickChain' /\ Stored' = Stored
    BY <1>1, <1>4, <1>7, ModelKeepsTypes DEF AnimTick, store, TypeOK
  <2> QED BY <1>4, <1>7, <2>1 DEF AnimTick, store, IInv, NothingIsMissed, Announced
<1>8. ui.help /\ ui' = RefreshUnlessHelp(next) => ui' = [next EXCEPT !.dirty = TRUE]
  BY <1>4 DEF RefreshUnlessHelp
<1> QED BY <1>3, <1>5, <1>6, <1>7, <1>8

LEMMA ClockTickStep == ASSUME IInv, ClockTick PROVE IInv'
<1>1. TypeOK /\ ModelOK(ui)
  BY ModelFromIInv
<1>2. /\ ModelOK(ui') /\ ui'.at = ui.at /\ ui'.help = ui.help /\ ui'.rows = ui.rows
      /\ ui'.items = ui.items /\ (ui.dirty => ui'.dirty)
  BY <1>1 DEF ClockTick, ModelOK, Models
<1>3. asked' \in BOOLEAN
  BY DEF ClockTick
<1>4. TypeOK' /\ OneTickChain' /\ Stored' = Stored
  BY <1>2, <1>3, ModelKeepsTypes DEF ClockTick
<1> QED BY <1>2, <1>4 DEF ClockTick, IInv, NothingIsMissed, Announced

LEMMA ReadingStep ==
  ASSUME IInv, NEW u, ModelOK(u), ui' = Reading(u), UNCHANGED <<store, changes>>
  PROVE  IInv'
<1>1. TypeOK
  BY DEF IInv
<1>2. ModelOK(ui') /\ ui'.at = "reading" /\ NoGhosts(ui'.items) = Stored
  BY <1>1, ReadingOK
<1>3. TypeOK' /\ OneTickChain' /\ Stored' = Stored
  BY <1>1, <1>2, ModelKeepsTypes DEF store, TypeOK
<1> QED BY <1>2, <1>3 DEF IInv, NothingIsMissed

LEMMA KeyTopStep == ASSUME IInv, KeyTop PROVE IInv'
<1>1. PICK top \in {"vrf", "netns"} : ui' = Reading([ui EXCEPT !.topMode = top])
  BY DEF KeyTop
<1>2. ModelOK([ui EXCEPT !.topMode = top])
  BY ModelFromIInv DEF ModelOK, Models
<1> QED BY <1>1, <1>2, ReadingStep DEF KeyTop

LEMMA KeyBottomStep == ASSUME IInv, KeyBottom PROVE IInv'
<1>1. TypeOK /\ ModelOK(ui)
  BY ModelFromIInv
<1>2. /\ ModelOK(ui') /\ ui'.rows = Stored /\ ui'.help = ui.help
      /\ ui'.dirty = ui.dirty /\ ui'.items = ui.items
  BY <1>1, StoredType DEF KeyBottom, BottomRead, ModelOK, Models
<1>3. TypeOK' /\ OneTickChain' /\ Stored' = Stored
  BY <1>1, <1>2, ModelKeepsTypes DEF KeyBottom, store, TypeOK
<1> QED BY <1>2, <1>3 DEF KeyBottom, store, IInv, NothingIsMissed, Announced

LEMMA KeyHelpStep == ASSUME IInv, KeyHelp PROVE IInv'
<1>1. TypeOK /\ ModelOK(ui)
  BY ModelFromIInv
<1>2. /\ ModelOK(ui') /\ ui'.at = ui.at /\ ui'.rows = ui.rows
      /\ ui'.items = ui.items
  BY <1>1 DEF KeyHelp, ModelOK, Models
<1>3. TypeOK' /\ OneTickChain' /\ Stored' = Stored
  BY <1>1, <1>2, ModelKeepsTypes DEF KeyHelp, store, TypeOK
<1> QED BY <1>2, <1>3 DEF KeyHelp, store, IInv, NothingIsMissed, Announced

(* What the help hid is read again when it closes, if it is out of date.   *)
LEMMA KeyCloseHelpStep == ASSUME IInv, KeyCloseHelp PROVE IInv'
<1> DEFINE u == [ui EXCEPT !.help = FALSE, !.dirty = FALSE]
<1>1. TypeOK /\ ModelOK(ui)
  BY ModelFromIInv
<1>2. /\ ModelOK(u) /\ u.at = ui.at /\ u.rows = ui.rows
      /\ u.items = ui.items
  BY <1>1 DEF ModelOK, Models
<1>3. CASE ui.dirty
  BY <1>2, <1>3, ReadingStep DEF KeyCloseHelp
<1>4. CASE ~ui.dirty
  <2>1. ui' = u
    BY <1>4 DEF KeyCloseHelp
  <2> HIDE DEF u
  <2>2. TypeOK' /\ OneTickChain' /\ Stored' = Stored
    BY <1>1, <1>2, <2>1, ModelKeepsTypes DEF KeyCloseHelp, store, TypeOK
  <2> QED BY <1>2, <1>4, <2>1, <2>2
          DEF KeyCloseHelp, store, IInv, NothingIsMissed, Announced
<1> QED BY <1>3, <1>4

LEMMA ResizeStep == ASSUME IInv, Resize PROVE IInv'
<1>1. TypeOK /\ ModelOK(ui)
  BY ModelFromIInv
<1>2. CASE ~ui.help
  BY <1>1, <1>2, ReadingStep DEF Resize, RefreshUnlessHelp
<1>3. CASE ui.help
  <2>1. ModelOK(ui') /\ ui'.help /\ ui'.dirty
    BY <1>1, <1>3 DEF Resize, RefreshUnlessHelp, ModelOK, Models
  <2>2. TypeOK' /\ OneTickChain'
    BY <1>1, <2>1, ModelKeepsTypes DEF Resize, store, TypeOK
  <2> QED BY <2>1, <2>2 DEF IInv, NothingIsMissed, Announced
<1> QED BY <1>2, <1>3

-----------------------------------------------------------------------------
LEMMA InitOK == Init => IInv
<1> SUFFICES ASSUME Init PROVE IInv
  OBVIOUS
<1>1. /\ Live = {} /\ \A d \in Devs : row[d] \in Rows
      /\ NoGhosts(ui.items) = Stored /\ ui.rows = Stored
  BY DEF Init, Live, Rows, NoRow, Row, NoGhosts, Stored, NoData, Ghost
<1>2. 0 \in 0..Fade /\ RefreshDue \in 0..RefreshDue /\ 0 \in 0..MaxChanges
  BY ScreenAssumption
<1>3. ui \in Models
  BY <1>2 DEF Init, Models, Dumps
<1>4. TypeOK
  <2>1. row \in [Devs -> Rows] /\ held \in [Devs -> 0..1]
    BY <1>1 DEF Init
  <2> QED BY <1>1, <1>2, <1>3, <2>1 DEF Init, TypeOK
<1> QED BY <1>1, <1>4 DEF Init, IInv, OneTickChain, NothingIsMissed

LEMMA StepOK == IInv /\ [Next]_vars => IInv'
<1> SUFFICES ASSUME IInv, [Next]_vars PROVE IInv'
  OBVIOUS
<1>1. CASE Prepare
  BY <1>1, PrepareStep
<1>2. CASE Complete
  BY <1>2, CompleteStep
<1>3. CASE FetchLatest
  BY <1>3, FetchLatestStep
<1>4. CASE FadeTick
  BY <1>4, FadeTickStep
<1>5. CASE Pass
  BY <1>5, PassStep
<1>6. CASE FinishRefresh
  BY <1>6, FinishRefreshStep
<1>7. CASE Updated
  BY <1>7, UpdatedStep
<1>8. CASE PeriodicUpdated
  BY <1>8, PeriodicUpdatedStep
<1>9. CASE AnimTick
  BY <1>9, AnimTickStep
<1>10. CASE ClockTick
  BY <1>10, ClockTickStep
<1>11. CASE KeyTop
  BY <1>11, KeyTopStep
<1>12. CASE KeyBottom
  BY <1>12, KeyBottomStep
<1>13. CASE KeyHelp
  BY <1>13, KeyHelpStep
<1>14. CASE KeyCloseHelp
  BY <1>14, KeyCloseHelpStep
<1>15. CASE Resize
  BY <1>15, ResizeStep
<1>16. CASE UNCHANGED vars
  BY <1>16 DEF vars, IInv, TypeOK, OneTickChain, NothingIsMissed, Announced, Live, Stored
<1> QED
  BY <1>1, <1>2, <1>3, <1>4, <1>5, <1>6, <1>7, <1>8, <1>9, <1>10, <1>11, <1>12, <1>13,
     <1>14, <1>15, <1>16 DEF Next

LEMMA Inductive == Spec => []IInv
BY InitOK, StepOK, PTL DEF Spec

-----------------------------------------------------------------------------
(* A reference that is in use is never held as well, and no row, age,      *)
(* counter or field of the Model leaves its range (buildCompactHold,       *)
(* reconcile, advanceMeta, Model).                                         *)
THEOREM ScreenTypes == Spec => []TypeOK
<1>1. IInv => TypeOK
  BY DEF IInv
<1> QED BY <1>1, Inductive, PTL

(* At any time one animation tick is on its way if the Model thinks so,    *)
(* and none otherwise (animTickMsg, maybeStartFadeTick).                   *)
THEOREM TicksComeInOneChain == Spec => []OneTickChain
<1>1. IInv => OneTickChain
  BY DEF IInv
<1> QED BY <1>1, Inductive, PTL

(* Where the screen differs from the store in what is there, or in what a  *)
(* fingerprint covers, it is about to be read again: a message is to come, *)
(* the rest of a refresh is, or the help covers it.  Interfaces listed     *)
(* while they were held are left out, and so is what no fingerprint covers *)
(* (reconcile, applyLockedUpdate, Model.Update).                           *)
THEOREM NoChangeStaysUnseen == Spec => []NothingIsMissed
<1>1. IInv => NothingIsMissed
  BY DEF IInv
<1> QED BY <1>1, Inductive, PTL
=============================================================================
