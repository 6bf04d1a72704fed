-------------------------------- MODULE Screen --------------------------------
(***************************************************************************)
(* From the store to the screen: who tells the user interface that the     *)
(* store has changed, what it reads then, and how highlights run out       *)
(* (internal/store/event_loop.go, fade.go, references.go and               *)
(* internal/app/model.go).                                                 *)
(*                                                                         *)
(* The event loop changes the store under a lock, which it gives up while  *)
(* the kernel is asked, and sends a message only after it has let the lock *)
(* go for good.  The user interface takes one message at a time, and a     *)
(* refresh takes several read locks, one after the other: the list of the  *)
(* top pane first, the rows of the bottom pane later.  Highlights in the   *)
(* top pane are the Model's own; one chain of animation ticks keeps them   *)
(* and the store's in motion.  While the help is shown, nothing is         *)
(* refreshed.                                                              *)
(*                                                                         *)
(* The store has one table with at most one row per interface, which       *)
(* stands for those of interfaces, neighbours, routes and forwarding       *)
(* entries: an interface is listed in the top pane while a row refers to   *)
(* it, and both panes show the row's contents.  Of a row's contents only   *)
(* the fingerprint is compared with what was there before; the rest is     *)
(* replaced and nobody is told.  The list of namespaces, which stands for  *)
(* the process rows too, is never compared (sockets in use, load).  Rows   *)
(* are stamped with the time at which they are applied: the lag of stamps  *)
(* is the subject of Records.                                              *)
(***************************************************************************)
EXTENDS Integers, FiniteSets

CONSTANTS
  Devs,        \* the interfaces
  Contents,    \* what a row may say
  Fingerprint, \* [Contents -> the part that is compared]
  Fade,        \* constants.FadeDuration, in units of VrfCompactReferenceHold
  RefreshDue,  \* constants.RuntimeRefreshInterval, in the same unit
  MaxChanges   \* bound: how often the kernel's tables change

ASSUME ScreenAssumption ==
  /\ Fade \in Nat \ {0} /\ RefreshDue \in Nat \ {0} /\ MaxChanges \in Nat
  /\ {"none", "ghost"} \cap (Contents \cup {Fingerprint[c] : c \in Contents}) = {}

VARIABLES
  row,       \* [Devs -> row and its metadata]
  held,      \* the time for which a reference that went is still shown
  loop,      \* where the event loop is: "idle", "open" (lock given up), or
             \* sending "updated" or "periodic"
  bumped,    \* metaRevision has changed since the handler began
  lastFetch, \* age of runtimeState.lastRuntime
  asked,     \* a FetchLatest event is queued
  ui,        \* the Model
  changes    \* bound: changes of the kernel's tables so far

store == <<row, held, loop, bumped, lastFetch, asked>>
vars == <<row, held, loop, bumped, lastFetch, asked, ui, changes>>

-----------------------------------------------------------------------------
(* What is there of an interface without a row, and what is shown of one   *)
(* that is held.                                                           *)
NoData == "none"
Ghost == "ghost"
FingerprintOf(data) == IF data \in Contents THEN Fingerprint[data] ELSE data
FingerprintsOf(shown) == [d \in Devs |-> FingerprintOf(shown[d])]

Row(state, age, data) == [state |-> state, age |-> age, data |-> data]
NoRow == Row("absent", 0, NoData)
Fading(r) == r.state \in {"added", "updated", "removed"}
Rows == {NoRow} \cup [state : {"none"}, age : {0}, data : Contents]
        \cup [state : {"added", "updated", "removed"}, age : 0..Fade, data : Contents]
Meta(r) == [state |-> r.state, age |-> r.age, print |-> FingerprintOf(r.data)]

Dumps == [Devs -> Contents \cup {NoData}]
Stored == [d \in Devs |-> row[d].data]
Live == {d \in Devs : row[d] # NoRow}
HasActiveFades == \E d \in Devs : Fading(row[d])

(* Ages of a highlight in the top pane.                                    *)
Unlisted == -2
Plain == -1
Lit(marks) == {d \in Devs : marks[d] \in 0..Fade}

Older(age) == IF age < Fade THEN age + 1 ELSE Fade
OlderMarks(marks) == [d \in Devs |-> IF marks[d] \in 0..Fade THEN Older(marks[d])
                                                             ELSE marks[d]]

(* The Model.  `items' are the top pane, `rows' the bottom pane, with the  *)
(* contents as they were read; a ghost is an item that was held when it    *)
(* was read, and `outdated' (history) whether the list of namespaces has   *)
(* changed since.  Of the animation ticks those on their way are counted.  *)
Models == [at : {"idle", "reading"}, help : BOOLEAN, dirty : BOOLEAN,
           starts : BOOLEAN, topMode : {"vrf", "netns"},
           ticks : Nat, fadeTickActive : BOOLEAN, fadeClock : 0..Fade,
           marks : [Devs -> {Unlisted, Plain} \cup 0..Fade],
           items : [Devs -> Contents \cup {NoData, Ghost}], rows : Dumps,
           outdated : BOOLEAN]

-----------------------------------------------------------------------------
TypeOK ==
  /\ row \in [Devs -> Rows]
  /\ held \in [Devs -> 0..1] /\ \A d \in Live : held[d] = 0
  /\ loop \in {"idle", "open", "updated", "periodic"}
  /\ {bumped, asked} \subseteq BOOLEAN /\ lastFetch \in 0..RefreshDue
  /\ ui \in Models
  /\ changes \in 0..MaxChanges

(* store.New, NewModel and Init: the store is empty, and the first fetch   *)
(* has been asked for.                                                     *)
Init ==
  /\ row = [d \in Devs |-> NoRow] /\ held = [d \in Devs |-> 0]
  /\ loop = "idle" /\ bumped = FALSE /\ lastFetch = RefreshDue /\ asked = TRUE
  /\ ui = [at |-> "idle", help |-> FALSE, dirty |-> FALSE, starts |-> FALSE,
           topMode |-> "vrf", ticks |-> 0, fadeTickActive |-> FALSE,
           fadeClock |-> 0, marks |-> [d \in Devs |-> Unlisted],
           items |-> [d \in Devs |-> NoData], rows |-> [d \in Devs |-> NoData],
           outdated |-> FALSE]
  /\ changes = 0

-----------------------------------------------------------------------------
(* The event loop.                                                         *)

(* reconcile: what the dump says of an interface against its row.          *)
Reconciled(r, data) ==
  CASE data = NoData -> IF r = NoRow \/ r.state = "removed" THEN r
                        ELSE Row("removed", 0, r.data)
    [] data # NoData /\ (r = NoRow \/ r.state = "removed") -> Row("added", 0, data)
    [] OTHER -> IF FingerprintOf(data) # FingerprintOf(r.data) THEN Row("updated", 0, data)
                ELSE [r EXCEPT !.data = data]
(* advanceMeta.                                                            *)
Advanced(r) ==
  IF ~Fading(r) \/ r.age < Fade THEN r
  ELSE IF r.state = "removed" THEN NoRow ELSE Row("none", 0, r.data)

(* Mutated form: what is used again stays held.                            *)
HeldThoughUsed(before, rows) ==
  [d \in Devs |-> IF rows[d] = NoRow /\ before.row[d] # NoRow THEN 1 ELSE before.held[d]]
(* rebuildReferenceMaps, buildCompactHold: a removed row still refers to   *)
(* its interface, until its fade has ended; then the interface is held.    *)
Held(before, rows) ==
  [d \in Devs |-> IF rows[d] # NoRow THEN 0
                  ELSE IF before.row[d] # NoRow THEN 1 ELSE before.held[d]]

(* pruneNamespaceCaches: the rows of a namespace go with it, and all that  *)
(* was held.                                                               *)
Pruned(gone) ==
  [row |-> [d \in Devs |-> IF d \in gone THEN NoRow ELSE row[d]],
   held |-> [d \in Devs |-> IF d \in gone THEN 0 ELSE held[d]]]

(* Mutated form: a changed fingerprint is highlighted and not reported.    *)
BumpedButForUpdates(before, rows) ==
  bumped \/ before.row # row
  \/ \E d \in Devs : rows[d].state \notin {before.row[d].state, "updated"}
(* Whether metaRevision has changed by the end of the handler: rows have   *)
(* gone with their namespace, or reconcile, Advance or the references      *)
(* found a change.  Contents alone are none.                               *)
Bumped(before, rows) ==
  bumped \/ before.row # row
  \/ \E d \in Devs : Meta(rows[d]) # Meta(before.row[d])

(* reconcile of a dump and Advance; the end of applyLockedUpdate, and      *)
(* runLoop with its answer.                                                *)
Applied(before, dump) ==
  [d \in Devs |-> Advanced(Reconciled(before.row[d], dump[d]))]
Answer(before, rows, onNoChange) ==
  /\ row' = rows /\ held' = Held(before, rows)
  /\ loop' = IF Bumped(before, rows) THEN "updated" ELSE onNoChange
  /\ bumped' = FALSE

(* A sync, and a fetch with what it counts, may change the list.           *)
NamespacesMayChange == \E new \in BOOLEAN : ui' = [ui EXCEPT !.outdated = @ \/ new]
Counted == changes < MaxChanges /\ changes' = changes + 1

(* A handler that reloads a namespace begins.  If it is a sync, it has     *)
(* changed the list before it gives the lock up.                           *)
Prepare ==
  /\ loop = "idle" /\ Counted
  /\ \E gone \in SUBSET Devs :
       row' = Pruned(gone).row /\ held' = Pruned(gone).held
  /\ bumped' = (row' # row)
  /\ NamespacesMayChange /\ loop' = "open"
  /\ UNCHANGED <<lastFetch, asked>>

(* The dumps are applied, and Advance ends the handler.                    *)
Complete ==
  /\ loop = "open"
  /\ \E dump \in Dumps : Answer(Pruned({}), Applied(Pruned({}), dump), "idle")
  /\ UNCHANGED <<lastFetch, asked, ui, changes>>

(* applyFetchLatest never gives the lock up.                               *)
FetchLatest ==
  /\ loop = "idle" /\ asked
  /\ \/ /\ Counted
        /\ \E gone \in SUBSET Devs, dump \in Dumps :
             Answer(Pruned(gone), Applied(Pruned(gone), dump), "periodic")
        /\ NamespacesMayChange
     \/ /\ Answer(Pruned({}), [d \in Devs |-> Advanced(row[d])], "periodic")
        /\ UNCHANGED <<ui, changes>>
  /\ asked' = FALSE /\ lastFetch' = 0

(* applyFadeTick when no reload is due.                                    *)
FadeTick ==
  /\ loop = "idle"
  /\ Answer(Pruned({}), [d \in Devs |-> Advanced(row[d])], "idle")
  /\ UNCHANGED <<lastFetch, asked, ui, changes>>

(* External: time passes.                                                  *)
Pass ==
  /\ row' = [d \in Devs |-> IF Fading(row[d]) THEN [row[d] EXCEPT !.age = Older(@)]
                                              ELSE row[d]]
  /\ held' = [d \in Devs |-> 0]
  /\ lastFetch' = IF lastFetch < RefreshDue THEN lastFetch + 1 ELSE RefreshDue
  /\ ui' = [ui EXCEPT !.fadeClock = Older(@), !.marks = OlderMarks(@)]
  /\ UNCHANGED <<loop, bumped, asked, changes>>

-----------------------------------------------------------------------------
(* The user interface.                                                     *)

(* refreshTopAndBottom, refreshTopItems: the list of the top pane, with    *)
(* what is held.                                                           *)
Reading(u) ==
  [u EXCEPT !.at = "reading", !.outdated = FALSE,
            !.items = [d \in Devs |-> IF d \in Live THEN row[d].data
                                      ELSE IF held[d] > 0 THEN Ghost ELSE NoData]]

(* syncTopParentMeta: highlights of what is listed, as of the fade clock.  *)
Synced(u) ==
  [d \in Devs |-> IF u.items[d] = NoData THEN Unlisted
                  ELSE IF u.marks[d] = Unlisted THEN u.fadeClock ELSE u.marks[d]]

(* Mutated form: highlights of the top pane start no tick.                 *)
maybeStartFadeTickForStore(u) ==
  IF u.fadeTickActive \/ ~HasActiveFades THEN u
  ELSE [u EXCEPT !.fadeTickActive = TRUE, !.ticks = @ + 1]
(* Mutated form: whether a tick is on its way is not asked.                *)
maybeStartFadeTickAlways(u) ==
  IF ~HasActiveFades /\ Lit(u.marks) = {} THEN u
  ELSE [u EXCEPT !.fadeTickActive = TRUE, !.ticks = @ + 1]
maybeStartFadeTick(u) ==
  IF u.fadeTickActive \/ (~HasActiveFades /\ Lit(u.marks) = {}) THEN u
  ELSE [u EXCEPT !.fadeTickActive = TRUE, !.ticks = @ + 1]

(* buildBottom reads the rows of the selection, those that fade included.  *)
BottomRead(u) == [u EXCEPT !.rows = Stored]

(* The rest of a refresh, and of the handler that began it.                *)
FinishRefresh ==
  /\ ui.at = "reading"
  /\ LET u == BottomRead([ui EXCEPT !.at = "idle", !.starts = FALSE,
                                    !.marks = Synced(ui)])
     IN  ui' = IF ui.starts THEN maybeStartFadeTick(u) ELSE u
  /\ UNCHANGED <<store, changes>>

(* A handler refreshes, or marks what the help hides as out of date.       *)
RefreshUnlessHelp(u) == IF u.help THEN [u EXCEPT !.dirty = TRUE] ELSE Reading(u)

(* InventoryUpdatedMsg; InventoryPeriodicUpdatedMsg.                       *)
Updated ==
  /\ ui.at = "idle" /\ loop = "updated"
  /\ ui' = IF ui.help THEN maybeStartFadeTick([ui EXCEPT !.dirty = TRUE])
                      ELSE Reading([ui EXCEPT !.starts = TRUE])
  /\ loop' = "idle"
  /\ UNCHANGED <<row, held, bumped, lastFetch, asked, changes>>

PeriodicUpdated ==
  /\ ui.at = "idle" /\ loop = "periodic"
  /\ ui' = IF ui.help THEN maybeStartFadeTick([ui EXCEPT !.dirty = TRUE])
           ELSE IF ui.topMode = "netns" THEN Reading([ui EXCEPT !.starts = TRUE])
           ELSE maybeStartFadeTick(ui)
  /\ loop' = "idle"
  /\ UNCHANGED <<row, held, bumped, lastFetch, asked, changes>>

(* The chain goes on while there is anything to animate.                   *)
NextTick(u, active) ==
  IF HasActiveFades \/ active THEN [u EXCEPT !.fadeTickActive = TRUE, !.ticks = @ + 1]
                              ELSE [u EXCEPT !.fadeTickActive = FALSE]

Ended(ended, marks) == [d \in Devs |-> IF d \in ended THEN Plain ELSE marks[d]]

(* animTickMsg.  Unless highlights of the top pane are involved, the rows  *)
(* are drawn again but not read again.                                     *)
AnimTick ==
  /\ ui.at = "idle" /\ ui.ticks > 0
  /\ LET ended == {d \in Lit(ui.marks) : ui.marks[d] = Fade}
         active == Lit(ui.marks) \ ended # {}
         u == [ui EXCEPT !.ticks = @ - 1, !.fadeClock = 0,
                         !.marks = Ended(ended, @)]
         next == NextTick(u, active)
     IN  ui' = IF Lit(ui.marks) # {} THEN RefreshUnlessHelp(next)
               ELSE IF HasActiveFades /\ ui.help THEN [next EXCEPT !.dirty = TRUE]
               ELSE next
  /\ UNCHANGED <<store, changes>>

(* clockTickMsg.                                                           *)
ClockTick ==
  /\ ui.at = "idle"
  /\ asked' = (asked \/ lastFetch = RefreshDue)
  /\ ui' = IF ui.help THEN [ui EXCEPT !.dirty = TRUE] ELSE ui
  /\ UNCHANGED <<row, held, loop, bumped, lastFetch, changes>>

(* Keys that change the mode or the selection of the top pane, and one     *)
(* that draws the bottom pane only.                                        *)
KeyTop ==
  /\ ui.at = "idle" /\ ~ui.help
  /\ \E top \in {"vrf", "netns"} : ui' = Reading([ui EXCEPT !.topMode = top])
  /\ UNCHANGED <<store, changes>>
KeyBottom ==
  /\ ui.at = "idle" /\ ~ui.help
  /\ ui' = BottomRead(ui)
  /\ UNCHANGED <<store, changes>>
KeyHelp ==
  /\ ui.at = "idle" /\ ~ui.help
  /\ ui' = [ui EXCEPT !.help = TRUE, !.dirty = FALSE]
  /\ UNCHANGED <<store, changes>>
KeyCloseHelp ==
  /\ ui.at = "idle" /\ ui.help
  /\ LET u == [ui EXCEPT !.help = FALSE, !.dirty = FALSE]
     IN  ui' = IF ui.dirty THEN Reading(u) ELSE u
  /\ UNCHANGED <<store, changes>>
Resize ==
  /\ ui.at = "idle"
  /\ ui' = RefreshUnlessHelp(ui)
  /\ UNCHANGED <<store, changes>>

-----------------------------------------------------------------------------
Next ==
  \/ Prepare \/ Complete \/ FetchLatest \/ FadeTick \/ Pass
  \/ FinishRefresh \/ Updated \/ PeriodicUpdated \/ AnimTick \/ ClockTick
  \/ KeyTop \/ KeyBottom \/ KeyHelp \/ KeyCloseHelp \/ Resize

(* The fade ticker never stops and the event loop takes its events in      *)
(* order.  Keys, timers and the store's messages reach the user interface  *)
(* through one channel whose senders wait in line, so that none of them    *)
(* is overtaken for ever.  Nothing is assumed of keys.                     *)
Fairness ==
  /\ WF_vars(Complete) /\ WF_vars(FetchLatest) /\ WF_vars(FadeTick) /\ WF_vars(Pass)
  /\ WF_vars(FinishRefresh)
  /\ SF_vars(Updated) /\ SF_vars(PeriodicUpdated) /\ SF_vars(AnimTick) /\ SF_vars(ClockTick)

Spec == Init /\ [][Next]_vars /\ Fairness

-----------------------------------------------------------------------------
(* The animation runs in one chain of ticks: one is on its way exactly     *)
(* while the Model thinks so.  Two chains would never merge again, and a   *)
(* chain that is thought to run and does not would freeze the highlights   *)
(* (model.go, animTickMsg and maybeStartFadeTick).                         *)
OneTickChain == ui.ticks = IF ui.fadeTickActive THEN 1 ELSE 0

Announced == loop = "updated" \/ (loop = "open" /\ bumped) \/ (ui.help /\ ui.dirty)
NoGhosts(shown) == [d \in Devs |-> IF shown[d] = Ghost THEN NoData ELSE shown[d]]
(* The interfaces listed and the rows shown are those of the store, and    *)
(* what they say agrees with the store in everything a fingerprint covers, *)
(* or a message that makes the Model read it again is still to come, or    *)
(* the help covers it and closing it will.  Two things are not promised.   *)
(* An interface that was held when it was read may be listed after its     *)
(* hold has ended; and what no fingerprint covers (state, address and      *)
(* rates of a link) is as old as the last refresh (applyLockedUpdate,      *)
(* reconcile, Update; refreshTopAndBottom reads under several locks).      *)
NothingIsMissed ==
  /\ FingerprintsOf(NoGhosts(ui.items)) # FingerprintsOf(Stored) => Announced
  /\ FingerprintsOf(ui.rows) # FingerprintsOf(Stored) => Announced \/ ui.at = "reading"

(* Once the kernel's tables stay as they are, highlights in the top pane   *)
(* end, also those that began with a key press and without a tick.  Where  *)
(* namespaces are listed, their list, and the rows with all they say, come *)
(* up to date although nothing announces it.                               *)
ScreenSettles ==
  <>[](/\ Lit(ui.marks) = {}
       /\ ui.topMode = "netns" /\ ~ui.help => ~ui.outdated /\ ui.rows = Stored)
=============================================================================
