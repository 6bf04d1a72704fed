------------------------------ MODULE EventLoop ------------------------------
(***************************************************************************)
(* The store's event loop and its reload scheduler                         *)
(* (internal/store/event_loop.go), with the namespace inventory it keeps   *)
(* and the netlink subscriptions that feed it.                             *)
(*                                                                         *)
(* One goroutine takes stamped events from a bounded queue.  A netlink     *)
(* event marks a namespace dirty and schedules a reload: soon after the    *)
(* event (NLMsgAggregationTimer), or a whole NLMsgThrottleInterval after   *)
(* the last reload when that one was recent.  A reload is run by the first *)
(* event handled when it is due, whichever it is; the timer only makes     *)
(* sure there is one.  During the dumps the lock is free, the kernel goes  *)
(* on changing and the queue goes on filling.                              *)
(*                                                                         *)
(* Times are relative to the clock: due = dueAt - clock,                   *)
(* refreshed = clock - refreshedAt, lag = clock - at.  Rows are abstracted *)
(* to whether they are what the kernel would answer now: `current' holds   *)
(* the <<namespace, kind>> pairs for which they are.                       *)
(*                                                                         *)
(* The loop goroutine is the only one that writes the inventory and the    *)
(* reload entries, so a handler is three steps: its part before the dumps, *)
(* one step per dump, and its part after them.                             *)
(***************************************************************************)
EXTENDS Integers, Sequences, FiniteSets

CONSTANTS
  Namespaces,   \* namespaces that may exist
  Kinds,        \* kinds of dump (nlReloadKind)
  Links,        \* the kind nlReloadInterfaces
  Aggregation,  \* constants.NLMsgAggregationTimer, in clock units
  Throttle,     \* constants.NLMsgThrottleInterval, in clock units
  QueueCap,     \* capacity of eventCh
  MaxLag        \* an event is handled, a timer fires, at most this late

ASSUME KindsAssumption == Links \in Kinds
ASSUME TimeAssumption ==
  /\ Aggregation \in Nat \ {0} /\ Throttle \in Nat /\ MaxLag \in Nat
  /\ Aggregation <= Throttle
ASSUME QueueAssumption == QueueCap \in Nat \ {0}

VARIABLES
  found,       \* namespaces a discovery would return now
  subscribed,  \* namespaces the listener has a subscription for (subs)
  targets,     \* the namespaces the listener last read from the inventory
  notify,      \* netlink messages sent to a subscription, not received yet
  known,       \* inventory.namespaceState
  current,     \* pairs whose rows are what the kernel has
  entry,       \* reloadState.ns
  queue,       \* eventCh
  timers,      \* timers started with time.AfterFunc
  busy,        \* the handler whose dumps are running, or Idle
  lost         \* history: pairs left out of date, see NoLostUpdate

vars == <<found, subscribed, targets, notify, known, current, entry, queue,
          timers, busy, lost>>

-----------------------------------------------------------------------------
PairsOf(nss) == nss \X Kinds
Lags == 0..MaxLag

(***************************************************************************)
(* reloadState.ns[ns].  NotDue stands for a zero dueAt: it is later than   *)
(* any dueAt, so the earlier of the two is the other one.  Never stands    *)
(* for a zero refreshedAt and for any so old that it throttles no event.   *)
(* A missing entry and one with only zero fields behave alike.             *)
(***************************************************************************)
NotDue == Throttle + 1
Never == Throttle + MaxLag
ZeroEntry == [pending |-> FALSE, dirty |-> {}, due |-> NotDue, refreshed |-> Never]
Entry == [pending : BOOLEAN, dirty : SUBSET Kinds, due : -MaxLag..NotDue,
          refreshed : 0..Never]

(* Queued events.  A scheduled reload carries a namespace the handler does *)
(* not look at.                                                            *)
Event(kind, lag) == [kind |-> kind, lag |-> lag]
ReloadEvent(ns, mask) == [kind |-> "reload", lag |-> 0, ns |-> ns, mask |-> mask]
Events ==
  [kind : {"fetch", "sync", "fade", "scheduled"}, lag : Lags]
    \cup [kind : {"reload"}, lag : Lags, ns : Namespaces, mask : SUBSET Kinds]

(* A handler during its dumps: what it has collected, per pair.            *)
Dump == {"todo", "reading", "fresh", "stale", "failed"}
Handlers(nss) == [by : {"due", "fetch"}, lag : Lags,
                  got : UNION {[S -> Dump] : S \in SUBSET PairsOf(nss)}]
Idle == [by |-> "due", lag |-> 0, got |-> [p \in {} |-> "todo"]]
Work(pairs, by, lag) ==
  IF pairs = {} THEN Idle
  ELSE [by |-> by, lag |-> lag, got |-> [p \in pairs |-> "todo"]]
InWork == DOMAIN busy.got
WorkNamespaces == {p[1] : p \in InWork}

TypeOK ==
  /\ found \subseteq Namespaces /\ subscribed \subseteq Namespaces
  /\ known \subseteq Namespaces /\ targets \subseteq Namespaces
  /\ notify \subseteq PairsOf(Namespaces)
  /\ current \subseteq PairsOf(known)
  /\ entry \in [Namespaces -> Entry]
  /\ queue \in Seq(Events) /\ Len(queue) <= QueueCap
  /\ timers \subseteq Namespaces \X (-MaxLag..Throttle)
  /\ busy \in Handlers(known)
  /\ lost \subseteq PairsOf(Namespaces)

Init ==
  /\ found \in SUBSET Namespaces
  /\ subscribed = {} /\ targets = {} /\ notify = {}
  /\ known = {} /\ current = {}
  /\ entry = [ns \in Namespaces |-> ZeroEntry]
  /\ queue = <<Event("fetch", 0)>>
  /\ timers = {} /\ busy = Idle /\ lost = {}

-----------------------------------------------------------------------------
(* Mutated form: an event is queued whether there is room or not.          *)
EnqueueAlways(ev) == queue' = Append(queue, ev)

(* enqueueEvent: the newest event is dropped when the queue is full.       *)
Enqueue(ev) == queue' = IF Len(queue) < QueueCap THEN Append(queue, ev) ELSE queue
QueueFull == Len(queue) >= QueueCap
Queued(kind) == \E i \in DOMAIN queue : queue[i].kind = kind

(* The kinds whose rows a netlink event makes the loop read again: a link  *)
(* event reloads everything (applyLinkEvent).                              *)
Mask(kind) == IF kind = Links THEN Kinds ELSE {kind}

(* The kinds whose rows a change in the kernel alters: all of them name    *)
(* links.                                                                  *)
Affected(kind) == IF kind = Links THEN Kinds ELSE {kind}

(* Mutated form: the throttle interval is not looked at.                   *)
DueTimeUnthrottled(e, lag) == Aggregation - lag

(* Mutated form: the due time of the newest event replaces an earlier one. *)
LatestDue(s, t) == t

(* collectNamespaceReloadLocked on one entry.                              *)
DueTime(e, lag) ==
  IF e.refreshed - lag < Throttle THEN Throttle - e.refreshed
                                  ELSE Aggregation - lag
Earlier(s, t) == IF s < t THEN s ELSE t

(* Mutated form: the newest event's kinds replace those already dirty.     *)
CollectedNewest(e, mask, lag) ==
  IF mask = {} THEN e
  ELSE [pending |-> TRUE, dirty |-> mask,
        due |-> Earlier(e.due, DueTime(e, lag)), refreshed |-> e.refreshed]

Collected(e, mask, lag) ==
  IF mask = {} THEN e
  ELSE [pending |-> TRUE, dirty |-> e.dirty \cup mask,
        due |-> Earlier(e.due, DueTime(e, lag)), refreshed |-> e.refreshed]

(* An entry taken up by applyDueNamespaceReloadLocked.                     *)
IsDue(e, lag) == e.pending /\ e.due <= -lag

(* Mutated form: the due time is not reset.                                *)
TakenUpDueKept(e) ==
  [pending |-> FALSE, dirty |-> {}, due |-> e.due, refreshed |-> e.refreshed]
TakenUp(e) ==
  [pending |-> FALSE, dirty |-> {}, due |-> NotDue, refreshed |-> e.refreshed]

(***************************************************************************)
(* The scheduling half of a handler, up to the point where it releases the *)
(* lock for the dumps: `marked' gives the kinds it makes dirty in each     *)
(* namespace, `before' the entries it starts from and nss the namespaces   *)
(* that have a state.  Entries of other namespaces are consumed too.       *)
(***************************************************************************)
Schedule(before, marked, nss, lag) ==
  LET e == [ns \in Namespaces |-> Collected(before[ns], marked[ns], lag)]
      dueNow == {ns \in Namespaces : IsDue(e[ns], lag)}
      started == {ns \in Namespaces : marked[ns] # {} /\ ~before[ns].pending}
      work == {p \in PairsOf(dueNow \cap nss) : p[2] \in e[p[1]].dirty}
  IN  /\ entry' = [ns \in Namespaces |-> IF ns \in dueNow THEN TakenUp(e[ns])
                                                          ELSE e[ns]]
      /\ timers' = timers \cup {<<ns, e[ns].due>> : ns \in started}
      /\ busy' = Work(work, "due", lag)
      /\ lost' = (lost \cap PairsOf(nss)) \ work

(* syncNamespaces, which succeeds or changes nothing: rows, entries and    *)
(* metadata of namespaces that are gone are pruned, new ones start with an *)
(* empty topology.                                                         *)
Sync ==
  /\ known' = found
  /\ current' = current \cap PairsOf(found)
PrunedEntries(nss) == [ns \in Namespaces |-> IF ns \in nss THEN entry[ns] ELSE ZeroEntry]
Nothing == [ns \in Namespaces |-> {}]

-----------------------------------------------------------------------------
(* The loop takes the next event when no handler is running.               *)
Take(kind) ==
  /\ busy = Idle /\ queue # <<>> /\ Head(queue).kind = kind
  /\ queue' = Tail(queue)
  /\ UNCHANGED <<found, subscribed, targets, notify>>

(* storeEventNamespaceSubscribed, Neigh, Route and Link.                   *)
HandleReload ==
  LET ev == Head(queue) IN
  /\ Take("reload")
  /\ Schedule(entry, [Nothing EXCEPT ![ev.ns] = ev.mask], known, ev.lag)
  /\ UNCHANGED <<known, current>>

(* Mutated form: a fade tick advances the fades and nothing else.          *)
HandleFadeTickOnly ==
  /\ Take("fade")
  /\ UNCHANGED <<known, current, entry, timers, busy, lost>>

(* storeEventFadeTick.                                                     *)
HandleFadeTick ==
  /\ Take("fade")
  /\ Schedule(entry, Nothing, known, Head(queue).lag)
  /\ UNCHANGED <<known, current>>

(* storeEventScheduledReload: a sync; namespaces it finds are dirty.       *)
HandleScheduledReload ==
  LET new == found \ known
  IN  /\ Take("scheduled")
      /\ Sync
      /\ Schedule(PrunedEntries(found),
                  [ns \in Namespaces |-> IF ns \in new THEN Kinds ELSE {}],
                  found, Head(queue).lag)

(* The sync of a scheduled reload fails: its event is used up.             *)
ScheduledReloadFails ==
  /\ Take("scheduled")
  /\ UNCHANGED <<known, current, entry, timers, busy, lost>>

(* storeEventNamespaceSync.  A namespace that comes back while the         *)
(* listener still has a subscription for it is reloaded by nobody.         *)
HandleNamespaceSync ==
  /\ Take("sync")
  /\ Sync
  /\ entry' = PrunedEntries(found)
  /\ lost' = (lost \cap PairsOf(found)) \cup PairsOf((found \ known) \cap subscribed)
  /\ UNCHANGED <<timers, busy>>
NamespaceSyncFails ==
  /\ Take("sync")
  /\ UNCHANGED <<known, current, entry, timers, busy, lost>>

(* Mutated form: only namespaces with a reload waiting are dumped.         *)
FetchAllDirty(nss) ==
  /\ entry' = [ns \in Namespaces |-> ZeroEntry]
  /\ busy' = Work({p \in PairsOf(nss) : p[2] \in entry[p[1]].dirty}, "fetch",
                  Head(queue).lag)
  /\ lost' = {}
  /\ UNCHANGED timers

(* storeEventFetchLatest: scheduled reloads are cancelled, their timers    *)
(* are not, and everything is dumped, also when the sync failed.           *)
FetchAll(nss) ==
  /\ entry' = [ns \in Namespaces |-> ZeroEntry]
  /\ busy' = Work(PairsOf(nss), "fetch", Head(queue).lag)
  /\ lost' = {}
  /\ UNCHANGED timers
HandleFetchLatest == Take("fetch") /\ Sync /\ FetchAll(found)
FetchLatestSyncFails ==
  Take("fetch") /\ FetchAll(known) /\ UNCHANGED <<known, current>>

(* One dump: neighbours and FDB, routes or interfaces of a namespace.  It   *)
(* takes several requests, a list of links among them.                     *)
Collect(p, before, after) ==
  /\ p \in InWork /\ busy.got[p] \in before
  /\ busy' = [busy EXCEPT !.got[p] = after]
  /\ UNCHANGED <<found, subscribed, targets, notify, known, current, entry,
                 queue, timers, lost>>
StartDump == \E p \in InWork : Collect(p, {"todo"}, "reading")
FinishDump == \E p \in InWork : Collect(p, {"reading"}, "fresh")
CollectFails == \E p \in InWork : Collect(p, {"todo", "reading"}, "failed")

(* The dumps are applied; a failed one counts as an empty table.  The      *)
(* stamp of the event, not the time of the dump, becomes refreshedAt.      *)
ApplyDumps ==
  /\ busy # Idle /\ \A p \in InWork : busy.got[p] \notin {"todo", "reading"}
  /\ current' = (current \ InWork) \cup {p \in InWork : busy.got[p] = "fresh"}
  /\ lost' = lost \cup {p \in InWork : busy.got[p] = "failed"}
  /\ entry' = [ns \in Namespaces |->
                 IF ns \in WorkNamespaces
                   THEN [entry[ns] EXCEPT !.refreshed = busy.lag] ELSE entry[ns]]
  /\ busy' = Idle
  /\ UNCHANGED <<found, subscribed, targets, notify, known, queue, timers>>

-----------------------------------------------------------------------------
(* A timer runs its callback, at dueAt or later, with the stamp dueAt.     *)
TimerFires ==
  \E t \in timers :
    /\ t[2] <= 0
    /\ timers' = timers \ {t}
    /\ Enqueue(Event("scheduled", -t[2]))
    /\ UNCHANGED <<found, subscribed, targets, notify, known, current, entry, busy, lost>>

(* The loop itself turns ticks of its 100 ms ticker into events, with the   *)
(* stamp of the tick, which may have waited for a handler to return.  One  *)
(* such event is queued at most.                                           *)
FadeTicker ==
  /\ busy = Idle /\ ~Queued("fade")
  /\ \E lag \in Lags : Enqueue(Event("fade", lag))
  /\ UNCHANGED <<found, subscribed, targets, notify, known, current, entry,
                 timers, busy, lost>>

(* The user interface's request, every 5 s: far enough apart that at most  *)
(* one is queued.                                                          *)
RequestFetchLatest ==
  /\ ~Queued("fetch")
  /\ Enqueue(Event("fetch", 0))
  /\ UNCHANGED <<found, subscribed, targets, notify, known, current, entry,
                 timers, busy, lost>>

(* The listener's resync, every 5 s and when a scheduled reload found a    *)
(* namespace: it reads the inventory, drops the subscriptions of           *)
(* namespaces that are gone and asks for a sync when anything differs.  At *)
(* most one such request is queued.                                        *)
Resync ==
  /\ ~Queued("sync")
  /\ targets' = known
  /\ subscribed' = subscribed \cap known
  /\ notify' = notify \cap PairsOf(known)
  /\ IF subscribed # known THEN Enqueue(Event("sync", 0)) ELSE UNCHANGED queue
  /\ UNCHANGED <<found, known, current, entry, timers, busy, lost>>

(* It then subscribes to the namespaces it read, which may be gone by now, *)
(* and asks for a first reload of each.  A subscription that fails leaves  *)
(* no trace: it is tried again at the next resync.                         *)
Subscribe(ns) ==
  /\ ns \in targets \ subscribed
  /\ subscribed' = subscribed \cup {ns}
  /\ Enqueue(ReloadEvent(ns, Kinds))
  /\ lost' = IF QueueFull THEN lost \cup PairsOf({ns}) ELSE lost
  /\ UNCHANGED <<found, targets, notify, known, current, entry, timers, busy>>

(* The subscription's goroutine receives a message and queues its event.   *)
Receive(ns, kind) ==
  /\ <<ns, kind>> \in notify
  /\ notify' = notify \ {<<ns, kind>>}
  /\ Enqueue(ReloadEvent(ns, Mask(kind)))
  /\ lost' = IF QueueFull THEN lost \cup ({ns} \X Affected(kind)) ELSE lost
  /\ UNCHANGED <<found, subscribed, targets, known, current, entry, timers, busy>>

(* The kernel's tables change; dumps already taken are out of date.  A     *)
(* subscription sends a message, unless one of its streams has ended: the  *)
(* listener keeps it then and hears nothing more (see Listener).           *)
KernelChange(ns, kind) ==
  LET changed == {ns} \X Affected(kind)
  IN  /\ current' = current \ changed
      /\ busy' = [busy EXCEPT !.got = [p \in InWork |->
                    IF p \in changed /\ @[p] \in {"reading", "fresh"}
                      THEN "stale" ELSE @[p]]]
      /\ \/ /\ notify' = IF ns \in subscribed THEN notify \cup {<<ns, kind>>}
                                              ELSE notify
            /\ UNCHANGED lost
         \/ /\ ns \in subscribed
            /\ lost' = lost \cup changed
            /\ UNCHANGED notify
      /\ UNCHANGED <<found, subscribed, targets, known, entry, queue, timers>>

(* A namespace comes to have a mount or a process, or has none any more.   *)
Appear(ns) == ns \notin found /\ found' = found \cup {ns}
              /\ UNCHANGED <<subscribed, targets, notify, known, current, entry, queue,
                             timers, busy, lost>>
Vanish(ns) == ns \in found /\ found' = found \ {ns}
              /\ UNCHANGED <<subscribed, targets, notify, known, current, entry, queue,
                             timers, busy, lost>>

(* The clock.  It does not run past the lag allowed to any event, handler  *)
(* or timer: the assumption that the loop keeps up.                        *)
OneUnitLater(e) ==
  [pending |-> e.pending, dirty |-> e.dirty,
   due |-> IF e.due \in {NotDue, -MaxLag} THEN e.due ELSE e.due - 1,
   refreshed |-> IF e.refreshed = Never THEN Never ELSE e.refreshed + 1]
Tick ==
  /\ \A i \in DOMAIN queue : queue[i].lag < MaxLag
  /\ \A t \in timers : t[2] > -MaxLag
  /\ busy # Idle => busy.lag < MaxLag
  /\ queue' = [i \in DOMAIN queue |-> [queue[i] EXCEPT !.lag = @ + 1]]
  /\ timers' = {<<t[1], t[2] - 1>> : t \in timers}
  /\ busy' = IF busy = Idle THEN Idle ELSE [busy EXCEPT !.lag = @ + 1]
  /\ entry' = [ns \in Namespaces |-> OneUnitLater(entry[ns])]
  /\ UNCHANGED <<found, subscribed, targets, notify, known, current, lost>>
-----------------------------------------------------------------------------
HandleEvent == HandleReload \/ HandleFadeTick \/ HandleScheduledReload
               \/ HandleNamespaceSync \/ HandleFetchLatest
SyncFails == ScheduledReloadFails \/ NamespaceSyncFails \/ FetchLatestSyncFails
Listener == \/ Resync
            \/ \E ns \in Namespaces : Subscribe(ns)
            \/ \E ns \in Namespaces, kind \in Kinds : Receive(ns, kind)
World == \/ \E ns \in Namespaces : Appear(ns) \/ Vanish(ns)
         \/ \E ns \in Namespaces, kind \in Kinds : KernelChange(ns, kind)

Next == HandleEvent \/ SyncFails \/ StartDump \/ FinishDump \/ CollectFails \/ ApplyDumps
        \/ TimerFires \/ FadeTicker \/ RequestFetchLatest \/ Listener \/ World
        \/ Tick

Spec == Init /\ [][Next]_vars

(***************************************************************************)
(* The loop goroutine takes an event whenever there is one and its dumps   *)
(* end, one way or the other; the runtime fires timers and tickers; and    *)
(* time passes, however often the loop is momentarily behind.              *)
(***************************************************************************)
Fairness ==
  /\ WF_vars(HandleEvent \/ SyncFails)
  /\ WF_vars(StartDump \/ FinishDump \/ CollectFails) /\ WF_vars(ApplyDumps)
  /\ WF_vars(TimerFires) /\ WF_vars(FadeTicker) /\ SF_vars(Tick)
FairSpec == Spec /\ Fairness

-----------------------------------------------------------------------------
(* An entry has dirty kinds exactly while it waits for a reload with a due *)
(* time, and it is not waiting while its own dumps run.                    *)
EntriesConsistent ==
  /\ \A ns \in Namespaces :
       /\ entry[ns].pending <=> entry[ns].due # NotDue
       /\ entry[ns].pending <=> entry[ns].dirty # {}
  /\ \A ns \in WorkNamespaces : ~entry[ns].pending

(* Something will still bring a row up to date: a netlink message or an    *)
(* event on its way, a waiting reload that covers its kind, or a dump that *)
(* has not been overtaken by a change.                                     *)
Covered(p) ==
  \/ \E kind \in Kinds : <<p[1], kind>> \in notify /\ p[2] \in Mask(kind)
  \/ \E i \in DOMAIN queue : /\ queue[i].kind = "reload"
                             /\ queue[i].ns = p[1] /\ p[2] \in queue[i].mask
  \/ p[2] \in entry[p[1]].dirty
  \/ p \in InWork /\ busy.got[p] # "stale"

(* No update is lost: rows of a subscribed namespace that are out of date  *)
(* are covered, in every interleaving of changes, dumps, coalesced events, *)
(* fetches that cancel reloads and namespaces that come and go.  `lost'    *)
(* names the only exceptions, which wait for the next fetch or event: an   *)
(* event dropped by a full queue, a dump that failed, a change that a      *)
(* subscription with an ended stream did not hear, and a namespace a sync  *)
(* brings back before the listener has dropped its old subscription.       *)
NoLostUpdate ==
  \A p \in PairsOf(known \cap subscribed) :
    p \in current \/ p \in lost \/ Covered(p)

(* Two reloads of a namespace that events caused have stamps at least a    *)
(* throttle interval apart, and so does such a reload and the fetch before *)
(* it, although stamps are those of whichever event found the reload due   *)
(* and may go backwards.                                                   *)
ReloadsAreThrottled ==
  [][ \A ns \in WorkNamespaces :
        busy.by = "due" /\ busy' = Idle
          => entry[ns].refreshed - entry'[ns].refreshed >= Throttle ]_vars

(* A burst of events never puts off a reload that is already waiting, and  *)
(* one event delays it by at most the throttle interval.                   *)
ReloadsAreNotPostponed ==
  [][ \A ns \in Namespaces :
        /\ entry'[ns].pending => entry'[ns].due <= Throttle
        /\ entry[ns].pending /\ entry'[ns].pending
             => entry'[ns].due <= entry[ns].due ]_vars

(* A waiting reload is taken up, whatever else keeps the loop busy, with   *)
(* no help from fetches, and even when the event of its timer is dropped   *)
(* or used up by a failing sync.                                           *)
WaitingReloadsHappen ==
  \A ns \in Namespaces : entry[ns].pending ~> ~entry[ns].pending

(* Once the kernel is quiet, and no dump fails nor any sync that would     *)
(* find something new, the store comes to have the namespaces there are    *)
(* and the rows of the kernel, whatever was lost before and without the    *)
(* listener.  The user interface asks for a fetch every second while one   *)
(* is due (RuntimeRefreshDue): not every request of the endless series     *)
(* finds the queue full.                                                   *)
UpToDate == known = found /\ current = PairsOf(known)
Quiet == ~World /\ ~CollectFails /\ ~(SyncFails /\ known # found)
StoreConverges ==
  SF_vars(RequestFetchLatest) => (<>[][Quiet]_vars => <>[]UpToDate)
=============================================================================
