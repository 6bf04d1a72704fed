--------------------------- MODULE EventLoopProofs ---------------------------
(***************************************************************************)
(* For every set of namespaces and kinds of dump, every timing and every   *)
(* capacity of the queue: the event loop's invariants, that it loses no    *)
(* update, and that reloads are throttled and never put off.               *)
(***************************************************************************)
EXTENDS EventLoop, TLAPS

(* A waiting reload is due a throttle interval after the last one, or      *)
(* later; and so it was when it was taken up.                              *)
ThrottleInv ==
  /\ \A ns \in Namespaces :
       entry[ns].pending => entry[ns].due + entry[ns].refreshed >= Throttle
  /\ \A ns \in WorkNamespaces :
       busy.by = "due" => entry[ns].refreshed - busy.lag >= Throttle

(* A dump overtaken by a change is one of rows that are out of date.       *)
StaleInv == \A p \in InWork : busy.got[p] = "stale" => p \notin current

IInv == TypeOK /\ EntriesConsistent /\ ThrottleInv /\ StaleInv /\ NoLostUpdate

-----------------------------------------------------------------------------
(* What the invariant says of one entry.                                   *)
EntryInv(e) ==
  /\ e \in Entry
  /\ e.pending <=> e.due # NotDue
  /\ e.pending <=> e.dirty # {}
  /\ e.pending => e.due + e.refreshed >= Throttle

LEMMA TimeFacts ==
  /\ Aggregation \in Nat /\ Aggregation >= 1 /\ Throttle \in Nat /\ MaxLag \in Nat
  /\ Aggregation <= Throttle /\ NotDue = Throttle + 1 /\ Never = Throttle + MaxLag
  /\ Lags = 0..MaxLag
BY TimeAssumption DEF NotDue, Never, Lags

LEMMA ZeroEntryOK == EntryInv(ZeroEntry)
BY TimeFacts DEF EntryInv, ZeroEntry, Entry

(* A netlink event keeps an entry well formed, and its due time can only   *)
(* come nearer.                                                            *)
LEMMA CollectedOK ==
  ASSUME NEW e, EntryInv(e), NEW mask \in SUBSET Kinds, NEW lag \in Lags
  PROVE  LET c == Collected(e, mask, lag)
         IN  /\ EntryInv(c)
             /\ c.refreshed = e.refreshed /\ c.dirty = e.dirty \cup mask
             /\ e.pending => c.pending /\ c.due <= e.due
             /\ c.pending => c.due \in -MaxLag..Throttle
<1> DEFINE c == Collected(e, mask, lag)
<1>1. CASE mask = {}
  <2>1. c = e
    BY <1>1 DEF Collected
  <2> QED BY <1>1, <2>1, TimeFacts DEF EntryInv, Entry
<1>2. CASE mask # {}
  <2>1. DueTime(e, lag) \in -MaxLag..Throttle
    BY TimeFacts DEF DueTime, EntryInv, Entry
  <2>2. DueTime(e, lag) + e.refreshed >= Throttle
    BY TimeFacts DEF DueTime, EntryInv, Entry
  <2>3. c = [pending |-> TRUE, dirty |-> e.dirty \cup mask,
             due |-> Earlier(e.due, DueTime(e, lag)), refreshed |-> e.refreshed]
    BY <1>2 DEF Collected
  <2>4. /\ e.due \in -MaxLag..NotDue /\ e.refreshed \in 0..Never
        /\ e.dirty \in SUBSET Kinds
        /\ e.due # NotDue => e.due + e.refreshed >= Throttle
    BY DEF EntryInv, Entry
  <2>5. /\ Earlier(e.due, DueTime(e, lag)) \in -MaxLag..Throttle
        /\ Earlier(e.due, DueTime(e, lag)) <= e.due
        /\ Earlier(e.due, DueTime(e, lag)) + e.refreshed >= Throttle
    BY <2>1, <2>2, <2>4, TimeFacts DEF Earlier
  <2>6. c.due # NotDue
    BY <2>3, <2>5, TimeFacts
  <2>7. c \in Entry
    BY <2>3, <2>4, <2>5, TimeFacts DEF Entry
  <2> QED BY <1>2, <2>3, <2>5, <2>6, <2>7 DEF EntryInv
<1> QED BY <1>1, <1>2

(* An entry taken up is at rest, and was last reloaded a throttle interval *)
(* before the stamp it is taken up with.                                   *)
LEMMA TakenUpOK ==
  ASSUME NEW e, EntryInv(e), NEW lag \in Lags
  PROVE  /\ EntryInv(TakenUp(e)) /\ ~TakenUp(e).pending /\ TakenUp(e).dirty = {}
         /\ TakenUp(e).refreshed = e.refreshed
         /\ IsDue(e, lag) => e.refreshed - lag >= Throttle
<1>1. e \in Entry
  BY DEF EntryInv
<1>2. TakenUp(e) = [pending |-> FALSE, dirty |-> {}, due |-> NotDue,
                    refreshed |-> e.refreshed]
  BY DEF TakenUp
<1>4. TakenUp(e) \in Entry
  BY <1>1, <1>2, TimeFacts DEF Entry
<1>3. IsDue(e, lag) => e.refreshed - lag >= Throttle
  BY <1>1, TimeFacts DEF IsDue, EntryInv, Entry
<1> QED BY <1>2, <1>3, <1>4 DEF EntryInv

LEMMA EntriesFromIInv ==
  ASSUME IInv, NEW ns \in Namespaces
  PROVE  EntryInv(entry[ns])
BY DEF IInv, TypeOK, EntriesConsistent, ThrottleInv, EntryInv

LEMMA OneUnitLaterOK ==
  ASSUME NEW e, EntryInv(e)
  PROVE  /\ EntryInv(OneUnitLater(e))
         /\ OneUnitLater(e).pending = e.pending /\ OneUnitLater(e).dirty = e.dirty
         /\ OneUnitLater(e).due <= e.due
         /\ \A lag \in 0..MaxLag - 1 :
              e.refreshed - lag >= Throttle
                => OneUnitLater(e).refreshed - (lag + 1) >= Throttle
<1> DEFINE u == OneUnitLater(e)
<1>1. u = [pending |-> e.pending, dirty |-> e.dirty,
           due |-> IF e.due \in {NotDue, -MaxLag} THEN e.due ELSE e.due - 1,
           refreshed |-> IF e.refreshed = Never THEN Never ELSE e.refreshed + 1]
  BY DEF OneUnitLater
<1>2. /\ e.due \in -MaxLag..NotDue /\ e.refreshed \in 0..Never
      /\ e.dirty \in SUBSET Kinds /\ e.pending \in BOOLEAN
  BY DEF EntryInv, Entry
<1>3. /\ u.due \in -MaxLag..NotDue /\ u.refreshed \in 0..Never
      /\ u.due <= e.due /\ u.refreshed >= e.refreshed
      /\ u.due # NotDue <=> e.due # NotDue
  BY <1>1, <1>2, TimeFacts
<1>4. e.pending => u.due + u.refreshed >= Throttle
  BY <1>1, <1>2, TimeFacts DEF EntryInv
<1>5. u \in Entry
  <2>1. u = [pending |-> e.pending, dirty |-> e.dirty, due |-> u.due,
             refreshed |-> u.refreshed]
    BY <1>1
  <2> QED BY <1>2, <1>3, <2>1 DEF Entry
<1>6. ASSUME NEW lag \in 0..MaxLag - 1, e.refreshed - lag >= Throttle
      PROVE  u.refreshed - (lag + 1) >= Throttle
  BY <1>1, <1>2, <1>6, TimeFacts
<1> QED BY <1>1, <1>3, <1>4, <1>5, <1>6 DEF EntryInv

-----------------------------------------------------------------------------
(* A handler about to dump `pairs'.                                        *)
LEMMA WorkParts ==
  ASSUME NEW pairs, NEW by, NEW lag
  PROVE  /\ DOMAIN Work(pairs, by, lag).got = pairs
         /\ \A p \in pairs : Work(pairs, by, lag).got[p] = "todo"
         /\ pairs # {} => Work(pairs, by, lag).by = by /\ Work(pairs, by, lag).lag = lag
<1> DEFINE g == [p \in pairs |-> "todo"]
<1>1. DOMAIN g = pairs /\ \A p \in pairs : g[p] = "todo"
  OBVIOUS
<1>2. CASE pairs = {}
  <2>1. Work(pairs, by, lag) = [by |-> "due", lag |-> 0, got |-> g]
    BY <1>2 DEF Work, Idle
  <2> HIDE DEF g
  <2> QED BY <1>1, <1>2, <2>1
<1>3. CASE pairs # {}
  <2>1. Work(pairs, by, lag) = [by |-> by, lag |-> lag, got |-> g]
    BY <1>3 DEF Work
  <2> HIDE DEF g
  <2> QED BY <1>1, <2>1
<1> QED BY <1>2, <1>3

LEMMA WorkOK ==
  ASSUME NEW nss, NEW pairs \in SUBSET PairsOf(nss), NEW by \in {"due", "fetch"},
         NEW lag \in Lags
  PROVE  Work(pairs, by, lag) \in Handlers(nss)
<1> DEFINE g == [p \in pairs |-> "todo"]
<1>1. g \in [pairs -> Dump]
  BY DEF Dump
<1>2. g \in UNION {[S -> Dump] : S \in SUBSET PairsOf(nss)}
  BY <1>1
<1>3. CASE pairs = {}
  <2>1. Work(pairs, by, lag) = [by |-> "due", lag |-> 0, got |-> g]
    BY <1>3 DEF Work, Idle
  <2>2. 0 \in Lags
    BY TimeFacts
  <2> HIDE DEF g
  <2> QED BY <1>2, <2>1, <2>2 DEF Handlers
<1>4. CASE pairs # {}
  <2>1. Work(pairs, by, lag) = [by |-> by, lag |-> lag, got |-> g]
    BY <1>4 DEF Work
  <2> HIDE DEF g
  <2> QED BY <1>2, <2>1 DEF Handlers
<1> QED BY <1>3, <1>4

LEMMA BusyParts ==
  ASSUME NEW nss, NEW w \in Handlers(nss)
  PROVE  /\ w.by \in {"due", "fetch"} /\ w.lag \in Lags
         /\ DOMAIN w.got \subseteq PairsOf(nss) /\ w.got \in [DOMAIN w.got -> Dump]
         /\ w = [by |-> w.by, lag |-> w.lag, got |-> w.got]
<1>1. PICK S \in SUBSET PairsOf(nss) : w.got \in [S -> Dump]
  BY DEF Handlers
<1> QED BY <1>1 DEF Handlers

(* A handler with the same dumps to make, in any state.                    *)
LEMMA BusyFrom ==
  ASSUME NEW nss, NEW S \in SUBSET PairsOf(nss), NEW g \in [S -> Dump],
         NEW by \in {"due", "fetch"}, NEW lag \in Lags
  PROVE  [by |-> by, lag |-> lag, got |-> g] \in Handlers(nss)
<1>1. g \in UNION {[T -> Dump] : T \in SUBSET PairsOf(nss)}
  OBVIOUS
<1> QED BY <1>1 DEF Handlers

LEMMA IdleOK ==
  /\ Idle.by = "due" /\ DOMAIN Idle.got = {}
  /\ \A nss : Idle \in Handlers(nss)
<1>1. Idle = [by |-> "due", lag |-> 0, got |-> [p \in {} |-> "todo"]]
  BY DEF Idle
<1>2. 0 \in Lags
  BY TimeFacts
<1>3. ASSUME NEW nss PROVE Idle \in Handlers(nss)
  <2>1. [p \in {} |-> "todo"] \in [{} -> Dump]
    OBVIOUS
  <2> QED BY <1>1, <1>2, <2>1, BusyFrom
<1> QED BY <1>1, <1>3

(* Queueing an event keeps those already there in place, and drops the new *)
(* one only when the queue is full.                                        *)
LEMMA EnqueueOK ==
  ASSUME queue \in Seq(Events), Len(queue) <= QueueCap, NEW ev \in Events, Enqueue(ev)
  PROVE  /\ queue' \in Seq(Events) /\ Len(queue') <= QueueCap
         /\ \A i \in DOMAIN queue : i \in DOMAIN queue' /\ queue'[i] = queue[i]
         /\ ~QueueFull => \E i \in DOMAIN queue' : queue'[i] = ev
<1>0. QueueCap \in Nat /\ Len(queue) \in Nat
  BY QueueAssumption
<1>1. CASE Len(queue) < QueueCap
  <2>1. queue' = Append(queue, ev)
    BY <1>1 DEF Enqueue
  <2>2. queue' \in Seq(Events) /\ Len(queue') = Len(queue) + 1
    BY <2>1
  <2>3. \A i \in 1..Len(queue) : queue'[i] = queue[i]
    BY <2>1
  <2>4. queue'[Len(queue) + 1] = ev
    BY <2>1
  <2>5. DOMAIN queue = 1..Len(queue) /\ DOMAIN queue' = 1..Len(queue')
    BY <2>2
  <2> QED BY <1>0, <1>1, <2>2, <2>3, <2>4, <2>5
<1>2. CASE ~(Len(queue) < QueueCap)
  BY <1>0, <1>2 DEF Enqueue, QueueFull
<1> QED BY <1>1, <1>2

LEMMA TakeOK ==
  ASSUME TypeOK, NEW kind, Take(kind)
  PROVE  /\ queue' \in Seq(Events) /\ Len(queue') <= QueueCap
         /\ Head(queue) \in Events /\ Head(queue).kind = kind
         /\ Head(queue).lag \in Lags
         /\ \A i \in DOMAIN queue :
              \/ queue[i] = Head(queue)
              \/ i - 1 \in DOMAIN queue' /\ queue'[i - 1] = queue[i]
         /\ InWork = {} /\ WorkNamespaces = {}
         /\ found' = found /\ subscribed' = subscribed /\ targets' = targets
         /\ notify' = notify
<1>1. queue \in Seq(Events) /\ queue # <<>> /\ queue' = Tail(queue)
      /\ Len(queue) <= QueueCap /\ Head(queue).kind = kind
  BY DEF TypeOK, Take
<1>2. Head(queue) \in Events /\ queue' \in Seq(Events) /\ Len(queue') = Len(queue) - 1
  BY <1>1
<1>3. Len(queue) \in Nat /\ Len(queue) > 0 /\ QueueCap \in Nat
  BY <1>1, QueueAssumption
<1>4. \A i \in 1..Len(queue) : i = 1 \/ queue'[i - 1] = queue[i]
  BY <1>1, <1>3
<1>5. Head(queue) = queue[1]
  BY <1>1
<1>6. DOMAIN queue = 1..Len(queue) /\ DOMAIN queue' = 1..Len(queue')
  BY <1>1, <1>2
<1>7. \A i \in DOMAIN queue :
        \/ queue[i] = Head(queue)
        \/ i - 1 \in DOMAIN queue' /\ queue'[i - 1] = queue[i]
  BY <1>2, <1>3, <1>4, <1>5, <1>6
<1>8. InWork = {} /\ WorkNamespaces = {}
  BY IdleOK DEF Take, InWork, WorkNamespaces
<1>9. Head(queue).lag \in Lags
  BY <1>2 DEF Events
<1> QED BY <1>1, <1>2, <1>3, <1>7, <1>8, <1>9 DEF Take

(* The scheduling half of a handler: entries stay well formed and are not  *)
(* put off, what it takes up is due by the throttle, and every kind that   *)
(* was dirty, is marked now or had been lost is either still waiting or    *)
(* about to be dumped.                                                     *)
LEMMA ScheduleOK ==
  ASSUME NEW before, \A ns \in Namespaces : EntryInv(before[ns]),
         NEW marked \in [Namespaces -> SUBSET Kinds],
         NEW nss \in SUBSET Namespaces, NEW lag \in Lags,
         timers \subseteq Namespaces \X (-MaxLag..Throttle),
         Schedule(before, marked, nss, lag)
  PROVE  /\ entry' \in [Namespaces -> Entry]
         /\ \A ns \in Namespaces : EntryInv(entry'[ns])
         /\ timers' \subseteq Namespaces \X (-MaxLag..Throttle)
         /\ busy' \in Handlers(nss)
         /\ lost' \subseteq PairsOf(nss)
         /\ \A ns \in WorkNamespaces' :
              /\ ~entry'[ns].pending
              /\ entry'[ns].refreshed - busy'.lag >= Throttle
         /\ \A p \in InWork' : busy'.got[p] = "todo"
         /\ \A ns \in Namespaces : before[ns].pending /\ entry'[ns].pending
                                     => entry'[ns].due <= before[ns].due
         /\ \A ns \in Namespaces : ~before[ns].pending /\ marked[ns] = {}
                                     => ~entry'[ns].pending
         /\ \A p \in PairsOf(nss) :
              p \in lost \/ p[2] \in before[p[1]].dirty \/ p[2] \in marked[p[1]]
                => p \in lost' \/ p[2] \in entry'[p[1]].dirty \/ p \in InWork'
<1> DEFINE e == [ns \in Namespaces |-> Collected(before[ns], marked[ns], lag)]
           dueNow == {ns \in Namespaces : IsDue(e[ns], lag)}
           started == {ns \in Namespaces : marked[ns] # {} /\ ~before[ns].pending}
           work == {p \in PairsOf(dueNow \cap nss) : p[2] \in e[p[1]].dirty}
<1>1. /\ entry' = [ns \in Namespaces |-> IF ns \in dueNow THEN TakenUp(e[ns])
                                                          ELSE e[ns]]
      /\ timers' = timers \cup {<<ns, e[ns].due>> : ns \in started}
      /\ busy' = Work(work, "due", lag)
      /\ lost' = (lost \cap PairsOf(nss)) \ work
  BY DEF Schedule
<1>2. ASSUME NEW ns \in Namespaces
      PROVE  /\ EntryInv(e[ns]) /\ e[ns].dirty = before[ns].dirty \cup marked[ns]
             /\ before[ns].pending => e[ns].pending /\ e[ns].due <= before[ns].due
             /\ e[ns].pending => e[ns].due \in -MaxLag..Throttle
  <2>1. e[ns] = Collected(before[ns], marked[ns], lag)
    OBVIOUS
  <2>2. marked[ns] \in SUBSET Kinds
    OBVIOUS
  <2> HIDE DEF e
  <2> QED BY <2>1, <2>2, CollectedOK
<1>3. ASSUME NEW ns \in Namespaces, marked[ns] # {}
      PROVE  e[ns].pending
  BY <1>2, <1>3 DEF EntryInv
<1>4. /\ \A ns \in dueNow : ns \in Namespaces /\ IsDue(e[ns], lag)
      /\ \A ns \in started : ns \in Namespaces /\ marked[ns] # {}
      /\ work \subseteq PairsOf(nss) /\ work \subseteq PairsOf(dueNow)
      /\ \A p \in PairsOf(nss) : p[1] \in dueNow /\ p[2] \in e[p[1]].dirty => p \in work
  BY DEF PairsOf
<1> HIDE DEF e, dueNow, started, work
<1>5. ASSUME NEW ns \in Namespaces
      PROVE  /\ EntryInv(entry'[ns])
             /\ ns \in dueNow => /\ ~entry'[ns].pending
                                 /\ entry'[ns].refreshed - lag >= Throttle
             /\ ns \notin dueNow => entry'[ns] = e[ns]
  <2>1. CASE ns \in dueNow
    <3>1. entry'[ns] = TakenUp(e[ns]) /\ IsDue(e[ns], lag)
      BY <1>1, <1>4, <2>1
    <3> QED BY <1>2, <2>1, <3>1, TakenUpOK
  <2>2. CASE ns \notin dueNow
    BY <1>1, <1>2, <2>2
  <2> QED BY <2>1, <2>2
<1>6. entry' \in [Namespaces -> Entry]
  BY <1>1, <1>5 DEF EntryInv
<1>7. timers' \subseteq Namespaces \X (-MaxLag..Throttle)
  BY <1>1, <1>2, <1>3, <1>4
<1>8. /\ busy' \in Handlers(nss) /\ InWork' = work
      /\ \A p \in work : busy'.got[p] = "todo"
      /\ work # {} => busy'.lag = lag
  <2>1. work \in SUBSET PairsOf(nss)
    BY <1>4
  <2>2. Work(work, "due", lag) \in Handlers(nss)
    BY <2>1, WorkOK
  <2>4. /\ DOMAIN Work(work, "due", lag).got = work
        /\ \A p \in work : Work(work, "due", lag).got[p] = "todo"
        /\ work # {} => Work(work, "due", lag).lag = lag
    BY WorkParts
  <2>3. InWork' = DOMAIN busy'.got
    BY DEF InWork
  <2> QED BY <1>1, <2>2, <2>3, <2>4
<1>9. lost' \subseteq PairsOf(nss)
  BY <1>1
<1>10. ASSUME NEW ns \in WorkNamespaces'
       PROVE  ~entry'[ns].pending /\ entry'[ns].refreshed - busy'.lag >= Throttle
  <2>1. PICK p \in work : ns = p[1]
    BY <1>8 DEF WorkNamespaces
  <2>2. ns \in dueNow
    BY <1>4, <2>1 DEF PairsOf
  <2> QED BY <1>4, <1>5, <1>8, <2>1, <2>2
<1>11. ASSUME NEW ns \in Namespaces, before[ns].pending, entry'[ns].pending
       PROVE  entry'[ns].due <= before[ns].due
  BY <1>2, <1>5, <1>11
<1>12. ASSUME NEW p \in PairsOf(nss),
              p \in lost \/ p[2] \in before[p[1]].dirty \/ p[2] \in marked[p[1]]
       PROVE  p \in lost' \/ p[2] \in entry'[p[1]].dirty \/ p \in InWork'
  <2>1. p[1] \in Namespaces
    BY DEF PairsOf
  <2>2. CASE p \in lost
    BY <1>1, <1>8, <2>2
  <2>3. CASE p[2] \in before[p[1]].dirty \/ p[2] \in marked[p[1]]
    <3>1. p[2] \in e[p[1]].dirty
      BY <1>2, <2>1, <2>3
    <3>2. CASE p[1] \in dueNow
      BY <1>4, <1>8, <3>1, <3>2
    <3>3. CASE p[1] \notin dueNow
      BY <1>5, <2>1, <3>1, <3>3
    <3> QED BY <3>2, <3>3
  <2> QED BY <1>12, <2>2, <2>3
<1>13. ASSUME NEW ns \in Namespaces, ~before[ns].pending, marked[ns] = {}
       PROVE  ~entry'[ns].pending
  <2>1. e[ns] = before[ns]
    BY <1>13 DEF e, Collected
  <2> QED BY <1>5, <1>13, <2>1
<1> QED BY <1>5, <1>6, <1>7, <1>8, <1>9, <1>10, <1>11, <1>12, <1>13

-----------------------------------------------------------------------------
(* No waiting reload is put off by the step.                               *)
NotLater ==
  \A ns \in Namespaces :
    entry[ns].pending /\ entry'[ns].pending => entry'[ns].due <= entry[ns].due

LEMMA IInvFromEntries ==
  ASSUME TypeOK', \A ns \in Namespaces : EntryInv(entry'[ns]),
         \A ns \in WorkNamespaces' :
           /\ ~entry'[ns].pending
           /\ busy'.by = "due" => entry'[ns].refreshed - busy'.lag >= Throttle,
         StaleInv', NoLostUpdate'
  PROVE  IInv'
BY DEF IInv, EntriesConsistent, ThrottleInv, EntryInv

LEMMA SameEntries ==
  ASSUME IInv, entry' = entry
  PROVE  /\ \A ns \in Namespaces : EntryInv(entry'[ns])
         /\ NotLater
<1>1. \A ns \in Namespaces : EntryInv(entry[ns])
  BY EntriesFromIInv
<1>2. \A ns \in Namespaces : entry[ns].due \in Int
  BY <1>1, TimeFacts DEF EntryInv, Entry
<1> QED BY <1>1, <1>2 DEF NotLater

(* Steps that only queue an event.                                         *)
LEMMA EnqueueStep ==
  ASSUME IInv, NEW ev \in Events, Enqueue(ev), timers' \subseteq timers,
         UNCHANGED <<found, subscribed, targets, notify, known, current, entry, busy, lost>>
  PROVE  IInv' /\ NotLater
<1>1. /\ queue' \in Seq(Events) /\ Len(queue') <= QueueCap
      /\ \A i \in DOMAIN queue : i \in DOMAIN queue' /\ queue'[i] = queue[i]
  BY EnqueueOK DEF IInv, TypeOK
<1>2. InWork' = InWork /\ WorkNamespaces' = WorkNamespaces
  BY DEF InWork, WorkNamespaces
<1>3. TypeOK'
  BY <1>1 DEF IInv, TypeOK
<1>4. ASSUME NEW p \in PairsOf(known \cap subscribed), Covered(p)
      PROVE  Covered(p)'
  BY <1>1, <1>2, <1>4 DEF Covered
<1>5. NoLostUpdate'
  BY <1>4 DEF IInv, NoLostUpdate
<1>6. StaleInv'
  BY <1>2 DEF IInv, StaleInv
<1>7. /\ EntriesConsistent' /\ ThrottleInv'
  BY <1>2 DEF IInv, EntriesConsistent, ThrottleInv
<1> QED BY <1>3, <1>5, <1>6, <1>7, SameEntries DEF IInv

(* Handlers that reload what is due.                                       *)
LEMMA ScheduleStep ==
  ASSUME IInv, NEW kind, Take(kind), NEW before, NEW marked \in [Namespaces -> SUBSET Kinds],
         NEW nss \in SUBSET Namespaces,
         \A ns \in Namespaces : EntryInv(before[ns]),
         \A ns \in Namespaces : before[ns] = entry[ns]
                                \/ (~before[ns].pending /\ marked[ns] = {}),
         \A ns \in nss : before[ns] = entry[ns],
         Schedule(before, marked, nss, Head(queue).lag),
         known' = nss, current' = current \cap PairsOf(nss),
         \A ns \in nss \ known : marked[ns] = Kinds,
         kind = "reload" => Head(queue).mask \subseteq marked[Head(queue).ns]
  PROVE  IInv' /\ NotLater
<1> DEFINE lag == Head(queue).lag
<1>1. TypeOK /\ NoLostUpdate /\ lag \in Lags
  BY TakeOK DEF IInv
<1>2. timers \subseteq Namespaces \X (-MaxLag..Throttle)
  BY <1>1 DEF TypeOK
<1>3. /\ entry' \in [Namespaces -> Entry]
      /\ \A ns \in Namespaces : EntryInv(entry'[ns])
      /\ timers' \subseteq Namespaces \X (-MaxLag..Throttle)
      /\ busy' \in Handlers(nss)
      /\ lost' \subseteq PairsOf(nss)
      /\ \A ns \in WorkNamespaces' :
           /\ ~entry'[ns].pending
           /\ entry'[ns].refreshed - busy'.lag >= Throttle
      /\ \A p \in InWork' : busy'.got[p] = "todo"
      /\ \A ns \in Namespaces : before[ns].pending /\ entry'[ns].pending
                                  => entry'[ns].due <= before[ns].due
      /\ \A ns \in Namespaces : ~before[ns].pending /\ marked[ns] = {}
                                  => ~entry'[ns].pending
      /\ \A p \in PairsOf(nss) :
           p \in lost \/ p[2] \in before[p[1]].dirty \/ p[2] \in marked[p[1]]
             => p \in lost' \/ p[2] \in entry'[p[1]].dirty \/ p \in InWork'
  <2> HIDE DEF lag
  <2>1. Schedule(before, marked, nss, lag)
    BY DEF lag
  <2> QED BY <1>1, <1>2, <2>1, ScheduleOK
<1> HIDE DEF lag
<1>4. TypeOK'
  BY <1>1, <1>3, TakeOK DEF TypeOK, PairsOf
<1>5. StaleInv'
  BY <1>3 DEF StaleInv
<1>6. NotLater
  BY <1>3 DEF NotLater
<1>7. ASSUME NEW p \in PairsOf(nss \cap subscribed)
      PROVE  p \in current' \/ p \in lost' \/ Covered(p)'
  <2>1. p[1] \in nss /\ p[1] \in subscribed /\ p[2] \in Kinds /\ p \in PairsOf(nss)
    BY DEF PairsOf
  <2>2. CASE p[2] \in entry'[p[1]].dirty \/ p \in InWork' \/ p \in lost'
    BY <1>3, <2>2 DEF Covered
  <2>3. CASE p[1] \notin known
    BY <1>3, <2>1, <2>2, <2>3
  <2>4. CASE p \in current
    BY <2>1, <2>4
  <2>5. CASE p \in lost
    BY <1>3, <2>1, <2>2, <2>5
  <2>6. CASE p[1] \in known /\ Covered(p)
    <3>1. CASE \E k \in Kinds : <<p[1], k>> \in notify /\ p[2] \in Mask(k)
      BY <1>1, <3>1, TakeOK DEF Covered
    <3>2. CASE \E i \in DOMAIN queue : /\ queue[i].kind = "reload"
                                     /\ queue[i].ns = p[1] /\ p[2] \in queue[i].mask
      <4>1. PICK i \in DOMAIN queue : /\ queue[i].kind = "reload"
                                     /\ queue[i].ns = p[1] /\ p[2] \in queue[i].mask
        BY <3>2
      <4>2. CASE queue[i] = Head(queue)
        <5>1. kind = "reload"
          BY <1>1, <4>1, <4>2, TakeOK
        <5>2. p[2] \in marked[p[1]]
          BY <4>1, <4>2, <5>1
        <5> QED BY <1>3, <2>1, <2>2, <5>2
      <4>3. CASE i - 1 \in DOMAIN queue' /\ queue'[i - 1] = queue[i]
        BY <4>1, <4>3 DEF Covered
      <4> QED BY <1>1, <4>1, <4>2, <4>3, TakeOK
    <3>3. CASE p[2] \in entry[p[1]].dirty
      BY <1>3, <2>1, <2>2, <3>3
    <3>4. CASE p \in InWork
      BY <1>1, <3>4, TakeOK
    <3> QED BY <2>6, <3>1, <3>2, <3>3, <3>4 DEF Covered
  <2>7. p[1] \in known => p \in PairsOf(known \cap subscribed)
    BY <2>1 DEF PairsOf
  <2> QED BY <1>1, <2>3, <2>4, <2>5, <2>6, <2>7 DEF NoLostUpdate
<1>8. NoLostUpdate'
  BY <1>1, <1>7, TakeOK DEF NoLostUpdate, PairsOf
<1> QED BY <1>3, <1>4, <1>5, <1>6, <1>8, IInvFromEntries

LEMMA NothingOK ==
  /\ Nothing \in [Namespaces -> SUBSET Kinds]
  /\ \A ns \in Namespaces : Nothing[ns] = {}
BY DEF Nothing

LEMMA HandleReloadStep ==
  ASSUME IInv, HandleReload
  PROVE  IInv' /\ NotLater
<1> DEFINE ev == Head(queue)
           marked == [Nothing EXCEPT ![ev.ns] = ev.mask]
<1>1. Take("reload") /\ Schedule(entry, marked, known, ev.lag)
      /\ known' = known /\ current' = current
  BY DEF HandleReload
<1>2. ev \in Events /\ ev.kind = "reload" /\ TypeOK
  BY <1>1, TakeOK DEF IInv
<1>3. ev.ns \in Namespaces /\ ev.mask \in SUBSET Kinds
  BY <1>2 DEF Events
<1> HIDE DEF ev
<1>4. /\ marked \in [Namespaces -> SUBSET Kinds] /\ marked[ev.ns] = ev.mask
  BY <1>3, NothingOK
<1> HIDE DEF marked
<1>5. current' = current \cap PairsOf(known) /\ known \in SUBSET Namespaces
  BY <1>1, <1>2 DEF TypeOK
<1>6. \A ns \in Namespaces : EntryInv(entry[ns])
  BY EntriesFromIInv
<1>7. \A ns \in known \ known : marked[ns] = Kinds
  OBVIOUS
<1>8. Head(queue).mask \subseteq marked[Head(queue).ns]
  BY <1>4 DEF ev
<1>9. Schedule(entry, marked, known, Head(queue).lag)
  BY <1>1 DEF ev
<1> QED BY <1>1, <1>4, <1>5, <1>6, <1>7, <1>8, <1>9, ScheduleStep

LEMMA HandleFadeTickStep ==
  ASSUME IInv, HandleFadeTick
  PROVE  IInv' /\ NotLater
<1>1. Take("fade") /\ Schedule(entry, Nothing, known, Head(queue).lag)
      /\ known' = known /\ current' = current
  BY DEF HandleFadeTick
<1>2. current' = current \cap PairsOf(known) /\ known \in SUBSET Namespaces
  BY <1>1 DEF IInv, TypeOK
<1>3. \A ns \in Namespaces : EntryInv(entry[ns])
  BY EntriesFromIInv
<1>4. "fade" # "reload" /\ \A ns \in known \ known : Nothing[ns] = Kinds
  OBVIOUS
<1> QED BY <1>1, <1>2, <1>3, <1>4, NothingOK, ScheduleStep

LEMMA PrunedOK ==
  ASSUME IInv, NEW nss
  PROVE  \A ns \in Namespaces :
           /\ EntryInv(PrunedEntries(nss)[ns])
           /\ ns \in nss => PrunedEntries(nss)[ns] = entry[ns]
           /\ ns \notin nss => PrunedEntries(nss)[ns] = ZeroEntry
BY EntriesFromIInv, ZeroEntryOK DEF PrunedEntries

LEMMA ZeroNotPending == ZeroEntry.pending = FALSE
BY DEF ZeroEntry

LEMMA HandleScheduledReloadStep ==
  ASSUME IInv, HandleScheduledReload
  PROVE  IInv' /\ NotLater
<1> DEFINE marked == [ns \in Namespaces |-> IF ns \in found \ known THEN Kinds ELSE {}]
           before == PrunedEntries(found)
<1>1. Take("scheduled") /\ Schedule(before, marked, found, Head(queue).lag)
      /\ known' = found /\ current' = current \cap PairsOf(found)
  BY DEF HandleScheduledReload, Sync
<1>2. found \in SUBSET Namespaces
  BY DEF IInv, TypeOK
<1>3. /\ marked \in [Namespaces -> SUBSET Kinds]
      /\ \A ns \in Namespaces \ found : marked[ns] = {}
      /\ \A ns \in found \ known : marked[ns] = Kinds
  BY <1>2
<1>4. \A ns \in Namespaces : EntryInv(before[ns])
  BY PrunedOK
<1>7. \A ns \in found : before[ns] = entry[ns]
  BY <1>2, PrunedOK
<1>8. \A ns \in Namespaces \ found : ~before[ns].pending
  BY PrunedOK, ZeroNotPending
<1>5. "scheduled" # "reload"
  OBVIOUS
<1> HIDE DEF marked, before
<1>6. \A ns \in Namespaces : before[ns] = entry[ns]
                             \/ (~before[ns].pending /\ marked[ns] = {})
  BY <1>3, <1>7, <1>8
<1> QED BY <1>1, <1>2, <1>3, <1>4, <1>5, <1>6, <1>7, ScheduleStep

(* Handlers that only use up an event, or sync the inventory: no entry is  *)
(* taken up, and the event taken was not a netlink event.                  *)
LEMMA TakeCovers ==
  ASSUME IInv, NEW kind, kind # "reload", Take(kind),
         NEW p, Covered(p), entry'[p[1]] = entry[p[1]]
  PROVE  Covered(p)'
<1>1. TypeOK
  BY DEF IInv
<1>2. CASE \E i \in DOMAIN queue : /\ queue[i].kind = "reload"
                                 /\ queue[i].ns = p[1] /\ p[2] \in queue[i].mask
  <2>1. PICK i \in DOMAIN queue : /\ queue[i].kind = "reload"
                                 /\ queue[i].ns = p[1] /\ p[2] \in queue[i].mask
    BY <1>2
  <2>2. i - 1 \in DOMAIN queue' /\ queue'[i - 1] = queue[i]
    BY <1>1, <2>1, TakeOK
  <2> QED BY <2>1, <2>2 DEF Covered
<1>3. InWork = {} /\ notify' = notify
  BY <1>1, TakeOK
<1> QED BY <1>2, <1>3 DEF Covered

LEMMA SyncStep ==
  ASSUME IInv, NEW kind, kind # "reload", Take(kind), busy' = busy, timers' = timers,
         NEW nss \in SUBSET Namespaces, known' = nss,
         current' = current \cap PairsOf(nss), entry' = PrunedEntries(nss),
         lost' = (lost \cap PairsOf(nss)) \cup PairsOf((nss \ known) \cap subscribed)
  PROVE  IInv' /\ NotLater
<1>1. /\ TypeOK /\ NoLostUpdate /\ InWork = {} /\ busy = Idle
      /\ queue' \in Seq(Events) /\ Len(queue') <= QueueCap
      /\ found' = found /\ subscribed' = subscribed /\ targets' = targets
      /\ notify' = notify
  BY TakeOK DEF IInv, Take
<1>2. InWork' = {} /\ WorkNamespaces' = {} /\ busy' \in Handlers(nss)
  BY <1>1, IdleOK DEF InWork, WorkNamespaces
<1>3. \A ns \in Namespaces :
        /\ EntryInv(entry'[ns])
        /\ ns \in nss => entry'[ns] = entry[ns]
        /\ ns \notin nss => ~entry'[ns].pending
  BY PrunedOK, ZeroNotPending
<1>4. NotLater
  <2>1. \A ns \in Namespaces : entry[ns].due \in Int
    BY EntriesFromIInv, TimeFacts DEF EntryInv, Entry
  <2> QED BY <1>3, <2>1 DEF NotLater
<1>5. entry' \in [Namespaces -> Entry]
  BY <1>3 DEF PrunedEntries, EntryInv
<1>6. TypeOK'
  <2>1. PairsOf((nss \ known) \cap subscribed) \subseteq PairsOf(Namespaces)
    BY DEF PairsOf
  <2> QED BY <1>1, <1>2, <1>5, <2>1 DEF TypeOK
<1>7. StaleInv'
  BY <1>2 DEF StaleInv
<1>8. ASSUME NEW p \in PairsOf(nss \cap subscribed)
      PROVE  p \in current' \/ p \in lost' \/ Covered(p)'
  <2>1. p[1] \in nss /\ p[1] \in subscribed /\ p[2] \in Kinds /\ p \in PairsOf(nss)
    BY DEF PairsOf
  <2>2. CASE p[1] \notin known
    <3>1. p \in PairsOf((nss \ known) \cap subscribed)
      BY <2>1, <2>2 DEF PairsOf
    <3> QED BY <3>1
  <2>3. CASE p[1] \in known
    <3>1. p \in PairsOf(known \cap subscribed)
      BY <2>1, <2>3 DEF PairsOf
    <3>2. p \in current \/ p \in lost \/ Covered(p)
      BY <1>1, <3>1 DEF NoLostUpdate
    <3>3. entry'[p[1]] = entry[p[1]]
      BY <1>3, <2>1
    <3> QED BY <2>1, <3>2, <3>3, TakeCovers
  <2> QED BY <2>2, <2>3
<1>9. NoLostUpdate'
  BY <1>1, <1>8 DEF NoLostUpdate
<1> QED BY <1>2, <1>3, <1>4, <1>6, <1>7, <1>9, IInvFromEntries

LEMMA IgnoreStep ==
  ASSUME IInv, NEW kind, kind # "reload", Take(kind),
         UNCHANGED <<known, current, entry, timers, busy, lost>>
  PROVE  IInv' /\ NotLater
<1>1. /\ TypeOK /\ NoLostUpdate
      /\ queue' \in Seq(Events) /\ Len(queue') <= QueueCap
      /\ found' = found /\ subscribed' = subscribed /\ targets' = targets
      /\ notify' = notify
  BY TakeOK DEF IInv
<1>2. InWork' = InWork /\ WorkNamespaces' = WorkNamespaces
  BY DEF InWork, WorkNamespaces
<1>3. TypeOK'
  BY <1>1 DEF TypeOK
<1>4. \A p : Covered(p) => Covered(p)'
  BY TakeCovers
<1>5. NoLostUpdate'
  BY <1>1, <1>4 DEF NoLostUpdate
<1>6. EntriesConsistent' /\ ThrottleInv' /\ StaleInv'
  BY <1>2 DEF IInv, EntriesConsistent, ThrottleInv, StaleInv
<1> QED BY <1>3, <1>5, <1>6, SameEntries DEF IInv

(* A fetch: every entry is reset and everything is dumped.                 *)
LEMMA FetchStep ==
  ASSUME IInv, Take("fetch"), NEW nss \in SUBSET Namespaces, FetchAll(nss),
         known' = nss, current' = current \cap PairsOf(nss)
  PROVE  IInv' /\ NotLater
<1> DEFINE lag == Head(queue).lag
<1>1. /\ TypeOK /\ lag \in Lags
      /\ queue' \in Seq(Events) /\ Len(queue') <= QueueCap
      /\ found' = found /\ subscribed' = subscribed /\ targets' = targets
      /\ notify' = notify
  BY TakeOK DEF IInv
<1>2. /\ entry' = [ns \in Namespaces |-> ZeroEntry]
      /\ busy' = Work(PairsOf(nss), "fetch", lag)
      /\ lost' = {} /\ timers' = timers
  BY DEF FetchAll
<1> HIDE DEF lag
<1>3. busy' \in Handlers(nss)
  <2>1. PairsOf(nss) \in SUBSET PairsOf(nss)
    OBVIOUS
  <2> QED BY <1>1, <1>2, <2>1, WorkOK
<1>4. /\ InWork' = PairsOf(nss)
      /\ \A p \in PairsOf(nss) : busy'.got[p] = "todo"
      /\ PairsOf(nss) # {} => busy'.by = "fetch"
  <2>1. /\ DOMAIN busy'.got = PairsOf(nss)
        /\ \A p \in PairsOf(nss) : busy'.got[p] = "todo"
        /\ PairsOf(nss) # {} => busy'.by = "fetch"
    BY <1>2, WorkParts
  <2> QED BY <2>1 DEF InWork
<1>5. \A ns \in Namespaces : EntryInv(entry'[ns]) /\ ~entry'[ns].pending
  BY <1>2, ZeroEntryOK, ZeroNotPending
<1>6. entry' \in [Namespaces -> Entry]
  BY <1>2, ZeroEntryOK DEF EntryInv
<1>7. TypeOK'
  BY <1>1, <1>2, <1>3, <1>6 DEF TypeOK
<1>8. StaleInv'
  BY <1>4 DEF StaleInv
<1>9. NoLostUpdate'
  <2>1. PairsOf(known' \cap subscribed') \subseteq PairsOf(nss)
    BY DEF PairsOf
  <2> QED BY <1>4, <2>1 DEF NoLostUpdate, Covered
<1>10. \A ns \in WorkNamespaces' : ns \in Namespaces /\ busy'.by = "fetch"
  BY <1>4 DEF WorkNamespaces, PairsOf
<1>11. NotLater
  BY <1>5 DEF NotLater
<1> QED BY <1>5, <1>7, <1>8, <1>9, <1>10, <1>11, IInvFromEntries

-----------------------------------------------------------------------------
(* Dumps.                                                                  *)
LEMMA BusyFromIInv ==
  ASSUME IInv
  PROVE  /\ busy.by \in {"due", "fetch"} /\ busy.lag \in Lags
         /\ InWork \subseteq PairsOf(known) /\ busy.got \in [InWork -> Dump]
         /\ busy = [by |-> busy.by, lag |-> busy.lag, got |-> busy.got]
         /\ \A p \in InWork : p[1] \in known /\ p[1] \in WorkNamespaces
         /\ WorkNamespaces \subseteq Namespaces
<1>1. busy \in Handlers(known) /\ known \subseteq Namespaces
  BY DEF IInv, TypeOK
<1>2. /\ busy.by \in {"due", "fetch"} /\ busy.lag \in Lags
      /\ InWork \subseteq PairsOf(known) /\ busy.got \in [InWork -> Dump]
      /\ busy = [by |-> busy.by, lag |-> busy.lag, got |-> busy.got]
  BY <1>1, BusyParts DEF InWork
<1>3. \A p \in InWork : p[1] \in known /\ p[1] \in WorkNamespaces
  BY <1>2 DEF PairsOf, WorkNamespaces
<1>4. WorkNamespaces \subseteq Namespaces
  BY <1>1, <1>3 DEF WorkNamespaces
<1> QED BY <1>2, <1>3, <1>4

(* A step that changes what is known of the running dumps, not which they  *)
(* are, and makes stale only what is out of date.                          *)
LEMMA GotStep ==
  ASSUME IInv, NEW g \in [InWork -> Dump],
         busy' = [by |-> busy.by, lag |-> busy.lag, got |-> g],
         UNCHANGED <<known, entry>>
  PROVE  /\ InWork' = InWork /\ WorkNamespaces' = WorkNamespaces
         /\ busy' \in Handlers(known) /\ busy'.got = g
         /\ EntriesConsistent' /\ ThrottleInv' /\ NotLater
<1>1. busy'.by = busy.by /\ busy'.lag = busy.lag /\ busy'.got = g /\ DOMAIN g = InWork
  OBVIOUS
<1>2. InWork' = InWork /\ WorkNamespaces' = WorkNamespaces
  BY <1>1 DEF InWork, WorkNamespaces
<1>3. busy' \in Handlers(known)
  <2>1. InWork \in SUBSET PairsOf(known)
    BY BusyFromIInv
  <2> QED BY <2>1, BusyFrom, BusyFromIInv
<1>4. EntriesConsistent' /\ ThrottleInv'
  BY <1>1, <1>2 DEF IInv, EntriesConsistent, ThrottleInv
<1> QED BY <1>1, <1>2, <1>3, <1>4, SameEntries

LEMMA CollectStep ==
  ASSUME IInv, NEW p, NEW before, NEW after \in {"reading", "fresh", "failed"},
         Collect(p, before, after)
  PROVE  IInv' /\ NotLater
<1> DEFINE g == [busy.got EXCEPT ![p] = after]
<1>1. p \in InWork /\ g \in [InWork -> Dump]
      /\ \A q \in InWork : g[q] = "stale" => busy.got[q] = "stale"
  <2>1. after \in Dump /\ after # "stale"
    BY DEF Dump
  <2> QED BY <2>1, BusyFromIInv DEF Collect
<1>2. busy' = [busy EXCEPT !.got[p] = after]
  BY DEF Collect
<1>3. busy' = [by |-> busy.by, lag |-> busy.lag, got |-> g]
  BY <1>2, BusyFromIInv
<1> HIDE DEF g
<1>4. /\ InWork' = InWork /\ busy' \in Handlers(known) /\ busy'.got = g
      /\ EntriesConsistent' /\ ThrottleInv' /\ NotLater
  BY <1>1, <1>3, GotStep DEF Collect
<1>5. TypeOK'
  BY <1>4 DEF IInv, TypeOK, Collect
<1>6. StaleInv'
  BY <1>1, <1>4 DEF IInv, StaleInv, Collect
<1>7. ASSUME NEW q, Covered(q) PROVE Covered(q)'
  BY <1>1, <1>4, <1>7 DEF Covered, Collect
<1>8. NoLostUpdate'
  BY <1>7 DEF IInv, NoLostUpdate, Collect
<1> QED BY <1>4, <1>5, <1>6, <1>8 DEF IInv

LEMMA KernelChangeStep ==
  ASSUME IInv, NEW ns \in Namespaces, NEW kind \in Kinds, KernelChange(ns, kind)
  PROVE  IInv' /\ NotLater
<1> DEFINE changed == {ns} \X Affected(kind)
           g == [p \in InWork |-> IF p \in changed /\ busy.got[p] \in {"reading", "fresh"}
                                   THEN "stale" ELSE busy.got[p]]
<1>1. g \in [InWork -> Dump]
  BY BusyFromIInv DEF Dump
<1>2. /\ current' = current \ changed
      /\ busy' = [busy EXCEPT !.got = [p \in InWork |->
                    IF p \in changed /\ busy.got[p] \in {"reading", "fresh"}
                      THEN "stale" ELSE busy.got[p]]]
      /\ \/ /\ notify' = IF ns \in subscribed THEN notify \cup {<<ns, kind>>} ELSE notify
            /\ lost' = lost
         \/ notify' = notify /\ lost' = lost \cup changed
      /\ UNCHANGED <<found, subscribed, targets, known, entry, queue, timers>>
  BY DEF KernelChange
<1>3. busy' = [by |-> busy.by, lag |-> busy.lag, got |-> g]
  BY <1>2, BusyFromIInv
<1>4. \A p \in InWork : g[p] = "stale" => p \in changed \/ busy.got[p] = "stale"
  OBVIOUS
<1>5. /\ \A p \in changed : p[1] = ns /\ p[2] \in Mask(kind)
      /\ changed \subseteq PairsOf(Namespaces)
  BY KindsAssumption DEF Affected, Mask, PairsOf
<1> HIDE DEF g, changed
<1>6. /\ InWork' = InWork /\ busy' \in Handlers(known) /\ busy'.got = g
      /\ EntriesConsistent' /\ ThrottleInv' /\ NotLater
  BY <1>1, <1>2, <1>3, GotStep
<1>7. TypeOK'
  <2>1. notify' \subseteq PairsOf(Namespaces)
    BY <1>2 DEF IInv, TypeOK, PairsOf
  <2>2. lost' \subseteq PairsOf(Namespaces)
    BY <1>2, <1>5 DEF IInv, TypeOK
  <2> QED BY <1>2, <1>6, <2>1, <2>2 DEF IInv, TypeOK
<1>8. StaleInv'
  BY <1>2, <1>4, <1>6 DEF IInv, StaleInv
<1>9. ASSUME NEW p \in PairsOf(known \cap subscribed)
      PROVE  p \in current' \/ p \in lost' \/ Covered(p)'
  <2>1. CASE p \in changed
    <3>1. p \in lost' \/ (<<p[1], kind>> \in notify' /\ p[2] \in Mask(kind))
      BY <1>2, <1>5, <2>1 DEF PairsOf
    <3> QED BY <3>1 DEF Covered
  <2>2. CASE p \notin changed
    <3>1. Covered(p) => Covered(p)'
      BY <1>2, <1>4, <1>6, <2>2 DEF Covered
    <3> QED BY <1>2, <2>2, <3>1 DEF IInv, NoLostUpdate
  <2> QED BY <2>1, <2>2
<1>10. NoLostUpdate'
  BY <1>2, <1>9 DEF NoLostUpdate
<1> QED BY <1>6, <1>7, <1>8, <1>10 DEF IInv

(* The dumps end: rows of stale dumps are covered by a message or an event *)
(* that the change left, since they were out of date already.              *)
LEMMA ApplyDumpsStep ==
  ASSUME IInv, ApplyDumps
  PROVE  IInv' /\ NotLater
<1>1. /\ current' = (current \ InWork) \cup {p \in InWork : busy.got[p] = "fresh"}
      /\ lost' = lost \cup {p \in InWork : busy.got[p] = "failed"}
      /\ busy' = Idle
      /\ UNCHANGED <<found, subscribed, targets, notify, known, queue, timers>>
      /\ \A p \in InWork : busy.got[p] \notin {"todo", "reading"}
  BY DEF ApplyDumps
<1>2. InWork' = {} /\ WorkNamespaces' = {} /\ busy' \in Handlers(known)
  BY <1>1, IdleOK DEF InWork, WorkNamespaces
<1>3. ASSUME NEW ns \in Namespaces
      PROVE  /\ EntryInv(entry'[ns])
             /\ entry'[ns].pending = entry[ns].pending
             /\ entry'[ns].dirty = entry[ns].dirty
             /\ entry'[ns].due = entry[ns].due
  <2>1. EntryInv(entry[ns])
    BY EntriesFromIInv
  <2>2. CASE ns \in WorkNamespaces
    <3>1. entry'[ns] = [entry[ns] EXCEPT !.refreshed = busy.lag]
      BY <2>2 DEF ApplyDumps
    <3>2. entry[ns] \in Entry
      BY <2>1 DEF EntryInv
    <3>3. /\ entry'[ns] = [pending |-> entry[ns].pending, dirty |-> entry[ns].dirty,
                           due |-> entry[ns].due, refreshed |-> busy.lag]
      BY <3>1, <3>2 DEF Entry
    <3>4. busy.lag \in 0..Never
      BY BusyFromIInv, TimeFacts
    <3>5. entry'[ns] \in Entry
      BY <3>2, <3>3, <3>4 DEF Entry
    <3>6. ~entry[ns].pending
      BY <2>2 DEF IInv, EntriesConsistent
    <3> QED BY <2>1, <3>3, <3>5, <3>6 DEF EntryInv
  <2>3. CASE ns \notin WorkNamespaces
    <3>1. entry'[ns] = entry[ns]
      BY <2>3 DEF ApplyDumps
    <3> QED BY <2>1, <3>1
  <2> QED BY <2>2, <2>3
<1>4. NotLater
  <2>1. \A ns \in Namespaces : entry[ns].due \in Int
    BY EntriesFromIInv, TimeFacts DEF EntryInv, Entry
  <2> QED BY <1>3, <2>1 DEF NotLater
<1>5. entry' \in [Namespaces -> Entry]
  BY <1>3 DEF ApplyDumps, EntryInv
<1>6. TypeOK'
  <2>1. InWork \subseteq PairsOf(known) /\ PairsOf(known) \subseteq PairsOf(Namespaces)
    BY BusyFromIInv DEF IInv, TypeOK, PairsOf
  <2> QED BY <1>1, <1>2, <1>5, <2>1 DEF IInv, TypeOK
<1>7. StaleInv'
  BY <1>2 DEF StaleInv
<1>8. ASSUME NEW p \in PairsOf(known \cap subscribed)
      PROVE  p \in current' \/ p \in lost' \/ Covered(p)'
  <2>1. p[1] \in Namespaces
    BY DEF IInv, TypeOK, PairsOf
  <2>2. p \in current \/ p \in lost \/ Covered(p)
    BY DEF IInv, NoLostUpdate
  <2>3. CASE p \in InWork
    <3>1. busy.got[p] \in {"fresh", "stale", "failed"}
      BY <1>1, <2>3, BusyFromIInv DEF Dump
    <3>2. CASE busy.got[p] = "fresh"
      BY <1>1, <2>3, <3>2
    <3>3. CASE busy.got[p] = "failed"
      BY <1>1, <2>3, <3>3
    <3>4. CASE busy.got[p] = "stale"
      <4>1. p \notin current
        BY <2>3, <3>4 DEF IInv, StaleInv
      <4>2. Covered(p) => Covered(p)'
        BY <1>1, <1>3, <2>1, <3>4 DEF Covered
      <4> QED BY <1>1, <2>2, <4>1, <4>2
    <3> QED BY <3>1, <3>2, <3>3, <3>4
  <2>4. CASE p \notin InWork
    <3>1. Covered(p) => Covered(p)'
      BY <1>1, <1>3, <2>1, <2>4 DEF Covered
    <3> QED BY <1>1, <2>2, <2>4, <3>1
  <2> QED BY <2>3, <2>4
<1>9. NoLostUpdate'
  BY <1>1, <1>8 DEF NoLostUpdate
<1> QED BY <1>2, <1>3, <1>4, <1>6, <1>7, <1>9, IInvFromEntries

-----------------------------------------------------------------------------
(* The listener and the world.                                             *)
LEMMA SubscribeStep ==
  ASSUME IInv, NEW ns \in Namespaces, Subscribe(ns)
  PROVE  IInv' /\ NotLater
<1> DEFINE ev == ReloadEvent(ns, Kinds)
<1>1. /\ subscribed' = subscribed \cup {ns} /\ Enqueue(ev)
      /\ lost' = IF QueueFull THEN lost \cup PairsOf({ns}) ELSE lost
      /\ UNCHANGED <<found, targets, notify, known, current, entry, timers, busy>>
  BY DEF Subscribe
<1>2. ev \in Events /\ ev.kind = "reload" /\ ev.ns = ns /\ ev.mask = Kinds
  BY TimeFacts DEF ReloadEvent, Events
<1> HIDE DEF ev
<1>3. /\ queue' \in Seq(Events) /\ Len(queue') <= QueueCap
      /\ \A i \in DOMAIN queue : i \in DOMAIN queue' /\ queue'[i] = queue[i]
      /\ ~QueueFull => \E i \in DOMAIN queue' : queue'[i] = ev
  BY <1>1, <1>2, EnqueueOK DEF IInv, TypeOK
<1>4. InWork' = InWork /\ WorkNamespaces' = WorkNamespaces
  BY <1>1 DEF InWork, WorkNamespaces
<1>5. TypeOK'
  <2>1. PairsOf({ns}) \subseteq PairsOf(Namespaces)
    BY DEF PairsOf
  <2> QED BY <1>1, <1>3, <2>1 DEF IInv, TypeOK
<1>6. EntriesConsistent' /\ ThrottleInv' /\ StaleInv'
  BY <1>1, <1>4 DEF IInv, EntriesConsistent, ThrottleInv, StaleInv
<1>7. ASSUME NEW p \in PairsOf(known \cap subscribed')
      PROVE  p \in current' \/ p \in lost' \/ Covered(p)'
  <2>1. p[2] \in Kinds
    BY DEF PairsOf
  <2>2. CASE p[1] = ns
    <3>1. CASE QueueFull
      <4>1. p \in PairsOf({ns})
        BY <2>2 DEF PairsOf
      <4> QED BY <1>1, <3>1, <4>1
    <3>2. CASE ~QueueFull
      BY <1>2, <1>3, <2>1, <2>2, <3>2 DEF Covered
    <3> QED BY <3>1, <3>2
  <2>3. CASE p[1] # ns
    <3>1. p \in PairsOf(known \cap subscribed)
      BY <1>1, <2>3 DEF PairsOf
    <3>2. Covered(p) => Covered(p)'
      BY <1>1, <1>3, <1>4 DEF Covered
    <3> QED BY <1>1, <3>1, <3>2 DEF IInv, NoLostUpdate
  <2> QED BY <2>2, <2>3
<1>8. NoLostUpdate'
  BY <1>1, <1>7 DEF NoLostUpdate
<1> QED BY <1>1, <1>5, <1>6, <1>8, SameEntries DEF IInv

LEMMA ResyncStep ==
  ASSUME IInv, Resync
  PROVE  IInv' /\ NotLater
<1>1. /\ targets' = known /\ subscribed' = subscribed \cap known
      /\ notify' = notify \cap PairsOf(known)
      /\ Enqueue(Event("sync", 0)) \/ queue' = queue
      /\ UNCHANGED <<found, known, current, entry, timers, busy, lost>>
  BY DEF Resync
<1>2. /\ queue' \in Seq(Events) /\ Len(queue') <= QueueCap
      /\ \A i \in DOMAIN queue : i \in DOMAIN queue' /\ queue'[i] = queue[i]
  <2>1. Event("sync", 0) \in Events
    BY TimeFacts DEF Event, Events
  <2>2. CASE Enqueue(Event("sync", 0))
    BY <2>1, <2>2, EnqueueOK DEF IInv, TypeOK
  <2>3. CASE queue' = queue
    BY <2>3 DEF IInv, TypeOK
  <2> QED BY <1>1, <2>2, <2>3
<1>3. InWork' = InWork /\ WorkNamespaces' = WorkNamespaces
  BY <1>1 DEF InWork, WorkNamespaces
<1>4. TypeOK'
  BY <1>1, <1>2 DEF IInv, TypeOK
<1>5. EntriesConsistent' /\ ThrottleInv' /\ StaleInv'
  BY <1>1, <1>3 DEF IInv, EntriesConsistent, ThrottleInv, StaleInv
<1>6. ASSUME NEW p \in PairsOf(known \cap subscribed')
      PROVE  p \in current' \/ p \in lost' \/ Covered(p)'
  <2>1. p \in PairsOf(known \cap subscribed) /\ p[1] \in known
    BY <1>1 DEF PairsOf
  <2>2. \A kind \in Kinds : <<p[1], kind>> \in PairsOf(known)
    BY <2>1 DEF PairsOf
  <2>3. Covered(p) => Covered(p)'
    BY <1>1, <1>2, <1>3, <2>2 DEF Covered
  <2> QED BY <1>1, <2>1, <2>3 DEF IInv, NoLostUpdate
<1>7. NoLostUpdate'
  BY <1>1, <1>6 DEF NoLostUpdate
<1> QED BY <1>1, <1>4, <1>5, <1>7, SameEntries DEF IInv

LEMMA ReceiveStep ==
  ASSUME IInv, NEW ns \in Namespaces, NEW kind \in Kinds, Receive(ns, kind)
  PROVE  IInv' /\ NotLater
<1> DEFINE ev == ReloadEvent(ns, Mask(kind))
<1>1. /\ notify' = notify \ {<<ns, kind>>} /\ Enqueue(ev)
      /\ lost' = IF QueueFull THEN lost \cup ({ns} \X Affected(kind)) ELSE lost
      /\ UNCHANGED <<found, subscribed, targets, known, current, entry, timers, busy>>
  BY DEF Receive
<1>2. ev \in Events /\ ev.kind = "reload" /\ ev.ns = ns /\ ev.mask = Mask(kind)
  BY TimeFacts DEF ReloadEvent, Events, Mask
<1> HIDE DEF ev
<1>3. /\ queue' \in Seq(Events) /\ Len(queue') <= QueueCap
      /\ \A i \in DOMAIN queue : i \in DOMAIN queue' /\ queue'[i] = queue[i]
      /\ ~QueueFull => \E i \in DOMAIN queue' : queue'[i] = ev
  BY <1>1, <1>2, EnqueueOK DEF IInv, TypeOK
<1>4. InWork' = InWork /\ WorkNamespaces' = WorkNamespaces
  BY <1>1 DEF InWork, WorkNamespaces
<1>5. Mask(kind) = Affected(kind) /\ Mask(kind) \subseteq Kinds
  BY DEF Mask, Affected
<1>6. TypeOK'
  <2>1. {ns} \X Affected(kind) \subseteq PairsOf(Namespaces)
    BY <1>5 DEF PairsOf
  <2> QED BY <1>1, <1>3, <2>1 DEF IInv, TypeOK
<1>7. EntriesConsistent' /\ ThrottleInv' /\ StaleInv'
  BY <1>1, <1>4 DEF IInv, EntriesConsistent, ThrottleInv, StaleInv
<1>8. ASSUME NEW p \in PairsOf(known \cap subscribed)
      PROVE  p \in current' \/ p \in lost' \/ Covered(p)'
  <2>1. CASE p[1] = ns /\ p[2] \in Mask(kind)
    <3>1. CASE QueueFull
      <4>1. p \in {ns} \X Affected(kind)
        BY <1>5, <2>1 DEF PairsOf
      <4> QED BY <1>1, <3>1, <4>1
    <3>2. CASE ~QueueFull
      BY <1>2, <1>3, <2>1, <3>2 DEF Covered
    <3> QED BY <3>1, <3>2
  <2>2. CASE ~(p[1] = ns /\ p[2] \in Mask(kind))
    <3>1. Covered(p) => Covered(p)'
      BY <1>1, <1>3, <1>4, <2>2 DEF Covered
    <3> QED BY <1>1, <3>1 DEF IInv, NoLostUpdate
  <2> QED BY <2>1, <2>2
<1>9. NoLostUpdate'
  BY <1>1, <1>8 DEF NoLostUpdate
<1> QED BY <1>1, <1>6, <1>7, <1>9, SameEntries DEF IInv

(* Namespaces come and go: only the next discovery sees it.                *)
LEMMA FoundStep ==
  ASSUME IInv, found' \subseteq Namespaces,
         UNCHANGED <<subscribed, targets, notify, known, current, entry, queue, timers, busy, lost>>
  PROVE  IInv' /\ NotLater
<1>1. InWork' = InWork /\ WorkNamespaces' = WorkNamespaces
  BY DEF InWork, WorkNamespaces
<1>2. TypeOK'
  BY DEF IInv, TypeOK
<1>3. \A p : Covered(p) => Covered(p)'
  BY <1>1 DEF Covered
<1>4. EntriesConsistent' /\ ThrottleInv' /\ StaleInv' /\ NoLostUpdate'
  BY <1>1, <1>3 DEF IInv, EntriesConsistent, ThrottleInv, StaleInv, NoLostUpdate
<1> QED BY <1>2, <1>4, SameEntries DEF IInv

(* The clock.                                                              *)
LEMMA LaterEvent ==
  ASSUME NEW ev \in Events, ev.lag < MaxLag
  PROVE  LET l == [ev EXCEPT !.lag = @ + 1]
         IN  /\ l \in Events /\ l.kind = ev.kind
             /\ ev.kind = "reload" => l.ns = ev.ns /\ l.mask = ev.mask
<1>1. ev.lag \in Lags /\ ev.lag + 1 \in Lags
  <2>1. ev.lag \in Lags
    BY DEF Events
  <2> QED BY <2>1, TimeFacts
<1>2. CASE ev \in [kind : {"fetch", "sync", "fade", "scheduled"}, lag : Lags]
  <2>1. [ev EXCEPT !.lag = @ + 1] = [kind |-> ev.kind, lag |-> ev.lag + 1]
    BY <1>2
  <2>2. [kind |-> ev.kind, lag |-> ev.lag + 1] \in Events
    BY <1>1, <1>2 DEF Events
  <2>3. ev.kind # "reload"
    BY <1>2
  <2> QED BY <2>1, <2>2, <2>3
<1>3. CASE ev \in [kind : {"reload"}, lag : Lags, ns : Namespaces, mask : SUBSET Kinds]
  <2>1. [ev EXCEPT !.lag = @ + 1]
          = [kind |-> ev.kind, lag |-> ev.lag + 1, ns |-> ev.ns, mask |-> ev.mask]
    BY <1>3
  <2>2. [kind |-> ev.kind, lag |-> ev.lag + 1, ns |-> ev.ns, mask |-> ev.mask] \in Events
    BY <1>1, <1>3 DEF Events
  <2> QED BY <2>1, <2>2
<1> QED BY <1>2, <1>3 DEF Events

LEMMA TickStep ==
  ASSUME IInv, Tick
  PROVE  IInv' /\ NotLater
<1>1. TypeOK /\ NoLostUpdate
  BY DEF IInv
<1>2. /\ queue' \in Seq(Events) /\ Len(queue') <= QueueCap
      /\ DOMAIN queue' = DOMAIN queue
      /\ \A i \in DOMAIN queue : queue[i].kind = "reload"
            => /\ queue'[i].kind = "reload" /\ queue'[i].ns = queue[i].ns
               /\ queue'[i].mask = queue[i].mask
  <2>1. /\ queue' = [i \in DOMAIN queue |-> [queue[i] EXCEPT !.lag = @ + 1]]
        /\ \A i \in DOMAIN queue : queue[i].lag < MaxLag
    BY DEF Tick
  <2>2. queue \in Seq(Events) /\ Len(queue) <= QueueCap
    BY <1>1 DEF TypeOK
  <2>3. \A i \in DOMAIN queue : queue[i] \in Events
    BY <2>2
  <2>4. ASSUME NEW i \in DOMAIN queue
        PROVE  /\ queue'[i] \in Events
               /\ queue[i].kind = "reload"
                    => /\ queue'[i].kind = "reload" /\ queue'[i].ns = queue[i].ns
                       /\ queue'[i].mask = queue[i].mask
    <3>1. queue'[i] = [queue[i] EXCEPT !.lag = @ + 1]
      BY <2>1
    <3> QED BY <2>1, <2>3, <3>1, LaterEvent
  <2>5. DOMAIN queue = 1..Len(queue) /\ Len(queue) \in Nat
    BY <2>2
  <2>6. DOMAIN queue' = DOMAIN queue
    BY <2>1
  <2>7. queue' \in [1..Len(queue) -> Events]
    <3>1. queue' = [i \in 1..Len(queue) |-> queue'[i]]
      BY <2>1, <2>5
    <3> QED BY <2>4, <2>5, <3>1
  <2>8. queue' \in Seq(Events) /\ Len(queue') = Len(queue)
    BY <2>5, <2>7
  <2> QED BY <2>2, <2>4, <2>6, <2>8
<1>3. timers' \subseteq Namespaces \X (-MaxLag..Throttle)
  <2>1. /\ timers' = {<<t[1], t[2] - 1>> : t \in timers}
        /\ \A t \in timers : t[2] > -MaxLag
        /\ timers \subseteq Namespaces \X (-MaxLag..Throttle)
    BY <1>1 DEF Tick, TypeOK
  <2>2. ASSUME NEW t \in timers
        PROVE  <<t[1], t[2] - 1>> \in Namespaces \X (-MaxLag..Throttle)
    <3>1. t[1] \in Namespaces /\ t[2] \in -MaxLag..Throttle /\ t[2] > -MaxLag
      BY <2>1
    <3>2. t[2] - 1 \in -MaxLag..Throttle
      BY <3>1, TimeFacts
    <3> QED BY <3>1, <3>2
  <2> QED BY <2>1, <2>2
<1>4. \A ns \in Namespaces :
        /\ entry'[ns] = OneUnitLater(entry[ns]) /\ EntryInv(entry[ns])
        /\ EntryInv(entry'[ns])
        /\ entry'[ns].pending = entry[ns].pending /\ entry'[ns].dirty = entry[ns].dirty
        /\ entry'[ns].due <= entry[ns].due
  BY EntriesFromIInv, OneUnitLaterOK DEF Tick
<1>5. entry' \in [Namespaces -> Entry]
  BY <1>4 DEF Tick, EntryInv
<1>6. NotLater
  BY <1>4 DEF NotLater
<1>7. /\ busy' \in Handlers(known) /\ InWork' = InWork /\ busy'.got = busy.got
      /\ InWork # {} => /\ busy'.by = busy.by /\ busy'.lag = busy.lag + 1
                        /\ busy.lag \in 0..MaxLag - 1
  <2>1. CASE busy = Idle
    <3>1. busy' = busy
      BY <2>1 DEF Tick
    <3> QED BY <1>1, <2>1, <3>1, IdleOK DEF InWork, TypeOK
  <2>2. CASE busy # Idle
    <3>1. busy' = [busy EXCEPT !.lag = @ + 1] /\ busy.lag < MaxLag
      BY <2>2 DEF Tick
    <3>2. busy = [by |-> busy.by, lag |-> busy.lag, got |-> busy.got]
      BY BusyFromIInv
    <3>3. busy' = [by |-> busy.by, lag |-> busy.lag + 1, got |-> busy.got]
      BY <3>1, <3>2
    <3>4. busy.lag \in 0..MaxLag - 1 /\ busy.lag + 1 \in Lags
      BY <3>1, BusyFromIInv, TimeFacts
    <3>5. InWork \in SUBSET PairsOf(known) /\ busy.got \in [InWork -> Dump]
          /\ busy.by \in {"due", "fetch"}
      BY BusyFromIInv
    <3>6. busy' \in Handlers(known)
      BY <3>3, <3>4, <3>5, BusyFrom
    <3> QED BY <3>3, <3>4, <3>6 DEF InWork
  <2> QED BY <2>1, <2>2
<1>8. WorkNamespaces' = WorkNamespaces
  BY <1>7 DEF WorkNamespaces
<1>9. TypeOK'
  BY <1>1, <1>2, <1>3, <1>5, <1>7 DEF TypeOK, Tick
<1>10. StaleInv'
  BY <1>7 DEF IInv, StaleInv, Tick
<1>11. \A p \in PairsOf(known \cap subscribed) : Covered(p) => Covered(p)'
  <2>1. \A p \in PairsOf(known \cap subscribed) : p[1] \in Namespaces
    BY <1>1 DEF TypeOK, PairsOf
  <2> QED BY <1>2, <1>4, <1>7, <2>1 DEF Covered, Tick
<1>12. NoLostUpdate'
  BY <1>1, <1>11 DEF NoLostUpdate, Tick
<1>13. ASSUME NEW ns \in WorkNamespaces'
       PROVE  /\ ~entry'[ns].pending
              /\ busy'.by = "due" => entry'[ns].refreshed - busy'.lag >= Throttle
  <2>1. ns \in WorkNamespaces /\ ns \in Namespaces /\ InWork # {}
    BY <1>8, BusyFromIInv DEF WorkNamespaces
  <2>2. ~entry[ns].pending
    BY <2>1 DEF IInv, EntriesConsistent
  <2>3. busy.by = "due" => entry[ns].refreshed - busy.lag >= Throttle
    BY <2>1 DEF IInv, ThrottleInv
  <2>4. busy.by = "due"
          => OneUnitLater(entry[ns]).refreshed - (busy.lag + 1) >= Throttle
    BY <1>4, <1>7, <2>1, <2>3, OneUnitLaterOK
  <2> QED BY <1>4, <1>7, <2>1, <2>2, <2>4
<1> QED BY <1>4, <1>6, <1>9, <1>10, <1>12, <1>13, IInvFromEntries

-----------------------------------------------------------------------------
LEMMA InitInv == Init => IInv
<1> SUFFICES ASSUME Init PROVE IInv
  OBVIOUS
<1>1. InWork = {} /\ WorkNamespaces = {} /\ busy \in Handlers(known)
  BY IdleOK DEF Init, InWork, WorkNamespaces
<1>2. \A ns \in Namespaces : entry[ns] = ZeroEntry
  BY DEF Init
<1>3. \A ns \in Namespaces : EntryInv(entry[ns])
  BY <1>2, ZeroEntryOK
<1>4. entry \in [Namespaces -> Entry]
  BY ZeroEntryOK DEF Init, EntryInv
<1>5. queue \in Seq(Events) /\ Len(queue) <= QueueCap
  <2>1. Event("fetch", 0) \in Events
    BY TimeFacts DEF Event, Events
  <2> QED BY <2>1, QueueAssumption DEF Init
<1>6. TypeOK
  BY <1>1, <1>4, <1>5 DEF Init, TypeOK
<1>7. EntriesConsistent /\ ThrottleInv /\ StaleInv
  BY <1>1, <1>3 DEF EntriesConsistent, ThrottleInv, StaleInv, EntryInv
<1>8. PairsOf(known \cap subscribed) = {}
  BY DEF Init, PairsOf
<1> QED BY <1>6, <1>7, <1>8 DEF IInv, NoLostUpdate

LEMMA TimerFiresStep ==
  ASSUME IInv, TimerFires
  PROVE  IInv' /\ NotLater
<1>1. PICK t \in timers :
        /\ t[2] <= 0 /\ timers' = timers \ {t} /\ Enqueue(Event("scheduled", -t[2]))
        /\ UNCHANGED <<found, subscribed, targets, notify, known, current, entry, busy, lost>>
  BY DEF TimerFires
<1>2. t[2] \in -MaxLag..Throttle
  BY DEF IInv, TypeOK
<1>3. Event("scheduled", -t[2]) \in Events
  <2>1. -t[2] \in Lags
    BY <1>1, <1>2, TimeFacts
  <2> QED BY <2>1 DEF Event, Events
<1> QED BY <1>1, <1>3, EnqueueStep

LEMMA FadeTickerStep ==
  ASSUME IInv, FadeTicker
  PROVE  IInv' /\ NotLater
<1>1. PICK lag \in Lags : Enqueue(Event("fade", lag))
  BY DEF FadeTicker
<1>2. Event("fade", lag) \in Events
  BY DEF Event, Events
<1>3. /\ timers' \subseteq timers
      /\ UNCHANGED <<found, subscribed, targets, notify, known, current, entry, busy, lost>>
  BY DEF FadeTicker
<1> QED BY <1>1, <1>2, <1>3, EnqueueStep

LEMMA RequestFetchLatestStep ==
  ASSUME IInv, RequestFetchLatest
  PROVE  IInv' /\ NotLater
<1>1. Event("fetch", 0) \in Events
  BY TimeFacts DEF Event, Events
<1>2. /\ Enqueue(Event("fetch", 0)) /\ timers' \subseteq timers
      /\ UNCHANGED <<found, subscribed, targets, notify, known, current, entry, busy, lost>>
  BY DEF RequestFetchLatest
<1> QED BY <1>1, <1>2, EnqueueStep

LEMMA SyncFailsStep ==
  ASSUME IInv, SyncFails
  PROVE  IInv' /\ NotLater
<1>1. CASE ScheduledReloadFails
  BY <1>1, IgnoreStep DEF ScheduledReloadFails
<1>2. CASE NamespaceSyncFails
  BY <1>2, IgnoreStep DEF NamespaceSyncFails
<1>3. CASE FetchLatestSyncFails
  <2>1. known \in SUBSET Namespaces /\ current = current \cap PairsOf(known)
    BY DEF IInv, TypeOK
  <2>2. /\ Take("fetch") /\ FetchAll(known)
        /\ known' = known /\ current' = current \cap PairsOf(known)
    BY <1>3, <2>1 DEF FetchLatestSyncFails
  <2> QED BY <2>1, <2>2, FetchStep
<1> QED BY <1>1, <1>2, <1>3 DEF SyncFails

LEMMA HandleEventStep ==
  ASSUME IInv, HandleEvent
  PROVE  IInv' /\ NotLater
<1>1. found \in SUBSET Namespaces
  BY DEF IInv, TypeOK
<1>2. CASE HandleNamespaceSync
  BY <1>1, <1>2, SyncStep DEF HandleNamespaceSync, Sync
<1>3. CASE HandleFetchLatest
  BY <1>1, <1>3, FetchStep DEF HandleFetchLatest, Sync
<1> QED BY <1>2, <1>3, HandleReloadStep, HandleFadeTickStep,
           HandleScheduledReloadStep DEF HandleEvent

LEMMA ListenerStep ==
  ASSUME IInv, Listener
  PROVE  IInv' /\ NotLater
BY ResyncStep, SubscribeStep, ReceiveStep DEF Listener

LEMMA WorldStep ==
  ASSUME IInv, World
  PROVE  IInv' /\ NotLater
<1>1. found \subseteq Namespaces
  BY DEF IInv, TypeOK
<1>2. CASE \E ns \in Namespaces : Appear(ns) \/ Vanish(ns)
  <2>1. found' \subseteq Namespaces
    BY <1>1, <1>2 DEF Appear, Vanish
  <2>2. UNCHANGED <<subscribed, targets, notify, known, current, entry, queue, timers, busy, lost>>
    BY <1>2 DEF Appear, Vanish
  <2> QED BY <2>1, <2>2, FoundStep
<1>3. CASE \E ns \in Namespaces, kind \in Kinds : KernelChange(ns, kind)
  BY <1>3, KernelChangeStep
<1> QED BY <1>2, <1>3 DEF World

LEMMA NextStep ==
  ASSUME IInv, Next
  PROVE  IInv' /\ NotLater
<1>1. CASE StartDump \/ FinishDump \/ CollectFails
  BY <1>1, CollectStep DEF StartDump, FinishDump, CollectFails
<1> QED BY <1>1, FadeTickerStep, RequestFetchLatestStep, HandleEventStep, SyncFailsStep, ApplyDumpsStep,
           TimerFiresStep, ListenerStep, WorldStep, TickStep DEF Next

LEMMA StutteringStep ==
  ASSUME IInv, UNCHANGED vars
  PROVE  IInv' /\ NotLater
<1>1. found' \subseteq Namespaces
  BY DEF vars, IInv, TypeOK
<1> QED BY <1>1, FoundStep DEF vars

LEMMA Invariance == Spec => []IInv
<1>1. IInv /\ [Next]_vars => IInv'
  BY NextStep, StutteringStep
<1> QED BY InitInv, <1>1, PTL DEF Spec

-----------------------------------------------------------------------------
(* Entries of the scheduler are well formed in every interleaving of       *)
(* events, cancelled reloads, timers that fire all the same and dumps: an  *)
(* entry is dirty exactly while it waits with a due time, and never while  *)
(* its own dumps run (event_loop.go).                                      *)
THEOREM EntriesStayConsistent == Spec => [](TypeOK /\ EntriesConsistent)
<1>1. IInv => TypeOK /\ EntriesConsistent
  BY DEF IInv
<1> QED BY Invariance, <1>1, PTL

(* The queue never holds more than its capacity, what is up to date        *)
(* belongs to a namespace of the inventory, and a running handler dumps    *)
(* only such namespaces (enqueueEvent, applyDueNamespaceReloadLocked).     *)
THEOREM SchedulerTypes == Spec => []TypeOK
<1>1. IInv => TypeOK
  BY DEF IInv
<1> QED BY Invariance, <1>1, PTL

(* The event loop loses no update: a row of a subscribed namespace that    *)
(* the kernel has changed since it was read is covered by a message, an    *)
(* event, a waiting reload or a running dump, except after the dropped     *)
(* event, failed dump, ended stream or returning namespace that `lost'     *)
(* records.                                                                *)
THEOREM UpdatesAreNotLost == Spec => []NoLostUpdate
<1>1. IInv => NoLostUpdate
  BY DEF IInv
<1> QED BY Invariance, <1>1, PTL

(* A reload that netlink events caused is a throttle interval after the    *)
(* namespace's last one, by their stamps (collectNamespaceReloadLocked,    *)
(* markNamespaceReloadRefreshedAllLocked).                                 *)
THEOREM Throttling == Spec => ReloadsAreThrottled
<1>1. ASSUME IInv, [Next]_vars, NEW ns \in WorkNamespaces, busy.by = "due", busy' = Idle
      PROVE  entry[ns].refreshed - entry'[ns].refreshed >= Throttle
  <2>1. InWork # {} /\ InWork' = {} /\ TypeOK
    BY <1>1, IdleOK DEF WorkNamespaces, InWork, IInv
  <2>2. CASE ApplyDumps
    <3>1. ns \in Namespaces /\ entry[ns] \in Entry
      BY <1>1, BusyFromIInv DEF IInv, TypeOK
    <3>2. entry'[ns] = [entry[ns] EXCEPT !.refreshed = busy.lag]
      BY <1>1, <2>2, <3>1 DEF ApplyDumps
    <3>3. entry'[ns].refreshed = busy.lag
      BY <3>1, <3>2 DEF Entry
    <3>4. entry[ns].refreshed - busy.lag >= Throttle
      BY <1>1, <3>1 DEF IInv, ThrottleInv
    <3> QED BY <3>3, <3>4
  <2>3. CASE HandleEvent \/ SyncFails
    <3>1. \E kind : Take(kind)
      BY <2>3 DEF HandleEvent, SyncFails, HandleReload, HandleFadeTick,
        HandleScheduledReload, HandleNamespaceSync, HandleFetchLatest,
        ScheduledReloadFails, NamespaceSyncFails, FetchLatestSyncFails
    <3> QED BY <2>1, <3>1, TakeOK
  <2>4. CASE busy' = busy
    BY <2>1, <2>4 DEF InWork
  <2>5. CASE StartDump \/ FinishDump \/ CollectFails
    <3>1. PICK p, before, after : p \in InWork /\ Collect(p, before, after)
      BY <2>5 DEF StartDump, FinishDump, CollectFails
    <3>2. busy' = [busy EXCEPT !.got[p] = after]
      BY <3>1 DEF Collect
    <3>3. busy' = [by |-> busy.by, lag |-> busy.lag,
                   got |-> [busy.got EXCEPT ![p] = after]]
      BY <1>1, <3>2, BusyFromIInv
    <3>4. DOMAIN busy'.got = InWork
      BY <3>3 DEF InWork
    <3> QED BY <2>1, <3>4 DEF InWork
  <2>6. CASE Tick
    <3>1. busy # Idle
      BY <2>1, IdleOK DEF InWork
    <3>2. busy' = [busy EXCEPT !.lag = @ + 1]
      BY <2>6, <3>1 DEF Tick
    <3>3. busy = [by |-> busy.by, lag |-> busy.lag, got |-> busy.got]
      BY <1>1, BusyFromIInv
    <3>4. busy' = [by |-> busy.by, lag |-> busy.lag + 1, got |-> busy.got]
      BY <3>2, <3>3
    <3>5. InWork' = InWork
      BY <3>4 DEF InWork
    <3> QED BY <2>1, <3>5
  <2>7. CASE \E n \in Namespaces, kind \in Kinds : KernelChange(n, kind)
    <3>1. PICK n \in Namespaces, kind \in Kinds : KernelChange(n, kind)
      BY <2>7
    <3>2. busy' = [busy EXCEPT !.got = [p \in InWork |->
                    IF p \in {n} \X Affected(kind) /\ busy.got[p] \in {"reading", "fresh"}
                      THEN "stale" ELSE busy.got[p]]]
      BY <3>1 DEF KernelChange
    <3>3. busy = [by |-> busy.by, lag |-> busy.lag, got |-> busy.got]
      BY <1>1, BusyFromIInv
    <3>4. InWork' = InWork
      BY <3>2, <3>3 DEF InWork
    <3> QED BY <2>1, <3>4
  <2>8. CASE TimerFires \/ FadeTicker \/ RequestFetchLatest \/ Listener
    BY <2>4, <2>8 DEF TimerFires, FadeTicker, RequestFetchLatest, Listener,
      Resync, Subscribe, Receive
  <2>9. CASE \E n \in Namespaces : Appear(n) \/ Vanish(n)
    BY <2>4, <2>9 DEF Appear, Vanish
  <2>10. CASE UNCHANGED vars
    BY <2>4, <2>10 DEF vars
  <2> QED BY <1>1, <2>2, <2>3, <2>5, <2>6, <2>7, <2>8, <2>9, <2>10 DEF Next, World
<1>2. IInv /\ [Next]_vars
        => \A ns \in WorkNamespaces :
             busy.by = "due" /\ busy' = Idle
               => entry[ns].refreshed - entry'[ns].refreshed >= Throttle
  BY <1>1
<1> QED BY Invariance, <1>2, PTL DEF Spec, ReloadsAreThrottled

(* No later event puts off a reload that already waits, and none waits     *)
(* longer than a throttle interval (collectNamespaceReloadLocked): the     *)
(* debounce cannot starve a namespace with a steady stream of events.      *)
THEOREM NoPostponing == Spec => ReloadsAreNotPostponed
<1>1. ASSUME IInv, [Next]_vars, NEW ns \in Namespaces
      PROVE  /\ entry'[ns].pending => entry'[ns].due <= Throttle
             /\ entry[ns].pending /\ entry'[ns].pending
                  => entry'[ns].due <= entry[ns].due
  <2>1. IInv' /\ NotLater
    BY <1>1, NextStep, StutteringStep
  <2>2. entry'[ns].pending => entry'[ns].due # NotDue
    BY <2>1 DEF IInv, EntriesConsistent
  <2>3. entry'[ns].due \in -MaxLag..NotDue
    BY <2>1 DEF IInv, TypeOK, Entry
  <2> QED BY <2>1, <2>2, <2>3, TimeFacts DEF NotLater
<1>2. IInv /\ [Next]_vars
        => \A ns \in Namespaces :
             /\ entry'[ns].pending => entry'[ns].due <= Throttle
             /\ entry[ns].pending /\ entry'[ns].pending
                  => entry'[ns].due <= entry[ns].due
  BY <1>1
<1> QED BY Invariance, <1>2, PTL DEF Spec, ReloadsAreNotPostponed
=============================================================================
