------------------------------- MODULE Listener -------------------------------
(***************************************************************************)
(* The netlink listener (internal/store/netlink_listener.go).              *)
(*                                                                         *)
(* ListenNetlink compares its map `subs' with the inventory, every 5 s and *)
(* when it is asked to, ends the subscriptions of namespaces that are gone *)
(* and sets up those that are missing.  A subscription is one stream per   *)
(* kind of message, opened one after the other in the namespace its path   *)
(* leads to, and a goroutine that forwards what the streams bring until    *)
(* `done' is closed, the program ends, or one stream ends.                 *)
(*                                                                         *)
(* The library, the kernel and the event loop, which writes the inventory, *)
(* are the environment.  Messages are abstracted to whether a stream has   *)
(* one, table contents to whether the store has been told of a change.     *)
(***************************************************************************)
EXTENDS Naturals, Sequences, Functions

CONSTANTS
  Namespaces,  \* namespaces that may exist
  Self,        \* the one the program runs in
  Paths,       \* mounts and /proc/<pid>/ns/net files
  SelfPath,    \* /proc/self/ns/net
  Streams,     \* a subscription's streams in the order they are opened
  Slots,       \* identities of subscriptions (done channels) in use at once
  None

ASSUME SelfAssumption == Self \in Namespaces /\ SelfPath \in Paths
ASSUME StreamsAssumption ==
  Streams \in Seq(Range(Streams)) /\ Len(Streams) > 0 /\ IsInjective(Streams)
ASSUME NoneAssumption == None \notin Namespaces \cup Slots

VARIABLES
  at,         \* the namespace each path leads to, or None
  inventory,  \* mount point of each namespace of inventory.namespaces
  subs,       \* the slot of each namespace the listener has subscribed to
  todo,       \* newTargets still to be set up
  setup,      \* the slot being set up, or None
  slot,       \* the subscriptions
  cancelled,  \* ctx.Done is closed
  stopped,    \* ListenNetlink has returned
  unseen      \* changes of which no event has told the store since

vars == <<at, inventory, subs, todo, setup, slot, cancelled, stopped, unseen>>
world == <<at, inventory>>
listener == <<subs, todo, setup, stopped>>

-----------------------------------------------------------------------------
Kinds == Range(Streams)
Named == [DOMAIN inventory -> Paths]

(* A subscription: the namespace it stands for and the one its streams are *)
(* in, the streams opened so far, those still open, those with a message,  *)
(* whether its goroutine runs and whether its done channel is closed.      *)
Subscriptions ==
  [id : Namespaces, of : Namespaces, opened : 0..Len(Streams),
   open : SUBSET Kinds, pending : SUBSET Kinds,
   forwarding : BOOLEAN, done : BOOLEAN]
Empty(id, of, done) ==
  [id |-> id, of |-> of, opened |-> 0, open |-> {}, pending |-> {},
   forwarding |-> FALSE, done |-> done]
Unused == Empty(Self, Self, TRUE)

(* Nothing is left of a subscription that is over: its slot is unused.     *)
Settled(sub) ==
  IF sub.done /\ ~sub.forwarding /\ sub.open = {} THEN Unused ELSE sub
Registered(s) == \E id \in DOMAIN subs : subs[id] = s

TypeOK ==
  /\ at \in [Paths -> Namespaces \cup {None}]
  /\ DOMAIN inventory \subseteq Namespaces /\ inventory \in Named
  /\ DOMAIN subs \subseteq Namespaces /\ subs \in [DOMAIN subs -> Slots]
  /\ todo \subseteq Namespaces \X Paths
  /\ setup \in Slots \cup {None}
  /\ slot \in [Slots -> Subscriptions]
  /\ \A s \in Slots : slot[s].pending \subseteq slot[s].open
  /\ cancelled \in BOOLEAN /\ stopped \in BOOLEAN
  /\ unseen \subseteq Namespaces \X Kinds

(* The inventory is still empty when the listener starts.                  *)
Init ==
  /\ at \in {f \in [Paths -> Namespaces \cup {None}] : f[SelfPath] = Self}
  /\ inventory = [id \in {} |-> SelfPath]
  /\ subs = [id \in {} |-> None] /\ todo = {} /\ setup = None
  /\ slot = [s \in Slots |-> Unused]
  /\ cancelled = FALSE /\ stopped = FALSE
  /\ unseen = {}

-----------------------------------------------------------------------------
Ready == ~stopped /\ todo = {} /\ setup = None
Gone == DOMAIN subs \ DOMAIN inventory

(* Mutated form: done is not closed.                                       *)
ClosedNone(slots) == slot

(* close(sub.done).                                                        *)
Closed(slots) ==
  [s \in Slots |-> IF s \in slots THEN Settled([slot[s] EXCEPT !.done = TRUE])
                                  ELSE slot[s]]

(* The first half of a resync: the copy of the inventory is taken and the  *)
(* subscriptions of namespaces that are gone end.  The event that asks for *)
(* a sync when anything differs is part of EventLoop.                      *)
Resync ==
  /\ Ready
  /\ slot' = Closed({subs[id] : id \in Gone})
  /\ subs' = [id \in DOMAIN subs \ Gone |-> subs[id]]
  /\ todo' = {<<id, inventory[id]>> : id \in DOMAIN inventory \ DOMAIN subs}
  /\ UNCHANGED <<world, setup, stopped, cancelled, unseen>>

(* Mutated form: the error of GetFromPath is not looked at.                *)
BeginUnchecked(s) ==
  \E t \in todo :
    /\ setup = None /\ slot[s] = Unused
    /\ slot' = [slot EXCEPT ![s] = Empty(t[1], IF t[1] = Self THEN Self ELSE at[t[2]],
                                         FALSE)]
    /\ setup' = s /\ todo' = todo \ {t}
    /\ UNCHANGED <<world, subs, stopped, cancelled, unseen>>

(* startNamespaceSubscription opens the path, other than for the program's *)
(* own namespace.  It may lead elsewhere than it did for the inventory.    *)
Begin(s) ==
  \E t \in todo :
    /\ setup = None /\ slot[s] = Unused
    /\ LET of == IF t[1] = Self THEN Self ELSE at[t[2]]
       IN  /\ of # None
           /\ slot' = [slot EXCEPT ![s] = Empty(t[1], of, FALSE)]
    /\ setup' = s /\ todo' = todo \ {t}
    /\ UNCHANGED <<world, subs, stopped, cancelled, unseen>>

(* GetFromPath fails.                                                      *)
BeginFails ==
  \E t \in todo :
    /\ setup = None /\ t[1] # Self
    /\ todo' = todo \ {t}
    /\ UNCHANGED <<world, subs, setup, stopped, slot, cancelled, unseen>>

(* NeighSubscribeAt, RouteSubscribeAt, LinkSubscribeAt.                    *)
OpenStream(s) ==
  /\ setup = s /\ slot[s].opened < Len(Streams)
  /\ LET kind == Streams[slot[s].opened + 1]
     IN  slot' = [slot EXCEPT ![s] = [slot[s] EXCEPT !.opened = @ + 1,
                                                     !.open = @ \cup {kind}]]
  /\ UNCHANGED <<world, listener, cancelled, unseen>>

(* Mutated form: a namespace is subscribed to whatever came of it.         *)
OpenStreamFailsSilently(s) ==
  /\ setup = s /\ slot[s].opened < Len(Streams)
  /\ subs' = [id \in DOMAIN subs \cup {slot[s].id} |->
                IF id = slot[s].id THEN s ELSE subs[id]]
  /\ setup' = None
  /\ UNCHANGED <<world, todo, stopped, slot, cancelled, unseen>>

(* One of them fails: the attempt is over.  What was opened before is left *)
(* to itself, as nobody will close this done channel, and forgotten here.  *)
OpenStreamFails(s) ==
  /\ setup = s /\ slot[s].opened < Len(Streams)
  /\ slot' = [slot EXCEPT ![s] = Unused]
  /\ setup' = None
  /\ UNCHANGED <<world, subs, todo, stopped, cancelled, unseen>>

(* Mutated form: NamespaceSubscribedMsg is not sent.                       *)
StartSilently(s) ==
  /\ setup = s /\ slot[s].opened = Len(Streams)
  /\ slot' = [slot EXCEPT ![s].forwarding = TRUE]
  /\ subs' = [id \in DOMAIN subs \cup {slot[s].id} |->
                IF id = slot[s].id THEN s ELSE subs[id]]
  /\ setup' = None
  /\ UNCHANGED <<world, todo, stopped, cancelled, unseen>>

(* The goroutine starts, the subscription is entered in subs, and          *)
(* NamespaceSubscribedMsg makes the store read the whole namespace.        *)
Start(s) ==
  /\ setup = s /\ slot[s].opened = Len(Streams)
  /\ slot' = [slot EXCEPT ![s].forwarding = TRUE]
  /\ subs' = [id \in DOMAIN subs \cup {slot[s].id} |->
                IF id = slot[s].id THEN s ELSE subs[id]]
  /\ setup' = None
  /\ unseen' = unseen \ ({slot[s].id} \X Kinds)
  /\ UNCHANGED <<world, todo, stopped, cancelled>>

(* Mutated form: ListenNetlink returns without its deferred function.      *)
StopOnly ==
  /\ Ready /\ cancelled
  /\ stopped' = TRUE /\ subs' = [id \in {} |-> None]
  /\ UNCHANGED <<world, todo, setup, slot, cancelled, unseen>>

(* ListenNetlink returns and closes every done channel it still has.       *)
Stop ==
  /\ Ready /\ cancelled
  /\ stopped' = TRUE
  /\ slot' = Closed({subs[id] : id \in DOMAIN subs})
  /\ subs' = [id \in {} |-> None]
  /\ UNCHANGED <<world, todo, setup, cancelled, unseen>>

-----------------------------------------------------------------------------
(* The goroutine of a subscription.  Of several cases that are ready, Go   *)
(* chooses any: a message may be forwarded after done was closed.          *)
Forward(s, kind) ==
  /\ slot[s].forwarding /\ kind \in slot[s].pending
  /\ slot' = [slot EXCEPT ![s].pending = @ \ {kind}]
  /\ unseen' = unseen \ {<<slot[s].id, kind>>}
  /\ UNCHANGED <<world, listener, cancelled>>

End(s) ==
  /\ slot[s].forwarding
  /\ cancelled \/ slot[s].done \/ slot[s].open # Kinds
  /\ slot' = [slot EXCEPT ![s] = Settled([slot[s] EXCEPT !.forwarding = FALSE])]
  /\ UNCHANGED <<world, listener, cancelled, unseen>>

-----------------------------------------------------------------------------
(* The library: a stream whose done channel is closed ends; one may also   *)
(* end by itself, for example when its receive buffer overflows, and       *)
(* closes its channel.  Messages not received yet are lost.  Goroutines of *)
(* its own that it may leave behind are not followed.                      *)
Without(sub, kind) == [sub EXCEPT !.open = @ \ {kind}, !.pending = @ \ {kind}]
Shut(s, kind) ==
  /\ kind \in slot[s].open
  /\ slot' = [slot EXCEPT ![s] = Settled(Without(slot[s], kind))]
  /\ UNCHANGED <<world, listener, cancelled, unseen>>
StreamStops(s, kind) == slot[s].done /\ Shut(s, kind)
StreamBreaks(s, kind) == ~slot[s].done /\ Shut(s, kind)

(* The kernel's tables change: every stream open there gets a message.     *)
KernelChange(ns, kind) ==
  /\ unseen' = unseen \cup {<<ns, kind>>}
  /\ slot' = [s \in Slots |->
                IF slot[s].of = ns /\ kind \in slot[s].open
                  THEN [slot[s] EXCEPT !.pending = @ \cup {kind}] ELSE slot[s]]
  /\ UNCHANGED <<world, listener, cancelled>>

(* Mounts and processes come and go: a path leads elsewhere or nowhere.    *)
PathChanges(p, ns) ==
  /\ p # SelfPath /\ at[p] # ns
  /\ at' = [at EXCEPT ![p] = ns]
  /\ UNCHANGED <<inventory, listener, slot, cancelled, unseen>>

(* The event loop replaces the inventory by what it finds, each namespace  *)
(* with one of its paths.  (One that leads elsewhere from the start, as a  *)
(* mount that another hides, is one that changes at once.)                 *)
Discovered == {Self} \cup {at[p] : p \in {q \in Paths : at[q] # None}}
SyncInventory ==
  /\ inventory' \in {f \in [Discovered -> Paths] :
                       /\ f[Self] = SelfPath
                       /\ \A id \in Discovered : at[f[id]] = id}
  /\ UNCHANGED <<at, listener, slot, cancelled, unseen>>

(* The program is told to end.                                             *)
Cancel ==
  /\ ~cancelled /\ cancelled' = TRUE
  /\ UNCHANGED <<world, listener, slot, unseen>>

-----------------------------------------------------------------------------
SetupFails == BeginFails \/ \E s \in Slots : OpenStreamFails(s)
Setup == SetupFails \/ \E s \in Slots : Begin(s) \/ OpenStream(s) \/ Start(s)
Goroutine(s) == End(s) \/ \E kind \in Kinds : Forward(s, kind)
Stops(s) == \E kind \in Kinds : StreamStops(s, kind)
Breaks == \E s \in Slots, kind \in Kinds : StreamBreaks(s, kind)
Moves == SyncInventory \/ \E p \in Paths, ns \in Namespaces \cup {None} : PathChanges(p, ns)

Next ==
  \/ Resync \/ Setup \/ Stop \/ Cancel \/ Moves \/ Breaks
  \/ \E s \in Slots : Goroutine(s) \/ Stops(s)
  \/ \E ns \in Namespaces, kind \in Kinds : KernelChange(ns, kind)

Spec == Init /\ [][Next]_vars

(* The ticker asks for resyncs and the library's calls return; goroutines  *)
(* run, and a select that finds ctx.Done closed time and again takes it    *)
(* in the end, as Go chooses at random; streams end when they are told to. *)
Fairness ==
  /\ WF_vars(Resync) /\ WF_vars(Setup) /\ SF_vars(Stop)
  /\ \A s \in Slots : SF_vars(End(s)) /\ WF_vars(Stops(s))
FairSpec == Spec /\ Fairness
-----------------------------------------------------------------------------
(* A subscription in use is in exactly one hand: entered in subs under its *)
(* own namespace, being set up, or told to end; so nothing forwards beside *)
(* the subscription of a namespace for good, and no done channel is closed *)
(* a second time, which would panic.                                       *)
InOneHand ==
  /\ \A id \in DOMAIN subs : slot[subs[id]].id = id /\ ~slot[subs[id]].done
  /\ setup # None => ~slot[setup].done /\ ~slot[setup].forwarding
  /\ \A s \in Slots : ~slot[s].done => Registered(s) \/ setup = s
  /\ setup # None => ~Registered(setup)

(* All a subscription has to do: streams of the right namespace, all open, *)
(* and a goroutine that forwards them.                                     *)
Intact(sub) == sub.of = sub.id /\ sub.open = Kinds /\ sub.forwarding
Heard(id) == id \in DOMAIN subs /\ Intact(slot[subs[id]])

(* There is no gap between the first reload of a namespace and what its    *)
(* streams bring: while its subscription is intact, every change made at   *)
(* any time is known to the store or has a message on its way.             *)
NoGap ==
  \A id \in DOMAIN subs, kind \in Kinds :
    Heard(id) /\ <<id, kind>> \in unseen => kind \in slot[subs[id]].pending

(* The listener implements Feed, the promise the event loop relies on: a   *)
(* namespace is watched while its subscription is intact, and what is on   *)
(* its way is what its streams have brought.  Whatever the order of        *)
(* resyncs, set-up steps, late goroutines and broken streams, watching     *)
(* begins with a full read, every change made while watching leaves a      *)
(* message, and a message vanishes only by being told or with the watch.   *)
FeedView == INSTANCE Feed WITH
  watched <- {id \in Namespaces : Heard(id)},
  news <- unseen,
  mail <- {p \in Namespaces \X Kinds : Heard(p[1]) /\ p[2] \in slot[subs[p[1]]].pending}
ImplementsFeed == FeedView!Spec

(* The paths a subscription is opened by lead where the inventory has them *)
(* lead, or nowhere.                                                       *)
PathsAreOfNamespaces ==
  /\ \A id \in DOMAIN inventory : id # Self => at[inventory[id]] \in {id, None}
  /\ \A t \in todo : t[1] # Self => at[t[2]] \in {t[1], None}

(* No stream of a subscription in use has ended.                           *)
StreamsLast ==
  \A s \in Slots : ~slot[s].done
    => slot[s].open = {Streams[i] : i \in 1..slot[s].opened}

StaysKnown(id) == <>[](id \in DOMAIN inventory /\ ~cancelled)

(* Unless streams break, or a path comes to lead to another namespace      *)
(* before the inventory knows, every namespace that stays in the inventory *)
(* is subscribed to in the end, however often attempts failed before.      *)
NamespacesAreHeard ==
  []StreamsLast /\ []PathsAreOfNamespaces /\ <>[][~SetupFails]_vars
    => \A id \in Namespaces : StaysKnown(id) => <>[]Heard(id)

(* A subscription told to end does, goroutine and streams, and when the    *)
(* program is told to end, the listener returns and all of them end, at    *)
(* whatever point of its work it was.                                      *)
SubscriptionsEnd ==
  /\ \A s \in Slots : slot[s].done ~> slot[s] = Unused
  /\ cancelled ~> (stopped /\ \A s \in Slots : slot[s] = Unused)

(* What the comment at netlink_listener.go:15 says: the listener           *)
(* subscribes to the streams of every discovered namespace.  Then each     *)
(* that stays should be heard once nothing fails any more.                 *)
EveryDiscoveredNamespaceIsHeard ==
  []PathsAreOfNamespaces /\ <>[][~SetupFails /\ ~Breaks]_vars
    => \A id \in Namespaces : StaysKnown(id) => <>[]Heard(id)
=============================================================================
