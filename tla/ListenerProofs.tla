---------------------------- MODULE ListenerProofs ----------------------------
(***************************************************************************)
(* Proofs of the safety of Listener, for any number of namespaces, paths   *)
(* and streams.                                                            *)
(*                                                                         *)
(* InOneHand needs SetupInv: what is still to be set up is subscribed to   *)
(* by nothing yet, once each.  NoGap follows step by step from InOneHand,  *)
(* and so does every step of Feed.                                         *)
(***************************************************************************)
EXTENDS Listener, TLAPS

SetupInv ==
  /\ \A t \in todo : t[1] \notin DOMAIN subs
  /\ \A t, u \in todo : t[1] = u[1] => t = u
  /\ setup # None => /\ slot[setup].id \notin DOMAIN subs
                     /\ \A t \in todo : t[1] # slot[setup].id

IInv == TypeOK /\ InOneHand /\ SetupInv

(* A slot that is cleared was told to end, and is as good as new.          *)
LEMMA SettledOK ==
  ASSUME NEW sub \in Subscriptions, sub.pending \subseteq sub.open
  PROVE  /\ Settled(sub) \in Subscriptions
         /\ Settled(sub).pending \subseteq Settled(sub).open
         /\ Settled(sub).done = sub.done
         /\ ~sub.done => Settled(sub) = sub
  <1>1. Unused \in Subscriptions /\ Unused.pending \subseteq Unused.open /\ Unused.done
    BY SelfAssumption, StreamsAssumption DEF Unused, Empty, Subscriptions
  <1> QED BY <1>1 DEF Settled, Subscriptions

(* The fields of a subscription after one step of it.                      *)
LEMMA SubscriptionOK ==
  ASSUME NEW sub \in Subscriptions, sub.pending \subseteq sub.open,
         NEW kind \in Kinds
  PROVE  /\ [sub EXCEPT !.done = TRUE] \in Subscriptions
         /\ [sub EXCEPT !.forwarding = TRUE] \in Subscriptions
         /\ [sub EXCEPT !.forwarding = FALSE] \in Subscriptions
         /\ Without(sub, kind) \in Subscriptions
         /\ [sub EXCEPT !.pending = @ \ {kind}] \in Subscriptions
  BY DEF Subscriptions, Without

LEMMA InitOK == Init => IInv /\ NoGap
  <1> SUFFICES ASSUME Init PROVE IInv /\ NoGap
    OBVIOUS
  <1>1. Unused \in Subscriptions /\ Unused.pending \subseteq Unused.open /\ Unused.done
    BY SelfAssumption, StreamsAssumption DEF Unused, Empty, Subscriptions
  <1>2. TypeOK
    BY <1>1, NoneAssumption DEF Init, TypeOK, Named
  <1>3. InOneHand /\ SetupInv /\ NoGap
    BY <1>1 DEF Init, InOneHand, SetupInv, NoGap
  <1> QED BY <1>2, <1>3 DEF IInv
(* Steps of goroutines, streams and the kernel leave every subscription in *)
(* the hand it is in.                                                      *)
Same(sub, new) ==
  /\ new \in Subscriptions /\ new.pending \subseteq new.open
  /\ new.done = sub.done
  /\ ~sub.done => new.id = sub.id
  /\ new.forwarding => sub.forwarding

LEMMA SameHands ==
  ASSUME IInv, UNCHANGED <<listener, world, cancelled>>,
         slot' \in [Slots -> Subscriptions], \A s \in Slots : Same(slot[s], slot'[s]),
         unseen' \subseteq Namespaces \X Kinds
  PROVE  IInv'
  <1>1. TypeOK'
    BY DEF IInv, TypeOK, Named, world, listener, Same
  <1>2. InOneHand' /\ SetupInv'
    BY NoneAssumption DEF IInv, TypeOK, InOneHand, SetupInv, Same, listener, Registered
  <1> QED BY <1>1, <1>2 DEF IInv

LEMMA SlotAlone ==
  ASSUME IInv, UNCHANGED <<listener, world, cancelled>>,
         NEW s \in Slots, NEW new, Same(slot[s], new), slot' = [slot EXCEPT ![s] = new],
         unseen' \subseteq Namespaces \X Kinds
  PROVE  IInv'
  <1>1. slot' \in [Slots -> Subscriptions]
    BY DEF Same, IInv, TypeOK
  <1>2. \A r \in Slots : Same(slot[r], slot'[r])
    BY DEF Same, IInv, TypeOK
  <1> QED BY <1>1, <1>2, SameHands

LEMMA ForwardOK ==
  ASSUME IInv, NEW s \in Slots, NEW kind \in Kinds, Forward(s, kind)
  PROVE  IInv' /\ (NoGap => NoGap')
  <1> DEFINE new == [slot[s] EXCEPT !.pending = @ \ {kind}]
  <1>1. slot[s] \in Subscriptions /\ slot[s].pending \subseteq slot[s].open
    BY DEF IInv, TypeOK
  <1>2. Same(slot[s], new)
    BY <1>1, SubscriptionOK DEF Same, Subscriptions
  <1>3. slot' = [slot EXCEPT ![s] = new] /\ UNCHANGED <<listener, world, cancelled>>
    BY DEF Forward
  <1>4. unseen' \subseteq Namespaces \X Kinds
    BY DEF Forward, IInv, TypeOK
  <1>5. IInv'
    BY <1>2, <1>3, <1>4, SlotAlone
  <1>6. ASSUME NoGap PROVE NoGap'
    <2>1. new.pending = slot[s].pending \ {kind} /\ new.of = slot[s].of
          /\ new.open = slot[s].open /\ new.id = slot[s].id
      BY <1>1 DEF Subscriptions
    <2>2. unseen' = unseen \ {<<slot[s].id, kind>>} /\ subs' = subs
      BY DEF Forward, listener
    <2> SUFFICES ASSUME NEW id \in DOMAIN subs, NEW k \in Kinds, Heard(id)',
                        <<id, k>> \in unseen'
                 PROVE  k \in slot'[subs[id]].pending
      BY <2>2 DEF NoGap
    <2>3. subs[id] \in Slots /\ slot[subs[id]].id = id
      BY DEF IInv, TypeOK, InOneHand
    <2>4. Heard(id)
      BY <1>1, <1>3, <2>1, <2>2, <2>3 DEF Heard, Intact, IInv, TypeOK, Forward
    <2>5. k \in slot[subs[id]].pending
      BY <1>6, <2>2, <2>4 DEF NoGap
    <2>6. CASE subs[id] = s
      BY <1>3, <2>1, <2>2, <2>3, <2>5, <2>6 DEF IInv, TypeOK
    <2>7. CASE subs[id] # s
      BY <1>3, <2>5, <2>7, <2>3 DEF IInv, TypeOK
    <2> QED BY <2>6, <2>7
  <1> QED BY <1>5, <1>6

(* A stream or a goroutine ends: what it was part of is not intact after.  *)
LEMMA PartEnds ==
  ASSUME IInv, NEW s \in Slots, NEW new \in Subscriptions,
         new.pending \subseteq new.open, new.done = slot[s].done, new.id = slot[s].id,
         new.forwarding => slot[s].forwarding,
         ~new.forwarding \/ new.open # Kinds,
         slot' = [slot EXCEPT ![s] = Settled(new)],
         UNCHANGED <<listener, world, cancelled, unseen>>
  PROVE  IInv' /\ (NoGap => NoGap')
  <1>1. Same(slot[s], Settled(new))
    <2>1. Settled(new) \in Subscriptions
          /\ Settled(new).pending \subseteq Settled(new).open
          /\ Settled(new).done = slot[s].done
      BY SettledOK
    <2>2. ~slot[s].done => Settled(new).id = slot[s].id
      BY SettledOK
    <2>3. Settled(new).forwarding => new.forwarding
      BY DEF Settled, Unused, Empty
    <2> QED BY <2>1, <2>2, <2>3 DEF Same
  <1>2. IInv'
    BY <1>1, SlotAlone DEF IInv, TypeOK
  <1>3. ASSUME NoGap PROVE NoGap'
    <2>1. subs' = subs /\ unseen' = unseen
      BY DEF listener
    <2> SUFFICES ASSUME NEW id \in DOMAIN subs, NEW k \in Kinds, Heard(id)',
                        <<id, k>> \in unseen
                 PROVE  k \in slot'[subs[id]].pending
      BY <2>1 DEF NoGap
    <2>2. subs[id] \in Slots /\ ~slot[subs[id]].done
      BY DEF IInv, TypeOK, InOneHand
    <2>3. subs[id] # s
      <3> SUFFICES ASSUME subs[id] = s PROVE FALSE
        OBVIOUS
      <3>1. Settled(new) = new
        BY <2>2, SettledOK
      <3>2. slot'[s] = new
        BY <3>1 DEF IInv, TypeOK
      <3> QED BY <2>1, <3>2 DEF Heard, Intact
    <2>4. slot'[subs[id]] = slot[subs[id]]
      BY <2>2, <2>3 DEF IInv, TypeOK
    <2>5. Heard(id)
      BY <2>1, <2>4 DEF Heard
    <2> QED BY <1>3, <2>4, <2>5 DEF NoGap
  <1> QED BY <1>2, <1>3

LEMMA ShutOK ==
  ASSUME IInv, NEW s \in Slots, NEW kind \in Kinds, Shut(s, kind)
  PROVE  IInv' /\ (NoGap => NoGap')
  <1> DEFINE new == Without(slot[s], kind)
  <1>1. slot[s] \in Subscriptions /\ slot[s].pending \subseteq slot[s].open
    BY DEF IInv, TypeOK
  <1>2. new \in Subscriptions
    BY <1>1, SubscriptionOK
  <1>3. /\ new.pending \subseteq new.open /\ new.done = slot[s].done
        /\ new.id = slot[s].id /\ new.forwarding = slot[s].forwarding
        /\ new.open # Kinds
    BY <1>1 DEF Subscriptions, Without
  <1>4. slot' = [slot EXCEPT ![s] = Settled(new)]
    BY DEF Shut
  <1> HIDE DEF new
  <1> QED BY <1>2, <1>3, <1>4, PartEnds DEF Shut

LEMMA EndOK ==
  ASSUME IInv, NEW s \in Slots, End(s)
  PROVE  IInv' /\ (NoGap => NoGap')
  <1> DEFINE new == [slot[s] EXCEPT !.forwarding = FALSE]
  <1>1. slot[s] \in Subscriptions /\ slot[s].pending \subseteq slot[s].open
    BY DEF IInv, TypeOK
  <1>2. new \in Subscriptions
    BY <1>1 DEF Subscriptions
  <1>3. /\ new.pending \subseteq new.open /\ new.done = slot[s].done
        /\ new.id = slot[s].id /\ ~new.forwarding
    BY <1>1 DEF Subscriptions
  <1>4. slot' = [slot EXCEPT ![s] = Settled(new)]
    BY DEF End
  <1> HIDE DEF new
  <1> QED BY <1>2, <1>3, <1>4, PartEnds DEF End
LEMMA KernelChangeOK ==
  ASSUME IInv, NEW ns \in Namespaces, NEW kind \in Kinds, KernelChange(ns, kind)
  PROVE  IInv' /\ (NoGap => NoGap')
  <1>1. ASSUME NEW s \in Slots
        PROVE  /\ Same(slot[s], slot'[s])
               /\ slot'[s].of = slot[s].of /\ slot'[s].open = slot[s].open
               /\ slot[s].pending \subseteq slot'[s].pending
               /\ slot[s].of = ns /\ kind \in slot[s].open => kind \in slot'[s].pending
    <2>1. slot[s] \in Subscriptions /\ slot[s].pending \subseteq slot[s].open
      BY DEF IInv, TypeOK
    <2>2. CASE slot[s].of = ns /\ kind \in slot[s].open
      <3>1. slot'[s] = [slot[s] EXCEPT !.pending = @ \cup {kind}]
        BY <2>2 DEF KernelChange
      <3> QED BY <2>1, <2>2, <3>1 DEF Subscriptions, Same
    <2>3. CASE ~(slot[s].of = ns /\ kind \in slot[s].open)
      <3>1. slot'[s] = slot[s]
        BY <2>3 DEF KernelChange
      <3> QED BY <2>1, <2>3, <3>1 DEF Same
    <2> QED BY <2>2, <2>3
  <1>2. slot' \in [Slots -> Subscriptions]
    <2>1. \A s \in Slots : slot'[s] \in Subscriptions
      BY <1>1 DEF Same
    <2>2. slot' = [s \in Slots |-> slot'[s]]
      BY DEF KernelChange
    <2> QED BY <2>1, <2>2
  <1>3. IInv'
    BY <1>1, <1>2, SameHands DEF KernelChange, IInv, TypeOK
  <1>4. ASSUME NoGap PROVE NoGap'
    <2>1. subs' = subs /\ unseen' = unseen \cup {<<ns, kind>>}
      BY DEF KernelChange, listener
    <2> SUFFICES ASSUME NEW id \in DOMAIN subs, NEW k \in Kinds, Heard(id)',
                        <<id, k>> \in unseen'
                 PROVE  k \in slot'[subs[id]].pending
      BY <2>1 DEF NoGap
    <2>2. subs[id] \in Slots /\ slot[subs[id]].id = id /\ ~slot[subs[id]].done
      BY DEF IInv, TypeOK, InOneHand
    <2>3. Heard(id)
      BY <1>1, <2>1, <2>2 DEF Heard, Intact, Same
    <2>4. CASE <<id, k>> \in unseen
      BY <1>1, <1>4, <2>2, <2>3, <2>4 DEF NoGap
    <2>5. CASE id = ns /\ k = kind
      BY <1>1, <2>2, <2>3, <2>5 DEF Heard, Intact
    <2> QED BY <2>1, <2>4, <2>5
  <1> QED BY <1>3, <1>4

-----------------------------------------------------------------------------
(* Steps of the listener while a subscription is set up.                   *)
LEMMA OpenStreamOK ==
  ASSUME IInv, NEW s \in Slots, OpenStream(s)
  PROVE  IInv' /\ (NoGap => NoGap')
  <1> DEFINE kind == Streams[slot[s].opened + 1]
             new == [slot[s] EXCEPT !.opened = @ + 1, !.open = @ \cup {kind}]
  <1>1. slot[s] \in Subscriptions /\ slot[s].pending \subseteq slot[s].open
    BY DEF IInv, TypeOK
  <1>2. kind \in Kinds /\ slot[s].opened + 1 \in 0..Len(Streams)
    BY <1>1, StreamsAssumption DEF OpenStream, Subscriptions, Kinds
  <1> HIDE DEF kind
  <1>3. Same(slot[s], new)
    BY <1>1, <1>2 DEF Same, Subscriptions
  <1>4. slot' = [slot EXCEPT ![s] = new] /\ setup = s
        /\ UNCHANGED <<listener, world, cancelled, unseen>>
    BY DEF OpenStream, kind
  <1> HIDE DEF new
  <1>5. IInv'
    BY <1>3, <1>4, SlotAlone DEF IInv, TypeOK
  <1>6. ASSUME NoGap PROVE NoGap'
    <2>1. subs' = subs /\ unseen' = unseen
      BY <1>4 DEF listener
    <2>2. \A id \in DOMAIN subs : subs[id] \in Slots /\ subs[id] # s
      BY <1>4, NoneAssumption DEF IInv, TypeOK, InOneHand, Registered
    <2>3. \A id \in DOMAIN subs : slot'[subs[id]] = slot[subs[id]]
      BY <1>4, <2>2 DEF IInv, TypeOK
    <2> QED BY <1>6, <2>1, <2>3 DEF NoGap, Heard
  <1> QED BY <1>5, <1>6

LEMMA OpenStreamFailsOK ==
  ASSUME IInv, NEW s \in Slots, OpenStreamFails(s)
  PROVE  IInv' /\ (NoGap => NoGap')
  <1>1. Unused \in Subscriptions /\ Unused.pending \subseteq Unused.open /\ Unused.done
    BY SelfAssumption, StreamsAssumption DEF Unused, Empty, Subscriptions
  <1>2. /\ setup = s /\ setup' = None /\ slot' = [slot EXCEPT ![s] = Unused]
        /\ subs' = subs /\ todo' = todo /\ unseen' = unseen
        /\ stopped' = stopped /\ cancelled' = cancelled /\ UNCHANGED world
    BY DEF OpenStreamFails
  <1>3. \A id \in DOMAIN subs : subs[id] \in Slots /\ subs[id] # s
    BY <1>2, NoneAssumption DEF IInv, TypeOK, InOneHand, Registered
  <1>4. \A id \in DOMAIN subs : slot'[subs[id]] = slot[subs[id]]
    BY <1>2, <1>3 DEF IInv, TypeOK
  <1>5. TypeOK'
    BY <1>1, <1>2 DEF IInv, TypeOK, Named, world
  <1>6. InOneHand'
    <2>1. \A r \in Slots : ~slot'[r].done => r # s /\ slot'[r] = slot[r]
      BY <1>1, <1>2 DEF IInv, TypeOK
    <2> QED BY <1>2, <1>4, <2>1, NoneAssumption DEF IInv, InOneHand, Registered
  <1>7. SetupInv'
    BY <1>2 DEF IInv, SetupInv
  <1>8. NoGap => NoGap'
    BY <1>2, <1>4 DEF NoGap, Heard
  <1> QED BY <1>5, <1>6, <1>7, <1>8 DEF IInv

LEMMA BeginOK ==
  ASSUME IInv, NEW s \in Slots, Begin(s)
  PROVE  IInv' /\ (NoGap => NoGap')
  <1>1. PICK t \in todo :
          LET of == IF t[1] = Self THEN Self ELSE at[t[2]]
          IN  /\ of # None
              /\ setup = None /\ slot[s] = Unused /\ setup' = s /\ todo' = todo \ {t}
              /\ slot' = [slot EXCEPT ![s] = Empty(t[1], of, FALSE)]
    BY DEF Begin
  <1> DEFINE of == IF t[1] = Self THEN Self ELSE at[t[2]]
             new == Empty(t[1], of, FALSE)
  <1>2. /\ of # None /\ setup = None /\ slot[s] = Unused /\ setup' = s
        /\ todo' = todo \ {t} /\ slot' = [slot EXCEPT ![s] = new]
        /\ subs' = subs /\ unseen' = unseen
        /\ stopped' = stopped /\ cancelled' = cancelled /\ UNCHANGED world
    BY <1>1 DEF Begin
  <1>3. t[1] \in Namespaces /\ of \in Namespaces
    BY <1>2, SelfAssumption DEF IInv, TypeOK
  <1> HIDE DEF of
  <1>4. /\ new \in Subscriptions /\ new.pending \subseteq new.open
        /\ ~new.done /\ ~new.forwarding /\ new.id = t[1]
    <2>1. 0 \in 0..Len(Streams)
      BY StreamsAssumption
    <2> QED BY <1>3, <2>1 DEF Empty, Subscriptions
  <1> HIDE DEF new
  <1>5. \A id \in DOMAIN subs : subs[id] \in Slots /\ subs[id] # s
    BY <1>2 DEF IInv, TypeOK, InOneHand, Unused, Empty
  <1>6. \A id \in DOMAIN subs : slot'[subs[id]] = slot[subs[id]]
    BY <1>2, <1>5 DEF IInv, TypeOK
  <1>7. slot'[s] = new
    BY <1>2 DEF IInv, TypeOK
  <1>8. TypeOK'
    BY <1>2, <1>4 DEF IInv, TypeOK, Named, world
  <1>9. InOneHand'
    <2>1. \A r \in Slots : r # s => slot'[r] = slot[r]
      BY <1>2 DEF IInv, TypeOK
    <2> QED BY <1>2, <1>4, <1>5, <1>6, <1>7, <2>1, NoneAssumption
            DEF IInv, InOneHand, Registered
  <1>10. SetupInv'
    BY <1>2, <1>4, <1>7 DEF IInv, SetupInv
  <1>11. NoGap => NoGap'
    BY <1>2, <1>6 DEF NoGap, Heard
  <1> QED BY <1>8, <1>9, <1>10, <1>11 DEF IInv
LEMMA StartOK ==
  ASSUME IInv, NEW s \in Slots, Start(s)
  PROVE  IInv' /\ (NoGap => NoGap')
  <1> DEFINE new == [slot[s] EXCEPT !.forwarding = TRUE]
             own == slot[s].id
  <1>1. slot[s] \in Subscriptions /\ slot[s].pending \subseteq slot[s].open
    BY DEF IInv, TypeOK
  <1>2. /\ setup = s /\ setup' = None /\ slot' = [slot EXCEPT ![s] = new]
        /\ subs' = [id \in DOMAIN subs \cup {own} |-> IF id = own THEN s ELSE subs[id]]
        /\ unseen' = unseen \ ({own} \X Kinds)
        /\ todo' = todo /\ stopped' = stopped /\ cancelled' = cancelled /\ UNCHANGED world
    BY DEF Start
  <1>3. /\ own \in Namespaces /\ own \notin DOMAIN subs /\ ~slot[s].done
        /\ \A t \in todo : t[1] # own
    BY <1>1, <1>2, NoneAssumption DEF IInv, TypeOK, InOneHand, SetupInv, Subscriptions
  <1>4. /\ new \in Subscriptions /\ new.pending \subseteq new.open
        /\ new.done = slot[s].done /\ new.id = own
    BY <1>1, SubscriptionOK DEF Subscriptions
  <1> HIDE DEF new, own
  <1>5. slot'[s] = new /\ \A r \in Slots : r # s => slot'[r] = slot[r]
    BY <1>2 DEF IInv, TypeOK
  <1>6. \A id \in DOMAIN subs : subs'[id] = subs[id] /\ subs[id] \in Slots /\ subs[id] # s
    BY <1>2, <1>3, NoneAssumption DEF IInv, TypeOK, InOneHand, Registered
  <1>7. DOMAIN subs' = DOMAIN subs \cup {own} /\ subs'[own] = s
    BY <1>2
  <1>8. TypeOK'
    <2>1. subs' \in [DOMAIN subs' -> Slots]
      BY <1>2, <1>6, <1>7
    <2>2. DOMAIN subs' \subseteq Namespaces
      BY <1>3, <1>7 DEF IInv, TypeOK
    <2>3. slot' \in [Slots -> Subscriptions]
          /\ \A r \in Slots : slot'[r].pending \subseteq slot'[r].open
      BY <1>2, <1>4, <1>5 DEF IInv, TypeOK
    <2> QED BY <1>2, <2>1, <2>2, <2>3 DEF IInv, TypeOK, Named, world
  <1>9. InOneHand'
    <2>1. \A id \in DOMAIN subs' : slot'[subs'[id]].id = id /\ ~slot'[subs'[id]].done
      BY <1>3, <1>4, <1>5, <1>6, <1>7 DEF IInv, InOneHand
    <2>2. \A r \in Slots : ~slot'[r].done => \E id \in DOMAIN subs' : subs'[id] = r
      <3> SUFFICES ASSUME NEW r \in Slots, ~slot'[r].done
                   PROVE  \E id \in DOMAIN subs' : subs'[id] = r
        OBVIOUS
      <3>1. CASE r = s
        BY <1>7, <3>1
      <3>2. CASE r # s
        <4>1. Registered(r)
          BY <1>2, <1>5, <3>2 DEF IInv, InOneHand
        <4> QED BY <1>6, <1>7, <4>1 DEF Registered
      <3> QED BY <3>1, <3>2
    <2> QED BY <1>2, <2>1, <2>2 DEF InOneHand, Registered
  <1>10. SetupInv'
    BY <1>2, <1>3, <1>7 DEF IInv, SetupInv
  <1>11. ASSUME NoGap PROVE NoGap'
    <2> SUFFICES ASSUME NEW id \in DOMAIN subs', NEW k \in Kinds, Heard(id)',
                        <<id, k>> \in unseen'
                 PROVE  k \in slot'[subs'[id]].pending
      BY DEF NoGap
    <2>1. id # own /\ id \in DOMAIN subs /\ <<id, k>> \in unseen
      BY <1>2, <1>7
    <2>2. subs'[id] = subs[id] /\ slot'[subs[id]] = slot[subs[id]]
      BY <1>5, <1>6, <2>1
    <2>3. Heard(id)
      BY <2>1, <2>2 DEF Heard
    <2> QED BY <1>11, <2>1, <2>2, <2>3 DEF NoGap
  <1> QED BY <1>8, <1>9, <1>10, <1>11 DEF IInv

(* The done channels of some namespaces' subscriptions are closed, and the *)
(* namespaces leave subs.                                                  *)
LEMMA Leave ==
  ASSUME IInv, NoGap, Ready, setup' = None, NEW gone \in SUBSET DOMAIN subs,
         slot' = Closed({subs[id] : id \in gone}),
         subs' = [id \in DOMAIN subs \ gone |-> subs[id]],
         unseen' = unseen, UNCHANGED <<world, cancelled>>
  PROVE  /\ slot' \in [Slots -> Subscriptions]
         /\ \A r \in Slots : slot'[r].pending \subseteq slot'[r].open
         /\ DOMAIN subs' \subseteq Namespaces /\ subs' \in [DOMAIN subs' -> Slots]
         /\ InOneHand' /\ NoGap'
  <1> DEFINE closed == {subs[id] : id \in gone}
  <1>1. ASSUME NEW r \in Slots
        PROVE  /\ slot'[r] \in Subscriptions /\ slot'[r].pending \subseteq slot'[r].open
               /\ r \in closed => slot'[r].done
               /\ r \notin closed => slot'[r] = slot[r]
    <2>1. slot[r] \in Subscriptions /\ slot[r].pending \subseteq slot[r].open
      BY DEF IInv, TypeOK
    <2> DEFINE new == [slot[r] EXCEPT !.done = TRUE]
    <2>2. new \in Subscriptions /\ new.pending \subseteq new.open /\ new.done
      BY <2>1, SubscriptionOK DEF Subscriptions
    <2>3. slot'[r] = IF r \in closed THEN Settled(new) ELSE slot[r]
      BY DEF Closed
    <2> HIDE DEF new, closed
    <2> QED BY <2>1, <2>2, <2>3, SettledOK
  <1>2. slot' \in [Slots -> Subscriptions]
    <2>1. slot' = [r \in Slots |-> slot'[r]]
      BY DEF Closed
    <2> QED BY <1>1, <2>1
  <1>3. DOMAIN subs' = DOMAIN subs \ gone /\ \A id \in DOMAIN subs' : subs'[id] = subs[id]
    OBVIOUS
  <1>4. \A id \in DOMAIN subs' : subs[id] \in Slots /\ subs[id] \notin closed
    BY <1>3 DEF IInv, TypeOK, InOneHand
  <1>5. \A id \in DOMAIN subs' : slot'[subs'[id]] = slot[subs[id]]
    BY <1>1, <1>3, <1>4
  <1>6. DOMAIN subs' \subseteq Namespaces /\ subs' \in [DOMAIN subs' -> Slots]
    BY <1>3, <1>4 DEF IInv, TypeOK
  <1>7. InOneHand'
    <2>1. \A id \in DOMAIN subs' : slot'[subs'[id]].id = id /\ ~slot'[subs'[id]].done
      BY <1>3, <1>5 DEF IInv, InOneHand
    <2>2. \A r \in Slots : ~slot'[r].done => \E id \in DOMAIN subs' : subs'[id] = r
      <3> SUFFICES ASSUME NEW r \in Slots, ~slot'[r].done
                   PROVE  \E id \in DOMAIN subs' : subs'[id] = r
        OBVIOUS
      <3>1. r \notin closed /\ slot'[r] = slot[r]
        BY <1>1
      <3>2. r \in Slots /\ setup # r
        BY NoneAssumption DEF Ready
      <3>3. PICK id \in DOMAIN subs : subs[id] = r
        BY <3>1, <3>2 DEF IInv, InOneHand, Registered
      <3> QED BY <1>3, <3>1, <3>3
    <2> QED BY <2>1, <2>2 DEF InOneHand, Registered
  <1>8. NoGap'
    <2> SUFFICES ASSUME NEW id \in DOMAIN subs', NEW k \in Kinds, Heard(id)',
                        <<id, k>> \in unseen'
                 PROVE  k \in slot'[subs'[id]].pending
      BY DEF NoGap
    <2>1. id \in DOMAIN subs /\ Heard(id)
      BY <1>3, <1>5 DEF Heard
    <2> QED BY <1>5, <2>1 DEF NoGap
  <1> QED BY <1>1, <1>2, <1>6, <1>7, <1>8

LEMMA ResyncOK ==
  ASSUME IInv, NoGap, Resync
  PROVE  IInv' /\ NoGap'
  <1>1. /\ Ready /\ setup = None /\ setup' = None /\ Gone \in SUBSET DOMAIN subs
        /\ slot' = Closed({subs[id] : id \in Gone})
        /\ subs' = [id \in DOMAIN subs \ Gone |-> subs[id]]
        /\ todo' = {<<id, inventory[id]>> : id \in DOMAIN inventory \ DOMAIN subs}
        /\ unseen' = unseen /\ stopped' = stopped /\ cancelled' = cancelled
        /\ UNCHANGED world
    BY DEF Resync, Ready, Gone
  <1>2. /\ slot' \in [Slots -> Subscriptions]
        /\ \A r \in Slots : slot'[r].pending \subseteq slot'[r].open
        /\ DOMAIN subs' \subseteq Namespaces /\ subs' \in [DOMAIN subs' -> Slots]
        /\ InOneHand' /\ NoGap'
    BY <1>1, Leave
  <1>3. todo' \subseteq Namespaces \X Paths
    BY <1>1 DEF IInv, TypeOK, Named
  <1>4. TypeOK'
    BY <1>1, <1>2, <1>3 DEF IInv, TypeOK, Named, world
  <1>5. SetupInv'
    BY <1>1 DEF SetupInv
  <1> QED BY <1>2, <1>4, <1>5 DEF IInv

LEMMA StopOK ==
  ASSUME IInv, NoGap, Stop
  PROVE  IInv' /\ NoGap'
  <1> DEFINE all == DOMAIN subs
  <1>1. /\ Ready /\ setup = None /\ setup' = None /\ all \in SUBSET DOMAIN subs
        /\ slot' = Closed({subs[id] : id \in all})
        /\ subs' = [id \in DOMAIN subs \ all |-> subs[id]]
        /\ todo = {} /\ todo' = todo
        /\ unseen' = unseen /\ stopped' = TRUE /\ cancelled' = cancelled
        /\ UNCHANGED world
    BY DEF Stop, Ready
  <1> HIDE DEF all
  <1>2. /\ slot' \in [Slots -> Subscriptions]
        /\ \A r \in Slots : slot'[r].pending \subseteq slot'[r].open
        /\ DOMAIN subs' \subseteq Namespaces /\ subs' \in [DOMAIN subs' -> Slots]
        /\ InOneHand' /\ NoGap'
    BY <1>1, Leave
  <1>3. TypeOK'
    BY <1>1, <1>2 DEF IInv, TypeOK, Named, world
  <1>4. SetupInv'
    BY <1>1 DEF SetupInv
  <1> QED BY <1>2, <1>3, <1>4 DEF IInv

-----------------------------------------------------------------------------
(* The program's failures and the world change nothing a subscription is.  *)
LEMMA OtherOK ==
  ASSUME IInv, NoGap, BeginFails \/ Cancel \/ Moves
  PROVE  IInv' /\ NoGap'
  <1>1. /\ subs' = subs /\ setup' = setup /\ slot' = slot /\ unseen' = unseen
        /\ stopped' = stopped /\ todo' \subseteq todo
    BY DEF BeginFails, Cancel, Moves, SyncInventory, PathChanges, listener
  <1>2. at' \in [Paths -> Namespaces \cup {None}]
    BY DEF BeginFails, Cancel, Moves, SyncInventory, PathChanges, world, IInv, TypeOK
  <1>3. DOMAIN inventory' \subseteq Namespaces /\ inventory' \in Named'
    <2>1. Discovered \subseteq Namespaces
      BY SelfAssumption DEF Discovered, IInv, TypeOK
    <2> QED BY <2>1 DEF BeginFails, Cancel, Moves, SyncInventory, PathChanges, world,
                        listener, IInv, TypeOK, Named
  <1>4. cancelled' \in BOOLEAN
    BY DEF BeginFails, Cancel, Moves, SyncInventory, PathChanges, IInv, TypeOK
  <1>5. TypeOK'
    BY <1>1, <1>2, <1>3, <1>4 DEF IInv, TypeOK
  <1>6. InOneHand' /\ SetupInv'
    BY <1>1 DEF IInv, InOneHand, SetupInv, Registered
  <1>7. NoGap'
    BY <1>1 DEF NoGap, Heard
  <1> QED BY <1>5, <1>6, <1>7 DEF IInv

LEMMA NextOK == IInv /\ NoGap /\ [Next]_vars => IInv' /\ NoGap'
  <1> SUFFICES ASSUME IInv, NoGap, [Next]_vars PROVE IInv' /\ NoGap'
    OBVIOUS
  <1>1. CASE Resync
    BY <1>1, ResyncOK
  <1>2. CASE Setup
    BY <1>2, BeginOK, OpenStreamOK, OpenStreamFailsOK, StartOK, OtherOK
       DEF Setup, SetupFails
  <1>3. CASE Stop
    BY <1>3, StopOK
  <1>4. CASE Cancel \/ Moves
    BY <1>4, OtherOK
  <1>5. CASE Breaks
    BY <1>5, ShutOK DEF Breaks, StreamBreaks
  <1>6. CASE \E s \in Slots : Goroutine(s) \/ Stops(s)
    BY <1>6, EndOK, ForwardOK, ShutOK DEF Goroutine, Stops, StreamStops
  <1>7. CASE \E ns \in Namespaces, kind \in Kinds : KernelChange(ns, kind)
    BY <1>7, KernelChangeOK
  <1>8. CASE UNCHANGED vars
    <2>1. TypeOK'
      BY <1>8 DEF vars, world, listener, IInv, TypeOK, Named
    <2>2. InOneHand' /\ SetupInv' /\ NoGap'
      BY <1>8 DEF vars, IInv, InOneHand, SetupInv, NoGap, Heard, Registered
    <2> QED BY <2>1, <2>2 DEF IInv
  <1> QED BY <1>1, <1>2, <1>3, <1>4, <1>5, <1>6, <1>7, <1>8 DEF Next

(* Every subscription in use is in exactly one hand: no goroutine forwards *)
(* unnoticed beside a namespace's subscription, and none is told to end    *)
(* twice.                                                                  *)
THEOREM SubscriptionsAreInOneHand == Spec => [](TypeOK /\ InOneHand)
  <1>1. IInv => TypeOK /\ InOneHand
    BY DEF IInv
  <1> QED BY <1>1, InitOK, NextOK, PTL DEF Spec

(* A change waits for its goroutine only in a stream that is open, and     *)
(* subs names only subscriptions that exist (resync, forwardUpdates).      *)
THEOREM ListenerTypes == Spec => []TypeOK
  <1>1. IInv => TypeOK
    BY DEF IInv
  <1> QED BY <1>1, InitOK, NextOK, PTL DEF Spec

(* While a namespace's subscription is intact, no change is missed, from   *)
(* whatever moment between the opening of its streams on.                  *)
THEOREM NoChangeIsMissed == Spec => []NoGap
  BY InitOK, NextOK, PTL DEF Spec

-----------------------------------------------------------------------------
(* That Listener implements Feed.  Steps of the listener that end          *)
(* subscriptions, and those that touch none in use, unwatch namespaces or  *)
(* change nothing the store can see; the others are taken one by one.      *)

(* The substitution, as a function of subs and slot.                       *)
HeardIn(sb, sl, id) == id \in DOMAIN sb /\ Intact(sl[sb[id]])
WatchedIn(sb, sl) == {id \in Namespaces : HeardIn(sb, sl, id)}
MailIn(sb, sl) ==
  {p \in Namespaces \X Kinds : HeardIn(sb, sl, p[1]) /\ p[2] \in sl[sb[p[1]]].pending}

LEMMA UnwatchIs ==
  ASSUME unseen' = unseen, NEW nss \in SUBSET Namespaces,
         WatchedIn(subs', slot') = WatchedIn(subs, slot) \ nss,
         MailIn(subs', slot') = MailIn(subs, slot) \ (nss \X Kinds)
  PROVE  FeedView!Next
  <1>1. FeedView!Unwatch(nss)
    BY DEF FeedView!Unwatch, FeedView!Of, WatchedIn, MailIn, HeardIn, Heard, Intact
  <1> QED BY <1>1 DEF FeedView!Next

LEMMA TellIs ==
  ASSUME NEW ns \in Namespaces, NEW kind \in Kinds,
         unseen' = unseen \ {<<ns, kind>>}, <<ns, kind>> \in MailIn(subs, slot),
         WatchedIn(subs', slot') = WatchedIn(subs, slot),
         MailIn(subs', slot') = MailIn(subs, slot) \ {<<ns, kind>>}
  PROVE  FeedView!Next
  <1>1. FeedView!Tell(ns, kind)
    BY DEF FeedView!Tell, WatchedIn, MailIn, HeardIn, Heard, Intact
  <1> QED BY <1>1 DEF FeedView!Next

LEMMA ReadIs ==
  ASSUME NEW pairs \in SUBSET (Namespaces \X Kinds), unseen' = unseen \ pairs,
         WatchedIn(subs', slot') = WatchedIn(subs, slot),
         MailIn(subs', slot') = MailIn(subs, slot)
  PROVE  FeedView!Next
  <1>1. FeedView!Read(pairs)
    BY DEF FeedView!Read, WatchedIn, MailIn, HeardIn, Heard, Intact
  <1> QED BY <1>1 DEF FeedView!Next, FeedView!Of

LEMMA ChangeIs ==
  ASSUME NEW ns \in Namespaces, NEW kind \in Kinds,
         unseen' = unseen \cup {<<ns, kind>>},
         WatchedIn(subs', slot') = WatchedIn(subs, slot),
         MailIn(subs', slot') = IF ns \in WatchedIn(subs, slot)
                                  THEN MailIn(subs, slot) \cup {<<ns, kind>>}
                                  ELSE MailIn(subs, slot)
  PROVE  FeedView!Next
  <1>1. FeedView!Change(ns, kind)
    BY DEF FeedView!Change, WatchedIn, MailIn, HeardIn, Heard, Intact
  <1> QED BY <1>1 DEF FeedView!Next

LEMMA WatchIs ==
  ASSUME NEW ns \in Namespaces, NEW early \in SUBSET ({ns} \X Kinds),
         unseen' = unseen \ ({ns} \X Kinds), ns \notin WatchedIn(subs, slot),
         WatchedIn(subs', slot') = WatchedIn(subs, slot) \cup {ns},
         MailIn(subs', slot') = MailIn(subs, slot) \cup early
  PROVE  FeedView!Next
  <1>1. FeedView!Watch(ns)
    BY DEF FeedView!Watch, FeedView!Of, WatchedIn, MailIn, HeardIn, Heard, Intact
  <1> QED BY <1>1 DEF FeedView!Next

-----------------------------------------------------------------------------
(* The intact subscriptions after the step are among those before it, with *)
(* the same messages.                                                      *)
LEMMA Loses ==
  ASSUME unseen' = unseen,
         \A id \in Namespaces :
           HeardIn(subs', slot', id) =>
             HeardIn(subs, slot, id) /\ slot'[subs'[id]].pending = slot[subs[id]].pending
  PROVE  FeedView!Next
  <1> DEFINE nss == WatchedIn(subs, slot) \ WatchedIn(subs', slot')
  <1>1. WatchedIn(subs', slot') = WatchedIn(subs, slot) \ nss /\ nss \in SUBSET Namespaces
    BY DEF WatchedIn
  <1>2. \A p \in Namespaces \X Kinds :
          p \in MailIn(subs', slot') <=> p \in MailIn(subs, slot) \ (nss \X Kinds)
    BY DEF MailIn, WatchedIn
  <1>3. MailIn(subs', slot') = MailIn(subs, slot) \ (nss \X Kinds)
    BY <1>2 DEF MailIn
  <1> QED BY <1>1, <1>3, UnwatchIs

(* Only slots that no entry of subs holds have changed.                    *)
LEMMA Unregistered ==
  ASSUME IInv, unseen' = unseen, subs' = subs,
         \A s \in Slots : Registered(s) => slot'[s] = slot[s]
  PROVE  FeedView!Next
  <1>1. \A id \in DOMAIN subs : subs[id] \in Slots /\ slot'[subs[id]] = slot[subs[id]]
    BY DEF IInv, TypeOK, Registered
  <1> QED BY <1>1, Loses DEF HeardIn

(* A part of one subscription ends.                                        *)
LEMMA PartLost ==
  ASSUME IInv, NEW s \in Slots, NEW new \in Subscriptions,
         ~new.forwarding \/ new.open # Kinds,
         slot' = [slot EXCEPT ![s] = Settled(new)], unseen' = unseen, subs' = subs
  PROVE  FeedView!Next
  <1>1. ~Intact(Settled(new))
    BY DEF Settled, Unused, Empty, Intact
  <1>2. slot'[s] = Settled(new) /\ \A r \in Slots \ {s} : slot'[r] = slot[r]
    BY DEF IInv, TypeOK
  <1>3. \A id \in DOMAIN subs : subs[id] \in Slots
    BY DEF IInv, TypeOK
  <1>4. \A id \in Namespaces :
          HeardIn(subs', slot', id) => id \in DOMAIN subs /\ subs[id] # s
    BY <1>1, <1>2 DEF HeardIn
  <1> QED BY <1>2, <1>3, <1>4, Loses DEF HeardIn

LEMMA ShutFeeds ==
  ASSUME IInv, NEW s \in Slots, NEW kind \in Kinds, Shut(s, kind)
  PROVE  FeedView!Next
  <1>1. slot[s] \in Subscriptions /\ slot[s].pending \subseteq slot[s].open
    BY DEF IInv, TypeOK
  <1>2. Without(slot[s], kind) \in Subscriptions
    BY <1>1, SubscriptionOK
  <1>3. kind \notin Without(slot[s], kind).open
    BY <1>1 DEF Without, Subscriptions
  <1> QED BY <1>2, <1>3, PartLost DEF Shut, listener

LEMMA EndFeeds ==
  ASSUME IInv, NEW s \in Slots, End(s)
  PROVE  FeedView!Next
  <1>1. slot[s] \in Subscriptions
    BY DEF IInv, TypeOK
  <1> DEFINE new == [slot[s] EXCEPT !.forwarding = FALSE]
  <1>2. new \in Subscriptions /\ ~new.forwarding
    BY <1>1 DEF Subscriptions
  <1>3. slot' = [slot EXCEPT ![s] = Settled(new)] /\ unseen' = unseen /\ subs' = subs
    BY DEF End, listener
  <1> HIDE DEF new
  <1> QED BY <1>2, <1>3, PartLost

(* What a goroutine forwards is a message of a watched namespace, or makes *)
(* the store read a table once more.                                       *)
LEMMA ForwardFeeds ==
  ASSUME IInv, NEW s \in Slots, NEW kind \in Kinds, Forward(s, kind)
  PROVE  FeedView!Next
  <1> DEFINE id == slot[s].id
             new == [slot[s] EXCEPT !.pending = @ \ {kind}]
  <1>1. slot[s] \in Subscriptions /\ id \in Namespaces
    BY DEF IInv, TypeOK, Subscriptions
  <1>2. /\ new.pending = slot[s].pending \ {kind} /\ new.id = id /\ new.of = slot[s].of
        /\ new.open = slot[s].open /\ new.forwarding = slot[s].forwarding
    BY <1>1 DEF Subscriptions
  <1>3. /\ slot'[s] = new /\ \A r \in Slots \ {s} : slot'[r] = slot[r]
        /\ subs' = subs /\ unseen' = unseen \ {<<id, kind>>} /\ kind \in slot[s].pending
    BY DEF Forward, listener, IInv, TypeOK
  <1>4. \A i \in DOMAIN subs : subs[i] \in Slots /\ slot[subs[i]].id = i
    BY DEF IInv, TypeOK, InOneHand
  <1> HIDE DEF new, id
  <1>5. \A i \in Namespaces : HeardIn(subs', slot', i) <=> HeardIn(subs, slot, i)
    <2> SUFFICES ASSUME NEW i \in DOMAIN subs
                 PROVE  Intact(slot'[subs[i]]) <=> Intact(slot[subs[i]])
      BY <1>3 DEF HeardIn
    <2>1. Intact(new) <=> Intact(slot[s])
      BY <1>2 DEF Intact, id
    <2>2. CASE subs[i] = s
      BY <1>3, <2>1, <2>2
    <2>3. CASE subs[i] # s
      BY <1>3, <1>4, <2>3
    <2> QED BY <2>2, <2>3
  <1>6. WatchedIn(subs', slot') = WatchedIn(subs, slot)
    BY <1>5 DEF WatchedIn
  <1>7. CASE id \in DOMAIN subs /\ subs[id] = s /\ HeardIn(subs, slot, id)
    <2>1. \A p \in Namespaces \X Kinds :
            p \in MailIn(subs', slot') <=> p \in MailIn(subs, slot) \ {<<id, kind>>}
      <3> SUFFICES ASSUME NEW i \in Namespaces, NEW k \in Kinds
                   PROVE  <<i, k>> \in MailIn(subs', slot')
                            <=> <<i, k>> \in MailIn(subs, slot) \ {<<id, kind>>}
        OBVIOUS
      <3>1. CASE i = id
        BY <1>2, <1>3, <1>5, <1>7, <3>1 DEF MailIn
      <3>2. CASE i # id
        <4>1. HeardIn(subs, slot, i) => subs[i] \in Slots \ {s}
          BY <1>4, <1>7, <3>2 DEF HeardIn
        <4> QED BY <1>3, <1>5, <3>2, <4>1 DEF MailIn
      <3> QED BY <3>1, <3>2
    <2>2. MailIn(subs', slot') = MailIn(subs, slot) \ {<<id, kind>>}
      BY <2>1 DEF MailIn
    <2>3. <<id, kind>> \in MailIn(subs, slot)
      BY <1>1, <1>3, <1>7 DEF MailIn
    <2> QED BY <1>1, <1>3, <1>6, <2>2, <2>3, TellIs
  <1>8. CASE ~(id \in DOMAIN subs /\ subs[id] = s /\ HeardIn(subs, slot, id))
    <2>1. \A i \in DOMAIN subs : HeardIn(subs, slot, i) => subs[i] \in Slots \ {s}
      BY <1>1, <1>4, <1>8 DEF id
    <2>2. \A p \in Namespaces \X Kinds :
            p \in MailIn(subs', slot') <=> p \in MailIn(subs, slot)
      BY <1>3, <1>5, <2>1 DEF MailIn, HeardIn
    <2>3. MailIn(subs', slot') = MailIn(subs, slot)
      BY <2>2 DEF MailIn
    <2>4. {<<id, kind>>} \in SUBSET (Namespaces \X Kinds)
      BY <1>1
    <2> QED BY <1>3, <1>6, <2>3, <2>4, ReadIs
  <1> QED BY <1>7, <1>8

LEMMA KernelChangeFeeds ==
  ASSUME IInv, NEW ns \in Namespaces, NEW kind \in Kinds, KernelChange(ns, kind)
  PROVE  FeedView!Next
  <1>1. /\ unseen' = unseen \cup {<<ns, kind>>} /\ subs' = subs
        /\ slot' = [s \in Slots |->
                      IF slot[s].of = ns /\ kind \in slot[s].open
                        THEN [slot[s] EXCEPT !.pending = @ \cup {kind}] ELSE slot[s]]
    BY DEF KernelChange, listener
  <1>2. ASSUME NEW s \in Slots
        PROVE  /\ slot'[s].id = slot[s].id /\ slot'[s].of = slot[s].of
               /\ slot'[s].open = slot[s].open
               /\ slot'[s].forwarding = slot[s].forwarding
               /\ slot'[s].pending = IF slot[s].of = ns /\ kind \in slot[s].open
                                       THEN slot[s].pending \cup {kind}
                                       ELSE slot[s].pending
    <2>1. slot[s] \in Subscriptions
      BY DEF IInv, TypeOK
    <2> QED BY <1>1, <2>1 DEF Subscriptions
  <1>3. \A i \in DOMAIN subs : subs[i] \in Slots /\ slot[subs[i]].id = i
    BY DEF IInv, TypeOK, InOneHand
  <1>4. \A i \in Namespaces : HeardIn(subs', slot', i) <=> HeardIn(subs, slot, i)
    BY <1>1, <1>2, <1>3 DEF HeardIn, Intact
  <1>5. \A i \in Namespaces, k \in Kinds :
          <<i, k>> \in MailIn(subs', slot')
            <=> <<i, k>> \in MailIn(subs, slot)
                  \/ (i = ns /\ k = kind /\ HeardIn(subs, slot, ns))
    <2> SUFFICES ASSUME NEW i \in Namespaces, NEW k \in Kinds, HeardIn(subs, slot, i)
                 PROVE  k \in slot'[subs[i]].pending
                          <=> k \in slot[subs[i]].pending \/ (i = ns /\ k = kind)
      BY <1>1, <1>4 DEF MailIn
    <2>1. subs[i] \in Slots /\ slot[subs[i]].of = i /\ slot[subs[i]].open = Kinds
      BY <1>3 DEF HeardIn, Intact
    <2>2. slot'[subs[i]].pending = IF i = ns /\ kind \in Kinds
                                     THEN slot[subs[i]].pending \cup {kind}
                                     ELSE slot[subs[i]].pending
      BY <1>2, <2>1
    <2> QED BY <2>2
  <1>6. MailIn(subs', slot') = IF ns \in WatchedIn(subs, slot)
                                 THEN MailIn(subs, slot) \cup {<<ns, kind>>}
                                 ELSE MailIn(subs, slot)
    <2>1. CASE HeardIn(subs, slot, ns)
      <3>1. \A p \in Namespaces \X Kinds :
              p \in MailIn(subs', slot') <=> p \in MailIn(subs, slot) \cup {<<ns, kind>>}
        BY <1>5, <2>1
      <3> QED BY <2>1, <3>1 DEF MailIn, WatchedIn
    <2>2. CASE ~HeardIn(subs, slot, ns)
      <3>1. \A p \in Namespaces \X Kinds :
              p \in MailIn(subs', slot') <=> p \in MailIn(subs, slot)
        BY <1>5, <2>2
      <3> QED BY <2>2, <3>1 DEF MailIn, WatchedIn
    <2> QED BY <2>1, <2>2
  <1>7. WatchedIn(subs', slot') = WatchedIn(subs, slot)
    BY <1>4 DEF WatchedIn
  <1> QED BY <1>1, <1>6, <1>7, ChangeIs

(* The goroutine starts and the namespace is read as a whole: it is        *)
(* watched now, with the messages that came while its streams were being   *)
(* opened, unless one of them has ended meanwhile.                         *)
LEMMA StartFeeds ==
  ASSUME IInv, NEW s \in Slots, Start(s)
  PROVE  FeedView!Next
  <1> DEFINE own == slot[s].id
             new == [slot[s] EXCEPT !.forwarding = TRUE]
  <1>1. slot[s] \in Subscriptions /\ own \in Namespaces
    BY DEF IInv, TypeOK, Subscriptions
  <1>2. /\ setup = s /\ own \notin DOMAIN subs /\ unseen' = unseen \ ({own} \X Kinds)
        /\ subs' = [id \in DOMAIN subs \cup {own} |-> IF id = own THEN s ELSE subs[id]]
        /\ slot' = [slot EXCEPT ![s] = new]
    BY NoneAssumption DEF Start, IInv, SetupInv
  <1>3. new.pending = slot[s].pending
    BY <1>1 DEF Subscriptions
  <1>4. \A id \in DOMAIN subs : subs[id] \in Slots /\ subs[id] # s
    BY <1>2, NoneAssumption DEF IInv, TypeOK, InOneHand, Registered
  <1> HIDE DEF own, new
  <1>5. slot'[s] = new /\ subs'[own] = s /\ DOMAIN subs' = DOMAIN subs \cup {own}
    BY <1>2 DEF IInv, TypeOK
  <1>6. \A id \in DOMAIN subs : subs'[id] = subs[id] /\ slot'[subs[id]] = slot[subs[id]]
    BY <1>2, <1>4 DEF IInv, TypeOK
  <1>7. \A id \in Namespaces :
          HeardIn(subs', slot', id) <=>
            HeardIn(subs, slot, id) \/ (id = own /\ Intact(new))
    BY <1>2, <1>5, <1>6 DEF HeardIn
  <1>8. own \notin WatchedIn(subs, slot)
    BY <1>2 DEF WatchedIn, HeardIn
  <1>9. CASE Intact(new)
    <2> DEFINE early == {own} \X (Kinds \cap new.pending)
    <2>1. WatchedIn(subs', slot') = WatchedIn(subs, slot) \cup {own}
      BY <1>1, <1>7, <1>9 DEF WatchedIn
    <2>2. \A p \in Namespaces \X Kinds :
            p \in MailIn(subs', slot') <=> p \in MailIn(subs, slot) \cup early
      <3> SUFFICES ASSUME NEW i \in Namespaces, NEW k \in Kinds
                   PROVE  <<i, k>> \in MailIn(subs', slot')
                            <=> <<i, k>> \in MailIn(subs, slot) \cup early
        OBVIOUS
      <3>1. CASE i = own
        BY <1>2, <1>5, <1>7, <1>9, <3>1 DEF MailIn, HeardIn
      <3>2. CASE i # own
        BY <1>6, <1>7, <3>2 DEF MailIn, HeardIn
      <3> QED BY <3>1, <3>2
    <2>3. early \in SUBSET ({own} \X Kinds) /\ early \subseteq Namespaces \X Kinds
      BY <1>1
    <2> HIDE DEF early
    <2>4. MailIn(subs', slot') = MailIn(subs, slot) \cup early
      BY <2>2, <2>3 DEF MailIn
    <2> QED BY <1>1, <1>2, <1>8, <2>1, <2>3, <2>4, WatchIs
  <1>10. CASE ~Intact(new)
    <2>1. WatchedIn(subs', slot') = WatchedIn(subs, slot)
      BY <1>7, <1>10 DEF WatchedIn
    <2>2. \A p \in Namespaces \X Kinds :
            p \in MailIn(subs', slot') <=> p \in MailIn(subs, slot)
      BY <1>6, <1>7, <1>10 DEF MailIn, HeardIn
    <2>3. MailIn(subs', slot') = MailIn(subs, slot)
      BY <2>2 DEF MailIn
    <2>4. {own} \X Kinds \in SUBSET (Namespaces \X Kinds)
      BY <1>1
    <2> QED BY <1>2, <2>1, <2>3, <2>4, ReadIs
  <1> QED BY <1>9, <1>10

(* A subscription that is being set up is in no entry of subs.             *)
LEMMA SetupFeeds ==
  ASSUME IInv, NEW s \in Slots, Begin(s) \/ OpenStream(s) \/ OpenStreamFails(s)
  PROVE  FeedView!Next
  <1>1. unseen' = unseen /\ subs' = subs
    BY DEF Begin, OpenStream, OpenStreamFails, listener
  <1>2. \A r \in Slots \ {s} : slot'[r] = slot[r]
    BY DEF Begin, OpenStream, OpenStreamFails, IInv, TypeOK
  <1>3. ~Registered(s)
    <2>1. CASE Begin(s)
      <3>1. slot[s].done
        BY <2>1 DEF Begin, Unused, Empty
      <3> QED BY <3>1 DEF IInv, InOneHand, Registered
    <2>2. CASE OpenStream(s) \/ OpenStreamFails(s)
      BY <2>2, NoneAssumption DEF OpenStream, OpenStreamFails, IInv, InOneHand
    <2> QED BY <2>1, <2>2
  <1> QED BY <1>1, <1>2, <1>3, Unregistered

(* Subscriptions leave subs, and those that stay are as they were.         *)
LEMMA LeaveFeeds ==
  ASSUME IInv, NEW gone \in SUBSET DOMAIN subs, unseen' = unseen,
         slot' = Closed({subs[id] : id \in gone}),
         subs' = [id \in DOMAIN subs \ gone |-> subs[id]]
  PROVE  FeedView!Next
  <1>1. \A id \in DOMAIN subs : subs[id] \in Slots /\ slot[subs[id]].id = id
    BY DEF IInv, TypeOK, InOneHand
  <1>2. \A id \in DOMAIN subs \ gone : subs[id] \notin {subs[g] : g \in gone}
    BY <1>1
  <1>3. \A id \in DOMAIN subs \ gone :
          subs'[id] = subs[id] /\ slot'[subs[id]] = slot[subs[id]]
    BY <1>1, <1>2 DEF Closed
  <1>4. DOMAIN subs' = DOMAIN subs \ gone
    OBVIOUS
  <1> QED BY <1>3, <1>4, Loses DEF HeardIn

LEMMA NextFeeds == IInv /\ [Next]_vars => [FeedView!Next]_(FeedView!vars)
  <1> SUFFICES ASSUME IInv, [Next]_vars PROVE FeedView!Next \/ UNCHANGED FeedView!vars
    BY DEF FeedView!vars
  <1>1. CASE Resync
    <2>1. Gone \in SUBSET DOMAIN subs
      BY DEF Gone
    <2> QED BY <1>1, <2>1, LeaveFeeds DEF Resync
  <1>2. CASE Stop
    <2> DEFINE all == DOMAIN subs
    <2>1. /\ all \in SUBSET DOMAIN subs /\ unseen' = unseen
          /\ slot' = Closed({subs[id] : id \in all})
          /\ subs' = [id \in DOMAIN subs \ all |-> subs[id]]
      BY <1>2 DEF Stop
    <2> HIDE DEF all
    <2> QED BY <2>1, LeaveFeeds
  <1>3. CASE BeginFails \/ Cancel \/ Moves
    <2>1. subs' = subs /\ slot' = slot /\ unseen' = unseen
      BY <1>3 DEF BeginFails, Cancel, Moves, SyncInventory, PathChanges, listener
    <2> QED BY <2>1, Unregistered
  <1>4. CASE Setup
    BY <1>3, <1>4, SetupFeeds, StartFeeds DEF Setup, SetupFails
  <1>5. CASE Breaks \/ \E s \in Slots : Goroutine(s) \/ Stops(s)
    BY <1>5, ShutFeeds, EndFeeds, ForwardFeeds
       DEF Breaks, StreamBreaks, Goroutine, Stops, StreamStops
  <1>6. CASE \E ns \in Namespaces, kind \in Kinds : KernelChange(ns, kind)
    BY <1>6, KernelChangeFeeds
  <1>7. CASE UNCHANGED vars
    <2>1. subs' = subs /\ slot' = slot /\ unseen' = unseen
      BY <1>7 DEF vars
    <2> QED BY <2>1, Unregistered
  <1> QED BY <1>1, <1>2, <1>3, <1>4, <1>5, <1>6, <1>7 DEF Next

(* The listener keeps the promise the event loop relies on, for any        *)
(* namespaces, paths, streams and slots: watching begins with a full read, *)
(* and while it lasts every change leaves a message in the same step.      *)
THEOREM ListenerImplementsFeed == Spec => ImplementsFeed
  <1>1. Init => FeedView!Init
    BY DEF Init, FeedView!Init, Heard
  <1>2. IInv /\ [Next]_vars => [FeedView!Next]_(FeedView!vars)
    BY NextFeeds
  <1>3. Spec => []IInv
    BY InitOK, NextOK, PTL DEF Spec
  <1> QED BY <1>1, <1>2, <1>3, PTL DEF Spec, ImplementsFeed, FeedView!Spec
=============================================================================
