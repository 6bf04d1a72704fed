------------------------------ MODULE RatesProofs ------------------------------
(***************************************************************************)
(* Proofs about Rates.  Every sample in use, in the ring or of a process,  *)
(* bounds the meter: as long as nothing has brought a count from elsewhere *)
(* since its time, the meter has grown by no more than was counted since.  *)
(* A counter that starts again from zero only makes that difference        *)
(* smaller, and an overwritten sample has a time of its own.  The ticks of *)
(* a scan under way are such a sample; the CPU time it will be given is of *)
(* at most MaxSkew units later, as was that of the scan before.            *)
(***************************************************************************)
EXTENDS Rates, TLAPS, WellFoundedInduction, FiniteSetTheorems

Counts == 0..(Modulus - 1)

(* The history: what was counted never becomes less.                       *)
HistoryOK ==
  /\ kind \in {"link", "process"} /\ clock \in 0..MaxClock
  /\ sent \in Seq(Nat) /\ Len(sent) = clock + 1
  /\ \A i \in 1..(clock + 1) : sent[i] \in 0..(i - 1)
  /\ \A i, j \in 1..(clock + 1) : i <= j => sent[i] <= sent[j]
  /\ meter \in Counts /\ there \in BOOLEAN
  /\ lives \in 1..MaxLives /\ idle \in BOOLEAN
  /\ stranger \in Never..clock

(* The slots in use are the first ones, or all of them.                    *)
Rings == [slot : [Slots -> [bytes : Counts, at : Never..MaxClock]],
          pos : Slots, count : 0..Depth]
RingOK(r) ==
  /\ r \in Rings
  /\ r.count < Depth => r.pos = r.count
  /\ \A i \in Slots : i < r.count => r.slot[i].at \in 0..clock
Bounds(bytes, at) ==
  there /\ stranger < at => meter - bytes <= sent[clock + 1] - sent[at + 1]
SlotsBound ==
  \A i \in Slots : i < ring.count => Bounds(ring.slot[i].bytes, ring.slot[i].at)

LinkOK ==
  /\ row \in {"none", "live", "removed"}
  /\ RingOK(ring) /\ SlotsBound
  /\ rate \in [amount : Counts, over : 1..(Window + MaxLag + 1)]
  /\ pushes \in Seq([bytes : Counts, at : Nat])
Shown ==
  rate.amount > 0 =>
    /\ pushes # <<>> /\ rate.over <= Window
    /\ pushes[Len(pushes)].at \in 0..clock /\ pushes[Len(pushes)].at >= rate.over

Sent(from, to) == sent[to + 1] - sent[from + 1]
TotalOK ==
  /\ total \in 0..(clock + 1)
  /\ total > 0 => /\ fetches.last >= 0
                  /\ fetches.last + 1 <= total /\ total <= fetches.last + 1 + MaxSkew
ScanOK ==
  /\ scan \in [at : Never..clock, ticks : Counts, found : BOOLEAN]
  /\ scan # NoScan => /\ 0 <= scan.at /\ clock <= scan.at + MaxSkew
                      /\ fetches.last <= scan.at
  /\ scan.found => Bounds(scan.ticks, scan.at)
  /\ scan.found /\ sampled.last /\ stranger < fetches.last =>
       scan.ticks - prev <= Sent(fetches.last, scan.at)
ProcessOK ==
  /\ prev \in Counts /\ TotalOK /\ ScanOK
  /\ load \in [amount : Counts, over : 1..(MaxClock + 1)]
  /\ fetches \in [last : Never..clock, before : Never..clock]
  /\ fetches.before <= fetches.last
  /\ sampled \in [last : BOOLEAN, before : BOOLEAN]
  /\ sampled.last => fetches.last >= 0
  /\ sampled.before => fetches.before >= 0
  /\ sampled.last => Bounds(prev, fetches.last)

IInv ==
  /\ HistoryOK /\ LinkOK /\ Shown /\ NoTrafficIsMadeUp
  /\ ProcessOK /\ LoadIsPossible

-----------------------------------------------------------------------------
(* Arithmetic of the ring's indices.                                       *)
LEMMA ModIs ==
  ASSUME NEW x \in 0..(2 * Depth - 1)
  PROVE  x % Depth = IF x < Depth THEN x ELSE x - Depth
<1> Depth \in Nat \ {0}
  BY RatesAssumption
<1>1. CASE x \in 0..(Depth - 1)
  BY <1>1
<1>2. CASE x \in Depth..(2 * Depth - 1)
  BY <1>2
<1> QED BY <1>1, <1>2

LEMMA LastIndexIs ==
  ASSUME NEW r, r.pos \in Slots
  PROVE  LastIndex(r) = IF r.pos = 0 THEN Depth - 1 ELSE r.pos - 1
<1> Depth \in Nat \ {0}
  BY RatesAssumption
<1>1. r.pos - 1 + Depth \in 0..(2 * Depth - 1)
  BY DEF Slots
<1> QED BY <1>1, ModIs DEF LastIndex, Slots

(* Going back finds slots in use.                                          *)
LEMMA BackIs ==
  ASSUME NEW r, RingOK(r), r.count > 0, NEW i \in 0..(r.count - 1)
  PROVE  \E k \in Slots : k < r.count /\ Back(r, i) = r.slot[k]
<1> Depth \in Nat \ {0}
  BY RatesAssumption
<1>1. r.pos \in Slots /\ r.count \in 0..Depth /\ (r.count < Depth => r.pos = r.count)
  BY DEF RingOK, Rings
<1> DEFINE last == LastIndex(r)
           x == last - i + Depth
           k == x % Depth
<1>2. last = IF r.pos = 0 THEN Depth - 1 ELSE r.pos - 1
  BY <1>1, LastIndexIs
<1> HIDE DEF last
<1>3. x \in 0..(2 * Depth - 1)
  BY <1>1, <1>2 DEF Slots
<1> HIDE DEF x
<1>4. k = IF x < Depth THEN x ELSE x - Depth
  BY <1>3, ModIs
<1> HIDE DEF k
<1>5. k \in Slots /\ k < r.count
  BY <1>1, <1>2, <1>3, <1>4 DEF Slots, x
<1>6. Back(r, i) = r.slot[k]
  BY DEF Back, k, x, last
<1> QED BY <1>5, <1>6

(* A sample that is pushed becomes the newest, and the ring stays one.     *)
LEMMA PushedIs ==
  ASSUME HistoryOK, NEW r, RingOK(r), NEW bytes \in Counts, NEW at \in 0..clock,
         NEW u, u = Pushed(r, bytes, at)
  PROVE  /\ RingOK(u) /\ u.count > 0 /\ Back(u, 0) = Sample(bytes, at)
         /\ \A i \in Slots : i < u.count =>
              \/ u.slot[i] = Sample(bytes, at)
              \/ i < r.count /\ u.slot[i] = r.slot[i]
<1> Depth \in Nat \ {0}
  BY RatesAssumption
<1>1. /\ r \in Rings /\ r.pos \in Slots /\ r.count \in 0..Depth
      /\ r.slot \in [Slots -> [bytes : Counts, at : Never..MaxClock]]
      /\ r.count < Depth => r.pos = r.count
      /\ \A i \in Slots : i < r.count => r.slot[i].at \in 0..clock
  BY DEF RingOK, Rings
<1>2. /\ Sample(bytes, at) \in [bytes : Counts, at : Never..MaxClock]
      /\ Sample(bytes, at).at = at
  BY RatesAssumption DEF Sample, HistoryOK, Never
<1> DEFINE s == Sample(bytes, at)
<1> HIDE DEF s
<1>3. CASE TooSoon(r, at)
  <2> DEFINE last == LastIndex(r)
             slot == [r.slot EXCEPT ![last] = s]
  <2>1. r.count > 0 /\ u = [r EXCEPT !.slot = slot]
    BY <1>3 DEF TooSoon, Pushed, s
  <2>2. last = IF r.pos = 0 THEN Depth - 1 ELSE r.pos - 1
    BY <1>1, LastIndexIs
  <2> HIDE DEF last
  <2>3. last \in Slots /\ last < r.count
    BY <1>1, <2>1, <2>2 DEF Slots
  <2>4. /\ slot \in [Slots -> [bytes : Counts, at : Never..MaxClock]]
        /\ \A i \in Slots : slot[i] = IF i = last THEN s ELSE r.slot[i]
    BY <1>1, <1>2, <2>3 DEF s
  <2> HIDE DEF slot
  <2>5. u.slot = slot /\ u.pos = r.pos /\ u.count = r.count /\ u \in Rings
    BY <1>1, <2>1, <2>4 DEF Rings
  <2>6. \A i \in Slots : i < u.count => u.slot[i].at \in 0..clock
    BY <1>1, <1>2, <2>4, <2>5 DEF s
  <2>7. RingOK(u)
    BY <1>1, <2>5, <2>6 DEF RingOK
  <2>8. Back(u, 0) = s
    <3>1. LastIndex(u) = last
      BY <2>5 DEF LastIndex, last
    <3>2. (last - 0 + Depth) \in 0..(2 * Depth - 1)
      BY <2>3 DEF Slots
    <3>3. (last - 0 + Depth) % Depth = last
      BY <2>3, <3>2, ModIs DEF Slots
    <3> QED BY <2>3, <2>4, <2>5, <3>1, <3>3 DEF Back
  <2> QED BY <2>1, <2>3, <2>4, <2>5, <2>7, <2>8 DEF s
<1>4. CASE ~TooSoon(r, at)
  <2> DEFINE slot == [r.slot EXCEPT ![r.pos] = s]
             pos == (r.pos + 1) % Depth
             count == IF r.count < Depth THEN r.count + 1 ELSE r.count
  <2>1. u = [slot |-> slot, pos |-> pos, count |-> count]
    BY <1>4 DEF Pushed, s
  <2>2. /\ slot \in [Slots -> [bytes : Counts, at : Never..MaxClock]]
        /\ \A i \in Slots : slot[i] = IF i = r.pos THEN s ELSE r.slot[i]
    BY <1>1, <1>2 DEF s
  <2> HIDE DEF slot
  <2>3. pos = IF r.pos + 1 < Depth THEN r.pos + 1 ELSE 0
    <3> DEFINE y == r.pos + 1
    <3>1. y \in 0..(2 * Depth - 1)
      BY <1>1 DEF Slots
    <3>2. pos = y % Depth
      OBVIOUS
    <3> HIDE DEF pos, y
    <3>3. y % Depth = IF y < Depth THEN y ELSE y - Depth
      BY <3>1, ModIs
    <3>4. r.pos \in 0..(Depth - 1) /\ y = r.pos + 1
      BY <1>1 DEF Slots, y
    <3> QED BY <3>2, <3>3, <3>4
  <2> HIDE DEF pos
  <2>4. pos \in Slots /\ count \in 0..Depth /\ count > 0
        /\ (count < Depth => pos = count)
    BY <1>1, <2>3 DEF Slots
  <2>5. \A i \in Slots : i < count => i = r.pos \/ i < r.count
    BY <1>1 DEF Slots
  <2> HIDE DEF count
  <2>6. u.slot = slot /\ u.pos = pos /\ u.count = count /\ u \in Rings
    BY <2>1, <2>2, <2>4 DEF Rings
  <2>7. \A i \in Slots : i < u.count => u.slot[i].at \in 0..clock
    BY <1>1, <1>2, <2>2, <2>5, <2>6 DEF s
  <2>8. RingOK(u)
    BY <2>4, <2>6, <2>7 DEF RingOK
  <2>9. Back(u, 0) = s
    <3>1. LastIndex(u) = r.pos
      BY <1>1, <2>3, <2>4, <2>6, LastIndexIs DEF Slots
    <3>2. (r.pos - 0 + Depth) \in 0..(2 * Depth - 1)
      BY <1>1 DEF Slots
    <3>3. (r.pos - 0 + Depth) % Depth = r.pos
      BY <1>1, <3>2, ModIs DEF Slots
    <3> QED BY <1>1, <2>2, <2>6, <3>1, <3>3 DEF Back
  <2>10. \A i \in Slots : i < u.count => u.slot[i] = s \/ (i < r.count /\ u.slot[i] = r.slot[i])
    BY <1>1, <2>2, <2>5, <2>6
  <2> QED BY <2>4, <2>6, <2>8, <2>9, <2>10 DEF s
<1> QED BY <1>3, <1>4

-----------------------------------------------------------------------------
(* A set of naturals has a least member, and a bounded one a greatest.     *)
LEMMA LeastOf ==
  ASSUME NEW S \in SUBSET Nat, S # {}
  PROVE  \E n \in S : \A j \in S : n <= j
<1>1. \E n \in S : \A j \in S : <<j, n>> \notin OpToRel(<, Nat)
  BY WFMin, NatLessThanWellFounded, Zenon
<1>2. PICK n \in S : \A j \in S : <<j, n>> \notin OpToRel(<, Nat)
  BY <1>1
<1>3. \A j \in S : ~(j < n)
  BY <1>2, Zenon DEF OpToRel
<1> QED BY <1>3

LEMMA GreatestOf ==
  ASSUME NEW k \in Nat, NEW S \in SUBSET (1..k), S # {}
  PROVE  \E n \in S : \A j \in S : j <= n
<1> DEFINE T == {k - i : i \in S}
<1>1. T \in SUBSET Nat /\ T # {}
  <2>1. \A i \in S : k - i \in Nat
    OBVIOUS
  <2> QED BY <2>1
<1> HIDE DEF T
<1>2. PICK n \in T : \A t \in T : n <= t
  BY <1>1, LeastOf
<1> USE DEF T
<1>3. PICK i \in S : n = k - i
  BY <1>2
<1>4. \A j \in S : k - i <= k - j
  BY <1>2, <1>3
<1> QED BY <1>3, <1>4

(* The search of AverageBps ends at one of the slots in reach.              *)
LEMMA OldestIs ==
  ASSUME NEW r, r.count \in 0..Depth, \E i \in 1..(r.count - 1) : InReach(r, i)
  PROVE  Oldest(r) \in 1..(r.count - 1) /\ InReach(r, Oldest(r))
<1> Depth \in Nat
  BY RatesAssumption
<1> DEFINE S == {i \in 1..(r.count - 1) : InReach(r, i)}
<1>1. S \in SUBSET (1..(r.count - 1)) /\ S # {} /\ r.count - 1 \in Nat
  OBVIOUS
<1>2. PICK n \in S : \A j \in S : j <= n
  <2> HIDE DEF S
  <2> QED BY <1>1, GreatestOf
<1>3. n \in 1..(r.count - 1) /\ InReach(r, n)
  OBVIOUS
<1>4. \A j \in (n + 1)..(r.count - 1) : ~InReach(r, j)
  BY <1>2, <1>3
<1> QED BY <1>3, <1>4 DEF Oldest

(* A rate that is shown compares the newest sample with one in use.        *)
LEMMA AverageIs ==
  ASSUME HistoryOK, NEW r, RingOK(r), r.count > 0, NEW a, a = Average(r)
  PROVE  /\ a \in [amount : Counts, over : 1..(Window + MaxLag + 1)]
         /\ a.amount > 0 =>
              \E k \in Slots :
                /\ k < r.count /\ a.over <= Window
                /\ a.over = Back(r, 0).at - r.slot[k].at
                /\ a.amount = Back(r, 0).bytes - r.slot[k].bytes
<1> Modulus \in Nat \ {0} /\ Window \in Nat /\ MaxLag \in Nat /\ Depth \in Nat \ {0}
  BY RatesAssumption
<1>1. /\ r.slot \in [Slots -> [bytes : Counts, at : Never..MaxClock]]
      /\ r.count \in 0..Depth
      /\ \A i \in Slots : i < r.count => r.slot[i].at \in 0..clock
  BY DEF RingOK, Rings
<1>2. CASE ~\E i \in 1..(r.count - 1) : InReach(r, i)
  <2>1. a = [amount |-> 0, over |-> 1]
    BY <1>2 DEF Average, Zero
  <2>2. 0 \in Counts /\ 1 \in 1..(Window + MaxLag + 1)
    BY DEF Counts
  <2> QED BY <2>1, <2>2
<1>3. CASE \E i \in 1..(r.count - 1) : InReach(r, i)
  <2> DEFINE o == Oldest(r)
  <2>3. o \in 1..(r.count - 1) /\ InReach(r, o)
    BY <1>1, <1>3, OldestIs
  <2> HIDE DEF o
  <2>4. /\ Back(r, o).at < Back(r, 0).at
        /\ Back(r, 0).at - Back(r, o).at <= Window
    <3>1. o \in 1..o
      BY <2>3
    <3> QED BY <2>3, <3>1 DEF InReach
  <2>5. PICK k \in Slots : k < r.count /\ Back(r, o) = r.slot[k]
    <3>1. o \in 0..(r.count - 1)
      BY <1>1, <2>3
    <3> QED BY <3>1, BackIs
  <2>6. PICK n \in Slots : n < r.count /\ Back(r, 0) = r.slot[n]
    <3>1. 0 \in 0..(r.count - 1)
      BY <1>1
    <3> QED BY <3>1, BackIs
  <2>7. a = [amount |-> Growth(Back(r, 0).bytes, Back(r, o).bytes),
             over |-> Back(r, 0).at - Back(r, o).at]
    BY <1>3 DEF Average, o
  <2>8. /\ r.slot[k].bytes \in Counts /\ r.slot[n].bytes \in Counts
        /\ r.slot[k].at \in Int /\ r.slot[n].at \in Int
    BY <1>1, <2>5, <2>6 DEF Never
  <2>9. /\ Growth(r.slot[n].bytes, r.slot[k].bytes) \in Counts
        /\ Growth(r.slot[n].bytes, r.slot[k].bytes) > 0 =>
             Growth(r.slot[n].bytes, r.slot[k].bytes) = r.slot[n].bytes - r.slot[k].bytes
    BY <2>8 DEF Growth, Counts
  <2>10. r.slot[n].at - r.slot[k].at \in 1..Window
    BY <2>4, <2>5, <2>6, <2>8
  <2>11. a.amount = Growth(r.slot[n].bytes, r.slot[k].bytes)
         /\ a.over = r.slot[n].at - r.slot[k].at
    BY <2>5, <2>6, <2>7
  <2>12. a \in [amount : Counts, over : 1..(Window + MaxLag + 1)]
    BY <2>5, <2>6, <2>7, <2>9, <2>10
  <2> QED BY <2>5, <2>6, <2>9, <2>10, <2>11, <2>12
<1> QED BY <1>2, <1>3

-----------------------------------------------------------------------------
(* What was counted by a time does not depend on when one asks.            *)
LEMMA SentAtIs ==
  ASSUME HistoryOK, NEW t \in Int
  PROVE  /\ SentAt(t) \in Nat
         /\ t \in 0..clock => SentAt(t) = sent[t + 1]
         /\ t >= clock => SentAt(t) = sent[clock + 1]
<1>1. clock \in Nat /\ sent \in Seq(Nat) /\ Len(sent) = clock + 1
  BY DEF HistoryOK
<1>2. \A i \in 1..(clock + 1) : sent[i] \in Nat
  BY <1>1
<1> QED BY <1>1, <1>2 DEF SentAt

LEMMA Initially == Init => IInv
<1> SUFFICES ASSUME Init PROVE IInv
  OBVIOUS
<1> /\ Modulus \in Nat \ {0} /\ Window \in Nat /\ MaxLag \in Nat /\ Depth \in Nat \ {0}
    /\ MaxClock \in Nat /\ MaxLives \in Nat \ {0}
  BY RatesAssumption
<1>1. MaxLives >= 1
  BY RatesAssumption
<1>2. HistoryOK
  BY <1>1 DEF Init, HistoryOK, Counts, Never
<1>3. LinkOK
  <2>1. NewRing.slot \in [Slots -> [bytes : Counts, at : Never..MaxClock]]
    BY DEF NewRing, Sample, Counts, Never
  <2>2. NewRing.pos = 0 /\ NewRing.count = 0 /\ NewRing \in Rings
    BY <2>1 DEF NewRing, Rings, Slots
  <2>3. RingOK(ring) /\ SlotsBound
    BY <2>2 DEF Init, RingOK, SlotsBound, Slots
  <2>4. Zero \in [amount : Counts, over : 1..(Window + MaxLag + 1)]
    BY DEF Zero, Counts
  <2> QED BY <2>3, <2>4 DEF Init, LinkOK
<1>4. Shown /\ NoTrafficIsMadeUp
  BY DEF Init, Zero, Shown, NoTrafficIsMadeUp
<1>5. ProcessOK /\ LoadIsPossible
  <2>1. Zero \in [amount : Counts, over : 1..(MaxClock + 1)]
    BY DEF Zero, Counts
  <2>2. NoScan \in [at : Never..0, ticks : Counts, found : BOOLEAN] /\ NoScan.found = FALSE
    BY DEF NoScan, Counts, Never
  <2>3. TotalOK /\ ScanOK
    BY <2>2 DEF Init, TotalOK, ScanOK, Never
  <2> QED BY <2>1, <2>3 DEF Init, Zero, ProcessOK, LoadIsPossible, Counts, Never
<1> QED BY <1>2, <1>3, <1>4, <1>5 DEF IInv

(* What the kernel does: time passes, counters grow or start again.        *)
KernelMoves ==
  /\ HistoryOK' /\ clock <= clock' /\ stranger <= stranger'
  /\ \A i \in 1..(clock + 1) : sent'[i] = sent[i]
  /\ \A bytes \in Counts, at \in 0..clock : Bounds(bytes, at) => Bounds(bytes, at)'

LEMMA KernelStep ==
  ASSUME IInv, KernelMoves, UNCHANGED <<linkVars, processVars>>,
         scan # NoScan => clock' <= scan.at + MaxSkew
  PROVE  IInv'
<1> USE RatesAssumption
<1>1. /\ HistoryOK /\ HistoryOK' /\ clock \in 0..MaxClock /\ clock' \in 0..MaxClock
      /\ clock <= clock' /\ stranger \in Int /\ stranger' \in Int /\ stranger <= stranger'
  <2>1. HistoryOK /\ HistoryOK' /\ clock <= clock' /\ stranger <= stranger'
    BY DEF IInv, KernelMoves
  <2>2. clock \in 0..MaxClock /\ stranger \in Never..clock
    BY <2>1 DEF HistoryOK
  <2>3. clock' \in 0..MaxClock /\ stranger' \in Never..clock'
    BY <2>1 DEF HistoryOK
  <2> QED BY <2>1, <2>2, <2>3 DEF Never
<1>2. LinkOK'
  <2>1. /\ RingOK(ring) /\ SlotsBound /\ pushes \in Seq([bytes : Counts, at : Nat])
        /\ UNCHANGED linkVars /\ row \in {"none", "live", "removed"}
        /\ rate \in [amount : Counts, over : 1..(Window + MaxLag + 1)]
    BY DEF IInv, LinkOK
  <2>2. RingOK(ring)'
    BY <1>1, <2>1 DEF RingOK, linkVars
  <2>3. SlotsBound'
    <3> SUFFICES ASSUME NEW i \in Slots, i < ring.count
                 PROVE  Bounds(ring.slot[i].bytes, ring.slot[i].at)'
      BY <2>1 DEF SlotsBound, linkVars
    <3>1. ring.slot[i].bytes \in Counts /\ ring.slot[i].at \in 0..clock
      BY <2>1 DEF RingOK, Rings
    <3>2. Bounds(ring.slot[i].bytes, ring.slot[i].at)
      BY <2>1 DEF SlotsBound
    <3>3. ring' = ring
      BY <2>1 DEF linkVars
    <3> DEFINE bytes == ring.slot[i].bytes
               at == ring.slot[i].at
    <3>4. Bounds(bytes, at)'
      <4> HIDE DEF bytes, at
      <4>1. there' /\ stranger' < at => meter' - bytes <= sent'[clock' + 1] - sent'[at + 1]
        BY <3>1, <3>2 DEF KernelMoves, Bounds, bytes, at
      <4> QED BY <3>3, <4>1 DEF Bounds, bytes, at
    <3> QED BY <3>4
  <2> QED BY <2>1, <2>2, <2>3 DEF LinkOK, linkVars
<1>3. Shown'
  BY <1>1 DEF IInv, Shown, linkVars
<1>4. NoTrafficIsMadeUp'
  <2>1. /\ NoTrafficIsMadeUp /\ Shown /\ rate \in [amount : Counts, over : 1..(Window + MaxLag + 1)]
        /\ pushes \in Seq([bytes : Counts, at : Nat])
    BY DEF IInv, LinkOK
  <2> SUFFICES ASSUME rate.amount > 0 PROVE NoTrafficIsMadeUp'
    BY DEF NoTrafficIsMadeUp, linkVars
  <2> DEFINE to == pushes[Len(pushes)].at
             from == to - rate.over
  <2>2. to \in 0..clock /\ from \in 0..clock /\ rate.over \in Nat
    BY <1>1, <2>1 DEF Shown
  <2>3. rate.over <= Window
        /\ (from > stranger => rate.amount <= SentAt(to + MaxLag) - SentAt(from))
    BY <2>1 DEF NoTrafficIsMadeUp
  <2> HIDE DEF to, from
  <2>4. SentAt(from)' = SentAt(from)
    <3>1. SentAt(from) = sent[from + 1]
      BY <1>1, <2>2, SentAtIs
    <3>2. SentAt(from)' = sent'[from' + 1] /\ from' = from
      BY <1>1, <2>2 DEF SentAt, linkVars, from, to
    <3>3. from + 1 \in 1..(clock + 1)
      BY <1>1, <2>2
    <3> QED BY <3>1, <3>2, <3>3 DEF KernelMoves
  <2>5. SentAt(to + MaxLag) <= SentAt(to + MaxLag)'
    <3> DEFINE t == to + MaxLag
    <3>1. t \in Nat /\ (to + MaxLag)' = t
      BY <2>2 DEF linkVars, to
    <3> HIDE DEF t
    <3>2. /\ sent \in Seq(Nat) /\ Len(sent) = clock + 1
          /\ \A i, j \in 1..(clock' + 1) : i <= j => sent'[i] <= sent'[j]
          /\ \A i \in 1..(clock + 1) : sent'[i] = sent[i]
      BY <1>1 DEF HistoryOK, KernelMoves
    <3>3. SentAt(t) = sent[(IF t > clock THEN clock ELSE t) + 1]
      BY <3>1 DEF SentAt
    <3>4. SentAt(to + MaxLag)' = sent'[(IF t > clock' THEN clock' ELSE t) + 1]
      BY <3>1 DEF SentAt
    <3> DEFINE i == (IF t > clock THEN clock ELSE t) + 1
               j == (IF t > clock' THEN clock' ELSE t) + 1
    <3> DEFINE n == clock'
    <3>8. n \in Nat /\ clock \in Nat /\ clock <= n
      BY <1>1
    <3>5. i \in 1..(clock + 1) /\ i \in 1..(clock' + 1) /\ j \in 1..(clock' + 1) /\ i <= j
      <4>1. /\ i = (IF t > clock THEN clock ELSE t) + 1
            /\ j = (IF t > n THEN n ELSE t) + 1
        OBVIOUS
      <4> HIDE DEF i, j, n
      <4>2. i \in 1..(clock + 1) /\ i \in 1..(n + 1) /\ j \in 1..(n + 1) /\ i <= j
        BY <3>1, <3>8, <4>1
      <4> QED BY <4>2 DEF n
    <3>6. SentAt(t) = sent[i] /\ SentAt(to + MaxLag)' = sent'[j]
      BY <3>3, <3>4
    <3> HIDE DEF i, j
    <3>7. sent[i] = sent'[i] /\ sent'[i] <= sent'[j]
      BY <3>2, <3>5
    <3> QED BY <3>6, <3>7 DEF t
  <2>6. from' = from /\ to' = to /\ rate' = rate
    BY DEF linkVars, from, to
  <2>7. from' > stranger' => rate.amount <= SentAt(to + MaxLag)' - SentAt(from)'
    <3>1. SentAt(to + MaxLag) \in Nat /\ SentAt(from) \in Nat
      BY <1>1, <2>2, SentAtIs
    <3>2. SentAt(to + MaxLag)' \in Nat
      <4>1. sent' \in Seq(Nat) /\ Len(sent') = clock' + 1
        BY <1>1 DEF HistoryOK
      <4>2. \A i \in 1..(clock' + 1) : sent'[i] \in Nat
        BY <4>1
      <4> DEFINE t == (to + MaxLag)'
      <4>3. t \in Nat
        BY <2>2, <2>6
      <4>4. SentAt(to + MaxLag)' = sent'[(IF t > clock' THEN clock' ELSE t) + 1]
        BY <4>3 DEF SentAt
      <4> HIDE DEF t
      <4>5. (IF t > clock' THEN clock' ELSE t) + 1 \in 1..(clock' + 1)
        <5> DEFINE n == clock'
        <5>1. n \in Nat
          BY <1>1
        <5> HIDE DEF n
        <5>2. (IF t > n THEN n ELSE t) + 1 \in 1..(n + 1)
          BY <4>3, <5>1
        <5> QED BY <5>2 DEF n
      <4> QED BY <4>2, <4>4, <4>5
    <3> QED BY <1>1, <2>1, <2>2, <2>3, <2>4, <2>5, <2>6, <3>1, <3>2 DEF Counts
  <2> QED BY <2>3, <2>6, <2>7 DEF NoTrafficIsMadeUp, to, from
<1>5. ProcessOK'
  <2>1. ProcessOK /\ UNCHANGED processVars
    BY DEF IInv
  <2>2. sampled.last => Bounds(prev, fetches.last)'
    <3> SUFFICES ASSUME sampled.last PROVE Bounds(prev, fetches.last)'
      OBVIOUS
    <3> DEFINE at == fetches.last
    <3>1. Bounds(prev, at) /\ prev \in Counts /\ at \in 0..clock
      BY <1>1, <2>1 DEF ProcessOK, Never
    <3> HIDE DEF at
    <3>2. there' /\ stranger' < at => meter' - prev <= sent'[clock' + 1] - sent'[at + 1]
      BY <3>1 DEF KernelMoves, Bounds
    <3> QED BY <2>1, <3>2 DEF Bounds, processVars, at
  <2>3. fetches \in [last : Never..clock', before : Never..clock']
    BY <1>1, <2>1 DEF ProcessOK, Never
  <2>4. TotalOK'
    <3>1. total' = total /\ fetches' = fetches
      BY <2>1 DEF processVars
    <3>2. total \in Nat /\ total <= clock + 1
      BY <1>1, <2>1 DEF ProcessOK, TotalOK
    <3> DEFINE n == clock'
    <3>3. clock \in Nat /\ n \in Nat /\ clock <= n
      BY <1>1
    <3> HIDE DEF n
    <3>4. total \in 0..(n + 1)
      BY <3>2, <3>3
    <3>5. total > 0 => /\ fetches.last >= 0
                      /\ fetches.last + 1 <= total /\ total <= fetches.last + 1 + MaxSkew
      BY <2>1 DEF ProcessOK, TotalOK
    <3> QED BY <3>1, <3>4, <3>5 DEF TotalOK, n
  <2>5. ScanOK'
    <3>1. scan' = scan /\ fetches' = fetches /\ sampled' = sampled /\ prev' = prev
      BY <2>1 DEF processVars
    <3>2. /\ scan \in [at : Never..clock, ticks : Counts, found : BOOLEAN]
          /\ scan # NoScan => 0 <= scan.at /\ fetches.last <= scan.at
          /\ scan.found => Bounds(scan.ticks, scan.at)
          /\ scan.found /\ sampled.last /\ stranger < fetches.last =>
               scan.ticks - prev <= Sent(fetches.last, scan.at)
      BY <2>1 DEF ProcessOK, ScanOK
    <3>3. scan \in [at : Never..clock', ticks : Counts, found : BOOLEAN]
      BY <1>1, <3>2 DEF Never
    <3>4. ASSUME scan.found PROVE Bounds(scan.ticks, scan.at)'
      <4> DEFINE at == scan.at
                 ticks == scan.ticks
      <4>1. Bounds(ticks, at) /\ ticks \in Counts /\ at \in 0..clock
        BY <1>1, <3>2, <3>4 DEF NoScan, Never
      <4> HIDE DEF at, ticks
      <4>2. there' /\ stranger' < at => meter' - ticks <= sent'[clock' + 1] - sent'[at + 1]
        BY <4>1 DEF KernelMoves, Bounds
      <4> QED BY <3>1, <4>2 DEF Bounds, at, ticks
    <3>5. ASSUME scan.found, sampled.last, stranger' < fetches.last
          PROVE  scan.ticks - prev <= Sent(fetches.last, scan.at)'
      <4>1. scan.at \in 0..clock /\ fetches.last \in 0..clock
        BY <1>1, <2>1, <3>2, <3>5 DEF NoScan, ProcessOK, Never
      <4>2. scan.ticks - prev <= Sent(fetches.last, scan.at)
        BY <1>1, <3>2, <3>5, <4>1
      <4>3. sent'[scan.at + 1] = sent[scan.at + 1] /\ sent'[fetches.last + 1] = sent[fetches.last + 1]
        BY <1>1, <4>1 DEF KernelMoves
      <4> QED BY <3>1, <4>2, <4>3 DEF Sent
    <3> QED BY <3>1, <3>2, <3>3, <3>4, <3>5 DEF ScanOK
  <2> QED BY <2>1, <2>2, <2>3, <2>4, <2>5 DEF ProcessOK, processVars
<1>6. LoadIsPossible'
  <2>1. ProcessOK /\ LoadIsPossible /\ UNCHANGED processVars
    BY DEF IInv
  <2>5. stranger' < fetches.before => stranger < fetches.before
    BY <1>1, <2>1 DEF ProcessOK, Never
  <2> SUFFICES ASSUME load.amount > 0, sampled.before, stranger' < fetches.before
               PROVE  load.amount <= SentAt(fetches.last)' - SentAt(fetches.before)'
    BY <2>1, <2>5 DEF LoadIsPossible, processVars
  <2>2. fetches.last \in 0..clock /\ fetches.before \in 0..clock
    BY <1>1, <2>1 DEF ProcessOK, Never
  <2>3. load.amount <= SentAt(fetches.last) - SentAt(fetches.before)
    BY <1>1, <2>1, <2>2 DEF LoadIsPossible
  <2>4. /\ SentAt(fetches.last)' = SentAt(fetches.last)
        /\ SentAt(fetches.before)' = SentAt(fetches.before)
    <3>1. /\ SentAt(fetches.last) = sent[fetches.last + 1]
          /\ SentAt(fetches.before) = sent[fetches.before + 1]
      BY <1>1, <2>2, SentAtIs
    <3>2. /\ SentAt(fetches.last)' = sent'[fetches.last + 1]
          /\ SentAt(fetches.before)' = sent'[fetches.before + 1]
      BY <1>1, <2>1, <2>2 DEF SentAt, processVars
    <3>3. fetches.last + 1 \in 1..(clock + 1) /\ fetches.before + 1 \in 1..(clock + 1)
      BY <1>1, <2>2
    <3> QED BY <3>1, <3>2, <3>3 DEF KernelMoves
  <2> QED BY <2>3, <2>4
<1> QED BY <1>1, <1>2, <1>3, <1>4, <1>5, <1>6 DEF IInv

LEMMA TickMoves ==
  ASSUME HistoryOK, NEW n \in {0, 1}, Tick(n)
  PROVE  KernelMoves
<1> USE RatesAssumption
<1>1. /\ clock \in 0..MaxClock /\ clock < MaxClock /\ clock' = clock + 1
      /\ sent \in Seq(Nat) /\ Len(sent) = clock + 1
      /\ sent' = Append(sent, sent[clock + 1] + n)
      /\ meter' = meter + n /\ meter \in Counts
      /\ stranger \in Never..clock /\ UNCHANGED <<kind, there, lives, stranger>>
  BY DEF HistoryOK, Tick
<1>2. clock \in Nat /\ n \in Nat /\ sent[clock + 1] \in 0..clock
  BY <1>1 DEF HistoryOK
<1>3. /\ sent' \in Seq(Nat) /\ Len(sent') = clock + 2
      /\ \A i \in 1..(clock + 1) : sent'[i] = sent[i]
      /\ sent'[clock + 2] = sent[clock + 1] + n
  BY <1>1, <1>2
<1>4. \A i \in 1..(clock + 1) : sent[i] \in 0..(i - 1)
  BY DEF HistoryOK
<1>5. \A i, j \in 1..(clock + 1) : i <= j => sent[i] <= sent[j]
  BY DEF HistoryOK
<1>6. HistoryOK'
  <2>1. \A i \in 1..(clock + 2) : sent'[i] \in 0..(i - 1)
    <3> SUFFICES ASSUME NEW i \in 1..(clock + 2) PROVE sent'[i] \in 0..(i - 1)
      OBVIOUS
    <3>1. CASE i \in 1..(clock + 1)
      BY <1>3, <1>4, <3>1
    <3>2. CASE i = clock + 2
      BY <1>2, <1>3, <3>2
    <3> QED BY <1>2, <3>1, <3>2
  <2>2. \A i, j \in 1..(clock + 2) : i <= j => sent'[i] <= sent'[j]
    <3> SUFFICES ASSUME NEW i \in 1..(clock + 2), NEW j \in 1..(clock + 2), i <= j
                 PROVE  sent'[i] <= sent'[j]
      OBVIOUS
    <3>1. CASE j \in 1..(clock + 1)
      BY <1>2, <1>3, <1>5, <3>1
    <3>2. CASE j = clock + 2 /\ i \in 1..(clock + 1)
      <4>1. sent[i] <= sent[clock + 1] /\ sent[i] \in Int
        BY <1>2, <1>4, <1>5, <3>2
      <4> QED BY <1>2, <1>3, <3>2, <4>1
    <3>3. CASE j = clock + 2 /\ i = clock + 2
      BY <1>2, <1>3, <3>3
    <3> QED BY <1>2, <3>1, <3>2, <3>3
  <2>3. meter' \in Counts
    BY <1>1 DEF Tick, Counts, HistoryOK
  <2> QED BY <1>1, <1>3, <2>1, <2>2, <2>3 DEF HistoryOK, Tick, Never
<1>7. ASSUME NEW bytes \in Counts, NEW at \in 0..clock, Bounds(bytes, at)
      PROVE  Bounds(bytes, at)'
  <2>1. sent'[at + 1] = sent[at + 1] /\ sent[at + 1] \in Int
    BY <1>2, <1>3, <1>4
  <2>2. meter \in Int /\ bytes \in Int
    BY <1>1 DEF Counts
  <2> QED BY <1>1, <1>2, <1>3, <1>7, <2>1, <2>2 DEF Bounds
<1> QED BY <1>1, <1>2, <1>3, <1>6, <1>7 DEF KernelMoves, Never

LEMMA VanishMoves == HistoryOK /\ Vanish => KernelMoves
<1> SUFFICES ASSUME HistoryOK, Vanish PROVE KernelMoves
  OBVIOUS
<1>1. UNCHANGED <<kind, clock, sent, meter, lives, idle, stranger>> /\ there' = FALSE
  BY DEF Vanish
<1>2. HistoryOK'
  BY <1>1 DEF HistoryOK
<1>3. clock \in 0..MaxClock /\ stranger \in Never..clock
  BY DEF HistoryOK
<1>4. clock <= clock' /\ stranger <= stranger'
  BY <1>1, <1>3, RatesAssumption DEF Never
<1>5. \A bytes \in Counts, at \in 0..clock : Bounds(bytes, at)'
  BY <1>1 DEF Bounds
<1> QED BY <1>1, <1>2, <1>4, <1>5 DEF KernelMoves

LEMMA AppearMoves ==
  ASSUME HistoryOK, NEW count \in Strangers \cup {0}, Appear(count)
  PROVE  KernelMoves
<1> USE RatesAssumption
<1>1. /\ clock \in Nat /\ stranger \in Int /\ stranger <= clock /\ count \in Counts
      /\ \A i \in 1..(clock + 1) : sent[i] \in Nat
      /\ \A i, j \in 1..(clock + 1) : i <= j => sent[i] <= sent[j]
  BY DEF HistoryOK, Counts, Never
<1>2. /\ meter' = count /\ UNCHANGED <<clock, sent>>
      /\ stranger' = IF count > 0 THEN clock ELSE stranger
  BY DEF Appear
<1>3. HistoryOK'
  <2>1. stranger' \in Never..clock
    BY <1>1, <1>2 DEF HistoryOK, Never
  <2>2. lives' \in 1..MaxLives
    BY DEF HistoryOK, Appear
  <2> QED BY <1>1, <1>2, <2>1, <2>2 DEF HistoryOK, Appear
<1>4. ASSUME NEW bytes \in Counts, NEW at \in 0..clock
      PROVE  Bounds(bytes, at)'
  <2>1. CASE count > 0
    BY <1>1, <1>2, <2>1 DEF Bounds
  <2>2. CASE count = 0
    <3>1. sent[at + 1] <= sent[clock + 1] /\ sent[at + 1] \in Nat /\ sent[clock + 1] \in Nat
      BY <1>1
    <3> QED BY <1>2, <2>2, <3>1 DEF Bounds, Counts
  <2> QED BY <1>1, <2>1, <2>2 DEF Counts
<1> QED BY <1>1, <1>2, <1>3, <1>4 DEF KernelMoves

(* Nothing about processes changes with the links.                         *)
LEMMA Unread ==
  ASSUME ProcessOK, LoadIsPossible, UNCHANGED <<kernelVars, processVars>>
  PROVE  ProcessOK' /\ LoadIsPossible'
BY DEF ProcessOK, TotalOK, ScanOK, Sent, LoadIsPossible, Bounds, SentAt, kernelVars,
   processVars

LEMMA NoScanIs ==
  ASSUME HistoryOK, scan' = NoScan, clock' = clock
  PROVE  ScanOK'
<1>1. NoScan \in [at : Never..clock, ticks : Counts, found : BOOLEAN] /\ NoScan.found = FALSE
  BY RatesAssumption DEF NoScan, Counts, Never, HistoryOK
<1> QED BY <1>1 DEF ScanOK

LEMMA Unpushed ==
  ASSUME LinkOK, Shown, NoTrafficIsMadeUp, UNCHANGED <<kernelVars, linkVars>>
  PROVE  LinkOK' /\ Shown' /\ NoTrafficIsMadeUp'
BY DEF LinkOK, RingOK, SlotsBound, Bounds, Shown, NoTrafficIsMadeUp, SentAt, kernelVars,
   linkVars

(* A removed row fades out, its namespace goes, or the link is without     *)
(* statistics: the ring is dropped.                                        *)
LEMMA DroppedIs ==
  ASSUME HistoryOK, row' \in {"none", "live"}, ring' = NewRing, rate' = Zero, pushes' = <<>>,
         UNCHANGED kernelVars
  PROVE  LinkOK' /\ Shown' /\ NoTrafficIsMadeUp'
<1> USE RatesAssumption
<1>1. NewRing.slot \in [Slots -> [bytes : Counts, at : Never..MaxClock]]
  BY DEF NewRing, Sample, Counts, Never
<1>2. NewRing.pos = 0 /\ NewRing.count = 0 /\ NewRing \in Rings
  BY <1>1 DEF NewRing, Rings, Slots
<1>3. RingOK(ring)' /\ SlotsBound'
  BY <1>2 DEF RingOK, SlotsBound, Slots
<1>4. Zero \in [amount : Counts, over : 1..(Window + MaxLag + 1)] /\ Zero.amount = 0
  BY DEF Zero, Counts
<1>5. <<>> \in Seq([bytes : Counts, at : Nat])
  OBVIOUS
<1> QED BY <1>3, <1>4, <1>5 DEF LinkOK, Shown, NoTrafficIsMadeUp

(* A reload of the interfaces.                                             *)
LEMMA ReadLinkStep == IInv /\ ReadLink => IInv'
<1> SUFFICES ASSUME IInv, ReadLink PROVE IInv'
  OBVIOUS
<1> USE RatesAssumption
<1>1. /\ HistoryOK /\ LinkOK /\ Shown /\ NoTrafficIsMadeUp /\ ProcessOK /\ LoadIsPossible
      /\ UNCHANGED kernelVars /\ UNCHANGED processVars
  BY DEF IInv, ReadLink
<1>2. HistoryOK'
  BY <1>1 DEF HistoryOK, kernelVars, ReadLink
<1>3. ProcessOK' /\ LoadIsPossible'
  BY <1>1, Unread
<1>4. /\ clock \in Nat /\ meter \in Counts /\ stranger \in Int
      /\ row \in {"none", "live", "removed"}
      /\ RingOK(ring) /\ SlotsBound /\ pushes \in Seq([bytes : Counts, at : Nat])
      /\ rate \in [amount : Counts, over : 1..(Window + MaxLag + 1)]
  BY <1>1 DEF LinkOK, HistoryOK, Never
<1>5. PICK at \in Stamps : ReloadLink(at)
  BY DEF ReadLink
<1>6. at \in 0..clock /\ at + MaxLag >= clock
  BY <1>4 DEF Stamps
<1>7. CASE ~there
  <2>1. /\ row' \in {"none", "live", "removed"} /\ UNCHANGED <<ring, rate, pushes>>
    BY <1>4, <1>5, <1>7 DEF ReloadLink
  <2>2. LinkOK'
    BY <1>1, <1>4, <2>1 DEF LinkOK, RingOK, SlotsBound, Bounds, kernelVars
  <2>3. Shown' /\ NoTrafficIsMadeUp'
    BY <1>1, <2>1 DEF Shown, NoTrafficIsMadeUp, SentAt, kernelVars
  <2> QED BY <1>2, <1>3, <2>2, <2>3 DEF IInv
<1>8. CASE there /\ ring' = NewRing /\ rate' = Zero /\ pushes' = <<>> /\ row' = "live"
  BY <1>1, <1>2, <1>3, <1>8, DroppedIs DEF IInv
<1>9. CASE /\ there /\ row' = "live" /\ rate' = Average(ring')
           /\ ring' = Pushed(IF row = "none" THEN NewRing ELSE ring, meter, at)
           /\ pushes' = Append(IF row = "none" THEN <<>> ELSE pushes, Sample(meter, at))
  <2> DEFINE r == IF row = "none" THEN NewRing ELSE ring
             old == IF row = "none" THEN <<>> ELSE pushes
             s == Sample(meter, at)
  <2>1. /\ row' = "live" /\ ring' = Pushed(r, meter, at)
        /\ rate' = Average(ring') /\ pushes' = Append(old, s)
    BY <1>9
  <2>2. NewRing \in Rings /\ NewRing.pos = 0 /\ NewRing.count = 0
    <3>1. NewRing.slot \in [Slots -> [bytes : Counts, at : Never..MaxClock]]
      BY DEF NewRing, Sample, Counts, Never
    <3> QED BY <3>1 DEF NewRing, Rings, Slots
  <2>3. RingOK(r)
    BY <1>4, <2>2 DEF RingOK, Slots
  <2>4. \A i \in Slots : i < r.count => Bounds(r.slot[i].bytes, r.slot[i].at)
    BY <1>4, <2>2 DEF SlotsBound, Slots
  <2>5. old \in Seq([bytes : Counts, at : Nat]) /\ s \in [bytes : Counts, at : Nat]
        /\ s.bytes = meter /\ s.at = at
    BY <1>4, <1>6 DEF Sample
  <2> HIDE DEF r, old, s
  <2>6. /\ RingOK(ring') /\ ring'.count > 0 /\ Back(ring', 0) = s
        /\ \A i \in Slots : i < ring'.count =>
             \/ ring'.slot[i] = s
             \/ i < r.count /\ ring'.slot[i] = r.slot[i]
    BY <1>1, <1>4, <1>6, <2>1, <2>3, PushedIs DEF s
  <2>7. \A i \in Slots : i < ring'.count => Bounds(ring'.slot[i].bytes, ring'.slot[i].at)
    <3> SUFFICES ASSUME NEW i \in Slots, i < ring'.count
                 PROVE  Bounds(ring'.slot[i].bytes, ring'.slot[i].at)
      OBVIOUS
    <3>1. CASE ring'.slot[i] = s
      <4>1. sent[clock + 1] >= sent[at + 1] /\ sent[clock + 1] \in Nat /\ sent[at + 1] \in Nat
        <5>1. \A k \in 1..(clock + 1) : sent[k] \in 0..(k - 1)
          BY <1>1 DEF HistoryOK
        <5>2. \A k, j \in 1..(clock + 1) : k <= j => sent[k] <= sent[j]
          BY <1>1 DEF HistoryOK
        <5>3. clock + 1 \in 1..(clock + 1) /\ at + 1 \in 1..(clock + 1) /\ at + 1 <= clock + 1
          BY <1>4, <1>6
        <5> QED BY <5>1, <5>2, <5>3
      <4>2. Bounds(meter, at)
        BY <1>4, <4>1 DEF Bounds, Counts
      <4> QED BY <2>5, <3>1, <4>2
    <3>2. CASE i < r.count /\ ring'.slot[i] = r.slot[i]
      BY <2>4, <3>2
    <3> QED BY <2>6, <3>1, <3>2
  <2>8. /\ rate' \in [amount : Counts, over : 1..(Window + MaxLag + 1)]
        /\ rate'.amount > 0 =>
             \E k \in Slots :
               /\ k < ring'.count /\ rate'.over <= Window
               /\ rate'.over = Back(ring', 0).at - ring'.slot[k].at
               /\ rate'.amount = Back(ring', 0).bytes - ring'.slot[k].bytes
    BY <1>1, <2>1, <2>6, AverageIs
  <2>9. pushes' \in Seq([bytes : Counts, at : Nat]) /\ pushes' # <<>>
        /\ pushes'[Len(pushes')] = s
    BY <2>1, <2>5
  <2>10. LinkOK'
    <3>1. RingOK(ring)'
      BY <1>1, <2>6 DEF RingOK, kernelVars
    <3>2. SlotsBound'
      BY <1>1, <2>7 DEF SlotsBound, Bounds, kernelVars
    <3> QED BY <2>1, <2>8, <2>9, <3>1, <3>2 DEF LinkOK
  <2>11. Shown' /\ NoTrafficIsMadeUp'
    <3> SUFFICES ASSUME rate'.amount > 0 PROVE Shown' /\ NoTrafficIsMadeUp'
      BY DEF Shown, NoTrafficIsMadeUp
    <3>1. PICK k \in Slots :
            /\ k < ring'.count /\ rate'.over <= Window
            /\ rate'.over = at - ring'.slot[k].at
            /\ rate'.amount = meter - ring'.slot[k].bytes
      BY <2>5, <2>6, <2>8
    <3> DEFINE b == ring'.slot[k].bytes
               a == ring'.slot[k].at
    <3>2. a \in 0..clock /\ b \in Counts
      BY <2>6, <3>1 DEF RingOK, Rings
    <3>3. Bounds(b, a)
      BY <2>7, <3>1
    <3>4. rate'.over = at - a /\ rate'.amount = meter - b /\ rate'.over <= Window
      BY <3>1
    <3> HIDE DEF a, b
    <3>5. clock' = clock /\ sent' = sent /\ stranger' = stranger
      BY <1>1 DEF kernelVars
    <3>6. pushes'[Len(pushes')].at = at /\ at - rate'.over = a /\ rate'.over \in Nat
      <4>1. at \in Nat /\ a \in Nat /\ rate'.over \in Nat
        BY <1>4, <1>6, <2>8, <3>2
      <4>2. pushes'[Len(pushes')].at = at
        BY <2>5, <2>9
      <4>3. at - rate'.over = a
        BY <3>4, <4>1
      <4> QED BY <4>1, <4>2, <4>3
    <3>7. Shown'
      BY <1>4, <1>6, <2>9, <3>2, <3>4, <3>5, <3>6 DEF Shown
    <3>8. SentAt(at + MaxLag) = sent[clock + 1] /\ SentAt(a) = sent[a + 1]
      <4>1. at + MaxLag \in Int /\ a \in Int
        BY <1>6, <3>2
      <4>2. SentAt(a) = sent[a + 1]
        BY <1>1, <3>2, <4>1, SentAtIs
      <4> DEFINE t == at + MaxLag
      <4>3. t \in Int /\ t >= clock
        BY <1>6, <4>1
      <4> HIDE DEF t
      <4>4. SentAt(t) = sent[clock + 1]
        BY <1>1, <4>3, SentAtIs
      <4> QED BY <4>2, <4>4 DEF t
    <3>9. a > stranger => rate'.amount <= SentAt(at + MaxLag) - SentAt(a)
      BY <1>4, <1>9, <3>2, <3>3, <3>4, <3>8 DEF Bounds
    <3>10. NoTrafficIsMadeUp'
      BY <3>4, <3>5, <3>6, <3>9 DEF NoTrafficIsMadeUp, SentAt
    <3> QED BY <3>7, <3>10
  <2> QED BY <1>2, <1>3, <2>10, <2>11 DEF IInv
<1> QED BY <1>5, <1>7, <1>8, <1>9 DEF ReloadLink

(* A scan comes to the process; its ticks bound the meter from here on.    *)
LEMMA ScanStep ==
  ASSUME IInv, NEW found \in BOOLEAN, ScanProcess(found)
  PROVE  IInv'
<1> USE RatesAssumption
<1>1. /\ HistoryOK /\ LinkOK /\ Shown /\ NoTrafficIsMadeUp /\ ProcessOK /\ LoadIsPossible
      /\ UNCHANGED <<kernelVars, linkVars, prev, total, load, fetches, sampled>>
      /\ found => there
      /\ scan' = [at |-> clock, ticks |-> IF found THEN meter ELSE 0, found |-> found]
  BY DEF IInv, ScanProcess
<1>2. HistoryOK'
  BY <1>1 DEF HistoryOK, kernelVars, ScanProcess
<1>3. LinkOK' /\ Shown' /\ NoTrafficIsMadeUp'
  BY <1>1, Unpushed
<1>4. /\ clock \in Nat /\ meter \in Counts /\ prev \in Counts
      /\ fetches.last \in Never..clock /\ fetches.last \in Int
      /\ sampled.last => fetches.last >= 0 /\ Bounds(prev, fetches.last)
  BY <1>1 DEF HistoryOK, ProcessOK, Never
<1>5. sent[clock + 1] \in Int
  BY <1>1, <1>4 DEF HistoryOK
<1>6. scan'.at = clock /\ scan'.found = found /\ (found => scan'.ticks = meter)
      /\ scan' \in [at : Never..clock, ticks : Counts, found : BOOLEAN]
  BY <1>1, <1>4 DEF Never, Counts
<1>7. UNCHANGED <<clock, sent, meter, there, stranger, prev, total, fetches, sampled>>
  BY <1>1 DEF kernelVars
<1>8. Bounds(meter, clock)
  BY <1>4, <1>5 DEF Bounds, Counts
<1>9. found /\ sampled.last /\ stranger < fetches.last =>
        meter - prev <= Sent(fetches.last, clock)
  BY <1>1, <1>4 DEF Bounds, Sent
<1>10. ScanOK'
  BY <1>4, <1>6, <1>7, <1>8, <1>9 DEF ScanOK, Bounds, Sent
<1>11. ProcessOK'
  BY <1>1, <1>7, <1>10 DEF ProcessOK, TotalOK, Bounds
<1>12. LoadIsPossible'
  BY <1>1, <1>7 DEF LoadIsPossible, SentAt
<1> QED BY <1>2, <1>3, <1>11, <1>12 DEF IInv

LEMMA SyncFailsStep == IInv /\ SyncFails => IInv'
<1> SUFFICES ASSUME IInv, SyncFails PROVE IInv'
  OBVIOUS
<1> USE RatesAssumption
<1>1. /\ HistoryOK /\ LinkOK /\ Shown /\ NoTrafficIsMadeUp /\ ProcessOK /\ LoadIsPossible
      /\ UNCHANGED <<kernelVars, linkVars, idle, prev, total, load, fetches, sampled>>
      /\ scan' = NoScan
  BY DEF IInv, SyncFails
<1>2. HistoryOK'
  BY <1>1 DEF HistoryOK, kernelVars
<1>3. LinkOK' /\ Shown' /\ NoTrafficIsMadeUp'
  BY <1>1, Unpushed
<1>4. ScanOK'
  BY <1>1, NoScanIs DEF kernelVars
<1>5. ProcessOK' /\ LoadIsPossible'
  BY <1>1, <1>4 DEF ProcessOK, TotalOK, Bounds, LoadIsPossible, SentAt, kernelVars
<1> QED BY <1>2, <1>3, <1>5 DEF IInv

(* The scan is used, with the time that has passed by now.                 *)
LEMMA ReadProcessStep == IInv /\ ReadProcess => IInv'
<1> SUFFICES ASSUME IInv, ReadProcess PROVE IInv'
  OBVIOUS
<1> USE RatesAssumption
<1>1. /\ HistoryOK /\ LinkOK /\ Shown /\ NoTrafficIsMadeUp /\ ProcessOK /\ LoadIsPossible
      /\ UNCHANGED <<kernelVars, idle, linkVars>> /\ scan # NoScan /\ scan' = NoScan
  BY DEF IInv, ReadProcess
<1>2. HistoryOK'
  BY <1>1 DEF HistoryOK, kernelVars
<1>3. LinkOK' /\ Shown' /\ NoTrafficIsMadeUp'
  BY <1>1, Unpushed
<1>4. /\ clock \in Nat /\ clock <= MaxClock
      /\ \A i \in 1..(clock + 1) : sent[i] \in Nat
  <2>1. clock \in 0..MaxClock /\ sent \in Seq(Nat) /\ Len(sent) = clock + 1
    BY <1>1 DEF HistoryOK
  <2> QED BY <2>1
<1>5. PICK read \in {0, clock + 1} : ReloadProcess(read)
  BY DEF ReadProcess
<1> DEFINE now == scan.at
           ticks == scan.ticks
           found == scan.found
<1>6. /\ total' = read
      /\ fetches' = [last |-> now, before |-> fetches.last]
      /\ sampled' = [last |-> found, before |-> sampled.last]
  BY <1>5 DEF ReloadProcess, NextTotal
<1>7. /\ prev \in Counts /\ total \in Nat /\ total <= clock + 1
      /\ total > 0 => /\ fetches.last >= 0
                      /\ fetches.last + 1 <= total /\ total <= fetches.last + 1 + MaxSkew
      /\ fetches.last \in Never..clock /\ fetches.last \in Int
      /\ sampled.last \in BOOLEAN /\ (sampled.last => fetches.last >= 0)
  BY <1>1, <1>4 DEF ProcessOK, TotalOK, Never
<1>8. /\ now \in 0..clock /\ ticks \in Counts /\ found \in BOOLEAN
      /\ clock <= now + MaxSkew /\ fetches.last <= now
      /\ found => Bounds(ticks, now)
      /\ found /\ sampled.last /\ stranger < fetches.last =>
           ticks - prev <= Sent(fetches.last, now)
  BY <1>1, <1>4 DEF ProcessOK, ScanOK, Never
<1> HIDE DEF now, ticks, found
<1>9. clock' = clock /\ sent' = sent /\ meter' = meter /\ stranger' = stranger /\ there' = there
  BY <1>1 DEF kernelVars
<1>10. /\ fetches'.last = now /\ fetches'.before = fetches.last
       /\ sampled'.last = found /\ sampled'.before = sampled.last
       /\ fetches' \in [last : Never..clock, before : Never..clock]
       /\ sampled' \in [last : BOOLEAN, before : BOOLEAN]
  BY <1>4, <1>6, <1>7, <1>8 DEF Never
<1>11. /\ load' \in [amount : Counts, over : 1..(MaxClock + 1)] /\ prev' \in Counts
       /\ found => prev' = ticks
       /\ load'.amount > 0 =>
            /\ found /\ total > 0 /\ load'.over = read - total /\ read = clock + 1
            /\ load'.amount = ticks - prev
  <2>1. /\ Zero \in [amount : Counts, over : 1..(MaxClock + 1)] /\ Zero.amount = 0
    BY DEF Zero, Counts
  <2>2. CASE ~found
    BY <1>5, <1>7, <2>1, <2>2 DEF ReloadProcess, found
  <2>3. CASE found /\ TotalGrowth(read) > 0 /\ ticks >= prev
    <3>1. /\ load' = [amount |-> ticks - prev, over |-> TotalGrowth(read)] /\ prev' = ticks
      BY <1>5, <2>3 DEF ReloadProcess, found, ticks
    <3>2. total \in Nat /\ read \in Nat /\ read <= clock + 1
      BY <1>4, <1>7
    <3>3. total > 0 /\ read >= total /\ TotalGrowth(read) = read - total
      BY <2>3, <3>2 DEF TotalGrowth
    <3>4. TotalGrowth(read) \in 1..(MaxClock + 1)
      BY <1>4, <2>3, <3>2, <3>3
    <3>5. ticks - prev \in Counts
      BY <1>7, <1>8, <2>3 DEF Counts
    <3>6. read = clock + 1
      BY <3>2, <3>3
    <3> QED BY <1>8, <2>3, <3>1, <3>3, <3>4, <3>5, <3>6
  <2>4. CASE found /\ ~(TotalGrowth(read) > 0 /\ ticks >= prev)
    BY <1>5, <1>8, <2>1, <2>4 DEF ReloadProcess, found, ticks
  <2> QED BY <2>2, <2>3, <2>4
<1>12. TotalOK' /\ ScanOK'
  <2>1. TotalOK'
    BY <1>4, <1>6, <1>8, <1>9, <1>10 DEF TotalOK
  <2> QED BY <1>1, <1>9, <2>1, NoScanIs
<1>13. sampled'.last => Bounds(prev, fetches.last)'
  BY <1>8, <1>9, <1>10, <1>11 DEF Bounds
<1>14. ProcessOK'
  BY <1>4, <1>7, <1>8, <1>9, <1>10, <1>11, <1>12, <1>13 DEF ProcessOK, Never
<1>15. LoadIsPossible'
  <2> SUFFICES ASSUME load'.amount > 0, sampled.last, stranger < fetches.last
               PROVE  /\ load'.amount <= SentAt(now) - SentAt(fetches.last)
                      /\ now - fetches.last - MaxSkew <= load'.over
                      /\ load'.over <= now - fetches.last + MaxSkew
    BY <1>9, <1>10 DEF LoadIsPossible, SentAt
  <2>1. fetches.last \in 0..clock
    BY <1>4, <1>7 DEF Never
  <2>2. /\ now - fetches.last - MaxSkew <= load'.over
        /\ load'.over <= now - fetches.last + MaxSkew
    <3>1. MaxSkew \in Nat /\ now \in Nat /\ now <= clock /\ clock <= now + MaxSkew
      BY <1>4, <1>8
    <3>2. /\ load'.over = clock + 1 - total /\ total \in Nat
          /\ fetches.last + 1 <= total /\ total <= fetches.last + 1 + MaxSkew
      <4>1. total > 0 /\ load'.over = read - total /\ read = clock + 1
        BY <1>11
      <4>2. /\ total \in Nat
            /\ fetches.last + 1 <= total /\ total <= fetches.last + 1 + MaxSkew
        BY <1>7, <4>1
      <4> QED BY <1>4, <4>1, <4>2
    <3> QED BY <1>4, <2>1, <3>1, <3>2
  <2>3. ticks - prev <= sent[now + 1] - sent[fetches.last + 1]
    BY <1>8, <1>11 DEF Sent
  <2>4. SentAt(now) = sent[now + 1] /\ SentAt(fetches.last) = sent[fetches.last + 1]
    BY <1>1, <1>4, <1>8, <2>1, SentAtIs
  <2> QED BY <1>11, <2>2, <2>3, <2>4
<1> QED BY <1>2, <1>3, <1>14, <1>15 DEF IInv

LEMMA ExpireStep == IInv /\ Expire => IInv'
<1> SUFFICES ASSUME IInv, Expire PROVE IInv'
  OBVIOUS
<1>1. HistoryOK /\ HistoryOK'
  BY DEF IInv, HistoryOK, Expire, kernelVars
<1>2. LinkOK' /\ Shown' /\ NoTrafficIsMadeUp'
  BY <1>1, DroppedIs DEF Expire
<1>3. ProcessOK' /\ LoadIsPossible'
  BY Unread DEF IInv, Expire
<1> QED BY <1>1, <1>2, <1>3 DEF IInv

(* A sample that goes with its process bounds nothing that is there.       *)
LEMMA PruneStep == IInv /\ Prune => IInv'
<1> SUFFICES ASSUME IInv, Prune PROVE IInv'
  OBVIOUS
<1>1. HistoryOK /\ HistoryOK'
  BY DEF IInv, HistoryOK, Prune, kernelVars
<1>2. LinkOK' /\ Shown' /\ NoTrafficIsMadeUp'
  BY <1>1, DroppedIs DEF Prune
<1>3. /\ ~there /\ there' = there /\ clock' = clock /\ prev' \in {0, prev} /\ load' = Zero
      /\ ~scan.found /\ UNCHANGED <<scan, total, fetches, sampled>> /\ ProcessOK
  BY DEF IInv, Prune, kernelVars
<1>4. ProcessOK'
  <2>1. prev' \in Counts
    BY <1>3, RatesAssumption DEF ProcessOK, Counts
  <2>2. load' \in [amount : Counts, over : 1..(MaxClock + 1)]
    BY <1>3, RatesAssumption DEF Zero, Counts
  <2>3. Bounds(prev, fetches.last)'
    BY <1>3 DEF Bounds
  <2>4. TotalOK' /\ ScanOK'
    BY <1>3 DEF ProcessOK, TotalOK, ScanOK
  <2> QED BY <1>3, <2>1, <2>2, <2>3, <2>4 DEF ProcessOK
<1>5. LoadIsPossible'
  BY <1>3 DEF LoadIsPossible, Zero
<1> QED BY <1>1, <1>2, <1>4, <1>5 DEF IInv

LEMMA Invariance == Spec => []IInv
<1>1. IInv /\ [Next]_vars => IInv'
  <2> SUFFICES ASSUME IInv, [Next]_vars PROVE IInv'
    OBVIOUS
  <2>1. HistoryOK
    BY DEF IInv
  <2>2. ASSUME NEW n \in {0, 1}, Tick(n) PROVE IInv'
    <3>1. KernelMoves
      BY <2>1, <2>2, TickMoves
    <3>2. scan # NoScan => clock' <= scan.at + MaxSkew
      BY <2>2, RatesAssumption DEF Tick, IInv, ProcessOK, ScanOK, HistoryOK, Never
    <3> QED BY <2>2, <3>1, <3>2, KernelStep DEF Tick
  <2>3. CASE Vanish
    <3>1. scan # NoScan => clock' <= scan.at + MaxSkew
      BY <2>3 DEF Vanish, IInv, ProcessOK, ScanOK
    <3> QED BY <2>1, <2>3, <3>1, VanishMoves, KernelStep DEF Vanish
  <2>4. ASSUME NEW count \in Strangers \cup {0}, Appear(count) PROVE IInv'
    <3>1. scan # NoScan => clock' <= scan.at + MaxSkew
      BY <2>4 DEF Appear, IInv, ProcessOK, ScanOK
    <3> QED BY <2>1, <2>4, <3>1, AppearMoves, KernelStep DEF Appear
  <2>5. CASE UNCHANGED vars
    <3>1. UNCHANGED <<kernelVars, idle, linkVars, processVars>>
      BY <2>5 DEF vars, kernelVars, linkVars, processVars
    <3>2. HistoryOK'
      BY <2>1, <3>1 DEF HistoryOK, kernelVars
    <3> QED BY <3>1, <3>2, Unread, Unpushed DEF IInv
  <2>6. ASSUME NEW found \in BOOLEAN, ScanProcess(found) PROVE IInv'
    BY <2>6, ScanStep
  <2> QED BY <2>2, <2>3, <2>4, <2>5, <2>6, ReadLinkStep, SyncFailsStep, ReadProcessStep,
             ExpireStep, PruneStep DEF Next
<1> QED BY Initially, <1>1, PTL DEF Spec

-----------------------------------------------------------------------------
(* The ring and the history of what was pushed.  The kept samples of a     *)
(* history, and how many of them come after one.                           *)
Histories == Seq([bytes : Counts, at : Nat])
KeptOf(p) == {i \in DOMAIN p : i < Len(p) => p[i + 1].at - p[i].at >= Interval}
AfterIn(p, i) == Cardinality({j \in KeptOf(p) : j > i})

(* The ring holds the newest kept samples, each as far back as the kept    *)
(* ones that came after it, and nothing else.                              *)
Remembers(r, p) ==
  /\ r.count = (IF Cardinality(KeptOf(p)) < Depth THEN Cardinality(KeptOf(p)) ELSE Depth)
  /\ \A i \in KeptOf(p) : AfterIn(p, i) < r.count => Back(r, AfterIn(p, i)) = p[i]
  /\ \A k \in 0..(r.count - 1) : \E i \in KeptOf(p) : AfterIn(p, i) = k

RingInv ==
  /\ row = "none" => pushes = <<>> /\ ring = NewRing
  /\ Remembers(ring, pushes) /\ rate = Average(ring)

LEMMA MemberOf ==
  ASSUME NEW R, NEW p \in Seq(R), NEW i \in 1..Len(p)
  PROVE  p[i] \in R
  OBVIOUS

(* The last sample is always kept, and every other one has it after it.    *)
LEMMA KeptIs ==
  ASSUME NEW p \in Histories
  PROVE  /\ KeptOf(p) \in SUBSET (1..Len(p)) /\ IsFiniteSet(KeptOf(p))
         /\ Cardinality(KeptOf(p)) \in 0..Len(p)
         /\ p # <<>> => /\ Len(p) \in KeptOf(p) /\ Cardinality(KeptOf(p)) > 0
                        /\ AfterIn(p, Len(p)) = 0
         /\ \A i \in KeptOf(p) : AfterIn(p, i) \in Nat /\ (i < Len(p) => AfterIn(p, i) > 0)
<1> DEFINE n == Len(p)
<1>1. n \in Nat /\ DOMAIN p = 1..n
  BY DEF Histories
<1>2. KeptOf(p) \in SUBSET (1..n)
  BY <1>1 DEF KeptOf
<1>3. /\ \A T \in SUBSET (1..n) : IsFiniteSet(T) /\ Cardinality(T) \in Nat
      /\ \A T \in SUBSET (1..n) : Cardinality(T) <= n
  <2> HIDE DEF n
  <2>1. IsFiniteSet(1..n) /\ Cardinality(1..n) = n
    BY <1>1, FS_Interval
  <2> QED BY <2>1, FS_Subset, FS_CardinalityType
<1>4. p # <<>> => n \in KeptOf(p)
  BY <1>1 DEF KeptOf, Histories
<1>5. \A T \in SUBSET (1..n) : T # {} => Cardinality(T) > 0
  BY <1>3, FS_EmptySet
<1>6. p # <<>> => AfterIn(p, n) = 0
  <2>1. {j \in KeptOf(p) : j > n} = {}
    BY <1>1, <1>2
  <2> QED BY <2>1, FS_EmptySet DEF AfterIn
<1>7. ASSUME NEW i \in KeptOf(p)
      PROVE  AfterIn(p, i) \in Nat /\ (i < n => AfterIn(p, i) > 0)
  <2> DEFINE T == {j \in KeptOf(p) : j > i}
  <2>1. T \in SUBSET (1..n) /\ (i < n => n \in T)
    BY <1>1, <1>2, <1>4 DEF Histories
  <2>2. AfterIn(p, i) = Cardinality(T)
    BY DEF AfterIn
  <2> HIDE DEF T
  <2> QED BY <1>3, <1>5, <2>1, <2>2
<1> QED BY <1>1, <1>2, <1>3, <1>4, <1>5, <1>6, <1>7

(* A kept sample has more kept ones after it than a later one has.         *)
LEMMA AfterDecreases ==
  ASSUME NEW p \in Histories, NEW i \in KeptOf(p), NEW j \in KeptOf(p), i < j
  PROVE  AfterIn(p, j) < AfterIn(p, i)
<1> DEFINE S == {k \in KeptOf(p) : k > i}
           T == {k \in KeptOf(p) : k > j}
<1>1. KeptOf(p) \in SUBSET (1..Len(p)) /\ IsFiniteSet(KeptOf(p))
  BY KeptIs
<1>2. T \in SUBSET S /\ j \in S /\ j \notin T /\ S \in SUBSET KeptOf(p)
  BY <1>1
<1>3. AfterIn(p, i) = Cardinality(S) /\ AfterIn(p, j) = Cardinality(T)
  BY DEF AfterIn
<1> HIDE DEF S, T
<1>4. IsFiniteSet(S) /\ IsFiniteSet(T)
  BY <1>1, <1>2, FS_Subset
<1>5. Cardinality(T) <= Cardinality(S) /\ Cardinality(T) # Cardinality(S)
  BY <1>2, <1>4, FS_Subset
<1> QED BY <1>3, <1>4, <1>5, FS_CardinalityType

(* A sample far enough from the last one is kept besides it.               *)
LEMMA KeptGrows ==
  ASSUME NEW p \in Histories, NEW s \in [bytes : Counts, at : Nat],
         p # <<>> => s.at - p[Len(p)].at >= Interval
  PROVE  /\ KeptOf(Append(p, s)) = KeptOf(p) \cup {Len(p) + 1}
         /\ Cardinality(KeptOf(Append(p, s))) = Cardinality(KeptOf(p)) + 1
         /\ AfterIn(Append(p, s), Len(p) + 1) = 0
         /\ \A i \in KeptOf(p) :
              Append(p, s)[i] = p[i] /\ AfterIn(Append(p, s), i) = AfterIn(p, i) + 1
<1> DEFINE q == Append(p, s)
           n == Len(p)
<1>1. /\ n \in Nat /\ DOMAIN p = 1..n /\ DOMAIN q = 1..(n + 1) /\ Len(q) = n + 1
      /\ q[n + 1] = s /\ \A i \in 1..n : q[i] = p[i]
      /\ q \in Histories /\ q # <<>> /\ (p # <<>> <=> n > 0)
  <2>1. n \in Nat /\ DOMAIN p = 1..n /\ (p # <<>> <=> n > 0)
    BY DEF Histories
  <2>2. /\ DOMAIN q = 1..(n + 1) /\ Len(q) = n + 1 /\ q[n + 1] = s
        /\ \A i \in 1..n : q[i] = p[i]
    BY DEF Histories
  <2>3. q \in Histories /\ q # <<>>
    BY DEF Histories
  <2> QED BY <2>1, <2>2, <2>3
<1>2. KeptOf(p) \in SUBSET (1..n) /\ IsFiniteSet(KeptOf(p))
  BY KeptIs
<1>7. /\ n > 0 => s.at - p[n].at >= Interval
      /\ \A i : i \in KeptOf(p) <=> i \in 1..n /\ (i < n => p[i + 1].at - p[i].at >= Interval)
      /\ \A i : i \in KeptOf(q) <=> i \in 1..(n + 1)
                                  /\ (i < n + 1 => q[i + 1].at - q[i].at >= Interval)
  BY <1>1 DEF KeptOf
<1> HIDE DEF n, q
<1>3. KeptOf(q) = KeptOf(p) \cup {n + 1}
  <2>1. ASSUME NEW i \in 1..(n + 1)
        PROVE  i \in KeptOf(q) <=> i \in KeptOf(p) \cup {n + 1}
    <3>1. CASE i = n + 1
      BY <1>1, <3>1, <1>7
    <3>2. CASE i = n
      BY <1>1, <3>2, <1>7
    <3>3. CASE i \in 1..(n - 1)
      <4>1. i \in 1..n /\ i + 1 \in 1..n /\ i < n /\ i < n + 1
        BY <1>1, <3>3
      <4>2. q[i] = p[i] /\ q[i + 1] = p[i + 1]
        BY <1>1, <4>1
      <4> QED BY <1>1, <4>1, <4>2, <1>7
    <3> QED BY <1>1, <3>1, <3>2, <3>3
  <2>2. KeptOf(q) \in SUBSET (1..(n + 1)) /\ KeptOf(p) \in SUBSET (1..(n + 1))
    BY <1>1, <1>2, <1>7
  <2> QED BY <1>1, <2>1, <2>2
<1>4. Cardinality(KeptOf(q)) = Cardinality(KeptOf(p)) + 1
  <2> DEFINE S == KeptOf(p)
  <2>1. IsFiniteSet(S) /\ n + 1 \notin S /\ KeptOf(q) = S \cup {n + 1}
    BY <1>1, <1>2, <1>3
  <2> HIDE DEF S
  <2>2. Cardinality(S \cup {n + 1}) = Cardinality(S) + 1
    BY <2>1, FS_AddElement
  <2> QED BY <2>1, <2>2 DEF S
<1>5. AfterIn(q, n + 1) = 0
  BY <1>1, KeptIs
<1>6. ASSUME NEW i \in KeptOf(p)
      PROVE  q[i] = p[i] /\ AfterIn(q, i) = AfterIn(p, i) + 1
  <2> DEFINE S == {j \in KeptOf(p) : j > i}
  <2>1. {j \in KeptOf(q) : j > i} = S \cup {n + 1}
    BY <1>1, <1>2, <1>3
  <2>2. S \in SUBSET KeptOf(p) /\ n + 1 \notin S
    BY <1>1, <1>2
  <2>3. AfterIn(q, i) = Cardinality(S \cup {n + 1}) /\ AfterIn(p, i) = Cardinality(S)
    BY <2>1 DEF AfterIn
  <2> HIDE DEF S
  <2>4. Cardinality(S \cup {n + 1}) = Cardinality(S) + 1
    BY <1>2, <2>2, FS_Subset, FS_AddElement
  <2> QED BY <1>1, <1>2, <2>3, <2>4
<1> QED BY <1>3, <1>4, <1>5, <1>6 DEF n, q

(* One that comes sooner takes its place.                                  *)
LEMMA KeptMoves ==
  ASSUME NEW p \in Histories, p # <<>>, NEW s \in [bytes : Counts, at : Nat],
         s.at - p[Len(p)].at < Interval
  PROVE  /\ KeptOf(Append(p, s)) = (KeptOf(p) \ {Len(p)}) \cup {Len(p) + 1}
         /\ Cardinality(KeptOf(Append(p, s))) = Cardinality(KeptOf(p))
         /\ AfterIn(Append(p, s), Len(p) + 1) = 0
         /\ \A i \in KeptOf(p) \ {Len(p)} :
              Append(p, s)[i] = p[i] /\ AfterIn(Append(p, s), i) = AfterIn(p, i)
<1> DEFINE q == Append(p, s)
           n == Len(p)
<1>1. /\ n \in Nat /\ n > 0 /\ DOMAIN p = 1..n /\ DOMAIN q = 1..(n + 1) /\ Len(q) = n + 1
      /\ q[n + 1] = s /\ \A i \in 1..n : q[i] = p[i]
      /\ q \in Histories /\ q # <<>>
  BY DEF Histories
<1>2. KeptOf(p) \in SUBSET (1..n) /\ IsFiniteSet(KeptOf(p)) /\ n \in KeptOf(p)
  BY KeptIs
<1>8. /\ \A i : i \in KeptOf(p) <=> i \in 1..n /\ (i < n => p[i + 1].at - p[i].at >= Interval)
      /\ \A i : i \in KeptOf(q) <=> i \in 1..(n + 1)
                                  /\ (i < n + 1 => q[i + 1].at - q[i].at >= Interval)
  BY <1>1 DEF KeptOf
<1>9. s.at - p[n].at < Interval /\ s.at \in Nat /\ p[n].at \in Nat /\ Interval \in Nat
  <2>1. p[n] \in [bytes : Counts, at : Nat]
    <3>1. n \in 1..Len(p)
      BY <1>1 DEF n
    <3> QED BY <3>1, MemberOf DEF Histories
  <2> QED BY <2>1, RatesAssumption DEF n
<1> HIDE DEF n, q
<1>3. KeptOf(q) = (KeptOf(p) \ {n}) \cup {n + 1}
  <2>1. ASSUME NEW i \in 1..(n + 1)
        PROVE  i \in KeptOf(q) <=> i \in (KeptOf(p) \ {n}) \cup {n + 1}
    <3>1. CASE i = n + 1
      BY <1>1, <3>1, <1>8
    <3>2. CASE i = n
      <4>1. q[n + 1] = s /\ q[n] = p[n] /\ n < n + 1 /\ n # n + 1
        BY <1>1
      <4>2. ~(q[n + 1].at - q[n].at >= Interval)
        BY <1>9, <4>1
      <4> QED BY <1>8, <3>2, <4>1, <4>2
    <3>3. CASE i \in 1..(n - 1)
      <4>1. i \in 1..n /\ i + 1 \in 1..n /\ i < n /\ i < n + 1 /\ i # n /\ i # n + 1
        BY <1>1, <3>3
      <4>2. q[i] = p[i] /\ q[i + 1] = p[i + 1]
        BY <1>1, <4>1
      <4>3. i \in KeptOf(q) <=> i \in KeptOf(p)
        BY <1>8, <4>1, <4>2
      <4> QED BY <4>1, <4>3
    <3> QED BY <1>1, <3>1, <3>2, <3>3
  <2>2. KeptOf(q) \in SUBSET (1..(n + 1)) /\ KeptOf(p) \in SUBSET (1..(n + 1))
    BY <1>1, <1>2, <1>8
  <2> QED BY <1>1, <2>1, <2>2
<1>4. \A S \in SUBSET KeptOf(p) :
        n \in S => Cardinality((S \ {n}) \cup {n + 1}) = Cardinality(S)
  <2> SUFFICES ASSUME NEW S \in SUBSET KeptOf(p), n \in S
               PROVE  Cardinality((S \ {n}) \cup {n + 1}) = Cardinality(S)
    OBVIOUS
  <2>1. IsFiniteSet(S) /\ Cardinality(S) \in Nat
    BY <1>2, FS_Subset, FS_CardinalityType
  <2>2. IsFiniteSet(S \ {n}) /\ Cardinality(S \ {n}) = Cardinality(S) - 1
    BY <2>1, FS_RemoveElement
  <2>3. n + 1 \notin S \ {n}
    <3>1. S \in SUBSET (1..n)
      BY <1>2
    <3>2. n + 1 \notin 1..n
      BY <1>1
    <3> QED BY <3>1, <3>2
  <2> DEFINE T == S \ {n}
  <2>4. Cardinality(T \cup {n + 1}) = Cardinality(T) + 1
    <3> HIDE DEF T
    <3>1. IsFiniteSet(T) /\ n + 1 \notin T
      BY <2>2, <2>3 DEF T
    <3> QED BY <3>1, FS_AddElement
  <2> QED BY <2>1, <2>2, <2>4
<1>5. Cardinality(KeptOf(q)) = Cardinality(KeptOf(p))
  BY <1>2, <1>3, <1>4
<1>6. AfterIn(q, n + 1) = 0
  BY <1>1, KeptIs
<1>7. ASSUME NEW i \in KeptOf(p) \ {n}
      PROVE  q[i] = p[i] /\ AfterIn(q, i) = AfterIn(p, i)
  <2> DEFINE S == {j \in KeptOf(p) : j > i}
  <2>1. {j \in KeptOf(q) : j > i} = (S \ {n}) \cup {n + 1}
    BY <1>1, <1>2, <1>3
  <2>2. S \in SUBSET KeptOf(p) /\ n \in S
    BY <1>1, <1>2
  <2>3. AfterIn(q, i) = Cardinality((S \ {n}) \cup {n + 1}) /\ AfterIn(p, i) = Cardinality(S)
    BY <2>1 DEF AfterIn
  <2> QED BY <1>1, <1>2, <1>4, <2>2, <2>3
<1> QED BY <1>3, <1>5, <1>6, <1>7 DEF n, q

(* Which slot going back finds.                                            *)
SlotBack(r, i) == IF LastIndex(r) >= i THEN LastIndex(r) - i ELSE LastIndex(r) - i + Depth

LEMMA BackFinds ==
  ASSUME NEW r, r.pos \in Slots, NEW i \in Slots
  PROVE  /\ LastIndex(r) \in Slots /\ SlotBack(r, i) \in Slots
         /\ Back(r, i) = r.slot[SlotBack(r, i)]
<1> Depth \in Nat \ {0}
  BY RatesAssumption
<1>1. LastIndex(r) = IF r.pos = 0 THEN Depth - 1 ELSE r.pos - 1
  BY LastIndexIs
<1>2. LastIndex(r) \in Slots
  BY <1>1 DEF Slots
<1> DEFINE last == LastIndex(r)
           x == last - i + Depth
<1>3. Back(r, i) = r.slot[x % Depth] /\ last \in Slots
      /\ SlotBack(r, i) = IF last >= i THEN last - i ELSE last - i + Depth
  BY <1>2 DEF Back, SlotBack
<1> HIDE DEF last
<1>4. x \in 0..(2 * Depth - 1)
  BY <1>3 DEF Slots
<1>5. x % Depth = IF x < Depth THEN x ELSE x - Depth
  BY <1>4, ModIs
<1>6. SlotBack(r, i) \in Slots /\ x % Depth = SlotBack(r, i)
  BY <1>3, <1>5 DEF Slots
<1> QED BY <1>2, <1>3, <1>6

(* A push moves what is further back by one slot or leaves it.             *)
LEMMA PushShifts ==
  ASSUME NEW r \in Rings, NEW bytes \in Counts, NEW at \in Nat, at <= MaxClock,
         NEW u, u = Pushed(r, bytes, at)
  PROVE  /\ TooSoon(r, at) => /\ u.count = r.count
                              /\ \A i \in 1..(Depth - 1) : Back(u, i) = Back(r, i)
         /\ ~TooSoon(r, at) =>
              /\ u.count = IF r.count < Depth THEN r.count + 1 ELSE r.count
              /\ \A i \in 0..(Depth - 2) : Back(u, i + 1) = Back(r, i)
<1> Depth \in Nat \ {0, 1}
  BY RatesAssumption
<1>1. r.pos \in Slots /\ r.count \in 0..Depth /\ DOMAIN r.slot = Slots
  BY DEF Rings
<1> DEFINE last == LastIndex(r)
<1>2. last \in Slots /\ last = IF r.pos = 0 THEN Depth - 1 ELSE r.pos - 1
  BY <1>1, BackFinds, LastIndexIs DEF Slots
<1> HIDE DEF last
<1>3. CASE TooSoon(r, at)
  <2>1. u = [r EXCEPT !.slot = [r.slot EXCEPT ![last] = Sample(bytes, at)]]
    BY <1>3 DEF Pushed, last
  <2>2. u.pos = r.pos /\ u.count = r.count
        /\ \A k \in Slots : k # last => u.slot[k] = r.slot[k]
    BY <1>1, <2>1 DEF Rings
  <2>3. ASSUME NEW i \in 1..(Depth - 1) PROVE Back(u, i) = Back(r, i)
    <3>1. i \in Slots
      BY DEF Slots
    <3>2. LastIndex(u) = last
      BY <2>2 DEF LastIndex, last
    <3>3. SlotBack(u, i) = SlotBack(r, i) /\ SlotBack(r, i) # last
      BY <1>2, <3>2 DEF SlotBack, last, Slots
    <3>4. /\ Back(r, i) = r.slot[SlotBack(r, i)] /\ SlotBack(r, i) \in Slots
          /\ Back(u, i) = u.slot[SlotBack(u, i)]
      BY <1>1, <2>2, <3>1, BackFinds
    <3> QED BY <2>2, <3>3, <3>4
  <2> QED BY <1>3, <2>2, <2>3
<1>4. CASE ~TooSoon(r, at)
  <2> DEFINE pos == (r.pos + 1) % Depth
             slot == [r.slot EXCEPT ![r.pos] = Sample(bytes, at)]
             count == IF r.count < Depth THEN r.count + 1 ELSE r.count
  <2>1. u = [slot |-> slot, pos |-> pos, count |-> count]
    BY <1>4 DEF Pushed
  <2>2. pos = IF r.pos + 1 < Depth THEN r.pos + 1 ELSE 0
    <3> DEFINE y == r.pos + 1
    <3>1. y \in 0..(2 * Depth - 1)
      BY <1>1 DEF Slots
    <3>2. pos = y % Depth
      OBVIOUS
    <3> HIDE DEF pos, y
    <3>3. y % Depth = IF y < Depth THEN y ELSE y - Depth
      BY <3>1, ModIs
    <3>4. r.pos \in 0..(Depth - 1) /\ y = r.pos + 1
      BY <1>1 DEF Slots, y
    <3> QED BY <3>2, <3>3, <3>4
  <2>3. \A k \in Slots : k # r.pos => slot[k] = r.slot[k]
    BY <1>1
  <2>4. u.slot = slot /\ u.pos = pos /\ u.count = count
    BY <2>1
  <2> HIDE DEF pos, slot
  <2>5. pos \in Slots
    BY <1>1, <2>2 DEF Slots
  <2>6. LastIndex(u) = r.pos
    BY <1>1, <2>2, <2>4, <2>5, LastIndexIs DEF Slots
  <2>7. ASSUME NEW i \in 0..(Depth - 2) PROVE Back(u, i + 1) = Back(r, i)
    <3>1. i \in Slots /\ i + 1 \in Slots
      BY DEF Slots
    <3>2. SlotBack(u, i + 1) = SlotBack(r, i) /\ SlotBack(r, i) # r.pos
      <4>1. /\ SlotBack(u, i + 1) = IF r.pos >= i + 1 THEN r.pos - (i + 1)
                                                     ELSE r.pos - (i + 1) + Depth
            /\ SlotBack(r, i) = IF last >= i THEN last - i ELSE last - i + Depth
        BY <2>6 DEF SlotBack, last
      <4> QED BY <1>1, <1>2, <4>1 DEF Slots
    <3>3. /\ Back(r, i) = r.slot[SlotBack(r, i)] /\ SlotBack(r, i) \in Slots
          /\ Back(u, i + 1) = u.slot[SlotBack(u, i + 1)]
      BY <1>1, <2>4, <2>5, <3>1, BackFinds
    <3> QED BY <2>3, <2>4, <3>2, <3>3
  <2> QED BY <1>4, <2>4, <2>7
<1> QED BY <1>3, <1>4

LEMMA PushRemembers ==
  ASSUME HistoryOK, NEW r, RingOK(r), NEW p \in Histories, Remembers(r, p),
         NEW bytes \in Counts, NEW at \in 0..clock,
         NEW u, u = Pushed(r, bytes, at), NEW q, q = Append(p, Sample(bytes, at))
  PROVE  Remembers(u, q)
<1> Depth \in Nat \ {0, 1} /\ Interval \in Nat \ {0}
  BY RatesAssumption
<1> DEFINE n == Len(p)
           s == Sample(bytes, at)
<1>1. s \in [bytes : Counts, at : Nat] /\ s.at = at /\ q = Append(p, s)
  BY DEF Sample, HistoryOK
<1>2. /\ n \in Nat /\ Len(q) = n + 1 /\ q[n + 1] = s /\ q \in Histories
      /\ p # <<>> <=> n > 0
  BY <1>1 DEF Histories
<1>3. /\ r \in Rings /\ r.pos \in Slots /\ r.count \in 0..Depth
      /\ at \in Nat /\ at <= MaxClock
  BY RatesAssumption DEF RingOK, Rings, HistoryOK
<1>4. u.count > 0 /\ u.count \in 0..Depth /\ Back(u, 0) = s
  BY PushedIs DEF RingOK, Rings
<1>5. /\ KeptOf(p) \in SUBSET (1..n) /\ Cardinality(KeptOf(p)) \in Nat
      /\ n > 0 => n \in KeptOf(p) /\ Cardinality(KeptOf(p)) > 0 /\ AfterIn(p, n) = 0
      /\ n = 0 => Cardinality(KeptOf(p)) = 0
      /\ \A i \in KeptOf(p) : AfterIn(p, i) \in Nat /\ (i < n => AfterIn(p, i) > 0)
  <2>1. n = 0 => KeptOf(p) = {}
    BY <1>2, KeptIs
  <2> QED BY <1>2, <2>1, KeptIs, FS_EmptySet
<1>6. /\ r.count = (IF Cardinality(KeptOf(p)) < Depth THEN Cardinality(KeptOf(p)) ELSE Depth)
      /\ \A i \in KeptOf(p) : AfterIn(p, i) < r.count => Back(r, AfterIn(p, i)) = p[i]
      /\ \A k \in 0..(r.count - 1) : \E i \in KeptOf(p) : AfterIn(p, i) = k
  BY DEF Remembers
<1>7. /\ n > 0 <=> r.count > 0
      /\ n > 0 => p[n].at \in Nat /\ (TooSoon(r, at) <=> s.at - p[n].at < Interval)
  <2>1. n > 0 <=> r.count > 0
    BY <1>2, <1>5, <1>6
  <2> SUFFICES ASSUME n > 0
               PROVE  p[n].at \in Nat /\ (TooSoon(r, at) <=> s.at - p[n].at < Interval)
    BY <2>1
  <2>2. Back(r, 0) = p[n]
    BY <1>5, <1>6, <2>1
  <2>3. Back(r, 0) = r.slot[LastIndex(r)]
    <3>1. 0 \in Slots /\ LastIndex(r) \in Slots
      BY <1>3, BackFinds DEF Slots
    <3>2. SlotBack(r, 0) = LastIndex(r)
      BY <3>1 DEF SlotBack, Slots
    <3> QED BY <1>3, <3>1, <3>2, BackFinds
  <2>4. p[n] \in [bytes : Counts, at : Nat]
    <3> n \in 1..Len(p)
      BY <1>2
    <3> QED BY MemberOf DEF Histories
  <2> QED BY <1>1, <2>1, <2>2, <2>3, <2>4 DEF TooSoon
<1>8. CASE TooSoon(r, at)
  <2>1. n > 0 /\ s.at - p[n].at < Interval /\ p # <<>>
    BY <1>2, <1>3, <1>7, <1>8 DEF TooSoon
  <2>2. /\ u.count = r.count /\ \A k \in 1..(Depth - 1) : Back(u, k) = Back(r, k)
    BY <1>3, <1>8, PushShifts
  <2>3. /\ KeptOf(q) = (KeptOf(p) \ {n}) \cup {n + 1}
        /\ Cardinality(KeptOf(q)) = Cardinality(KeptOf(p)) /\ AfterIn(q, n + 1) = 0
        /\ \A i \in KeptOf(p) \ {n} : q[i] = p[i] /\ AfterIn(q, i) = AfterIn(p, i)
    <3> HIDE DEF s
    <3>1. p # <<>> /\ s.at - p[Len(p)].at < Interval
      BY <2>1
    <3>2. s \in [bytes : Counts, at : Nat] /\ q = Append(p, s)
      BY <1>1
    <3> DEFINE t == Append(p, s)
    <3>3. /\ KeptOf(t) = (KeptOf(p) \ {Len(p)}) \cup {Len(p) + 1}
          /\ Cardinality(KeptOf(t)) = Cardinality(KeptOf(p)) /\ AfterIn(t, Len(p) + 1) = 0
          /\ \A i \in KeptOf(p) \ {Len(p)} : t[i] = p[i] /\ AfterIn(t, i) = AfterIn(p, i)
      BY <3>1, <3>2, KeptMoves, Zenon
    <3> QED BY <3>2, <3>3
  <2> HIDE DEF n, s
  <2>4. u.count = (IF Cardinality(KeptOf(q)) < Depth THEN Cardinality(KeptOf(q)) ELSE Depth)
    BY <1>6, <2>2, <2>3
  <2>5. ASSUME NEW i \in KeptOf(q), AfterIn(q, i) < u.count
        PROVE  Back(u, AfterIn(q, i)) = q[i]
    <3>1. CASE i = n + 1
      BY <1>2, <1>4, <2>3, <3>1
    <3>2. CASE i \in KeptOf(p) \ {n}
      <4>1. i \in KeptOf(p) /\ i < n
        BY <1>2, <1>5, <3>2
      <4>2. AfterIn(p, i) \in 1..(Depth - 1) /\ AfterIn(p, i) < r.count
        BY <1>4, <1>5, <2>2, <2>3, <2>5, <3>2, <4>1
      <4> QED BY <1>6, <2>2, <2>3, <3>2, <4>1, <4>2
    <3> QED BY <2>3, <3>1, <3>2
  <2>6. ASSUME NEW k \in 0..(u.count - 1)
        PROVE  \E i \in KeptOf(q) : AfterIn(q, i) = k
    <3>1. CASE k = 0
      BY <2>3, <3>1
    <3>2. CASE k # 0
      <4>1. PICK i \in KeptOf(p) : AfterIn(p, i) = k
        BY <1>6, <2>2
      <4>2. i # n
        BY <1>5, <2>1, <3>2, <4>1
      <4> QED BY <2>3, <4>1, <4>2
    <3> QED BY <3>1, <3>2
  <2> QED BY <2>4, <2>5, <2>6 DEF Remembers
<1>9. CASE ~TooSoon(r, at)
  <2>1. p # <<>> => s.at - p[n].at >= Interval
    BY <1>1, <1>2, <1>7, <1>9
  <2>2. /\ u.count = IF r.count < Depth THEN r.count + 1 ELSE r.count
        /\ \A k \in 0..(Depth - 2) : Back(u, k + 1) = Back(r, k)
    BY <1>3, <1>9, PushShifts
  <2>3. /\ KeptOf(q) = KeptOf(p) \cup {n + 1}
        /\ Cardinality(KeptOf(q)) = Cardinality(KeptOf(p)) + 1 /\ AfterIn(q, n + 1) = 0
        /\ \A i \in KeptOf(p) : q[i] = p[i] /\ AfterIn(q, i) = AfterIn(p, i) + 1
    <3> HIDE DEF s
    <3>1. p # <<>> => s.at - p[Len(p)].at >= Interval
      BY <2>1
    <3>2. s \in [bytes : Counts, at : Nat] /\ q = Append(p, s)
      BY <1>1
    <3> DEFINE t == Append(p, s)
    <3>3. /\ KeptOf(t) = KeptOf(p) \cup {Len(p) + 1}
          /\ Cardinality(KeptOf(t)) = Cardinality(KeptOf(p)) + 1 /\ AfterIn(t, Len(p) + 1) = 0
          /\ \A i \in KeptOf(p) : t[i] = p[i] /\ AfterIn(t, i) = AfterIn(p, i) + 1
      BY <3>1, <3>2, KeptGrows, Zenon
    <3> QED BY <3>2, <3>3
  <2> HIDE DEF n, s
  <2>4. u.count = (IF Cardinality(KeptOf(q)) < Depth THEN Cardinality(KeptOf(q)) ELSE Depth)
    BY <1>3, <1>5, <1>6, <2>2, <2>3
  <2>5. ASSUME NEW i \in KeptOf(q), AfterIn(q, i) < u.count
        PROVE  Back(u, AfterIn(q, i)) = q[i]
    <3>1. CASE i = n + 1
      BY <1>2, <1>4, <2>3, <3>1
    <3>2. CASE i \in KeptOf(p)
      <4>1. AfterIn(q, i) = AfterIn(p, i) + 1 /\ AfterIn(p, i) \in Nat /\ q[i] = p[i]
        BY <1>5, <2>3, <3>2
      <4>2. AfterIn(p, i) \in 0..(Depth - 2) /\ AfterIn(p, i) < r.count
        BY <1>3, <1>4, <2>2, <2>5, <4>1
      <4> QED BY <1>6, <2>2, <3>2, <4>1, <4>2
    <3> QED BY <2>3, <3>1, <3>2
  <2>6. ASSUME NEW k \in 0..(u.count - 1)
        PROVE  \E i \in KeptOf(q) : AfterIn(q, i) = k
    <3>1. CASE k = 0
      BY <2>3, <3>1
    <3>2. CASE k # 0
      <4>1. k - 1 \in 0..(r.count - 1) /\ k \in Nat
        BY <1>3, <1>4, <2>2, <3>2
      <4>2. PICK i \in KeptOf(p) : AfterIn(p, i) = k - 1
        BY <1>6, <4>1
      <4> QED BY <2>3, <4>1, <4>2
    <3> QED BY <3>1, <3>2
  <2> QED BY <2>4, <2>5, <2>6 DEF Remembers
<1> QED BY <1>8, <1>9

(* A ring without samples, as a link begins and as it is dropped.          *)
LEMMA NewRingRemembers ==
  /\ NewRing \in Rings /\ NewRing.pos = 0 /\ NewRing.count = 0
  /\ Remembers(NewRing, <<>>) /\ Average(NewRing) = Zero
<1> USE RatesAssumption
<1>1. NewRing.slot \in [Slots -> [bytes : Counts, at : Never..MaxClock]]
  BY DEF NewRing, Sample, Counts, Never
<1>2. NewRing.pos = 0 /\ NewRing.count = 0 /\ NewRing \in Rings
  BY <1>1 DEF NewRing, Rings, Slots
<1>3. KeptOf(<<>>) = {}
  BY DEF KeptOf
<1>4. Cardinality(KeptOf(<<>>)) = 0
  BY <1>3, FS_EmptySet
<1>5. Remembers(NewRing, <<>>)
  BY <1>2, <1>3, <1>4 DEF Remembers
<1>6. Average(NewRing) = Zero
  BY <1>2 DEF Average
<1> QED BY <1>2, <1>5, <1>6

LEMMA RingStep == IInv /\ RingInv /\ [Next]_vars => RingInv'
<1> SUFFICES ASSUME IInv, RingInv, [Next]_vars PROVE RingInv'
  OBVIOUS
<1>1. /\ HistoryOK /\ RingOK(ring) /\ pushes \in Histories
      /\ clock \in Nat /\ meter \in Counts /\ row \in {"none", "live", "removed"}
  <2>1. HistoryOK /\ RingOK(ring) /\ pushes \in Histories /\ row \in {"none", "live", "removed"}
    BY DEF IInv, LinkOK, Histories
  <2> QED BY <2>1, RatesAssumption DEF HistoryOK
<1>2. ASSUME UNCHANGED linkVars PROVE RingInv'
  <2>1. row' = row /\ ring' = ring /\ rate' = rate /\ pushes' = pushes
    BY <1>2 DEF linkVars
  <2> QED BY <2>1 DEF RingInv
<1>3. ASSUME row' \in {"none", "live"}, ring' = NewRing, rate' = Zero, pushes' = <<>> PROVE RingInv'
  BY <1>3, NewRingRemembers DEF RingInv
<1>4. CASE ReadLink
  <2>1. PICK at \in Stamps : ReloadLink(at)
    BY <1>4 DEF ReadLink
  <2>2. at \in 0..clock
    BY <1>1, <2>1, RatesAssumption DEF Stamps
  <2>3. CASE /\ there /\ row' = "live" /\ rate' = Average(ring')
             /\ ring' = Pushed(IF row = "none" THEN NewRing ELSE ring, meter, at)
             /\ pushes' = Append(IF row = "none" THEN <<>> ELSE pushes, Sample(meter, at))
    <3> DEFINE r == IF row = "none" THEN NewRing ELSE ring
               old == IF row = "none" THEN <<>> ELSE pushes
    <3>1. /\ row' = "live" /\ ring' = Pushed(r, meter, at)
          /\ rate' = Average(ring') /\ pushes' = Append(old, Sample(meter, at))
      BY <2>3
    <3>2. r = ring /\ old = pushes
      BY DEF RingInv
    <3>3. Remembers(ring, pushes)
      BY DEF RingInv
    <3>4. Remembers(ring', pushes')
      BY <1>1, <2>2, <3>1, <3>2, <3>3, PushRemembers
    <3> QED BY <3>1, <3>4 DEF RingInv
  <2>4. CASE ~there
    <3>1. row' = (IF row = "live" THEN "removed" ELSE row) /\ UNCHANGED <<ring, rate, pushes>>
      BY <2>1, <2>4 DEF ReloadLink
    <3> QED BY <1>1, <3>1 DEF RingInv
  <2>5. CASE there /\ row' = "live" /\ ring' = NewRing /\ rate' = Zero /\ pushes' = <<>>
    BY <1>3, <2>5
  <2> QED BY <2>1, <2>3, <2>4, <2>5 DEF ReloadLink
<1>5. ASSUME NEW n \in {0, 1}, Tick(n) PROVE RingInv'
  BY <1>2, <1>5 DEF Tick
<1>6. CASE Vanish
  BY <1>2, <1>6 DEF Vanish
<1>7. ASSUME NEW count \in Strangers \cup {0}, Appear(count) PROVE RingInv'
  BY <1>2, <1>7 DEF Appear
<1>8. CASE (\E found \in BOOLEAN : ScanProcess(found)) \/ SyncFails \/ ReadProcess
  BY <1>2, <1>8 DEF ScanProcess, SyncFails, ReadProcess
<1>9. CASE Expire
  BY <1>3, <1>9 DEF Expire
<1>10. CASE Prune
  BY <1>3, <1>10 DEF Prune
<1>11. CASE UNCHANGED vars
  BY <1>2, <1>11 DEF vars, linkVars
<1> QED BY <1>4, <1>5, <1>6, <1>7, <1>8, <1>9, <1>10, <1>11 DEF Next

LEMMA RingInvariance == Spec => [](IInv /\ RingInv)
<1>1. Init => RingInv
  BY NewRingRemembers DEF Init, RingInv
<1>2. Spec => []IInv
  BY Invariance
<1> QED BY <1>1, <1>2, RingStep, PTL DEF Spec

(* Stamps that do not go back between neighbours never do.                 *)
LEMMA Ordered ==
  ASSUME NEW p \in Histories, \A j \in 1..Len(p) - 1 : p[j].at <= p[j + 1].at,
         NEW a \in 1..Len(p), NEW b \in 1..Len(p), a <= b
  PROVE  p[a].at <= p[b].at
<1> DEFINE n == Len(p)
           Before == {k \in 1..n : k >= a /\ ~(p[a].at <= p[k].at)}
<1>1. n \in Nat /\ \A j \in 1..n : p[j] \in [bytes : Counts, at : Nat]
  <2>1. n \in Nat
    BY DEF Histories
  <2>2. \A j \in 1..Len(p) : p[j] \in [bytes : Counts, at : Nat]
    BY MemberOf DEF Histories
  <2> QED BY <2>1, <2>2
<1>2. \A j \in 1..(n - 1) : p[j].at <= p[j + 1].at
  OBVIOUS
<1>3. a \in 1..n /\ b \in 1..n
  OBVIOUS
<1> HIDE DEF n
<1> SUFFICES ASSUME Before # {} PROVE FALSE
  BY <1>3
<1>4. Before \in SUBSET Nat
  BY <1>1
<1>5. PICK k \in Before : \A j \in Before : k <= j
  <2> HIDE DEF Before
  <2> QED BY <1>4, LeastOf
<1>6. k \in 1..n /\ k >= a /\ ~(p[a].at <= p[k].at)
  OBVIOUS
<1>7. k # a
  BY <1>1, <1>3, <1>6
<1>8. k - 1 \in 1..n /\ k - 1 >= a /\ k - 1 \notin Before /\ k - 1 \in 1..(n - 1)
  BY <1>1, <1>3, <1>5, <1>6, <1>7
<1>9. p[a].at <= p[k - 1].at /\ p[k - 1].at <= p[(k - 1) + 1].at /\ (k - 1) + 1 = k
  BY <1>2, <1>6, <1>8
<1> QED BY <1>1, <1>3, <1>6, <1>8, <1>9

-----------------------------------------------------------------------------
(* Ring, samples and rates keep their types: the arithmetic modulo the     *)
(* ring's size never leaves it (LinkHistory.go), for any size.             *)
THEOREM RateTypes == Spec => []TypeOK
<1>1. IInv => TypeOK
  <2> SUFFICES ASSUME IInv PROVE TypeOK
    OBVIOUS
  <2>1. /\ kind \in {"link", "process"} /\ clock \in 0..MaxClock
        /\ Len(sent) = clock + 1 /\ sent[clock + 1] \in 0..clock
        /\ meter \in 0..(Modulus - 1) /\ there \in BOOLEAN
        /\ lives \in 1..MaxLives /\ idle \in BOOLEAN /\ stranger \in Never..clock
    BY RatesAssumption DEF IInv, HistoryOK, Counts
  <2>2. /\ row \in {"none", "live", "removed"}
        /\ ring.pos \in Slots /\ ring.count \in 0..Depth
        /\ \A i \in Slots : ring.slot[i].at \in Never..MaxClock
        /\ rate.amount \in 0..(Modulus - 1) /\ rate.over \in 1..(Window + MaxLag + 1)
    BY DEF IInv, LinkOK, RingOK, Rings, Counts
  <2>3. /\ prev \in 0..(Modulus - 1)
        /\ load.amount \in 0..(Modulus - 1) /\ load.over \in 1..(MaxClock + 1)
        /\ fetches.last \in Never..clock /\ fetches.before \in Never..clock
        /\ total \in 0..(clock + 1)
        /\ scan \in [at : Never..clock, ticks : 0..(Modulus - 1), found : BOOLEAN]
    BY DEF IInv, ProcessOK, TotalOK, ScanOK, Counts
  <2>4. total \in 0..(MaxClock + 1)
    BY <2>1, <2>3, RatesAssumption
  <2> QED BY <2>1, <2>2, <2>3, <2>4 DEF TypeOK
<1> QED BY <1>1, Invariance, PTL

(* A rate is one of traffic that there was within the window, though       *)
(* counters start again, samples are overwritten, stamps come late and     *)
(* fading rows lend their ring to whoever has the index next.              *)
THEOREM RatesAreOfRealTraffic == Spec => []NoTrafficIsMadeUp
<1>1. IInv => NoTrafficIsMadeUp
  BY DEF IInv
<1> QED BY <1>1, Invariance, PTL

(* A process never shows more load than it had since the scan before, out  *)
(* of a time that is right up to the delay between the readings of the     *)
(* process (scanProcfs) and of /proc/stat (collectProcessRaw), whoever had *)
(* its pid then and whichever readings or syncs failed.                    *)
THEOREM LoadsAreOfRealTime == Spec => []LoadIsPossible
<1>1. IInv => LoadIsPossible
  BY DEF IInv
<1> QED BY <1>1, Invariance, PTL

(* The ring is the history: going back from its newest slot finds the      *)
(* samples that LinkSampleRing.Push is meant to keep, the newest ones, in  *)
(* order and without a gap, for any depth, interval and order of stamps.   *)
THEOREM RingKeepsHistory == Spec => []RingIsHistory
<1>1. IInv /\ RingInv => RingIsHistory
  <2>1. KeptOf(pushes) = Kept /\ \A i : AfterIn(pushes, i) = KeptAfter(i)
    BY DEF KeptOf, Kept, AfterIn, KeptAfter
  <2> QED BY <2>1 DEF RingInv, Remembers, RingIsHistory
<1> QED BY <1>1, RingInvariance, PTL

(* A link with a kept sample before the newest, within the window, shows a *)
(* rate, over at least the minimum interval: AverageBps finds a kept       *)
(* sample to compare with, however often Push replaced the newest one and  *)
(* whatever the ring has dropped.                                          *)
THEOREM SpacedSamplesShow == Spec => []SpacedSamplesGiveARate
<1>1. IInv /\ RingInv => SpacedSamplesGiveARate
  <2> SUFFICES ASSUME IInv, RingInv, NEW i \in Kept, row = "live", i < Len(pushes),
                      \A j \in 1..Len(pushes) - 1 : pushes[j].at <= pushes[j + 1].at,
                      pushes[Len(pushes)].at - pushes[i].at <= Window
               PROVE  rate.over >= Interval
    BY DEF SpacedSamplesGiveARate
  <2> Depth \in Nat \ {0, 1} /\ Interval \in Nat \ {0} /\ Window \in Nat
    BY RatesAssumption
  <2> DEFINE n == Len(pushes)
             K == KeptOf(pushes)
  <2>1. pushes \in Histories /\ RingOK(ring) /\ ring.count \in 0..Depth
    BY DEF IInv, LinkOK, Histories, RingOK, Rings
  <2>2. /\ K = Kept /\ K \in SUBSET (1..n) /\ IsFiniteSet(K)
        /\ n \in Nat /\ n > 0 /\ n \in K /\ AfterIn(pushes, n) = 0
        /\ \A j \in K : AfterIn(pushes, j) \in Nat /\ (j < n => AfterIn(pushes, j) > 0)
    <3>1. K = Kept
      BY DEF KeptOf, Kept
    <3>2. pushes # <<>>
      BY <2>1 DEF Histories, Kept
    <3>3. Len(pushes) \in Nat
      BY <2>1 DEF Histories
    <3>4. K \in SUBSET (1..n) /\ IsFiniteSet(K) /\ n \in K /\ AfterIn(pushes, n) = 0
          /\ \A j \in K : AfterIn(pushes, j) \in Nat /\ (j < n => AfterIn(pushes, j) > 0)
      BY <2>1, <3>2, KeptIs
    <3> QED BY <3>1, <3>3, <3>4
  <2>3. /\ \A j \in 1..n : pushes[j] \in [bytes : Counts, at : Nat]
        /\ \A a, b \in 1..n : a <= b => pushes[a].at <= pushes[b].at
    BY <2>1, Ordered, MemberOf DEF Histories
  <2>4. ASSUME NEW j \in K, j < n
        PROVE  pushes[n].at - pushes[j].at >= Interval
    <3>1. j \in 1..n /\ j + 1 \in 1..n
      BY <2>2, <2>4
    <3>2. pushes[j + 1].at - pushes[j].at >= Interval
      BY <2>4 DEF KeptOf
    <3>3. pushes[j + 1].at <= pushes[n].at
      BY <2>2, <2>3, <3>1
    <3>4. pushes[j] \in [bytes : Counts, at : Nat] /\ pushes[n] \in [bytes : Counts, at : Nat]
          /\ pushes[j + 1] \in [bytes : Counts, at : Nat]
      BY <2>2, <2>3, <3>1
    <3> HIDE DEF n
    <3> QED BY <3>2, <3>3, <3>4
  <2>5. /\ ring.count = (IF Cardinality(K) < Depth THEN Cardinality(K) ELSE Depth)
        /\ \A j \in K : AfterIn(pushes, j) < ring.count =>
             Back(ring, AfterIn(pushes, j)) = pushes[j]
        /\ \A k \in 0..(ring.count - 1) : \E j \in K : AfterIn(pushes, j) = k
        /\ rate = Average(ring)
    BY DEF RingInv, Remembers
  <2> i \in K /\ i < n
    BY <2>2
  <2>6. pushes[n].at - pushes[i].at <= Window
    OBVIOUS
  <2> HIDE DEF n, K
  <2>7. ring.count >= 2
    <3>1. {i, n} \in SUBSET K /\ i # n
      BY <2>2
    <3>2. Cardinality({i, n}) = 2
      <4>1. IsFiniteSet({i}) /\ Cardinality({i}) = 1
        BY FS_Singleton
      <4>2. Cardinality({i} \cup {n}) = 2
        <5> DEFINE T == {i}
        <5>1. n \notin T /\ IsFiniteSet(T) /\ Cardinality(T) = 1
          BY <3>1, <4>1
        <5> HIDE DEF T
        <5>2. Cardinality(T \cup {n}) = Cardinality(T) + 1
          BY <5>1, FS_AddElement
        <5>3. Cardinality(T \cup {n}) = 2
          BY <5>1, <5>2
        <5> QED BY <5>3 DEF T
      <4>3. {i, n} = {i} \cup {n}
        OBVIOUS
      <4> QED BY <4>2, <4>3
    <3>3. Cardinality(K) >= 2
      BY <2>2, <3>1, <3>2, FS_Subset
    <3>4. Cardinality(K) \in Nat
      BY <2>2, FS_CardinalityType
    <3> QED BY <2>5, <3>3, <3>4
  <2>8. Back(ring, 0) = pushes[n]
    BY <2>1, <2>2, <2>5, <2>7
  <2>9. \E k \in 1..(ring.count - 1) : InReach(ring, k)
    <3>1. PICK j \in K : AfterIn(pushes, j) = 1
      BY <2>1, <2>5, <2>7
    <3>2. j < n /\ j >= i
      <4>1. j \in 1..n /\ j # n /\ i \in 1..n
        BY <2>2, <3>1
      <4>2. ~(j < i)
        <5> SUFFICES ASSUME j < i PROVE FALSE
          OBVIOUS
        <5>1. AfterIn(pushes, i) < AfterIn(pushes, j)
          BY <2>1, AfterDecreases DEF K
        <5> QED BY <2>2, <3>1, <5>1
      <4> QED BY <2>2, <4>1, <4>2
    <3>3. Back(ring, 1) = pushes[j]
      BY <2>1, <2>5, <2>7, <3>1
    <3>4. /\ pushes[n].at - pushes[j].at >= Interval
          /\ pushes[i].at <= pushes[j].at
          /\ pushes[i] \in [bytes : Counts, at : Nat] /\ pushes[j] \in [bytes : Counts, at : Nat]
          /\ pushes[n] \in [bytes : Counts, at : Nat]
      BY <2>2, <2>3, <2>4, <3>2
    <3>5. pushes[j].at < pushes[n].at /\ pushes[n].at - pushes[j].at <= Window
      BY <2>6, <3>4
    <3>6. InReach(ring, 1)
      BY <2>8, <3>3, <3>5 DEF InReach
    <3> QED BY <2>1, <2>7, <3>6
  <2>10. Oldest(ring) \in 1..(ring.count - 1) /\ InReach(ring, Oldest(ring))
    BY <2>1, <2>9, OldestIs
  <2>11. rate.over = pushes[n].at - Back(ring, Oldest(ring)).at
    BY <2>5, <2>8, <2>9 DEF Average
  <2>12. PICK j \in K : AfterIn(pushes, j) = Oldest(ring)
    BY <2>1, <2>5, <2>10
  <2>13. Back(ring, Oldest(ring)) = pushes[j] /\ j # n /\ j \in 1..n
    <3> DEFINE o == Oldest(ring)
    <3>1. o \in 1..(ring.count - 1) /\ AfterIn(pushes, j) = o
      BY <2>10, <2>12
    <3> HIDE DEF o
    <3>2. o < ring.count /\ o # 0
      BY <2>1, <3>1
    <3>3. Back(ring, o) = pushes[j]
      BY <2>5, <3>1, <3>2
    <3>4. j # n
      BY <2>2, <3>1, <3>2
    <3>5. j \in 1..n
      BY <2>2
    <3> QED BY <3>3, <3>4, <3>5 DEF o
  <2> QED BY <2>2, <2>4, <2>11, <2>13
<1> QED BY <1>1, RingInvariance, PTL
=============================================================================
