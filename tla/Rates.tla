--------------------------------- MODULE Rates ---------------------------------
(***************************************************************************)
(* Rates worked out from counters of the kernel: the traffic of a link     *)
(* (types/LinkHistory.go, fed by parseInterfaceRaw of                      *)
(* store/netlink_snapshot.go) and the load of a process                    *)
(* (store/process_history.go, fed by store/runtime_snapshot.go).           *)
(*                                                                         *)
(* A link keeps a ring of its last samples.  One taken too soon after the  *)
(* newest replaces it, and the rate is the mean since the oldest sample    *)
(* of the window.  A process keeps one sample, and its load is its share   *)
(* of the CPU time that passed between two scans.  That time is read later *)
(* than the process, with a sync of the namespaces between them.  Both are *)
(* found again by number, the link's index and the process's pid, whoever  *)
(* has it now.                                                             *)
(*                                                                         *)
(* The model follows one number and its meter: the bytes of a link or the  *)
(* CPU ticks of a process.  It grows by at most one a clock unit, which is *)
(* all the time there is.                                                  *)
(***************************************************************************)
EXTENDS Integers, Sequences, FiniteSets

CONSTANTS
  Depth,     \* constants.LinkRateHistoryDepth
  Interval,  \* constants.MinimumLinkSampleInterval, in clock units
  Window,    \* constants.LinkRateMaxSampleWindow, in clock units
  Modulus,   \* counters are taken modulo this; 2^64 in the kernel's statistics
  MaxLag,    \* an event is handled at most this long after its stamp
  MaxSkew,   \* bound: /proc/stat is read at most this long after a process
  MaxClock,  \* bound on the clock
  MaxLives,  \* bound on how often the number is used
  Strangers  \* bound: the counts that links and processes from elsewhere bring

ASSUME RatesAssumption ==
  /\ Depth \in Nat \ {0, 1} /\ Interval \in Nat \ {0} /\ Window \in Nat
  /\ Modulus \in Nat \ {0} /\ MaxLag \in Nat /\ MaxSkew \in Nat
  /\ MaxClock \in Nat /\ MaxLives \in Nat \ {0}
  /\ Strangers \subseteq 0..(Modulus - 1)

VARIABLES
  kind,      \* what is followed, "link" or "process"; fixed
  clock,
  sent,      \* history: what was counted in all, at each clock unit so far
  meter,     \* what the kernel answers: Rx/TxBytes, or utime + stime
  there,     \* the link, the process exists
  lives,     \* how often the number has been used
  idle,      \* bound: nothing was read at this clock yet
  row,       \* the link's row: "none", "live" or "removed" (fading)
  ring,      \* InterfaceInfo.History
  rate,      \* RxBps or TxBps
  scan,      \* a scan under way: when it came to the process, and its ticks
  prev,      \* processPrev under the process's key; a missing one is zero
  total,     \* prevTotalCPU
  load,      \* LoadPct
  pushes,    \* history: every sample given to the ring
  fetches,   \* history: when the last two scans came to the process
  sampled,   \* history: whether they read the process
  stranger   \* history: when a count from elsewhere took over last

vars == <<kind, clock, sent, meter, there, lives, idle, row, ring, rate, scan, prev, total, load,
          pushes, fetches, sampled, stranger>>
linkVars == <<row, ring, rate, pushes>>
processVars == <<scan, prev, total, load, fetches, sampled>>
kernelVars == <<kind, clock, sent, meter, there, lives, stranger>>

-----------------------------------------------------------------------------
Slots == 0..(Depth - 1)
Never == -1

NoScan == [at |-> Never, ticks |-> 0, found |-> FALSE]

(* NewLinkSampleRing; a sample and its epoch share a slot.                 *)
Sample(bytes, at) == [bytes |-> bytes, at |-> at]
NewRing == [slot |-> [i \in Slots |-> Sample(0, Never)], pos |-> 0, count |-> 0]

(* Mutated form: the slot about to be written is taken for the newest.     *)
LastIndexNext(r) == r.pos
LastIndex(r) == (r.pos - 1 + Depth) % Depth

TooSoon(r, at) == r.count > 0 /\ at - r.slot[LastIndex(r)].at < Interval

(* Mutated form: samples are counted beyond the size of the ring.          *)
PushedUncapped(r, bytes, at) ==
  IF TooSoon(r, at)
    THEN [r EXCEPT !.slot[LastIndex(r)] = Sample(bytes, at)]
    ELSE [slot |-> [r.slot EXCEPT ![r.pos] = Sample(bytes, at)],
          pos |-> (r.pos + 1) % Depth, count |-> r.count + 1]

(* LinkSampleRing.Push.                                                    *)
Pushed(r, bytes, at) ==
  IF TooSoon(r, at)
    THEN [r EXCEPT !.slot[LastIndex(r)] = Sample(bytes, at)]
    ELSE [slot |-> [r.slot EXCEPT ![r.pos] = Sample(bytes, at)],
          pos |-> (r.pos + 1) % Depth,
          count |-> IF r.count < Depth THEN r.count + 1 ELSE r.count]

(* A rate: this much in that time, or zero.                                *)
Zero == [amount |-> 0, over |-> 1]

(* Mutated form: the difference of two counters is taken as it comes.      *)
GrowthWraps(new, old) == (new - old) % Modulus
Growth(new, old) == IF new < old THEN 0 ELSE new - old

(* LinkSampleRing.AverageBps: going back from the newest sample, those not *)
(* older than it are skipped and the first one outside the window ends the *)
(* search; the last one passed is what the newest is compared with.        *)
Back(r, i) == r.slot[(LastIndex(r) - i + Depth) % Depth]

(* Mutated form: a sample just inside the window is left out.              *)
InReachStrictly(r, i) ==
  /\ Back(r, i).at < Back(r, 0).at
  /\ \A j \in 1..i :
       Back(r, j).at < Back(r, 0).at => Back(r, 0).at - Back(r, j).at < Window
InReach(r, i) ==
  /\ Back(r, i).at < Back(r, 0).at
  /\ \A j \in 1..i :
       Back(r, j).at < Back(r, 0).at => Back(r, 0).at - Back(r, j).at <= Window
Oldest(r) ==
  CHOOSE i \in 1..(r.count - 1) :
    InReach(r, i) /\ \A j \in (i + 1)..(r.count - 1) : ~InReach(r, j)
Average(r) ==
  IF \E i \in 1..(r.count - 1) : InReach(r, i)
    THEN [amount |-> Growth(Back(r, 0).bytes, Back(r, Oldest(r)).bytes),
          over |-> Back(r, 0).at - Back(r, Oldest(r)).at]
    ELSE Zero

-----------------------------------------------------------------------------
TypeOK ==
  /\ kind \in {"link", "process"} /\ clock \in 0..MaxClock
  /\ Len(sent) = clock + 1 /\ sent[clock + 1] \in 0..clock
  /\ meter \in 0..(Modulus - 1) /\ there \in BOOLEAN
  /\ lives \in 1..MaxLives /\ idle \in BOOLEAN
  /\ row \in {"none", "live", "removed"}
  /\ ring.pos \in Slots /\ ring.count \in 0..Depth
  /\ \A i \in Slots : ring.slot[i].at \in Never..MaxClock
  /\ rate.amount \in 0..(Modulus - 1) /\ rate.over \in 1..(Window + MaxLag + 1)
  /\ scan \in [at : Never..clock, ticks : 0..(Modulus - 1), found : BOOLEAN]
  /\ prev \in 0..(Modulus - 1) /\ total \in 0..(MaxClock + 1)
  /\ load.amount \in 0..(Modulus - 1) /\ load.over \in 1..(MaxClock + 1)
  /\ fetches.last \in Never..clock /\ fetches.before \in Never..clock
  /\ stranger \in Never..clock

Init ==
  /\ kind \in {"link", "process"}
  /\ clock = 0 /\ sent = <<0>> /\ meter = 0 /\ there = TRUE /\ stranger = Never
  /\ lives = 1 /\ idle = TRUE
  /\ row = "none" /\ ring = NewRing /\ rate = Zero /\ pushes = <<>>
  /\ scan = NoScan /\ prev = 0 /\ total = 0 /\ load = Zero
  /\ fetches = [last |-> Never, before |-> Never]
  /\ sampled = [last |-> FALSE, before |-> FALSE]

(* Time passes, and the meter counts or does not.                          *)
Tick(n) ==
  /\ clock < MaxClock
  /\ scan # NoScan => clock < scan.at + MaxSkew
  /\ n = 1 => there /\ meter + 1 < Modulus
  /\ clock' = clock + 1
  /\ sent' = Append(sent, sent[clock + 1] + n)
  /\ meter' = meter + n
  /\ idle' = TRUE
  /\ UNCHANGED <<kind, there, lives, stranger, linkVars, processVars>>

Vanish ==
  /\ there /\ there' = FALSE
  /\ UNCHANGED <<kind, clock, sent, meter, lives, idle, stranger, linkVars, processVars>>

(* The number is used again: for something that starts from zero, or that  *)
(* has been counted elsewhere before.                                      *)
Appear(count) ==
  /\ ~there /\ there' = TRUE
  /\ lives < MaxLives /\ lives' = lives + 1
  /\ meter' = count
  /\ stranger' = IF count > 0 THEN clock ELSE stranger
  /\ UNCHANGED <<kind, clock, sent, idle, linkVars, processVars>>

-----------------------------------------------------------------------------
(* parseInterfaceRaw, for a dump that has the link or does not: rows that  *)
(* fade still lend their ring.  A link without statistics has none.        *)
ReloadLink(at) ==
  LET r == IF row = "none" THEN NewRing ELSE ring
      old == IF row = "none" THEN <<>> ELSE pushes
  IN  \/ /\ there
         /\ row' = "live"
         /\ ring' = Pushed(r, meter, at)
         /\ rate' = Average(ring')
         /\ pushes' = Append(old, Sample(meter, at))
      \/ /\ there
         /\ row' = "live" /\ ring' = NewRing /\ rate' = Zero /\ pushes' = <<>>
      \/ /\ ~there
         /\ row' = IF row = "live" THEN "removed" ELSE row
         /\ UNCHANGED <<ring, rate, pushes>>

(* Mutated form: the total of the first scan is the one compared with.     *)
NextTotalFirst(read) == IF total = 0 THEN read ELSE total
NextTotal(read) == read

(* Time that passed between two scans, zero if it is not known.            *)
TotalGrowth(read) == IF total > 0 /\ read >= total THEN read - total ELSE 0

(* scanProcfs, which may miss the process.                                 *)
ScanProcess(found) ==
  /\ kind = "process" /\ idle /\ idle' = FALSE /\ scan = NoScan
  /\ found => there
  /\ scan' = [at |-> clock, ticks |-> IF found THEN meter ELSE 0, found |-> found]
  /\ UNCHANGED <<kernelVars, linkVars, prev, total, load, fetches, sampled>>

(* The sync of the namespaces that follows fails, and the scan is dropped. *)
SyncFails ==
  /\ scan # NoScan /\ scan' = NoScan
  /\ UNCHANGED <<kernelVars, idle, linkVars, prev, total, load, fetches, sampled>>

(* updateProcessHistory, with the time that has passed by now.  If         *)
(* /proc/stat cannot be read it is zero.                                   *)
ReloadProcess(read) ==
  /\ total' = NextTotal(read)
  /\ \/ /\ scan.found
        /\ load' = IF TotalGrowth(read) > 0 /\ scan.ticks >= prev
                     THEN [amount |-> scan.ticks - prev, over |-> TotalGrowth(read)]
                     ELSE Zero
        /\ prev' = scan.ticks
     \/ /\ ~scan.found
        /\ load' = Zero /\ UNCHANGED prev
  /\ fetches' = [last |-> scan.at, before |-> fetches.last]
  /\ sampled' = [last |-> scan.found, before |-> sampled.last]

Stamps == {at \in (clock - MaxLag)..clock : at >= 0}

(* ReloadAll, and a reload of the interfaces after a netlink event, which  *)
(* leaves processes alone.                                                 *)
ReadLink ==
  /\ kind = "link" /\ idle /\ idle' = FALSE
  /\ \E at \in Stamps : ReloadLink(at)
  /\ UNCHANGED <<kernelVars, processVars>>
ReadProcess ==
  /\ scan # NoScan /\ scan' = NoScan
  /\ \E read \in {0, clock + 1} : ReloadProcess(read)
  /\ UNCHANGED <<kernelVars, idle, linkVars>>

(* The removed row fades out; the process's sample stays.                  *)
Expire ==
  /\ row = "removed" /\ row' = "none"
  /\ ring' = NewRing /\ rate' = Zero /\ pushes' = <<>>
  /\ UNCHANGED <<kernelVars, idle, processVars>>

(* pruneNamespaceCaches: the sample goes if the process still has a row.   *)
(* A namespace in which a scan has just found a process is not pruned.     *)
Prune ==
  /\ ~there /\ ~scan.found
  /\ row' = "none" /\ ring' = NewRing /\ rate' = Zero /\ pushes' = <<>>
  /\ prev' \in {0, prev} /\ load' = Zero
  /\ UNCHANGED <<kernelVars, idle, scan, total, fetches, sampled>>

Next ==
  \/ \E n \in {0, 1} : Tick(n)
  \/ Vanish
  \/ \E count \in Strangers \cup {0} : Appear(count)
  \/ ReadLink \/ Expire \/ Prune
  \/ (\E found \in BOOLEAN : ScanProcess(found)) \/ SyncFails \/ ReadProcess

Spec == Init /\ [][Next]_vars

-----------------------------------------------------------------------------
(* The samples the ring is meant to keep, told from everything pushed: a   *)
(* sample stays once the next one is far enough from it.                   *)
Kept == {i \in DOMAIN pushes :
           i < Len(pushes) => pushes[i + 1].at - pushes[i].at >= Interval}
KeptAfter(i) == Cardinality({j \in Kept : j > i})

(* The ring arithmetic: going back i slots from the newest finds the       *)
(* sample with i kept ones after it, for as many as there is room.         *)
RingIsHistory ==
  row # "none" =>
    /\ ring.count = (IF Cardinality(Kept) < Depth THEN Cardinality(Kept) ELSE Depth)
    /\ \A i \in Kept : KeptAfter(i) < ring.count => Back(ring, KeptAfter(i)) = pushes[i]

SentAt(t) == sent[(IF t < 0 THEN 0 ELSE IF t > clock THEN clock ELSE t) + 1]

(* No rate is made up: what is shown did pass in a span that ends with the *)
(* newest sample, is not longer than the window and begins with a sample   *)
(* of the same link or before it, whatever was reset or overwritten, give  *)
(* or take the time an event waits to be handled.                          *)
NoTrafficIsMadeUp ==
  rate.amount > 0 =>
    LET to == pushes[Len(pushes)].at
        from == to - rate.over
    IN  /\ rate.over <= Window
        /\ from > stranger =>
             rate.amount <= SentAt(to + MaxLag) - SentAt(from)

(* Two samples a minimum interval apart give a rate for as long as the     *)
(* window reaches the first: samples that come faster only ever replace    *)
(* the newest.  (If all of them do, the older ones leave the window and no *)
(* rate is shown.)                                                         *)
SpacedSamplesGiveARate ==
  \A i \in Kept :
    LET newest == pushes[Len(pushes)] IN
    /\ row = "live" /\ i < Len(pushes)
    /\ \A j \in 1..Len(pushes) - 1 : pushes[j].at <= pushes[j + 1].at
    /\ newest.at - pushes[i].at <= Window
    => rate.over >= Interval

(* The load shown is at most what the process used since the scan before,  *)
(* out of the time that passed since, give or take the time a scan takes   *)
(* from the process to /proc/stat: more than there was only by that delay. *)
(* Only a process that was missed by that scan, or that came from          *)
(* elsewhere, may be compared with an older sample or with none.           *)
LoadIsPossible ==
  load.amount > 0 /\ sampled.before /\ stranger < fetches.before =>
    LET passed == fetches.last - fetches.before IN
    /\ load.amount <= SentAt(fetches.last) - SentAt(fetches.before)
    /\ passed - MaxSkew <= load.over /\ load.over <= passed + MaxSkew
=============================================================================
