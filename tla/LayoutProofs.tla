----------------------------- MODULE LayoutProofs -----------------------------
(***************************************************************************)
(* Proofs about Layout, for any table and any pane.                        *)
(*                                                                         *)
(* First the sums: what is added up in a loop changes by what one element  *)
(* changes by, and is larger if every element is.  A set that has 0 and    *)
(* the successor of every member stands for the induction.                 *)
(*                                                                         *)
(* Then the two passes.  What a turn takes of a column leaves it at its    *)
(* target, or nothing too wide: so the columns a pass is done with are at  *)
(* their targets for as long as the table does not fit.                    *)
(***************************************************************************)
EXTENDS Layout, TLAPS, WellFoundedInduction, FiniteSetTheorems, SequenceTheorems

LEMMA Upwards ==
  ASSUME NEW n \in Nat, NEW S \in SUBSET (0..n), 0 \in S,
         \A k \in 0..(n - 1) : k \in S => k + 1 \in S
  PROVE  S = 0..n
<1> DEFINE Left == {k \in Nat : k <= n /\ k \notin S}
<1>7. Left # {} \/ \A k \in 0..n : k \in S
  OBVIOUS
<1> SUFFICES ASSUME Left # {} PROVE FALSE
  BY <1>7
<1>1. Left \in SUBSET Nat
  OBVIOUS
<1>2. PICK k \in Left : \A j \in Left : <<j, k>> \notin OpToRel(<, Nat)
  <2> HIDE DEF Left
  <2>1. \E k \in Left : \A j \in Left : <<j, k>> \notin OpToRel(<, Nat)
    BY <1>1, WFMin, NatLessThanWellFounded, Zenon
  <2> QED BY <2>1
<1>3. \A j \in Left : ~(j < k)
  BY <1>2, Zenon DEF OpToRel
<1>4. k \in Nat /\ k <= n /\ k \notin S /\ k # 0
  OBVIOUS
<1>5. k - 1 \in 0..(n - 1) /\ (k - 1) + 1 = k
  BY <1>4
<1>6. k - 1 \in S
  BY <1>3, <1>5
<1> QED BY <1>4, <1>5, <1>6

-----------------------------------------------------------------------------
(* A function on 1..n is a sequence of length n.                           *)
LEMMA WidthsAreASequence ==
  ASSUME NEW n \in Nat, NEW S, NEW s \in [1..n -> S]
  PROVE  s \in Seq(S) /\ Len(s) = n /\ DOMAIN s = 1..n
<1>1. s = [i \in 1..n |-> s[i]]
  OBVIOUS
<1>2. s \in Seq(S)
  BY <1>1, IsASeq
<1>3. DOMAIN s = 1..Len(s) /\ DOMAIN s = 1..n /\ Len(s) \in Nat
  BY <1>2, LenProperties
<1>4. Len(s) = n
  <2> DEFINE m == Len(s)
  <2>1. 1..m = 1..n /\ m \in Nat
    BY <1>3
  <2> HIDE DEF m
  <2>2. m = n
    <3>1. CASE m < n
      <4>1. n \in 1..n /\ n \notin 1..m
        BY <2>1, <3>1
      <4> QED BY <2>1, <4>1
    <3>2. CASE n < m
      <4>1. m \in 1..m /\ m \notin 1..n
        BY <2>1, <3>2
      <4> QED BY <2>1, <4>1
    <3> QED BY <2>1, <3>1, <3>2
  <2> QED BY <2>2 DEF m
<1> QED BY <1>2, <1>3, <1>4

(* The loop's partial sums exist: those up to k give those up to k + 1.    *)
Adds(f, n, s) == f = [k \in 0..n |-> IF k = 0 THEN 0 ELSE f[k - 1] + s[k]]

LEMMA SumsExist ==
  ASSUME NEW n \in Nat, NEW s \in [1..n -> Int]
  PROVE  \E f \in [0..n -> Int] : Adds(f, n, s)
<1> DEFINE S == {m \in 0..n : \E f \in [0..m -> Int] : Adds(f, m, s)}
<1>1. 0 \in S
  <2> DEFINE f == [k \in 0..0 |-> 0]
  <2>1. f \in [0..0 -> Int] /\ Adds(f, 0, s)
    BY DEF Adds
  <2> QED BY <2>1
<1>2. ASSUME NEW m \in 0..(n - 1), m \in S
      PROVE  m + 1 \in S
  <2>1. PICK f \in [0..m -> Int] : Adds(f, m, s)
    BY <1>2
  <2> DEFINE g == [k \in 0..(m + 1) |-> IF k = m + 1 THEN f[m] + s[m + 1] ELSE f[k]]
  <2>2. s[m + 1] \in Int /\ f[m] \in Int
    OBVIOUS
  <2>3. g \in [0..(m + 1) -> Int]
    BY <2>2
  <2>4. ASSUME NEW k \in 0..(m + 1)
        PROVE  g[k] = IF k = 0 THEN 0 ELSE g[k - 1] + s[k]
    <3>1. CASE k = m + 1
      BY <3>1
    <3>2. CASE k \in 0..m
      <4>1. f[k] = IF k = 0 THEN 0 ELSE f[k - 1] + s[k]
        BY <2>1, <3>2 DEF Adds
      <4>2. k # 0 => k - 1 \in 0..(m + 1) /\ k - 1 # m + 1
        BY <3>2
      <4>3. g[k] = f[k] /\ (k # 0 => g[k - 1] = f[k - 1])
        BY <3>2, <4>2
      <4> QED BY <4>1, <4>3
    <3> QED BY <3>1, <3>2
  <2>5. Adds(g, m + 1, s)
    <3> HIDE DEF g
    <3> QED BY <2>3, <2>4 DEF Adds
  <2> QED BY <2>3, <2>5
<1>3. S = 0..n
  <2> HIDE DEF S
  <2>1. S \in SUBSET (0..n)
    BY DEF S
  <2> QED BY <1>1, <1>2, <2>1, Upwards
<1>4. n \in S
  BY <1>3
<1> QED BY <1>4

LEMMA SumUpToIs ==
  ASSUME NEW n \in Nat, NEW s \in [1..n -> Int]
  PROVE  /\ SumUpTo(s)[0] = 0
         /\ \A k \in 1..n : SumUpTo(s)[k] = SumUpTo(s)[k - 1] + s[k]
         /\ \A k \in 0..n : SumUpTo(s)[k] \in Int
         /\ SumOf(s) = SumUpTo(s)[n] /\ SumOf(s) \in Int
<1> DEFINE f == SumUpTo(s)
<1>1. Len(s) = n
  BY WidthsAreASequence
<1>2. f = CHOOSE g : Adds(g, n, s)
  BY <1>1 DEF SumUpTo, Adds
<1>3. \E g : Adds(g, n, s)
  BY SumsExist
<1>4. Adds(f, n, s)
  BY <1>2, <1>3
<1> HIDE DEF f
<1>5. \A k \in 0..n : f[k] = IF k = 0 THEN 0 ELSE f[k - 1] + s[k]
  BY <1>4 DEF Adds
<1>6. \A k \in 1..n : k \in 0..n /\ k # 0
  OBVIOUS
<1>7. f[0] = 0 /\ \A k \in 1..n : f[k] = f[k - 1] + s[k]
  BY <1>5, <1>6
<1>8. \A k \in 0..n : f[k] \in Int
  <2> DEFINE S == {k \in 0..n : f[k] \in Int}
  <2>1. 0 \in S
    BY <1>7
  <2>2. ASSUME NEW k \in 0..(n - 1), k \in S PROVE k + 1 \in S
    <3>1. k + 1 \in 1..n /\ (k + 1) - 1 = k /\ k + 1 \in 0..n /\ f[k] \in Int
      BY <2>2
    <3>2. f[k + 1] = f[k] + s[k + 1] /\ s[k + 1] \in Int
      BY <1>7, <3>1
    <3> QED BY <3>1, <3>2
  <2>3. S \in SUBSET (0..n)
    OBVIOUS
  <2> HIDE DEF S
  <2>4. S = 0..n
    BY <2>1, <2>2, <2>3, Upwards
  <2> QED BY <2>4 DEF S
<1>9. SumOf(s) = f[n]
  BY <1>1 DEF SumOf, f
<1> QED BY <1>7, <1>8, <1>9 DEF f

(* One element changes: the sum changes by as much.                        *)
LEMMA SumChanges ==
  ASSUME NEW n \in Nat, NEW s \in [1..n -> Int], NEW t \in [1..n -> Int],
         NEW i \in 1..n, \A j \in 1..n : j # i => t[j] = s[j]
  PROVE  SumOf(t) = SumOf(s) + (t[i] - s[i])
<1> DEFINE f == SumUpTo(s)
           g == SumUpTo(t)
           S == {k \in 0..n : g[k] = IF k < i THEN f[k] ELSE f[k] + (t[i] - s[i])}
<1>1. /\ f[0] = 0 /\ \A k \in 1..n : f[k] = f[k - 1] + s[k]
      /\ \A k \in 0..n : f[k] \in Int
      /\ SumOf(s) = f[n]
  BY SumUpToIs
<1>2. /\ g[0] = 0 /\ \A k \in 1..n : g[k] = g[k - 1] + t[k]
      /\ \A k \in 0..n : g[k] \in Int
      /\ SumOf(t) = g[n]
  BY SumUpToIs
<1> HIDE DEF f, g
<1>3. 0 \in S
  BY <1>1, <1>2
<1>4. ASSUME NEW k \in 0..(n - 1), k \in S PROVE k + 1 \in S
  <2>1. k + 1 \in 1..n /\ (k + 1) - 1 = k /\ k \in 0..n /\ k + 1 \in 0..n
    OBVIOUS
  <2>2. f[k + 1] = f[k] + s[k + 1] /\ g[k + 1] = g[k] + t[k + 1]
    BY <1>1, <1>2, <2>1
  <2>3. f[k] \in Int /\ g[k] \in Int /\ s[k + 1] \in Int /\ t[k + 1] \in Int
        /\ s[i] \in Int /\ t[i] \in Int
    BY <1>1, <1>2, <2>1
  <2>4. g[k] = IF k < i THEN f[k] ELSE f[k] + (t[i] - s[i])
    BY <1>4
  <2>5. CASE k + 1 = i
    <3>1. k < i /\ ~(k + 1 < i)
      BY <2>5
    <3>2. g[k + 1] = f[k + 1] + (t[i] - s[i])
      <4>1. t[k + 1] = t[i] /\ s[k + 1] = s[i] /\ g[k] = f[k]
        BY <2>4, <2>5, <3>1
      <4> QED BY <2>2, <2>3, <4>1
    <3> QED BY <2>1, <3>1, <3>2
  <2>6. CASE k + 1 # i
    <3>1. t[k + 1] = s[k + 1] /\ (k < i <=> k + 1 < i)
      BY <2>1, <2>6
    <3>2. g[k + 1] = IF k + 1 < i THEN f[k + 1] ELSE f[k + 1] + (t[i] - s[i])
      BY <2>2, <2>3, <2>4, <3>1
    <3> QED BY <2>1, <3>2
  <2> QED BY <2>5, <2>6
<1>5. S \in SUBSET (0..n)
  OBVIOUS
<1>6. n \in S
  <2> HIDE DEF S
  <2>1. S = 0..n
    BY <1>3, <1>4, <1>5, Upwards
  <2> QED BY <2>1
<1> QED BY <1>1, <1>2, <1>6

(* Every element is at most another: so are the sums.                      *)
LEMMA SumGrows ==
  ASSUME NEW n \in Nat, NEW s \in [1..n -> Int], NEW t \in [1..n -> Int],
         \A j \in 1..n : s[j] <= t[j]
  PROVE  SumOf(s) <= SumOf(t)
<1> DEFINE f == SumUpTo(s)
           g == SumUpTo(t)
           S == {k \in 0..n : f[k] <= g[k]}
<1>1. /\ f[0] = 0 /\ \A k \in 1..n : f[k] = f[k - 1] + s[k]
      /\ \A k \in 0..n : f[k] \in Int
      /\ SumOf(s) = f[n]
  BY SumUpToIs
<1>2. /\ g[0] = 0 /\ \A k \in 1..n : g[k] = g[k - 1] + t[k]
      /\ \A k \in 0..n : g[k] \in Int
      /\ SumOf(t) = g[n]
  BY SumUpToIs
<1> HIDE DEF f, g
<1>3. 0 \in S
  BY <1>1, <1>2
<1>4. ASSUME NEW k \in 0..(n - 1), k \in S PROVE k + 1 \in S
  <2>1. k + 1 \in 1..n /\ (k + 1) - 1 = k /\ k \in 0..n /\ k + 1 \in 0..n
    OBVIOUS
  <2>2. f[k + 1] = f[k] + s[k + 1] /\ g[k + 1] = g[k] + t[k + 1] /\ s[k + 1] <= t[k + 1]
    BY <1>1, <1>2, <2>1
  <2>3. f[k] \in Int /\ g[k] \in Int /\ s[k + 1] \in Int /\ t[k + 1] \in Int
    BY <1>1, <1>2, <2>1
  <2>4. f[k + 1] <= g[k + 1]
    BY <1>4, <2>2, <2>3
  <2> QED BY <2>1, <2>4
<1>5. S \in SUBSET (0..n)
  OBVIOUS
<1>6. n \in S
  <2> HIDE DEF S
  <2>1. S = 0..n
    BY <1>3, <1>4, <1>5, Upwards
  <2> QED BY <2>1
<1> QED BY <1>1, <1>2, <1>6

(* Cells have a widest one.                                                *)
LEMMA WidestIs ==
  ASSUME NEW c, c.cells \in Seq(Nat)
  PROVE  Widest(c) \in Nat
<1> DEFINE s == c.cells
           n == Len(s)
           W(m) == {0} \cup {s[i] : i \in 1..m}
           S == {m \in 0..n : \E x \in W(m) : \A y \in W(m) : x >= y}
<1>1. n \in Nat /\ DOMAIN s = 1..n /\ s \in [1..n -> Nat]
  BY LenProperties
<1> HIDE DEF n, s
<1>2. 0 \in S
  BY <1>1
<1>3. ASSUME NEW m \in 0..(n - 1), m \in S PROVE m + 1 \in S
  <2>1. PICK x \in W(m) : \A y \in W(m) : x >= y
    BY <1>3
  <2>2. /\ W(m + 1) = W(m) \cup {s[m + 1]}
        /\ s[m + 1] \in Nat /\ W(m) \in SUBSET Nat /\ m + 1 \in 0..n
    BY <1>1
  <2> HIDE DEF W
  <2>3. \E z \in W(m + 1) : \A y \in W(m + 1) : z >= y
    <3>1. CASE x >= s[m + 1]
      BY <2>1, <2>2, <3>1
    <3>2. CASE s[m + 1] > x
      <4>1. \A y \in W(m + 1) : s[m + 1] >= y
        BY <2>1, <2>2, <3>2
      <4> QED BY <2>2, <4>1
    <3> QED BY <2>1, <2>2, <3>1, <3>2
  <2> QED BY <2>2, <2>3
<1>4. S \in SUBSET (0..n)
  OBVIOUS
<1>5. n \in S
  <2> HIDE DEF S
  <2> QED BY <1>1, <1>2, <1>3, <1>4, Upwards
<1>6. W(n) \in SUBSET Nat /\ \E x \in W(n) : \A y \in W(n) : x >= y
  BY <1>1, <1>5
<1>7. Widest(c) = Max(W(n))
  BY <1>1 DEF Widest, s
<1> HIDE DEF W
<1> QED BY <1>6, <1>7 DEF Max

-----------------------------------------------------------------------------
(* What a column asks for are widths.                                      *)
LEMMA ColumnIs ==
  ASSUME NEW c \in Columns
  PROVE  /\ c.min \in Nat /\ Natural(c) \in Nat /\ Avg(c) \in Int
         /\ MaxVal(c) \in Nat /\ Diff(c) \in Nat
         /\ TrimTarget(c) \in Nat /\ TrimTarget(c) >= 1 /\ TrimTarget(c) >= c.min
<1>1. c \in [head : Nat, cells : Seq(Nat), min : Nat, max : Nat]
  BY ColumnsAssumption
<1>2. c.min \in Nat /\ c.max \in Nat /\ c.head \in Nat /\ c.cells \in Seq(Nat)
  BY <1>1
<1>3. Widest(c) \in Nat
  BY <1>2, WidestIs
<1>4. Natural(c) \in Nat
  BY <1>2, <1>3 DEF Natural, Larger, Smaller
<1>5. Avg(c) \in Int
  <2> DEFINE count == Cardinality(NonEmpty(c))
             n == Len(c.cells)
  <2>1. n \in Nat /\ DOMAIN c.cells = 1..n /\ c.cells \in [1..n -> Nat]
    BY <1>2, LenProperties
  <2>2. count \in Nat
    <3>1. IsFiniteSet(1..n) /\ NonEmpty(c) \in SUBSET (1..n)
      BY <2>1, FS_Interval DEF NonEmpty
    <3> QED BY <3>1, FS_Subset, FS_CardinalityType
  <2>3. SumOf(c.cells) \in Int
    <3>1. c.cells \in [1..n -> Int]
      BY <2>1
    <3> QED BY <2>1, <3>1, SumUpToIs
  <2> HIDE DEF count
  <2>4. CASE count = 0
    BY <1>4, <2>4 DEF Avg, count
  <2>5. CASE count # 0
    <3>1. (SumOf(c.cells) + count - 1) \div count \in Int
      BY <2>2, <2>3, <2>5
    <3> QED BY <2>5, <3>1 DEF Avg, count
  <2> QED BY <2>4, <2>5
<1>6. MaxVal(c) \in Nat /\ Diff(c) \in Nat
  BY <1>3, <1>4, <1>5 DEF MaxVal, Diff, Larger
<1>7. TrimTarget(c) \in Nat /\ TrimTarget(c) >= 1 /\ TrimTarget(c) >= c.min
  BY <1>2, <1>5 DEF TrimTarget, Larger
<1> QED BY <1>2, <1>4, <1>5, <1>6, <1>7

-----------------------------------------------------------------------------
(* What holds of a table while it is fitted.                               *)
TableOK ==
  /\ columns \in Seq(Columns) /\ maxWidth \in Int
  /\ pass \in {"trim", "shrink", "done"} /\ rest \in SUBSET DOMAIN columns
  /\ colWidths \in [DOMAIN columns -> Nat]

Naturals == [i \in DOMAIN columns |-> Natural(columns[i])]
Minimums == [i \in DOMAIN columns |-> Larger(1, columns[i].min)]

AtLeastMinimum ==
  \A i \in DOMAIN columns : colWidths[i] >= Smaller(columns[i].min, Natural(columns[i]))
PassOK ==
  pass # "done" =>
    /\ maxWidth > 0 /\ TooWide /\ Overflow >= 0
    /\ totalMinWidth <= maxWidth => AtLeastMinimum

(* What trimming leaves: nothing below the target, and the columns that it *)
(* is done with at most there, or a table that fits.                       *)
Untouched ==
  \A i \in DOMAIN columns :
    colWidths[i] >= Smaller(Natural(columns[i]), TrimTarget(columns[i]))
Even(S) == \A j \in S : Diff(columns[j]) > 0 => colWidths[j] <= TrimTarget(columns[j])
Shrunk(S) == \A j \in S : colWidths[j] <= ShrinkTarget(columns[j])
TrimOK ==
  pass = "trim" => Untouched /\ (Overflow = 0 \/ Even(DOMAIN columns \ rest))
ShrinkOK ==
  pass = "shrink" =>
    /\ (Overflow = 0 /\ Untouched) \/ Even(DOMAIN columns)
    /\ Overflow = 0 \/ Shrunk(DOMAIN columns \ rest)

IInv == TableOK /\ PassOK /\ TrimOK /\ ShrinkOK /\ OutliersGoFirst /\ Fitted

(* The columns of a table, and the totals of widths of it.                 *)
LEMMA TableIs ==
  ASSUME TableOK
  PROVE  /\ Len(columns) \in Nat /\ DOMAIN columns = 1..Len(columns)
         /\ \A i \in DOMAIN columns : columns[i] \in Columns
         /\ \A w \in [DOMAIN columns -> Int] :
              Total(w) = 2 * (Len(columns) - 1) + SumOf(w) /\ SumOf(w) \in Int
         /\ Naturals \in [DOMAIN columns -> Nat] /\ Minimums \in [DOMAIN columns -> Nat]
         /\ Overflow \in Int
<1>1. /\ Len(columns) \in Nat /\ DOMAIN columns = 1..Len(columns)
      /\ \A i \in DOMAIN columns : columns[i] \in Columns
  BY LenProperties, ElementOfSeq DEF TableOK
<1>2. \A w \in [DOMAIN columns -> Int] :
        Total(w) = 2 * (Len(columns) - 1) + SumOf(w) /\ SumOf(w) \in Int
  BY <1>1, SumUpToIs DEF Total
<1>3. Naturals \in [DOMAIN columns -> Nat] /\ Minimums \in [DOMAIN columns -> Nat]
  BY <1>1, ColumnIs DEF Naturals, Minimums, Larger
<1>4. Overflow \in Int
  <2>1. colWidths \in [DOMAIN columns -> Int] /\ maxWidth \in Int
    BY DEF TableOK
  <2>2. Total(colWidths) = 2 * (Len(columns) - 1) + SumOf(colWidths) /\ SumOf(colWidths) \in Int
    BY <1>2, <2>1
  <2> QED BY <1>1, <2>1, <2>2 DEF Overflow
<1> QED BY <1>1, <1>2, <1>3, <1>4

(* A turn of either loop: the column gets no wider and stays above the     *)
(* target, unless it was below; it ends there or the table fits.           *)
LEMMA CutIs ==
  ASSUME TableOK, Overflow > 0, NEW i \in DOMAIN columns, NEW target \in Nat,
         NEW w, w = Cut(i, target)
  PROVE  /\ w \in [DOMAIN columns -> Nat]
         /\ \A j \in DOMAIN columns : j # i => w[j] = colWidths[j]
         /\ w[i] <= colWidths[i] /\ w[i] >= Smaller(colWidths[i], target)
         /\ Total(w) - maxWidth >= 0
         /\ Total(w) - maxWidth = 0 \/ w[i] <= target
<1> DEFINE o == Overflow
           old == colWidths[i]
           less == Larger(0, Smaller(old - target, o))
<1>1. /\ Len(columns) \in Nat /\ DOMAIN columns = 1..Len(columns)
      /\ colWidths \in [DOMAIN columns -> Nat] /\ o \in Int /\ maxWidth \in Int
  BY TableIs DEF TableOK
<1>2. old \in Nat /\ less \in Nat /\ less <= old /\ less <= o
      /\ (less = o \/ old - less <= target) /\ old - less >= Smaller(old, target)
  <2>1. old \in Nat
    BY <1>1
  <2> HIDE DEF old, o
  <2> QED BY <1>1, <2>1 DEF o, Larger, Smaller
<1>3. w = [colWidths EXCEPT ![i] = old - less]
  BY DEF Cut
<1> HIDE DEF old, less
<1>4. /\ w \in [DOMAIN columns -> Nat] /\ w[i] = old - less
      /\ \A j \in DOMAIN columns : j # i => w[j] = colWidths[j]
  BY <1>1, <1>2, <1>3
<1>5. Total(w) - maxWidth = o - less
  <2>1. w \in [1..Len(columns) -> Int] /\ colWidths \in [1..Len(columns) -> Int]
    BY <1>1, <1>4
  <2>2. SumOf(w) = SumOf(colWidths) + (w[i] - colWidths[i])
    <3> DEFINE n == Len(columns)
    <3>1. n \in Nat /\ i \in 1..n /\ \A j \in 1..n : j # i => w[j] = colWidths[j]
      BY <1>1, <1>4
    <3>2. w \in [1..n -> Int] /\ colWidths \in [1..n -> Int]
      BY <2>1
    <3> HIDE DEF n
    <3> QED BY <3>1, <3>2, SumChanges, Zenon
  <2>3. SumOf(w) \in Int /\ SumOf(colWidths) \in Int
    BY <1>1, <2>1, SumUpToIs
  <2>4. w[i] - colWidths[i] = -less
    BY <1>2, <1>4 DEF old
  <2> QED BY <1>1, <1>2, <2>2, <2>3, <2>4 DEF Total, Overflow, o
<1> QED BY <1>1, <1>2, <1>4, <1>5 DEF old, o

(* Nothing is below its target: then nothing is cut in the way of others.  *)
LEMMA UntouchedIsFair == TableOK /\ Untouched => OutliersGoFirst
<1> SUFFICES ASSUME TableOK, Untouched PROVE OutliersGoFirst
  OBVIOUS
<1>1. \A i \in DOMAIN columns :
        colWidths[i] \in Nat /\ Smaller(Natural(columns[i]), TrimTarget(columns[i])) \in Nat
  BY TableIs, ColumnIs DEF TableOK, Smaller
<1>2. \A i \in DOMAIN columns :
        ~(colWidths[i] < Smaller(Natural(columns[i]), TrimTarget(columns[i])))
  BY <1>1 DEF Untouched
<1> QED BY <1>2 DEF OutliersGoFirst, TrimTarget

LEMMA EvenIsFair == Even(DOMAIN columns) => OutliersGoFirst
BY DEF Even, OutliersGoFirst, TrimTarget

LEMMA Initially == Init => IInv
<1> SUFFICES ASSUME Init PROVE IInv
  OBVIOUS
<1>1. PICK n \in Counts : columns \in [1..n -> Columns]
  BY DEF Init
<1>2. n \in Nat /\ maxWidth \in Int
  BY ColumnsAssumption DEF Init
<1>3. columns \in Seq(Columns) /\ DOMAIN columns = 1..n
  BY <1>1, <1>2, WidthsAreASequence
<1>4. \A i \in DOMAIN columns : columns[i] \in Columns
  BY <1>1
<1>5. colWidths = Naturals /\ colWidths \in [DOMAIN columns -> Nat]
  BY <1>4, ColumnIs DEF Init, Naturals
<1>6. TableOK
  BY <1>2, <1>3, <1>5 DEF Init, TableOK
<1>7. TooWide <=> Overflow > 0
  <2>1. TooWide <=> Total(colWidths) > maxWidth
    BY <1>5 DEF TooWide, Naturals
  <2>2. Total(colWidths) \in Int
    <3>1. colWidths \in [DOMAIN columns -> Int] /\ Len(columns) \in Nat
      BY <1>5, <1>6, TableIs
    <3>2. Total(colWidths) = 2 * (Len(columns) - 1) + SumOf(colWidths) /\ SumOf(colWidths) \in Int
      BY <1>6, <3>1, TableIs
    <3> QED BY <3>1, <3>2
  <2> QED BY <1>2, <2>1, <2>2 DEF Overflow
<1>8. Overflow \in Int
  BY <1>6, TableIs
<1>9. pass \in {"trim", "done"} /\ (pass = "trim" <=> maxWidth > 0 /\ Overflow > 0)
  BY <1>2, <1>8 DEF Init
<1>10. /\ \A i \in DOMAIN columns : colWidths[i] = Natural(columns[i])
       /\ Untouched /\ AtLeastMinimum
  <2>1. \A i \in DOMAIN columns : colWidths[i] = Natural(columns[i])
    BY <1>5 DEF Naturals
  <2>2. \A i \in DOMAIN columns :
          /\ Natural(columns[i]) \in Nat /\ TrimTarget(columns[i]) \in Nat
          /\ columns[i].min \in Nat
    BY <1>4, ColumnIs
  <2> QED BY <2>1, <2>2 DEF Untouched, AtLeastMinimum, Smaller
<1>11. PassOK /\ TrimOK /\ ShrinkOK
  <2>1. DOMAIN columns \ rest = {}
    BY DEF Init
  <2> QED BY <1>7, <1>8, <1>9, <1>10, <2>1 DEF PassOK, TrimOK, ShrinkOK, Even
<1>12. OutliersGoFirst
  BY <1>6, <1>10, UntouchedIsFair
<1>13. Fitted
  BY <1>2, <1>5, <1>7, <1>8, <1>9 DEF Fitted, Naturals
<1> QED BY <1>6, <1>11, <1>12, <1>13 DEF IInv

-----------------------------------------------------------------------------
(* There is a first column in either order, and it is one still to see.    *)
LEMMA MaximumOf ==
  ASSUME NEW n \in Nat, NEW R \in SUBSET (1..n), R # {}, NEW f \in [R -> Int]
  PROVE  \E i \in R : \A j \in R : f[j] <= f[i]
<1> DEFINE P(m) == {j \in R : j <= m}
           S == {m \in 0..n : P(m) # {} => \E i \in P(m) : \A j \in P(m) : f[j] <= f[i]}
<1>6. \A j \in R : j \in 1..n /\ f[j] \in Int
  OBVIOUS
<1>1. 0 \in S
  <2>1. P(0) = {}
    <3>1. \A j \in R : ~(j <= 0)
      BY <1>6
    <3> QED BY <3>1
  <2>2. 0 \in 0..n
    OBVIOUS
  <2> HIDE DEF P
  <2> QED BY <2>1, <2>2
<1>2. ASSUME NEW m \in 0..(n - 1), m \in S PROVE m + 1 \in S
  <2>4. \A j \in R : j <= m + 1 <=> j <= m \/ j = m + 1
    BY <1>6
  <2>1. m + 1 \in 0..n /\ (P(m) # {} => \E i \in P(m) : \A j \in P(m) : f[j] <= f[i])
    BY <1>2
  <2>2. CASE m + 1 \notin R
    <3>1. P(m + 1) = P(m)
      BY <2>2, <2>4
    <3> HIDE DEF P
    <3> QED BY <2>1, <3>1
  <2>3. CASE m + 1 \in R
    <3>1. P(m + 1) = P(m) \cup {m + 1} /\ P(m) \in SUBSET R /\ f[m + 1] \in Int
          /\ \A j \in P(m) : f[j] \in Int
      <4>1. P(m + 1) = P(m) \cup {m + 1}
        BY <2>3, <2>4
      <4> QED BY <1>6, <2>3, <4>1
    <3> HIDE DEF P
    <3>2. \E i \in P(m + 1) : \A j \in P(m + 1) : f[j] <= f[i]
      <4>1. CASE P(m) = {}
        BY <3>1, <4>1
      <4>2. CASE P(m) # {}
        <5>1. PICK i \in P(m) : \A j \in P(m) : f[j] <= f[i]
          BY <2>1, <4>2
        <5>2. CASE f[i] <= f[m + 1]
          <6>1. \A j \in P(m + 1) : f[j] <= f[m + 1]
            BY <3>1, <5>1, <5>2
          <6> QED BY <3>1, <6>1
        <5>3. CASE f[m + 1] <= f[i]
          <6>1. \A j \in P(m + 1) : f[j] <= f[i]
            BY <3>1, <5>1, <5>3
          <6> QED BY <3>1, <5>1, <6>1
        <5> QED BY <3>1, <5>1, <5>2, <5>3
      <4> QED BY <4>1, <4>2
    <3> QED BY <2>1, <3>2
  <2> QED BY <2>2, <2>3
<1>3. S \in SUBSET (0..n)
  OBVIOUS
<1>4. n \in S
  <2> HIDE DEF S
  <2>1. S = 0..n
    BY <1>1, <1>2, <1>3, Upwards
  <2> QED BY <2>1
<1>5. P(n) = R
  <2>1. \A j \in R : j <= n
    BY <1>6
  <2> QED BY <2>1
<1> HIDE DEF P
<1> QED BY <1>4, <1>5

LEMMA FirstIs ==
  ASSUME NEW n \in Nat, rest \in SUBSET (1..n), rest # {},
         NEW a \in [rest -> Int], NEW b \in [rest -> Int],
         NEW key, key = [i \in rest |-> <<a[i], b[i], -i>>]
  PROVE  First(key) \in rest
<1>1. PICK x \in rest : \A j \in rest : a[j] <= a[x]
  BY MaximumOf
<1> DEFINE A == {j \in rest : a[j] = a[x]}
<1>2. PICK y \in A : \A j \in A : b[j] <= b[y]
  <2>1. A \in SUBSET (1..n) /\ A # {} /\ [j \in A |-> b[j]] \in [A -> Int]
    OBVIOUS
  <2> DEFINE f == [j \in A |-> b[j]]
  <2>2. \A j \in A : f[j] = b[j]
    OBVIOUS
  <2> HIDE DEF A, f
  <2>3. \E i \in A : \A j \in A : f[j] <= f[i]
    BY <2>1, MaximumOf DEF f
  <2> QED BY <2>2, <2>3
<1> DEFINE B == {j \in A : b[j] = b[y]}
<1>3. PICK z \in B : \A j \in B : z <= j
  <2> DEFINE f == [j \in B |-> -j]
  <2>1. B \in SUBSET (1..n) /\ B # {} /\ f \in [B -> Int]
    <3>1. B \in SUBSET (1..n) /\ B # {}
      OBVIOUS
    <3> HIDE DEF A, B
    <3>2. \A j \in B : -j \in Int
      BY <3>1
    <3> QED BY <3>1, <3>2
  <2>2. \A j \in B : f[j] = -j
    OBVIOUS
  <2> HIDE DEF A, B, f
  <2>3. PICK i \in B : \A j \in B : f[j] <= f[i]
    BY <2>1, MaximumOf
  <2>4. i \in B /\ \A j \in B : -j <= -i /\ j \in Int
    BY <2>1, <2>2, <2>3
  <2>5. i \in Int /\ \A j \in B : i <= j
    BY <2>4
  <2> QED BY <2>4, <2>5
<1>4. ASSUME NEW j \in rest \ {z} PROVE Precedes(key[z], key[j])
  <2>1. /\ key[z] = <<a[z], b[z], -z>> /\ key[j] = <<a[j], b[j], -j>>
        /\ a[z] \in Int /\ a[j] \in Int /\ b[z] \in Int /\ b[j] \in Int
        /\ z \in Int /\ j \in Int
    OBVIOUS
  <2>2. CASE a[j] # a[z]
    <3>1. a[z] > a[j]
      BY <1>1, <2>1, <2>2
    <3> QED BY <2>1, <3>1 DEF Precedes
  <2>3. CASE a[j] = a[z] /\ b[j] # b[z]
    <3>1. b[z] > b[j]
      BY <1>2, <2>1, <2>3
    <3>2. \A l \in 1..(2 - 1) : key[z][l] = key[j][l]
      BY <2>1, <2>3
    <3>3. 2 \in DOMAIN key[z] /\ key[z][2] > key[j][2]
      BY <2>1, <3>1
    <3> QED BY <3>2, <3>3 DEF Precedes
  <2>4. CASE a[j] = a[z] /\ b[j] = b[z]
    <3>1. -z > -j
      BY <1>3, <2>1, <2>4
    <3>2. \A l \in 1..(3 - 1) : key[z][l] = key[j][l]
      BY <2>1, <2>4
    <3>3. 3 \in DOMAIN key[z] /\ key[z][3] > key[j][3]
      BY <2>1, <3>1
    <3> QED BY <3>2, <3>3 DEF Precedes
  <2> QED BY <2>2, <2>3, <2>4
<1>5. \E i \in rest : \A j \in rest \ {i} : Precedes(key[i], key[j])
  BY <1>4
<1> QED BY <1>5 DEF First

LEMMA TurnsAreOfTheRest ==
  ASSUME TableOK, rest # {}
  PROVE  First(Unevenness) \in rest /\ First(Length) \in rest
<1>1. /\ Len(columns) \in Nat /\ rest \in SUBSET (1..Len(columns))
      /\ \A i \in rest : columns[i] \in Columns /\ colWidths[i] \in Nat
  BY TableIs DEF TableOK
<1>2. First(Unevenness) \in rest
  <2> DEFINE a == [i \in rest |-> Diff(columns[i])]
             b == [i \in rest |-> MaxVal(columns[i])]
  <2>1. a \in [rest -> Int] /\ b \in [rest -> Int]
    BY <1>1, ColumnIs
  <2>2. Unevenness = [i \in rest |-> <<a[i], b[i], -i>>]
    BY DEF Unevenness
  <2> HIDE DEF a, b
  <2> QED BY <1>1, <2>1, <2>2, FirstIs
<1>3. First(Length) \in rest
  <2> DEFINE a == [i \in rest |-> Avg(columns[i])]
             b == [i \in rest |-> colWidths[i]]
  <2>1. a \in [rest -> Int] /\ b \in [rest -> Int]
    BY <1>1, ColumnIs
  <2>2. Length = [i \in rest |-> <<a[i], b[i], -i>>]
    BY DEF Length
  <2> HIDE DEF a, b
  <2> QED BY <1>1, <2>1, <2>2, FirstIs
<1> QED BY <1>2, <1>3

-----------------------------------------------------------------------------
(* A turn that takes of the column i what it can give above the target.    *)
Turn(i, target) ==
  /\ rest' = rest \ {i} /\ colWidths' = Cut(i, target)
  /\ UNCHANGED <<columns, maxWidth, pass>>

LEMMA TurnIs ==
  ASSUME TableOK, PassOK, pass # "done", Overflow > 0,
         NEW i \in rest, NEW target \in Nat, Turn(i, target),
         totalMinWidth <= maxWidth => target >= columns[i].min
  PROVE  /\ TableOK' /\ PassOK'
         /\ \A j \in DOMAIN columns : j # i => colWidths'[j] = colWidths[j]
         /\ colWidths'[i] <= colWidths[i] /\ colWidths'[i] >= Smaller(colWidths[i], target)
         /\ Overflow' = 0 \/ colWidths'[i] <= target
<1>1. i \in DOMAIN columns
  BY DEF TableOK
<1>2. /\ columns' = columns /\ maxWidth' = maxWidth /\ pass' = pass /\ rest' = rest \ {i}
      /\ colWidths' = Cut(i, target)
  BY DEF Turn
<1> DEFINE w == Cut(i, target)
<1>3. /\ w \in [DOMAIN columns -> Nat]
      /\ \A j \in DOMAIN columns : j # i => w[j] = colWidths[j]
      /\ w[i] <= colWidths[i] /\ w[i] >= Smaller(colWidths[i], target)
      /\ Total(w) - maxWidth >= 0
      /\ Total(w) - maxWidth = 0 \/ w[i] <= target
  BY <1>1, CutIs
<1> HIDE DEF w
<1>4. colWidths' = w
  BY <1>2 DEF w
<1>5. Overflow' = Total(w) - maxWidth
  BY <1>2, <1>4 DEF Overflow, Total
<1>6. TableOK'
  BY <1>2, <1>3, <1>4 DEF TableOK
<1>7. PassOK'
  <2>1. TooWide' /\ maxWidth' > 0 /\ (totalMinWidth <= maxWidth <=> (totalMinWidth <= maxWidth)')
    BY <1>2 DEF PassOK, TooWide, Total, totalMinWidth
  <2>2. ASSUME totalMinWidth <= maxWidth PROVE AtLeastMinimum'
    <3>1. AtLeastMinimum /\ target >= columns[i].min
      BY <2>2 DEF PassOK
    <3>2. \A j \in DOMAIN columns :
            colWidths[j] \in Nat /\ w[j] \in Nat /\ columns[j].min \in Nat
            /\ Natural(columns[j]) \in Nat
      BY <1>3, TableIs, ColumnIs DEF TableOK
    <3>3. w[i] >= Smaller(columns[i].min, Natural(columns[i]))
      <4>1. colWidths[i] >= Smaller(columns[i].min, Natural(columns[i]))
        BY <1>1, <3>1 DEF AtLeastMinimum
      <4> QED BY <1>1, <1>3, <3>1, <3>2, <4>1 DEF Smaller
    <3>4. \A j \in DOMAIN columns : w[j] >= Smaller(columns[j].min, Natural(columns[j]))
      BY <1>3, <3>1, <3>3 DEF AtLeastMinimum
    <3> QED BY <1>2, <1>4, <3>4 DEF AtLeastMinimum
  <2> QED BY <1>3, <1>5, <2>1, <2>2 DEF PassOK
<1> QED BY <1>3, <1>4, <1>5, <1>6, <1>7

LEMMA TrimStep == IInv /\ Trim => IInv'
<1> SUFFICES ASSUME IInv, Trim PROVE IInv'
  OBVIOUS
<1> DEFINE i == First(Unevenness)
           c == columns[i]
<1>1. /\ TableOK /\ PassOK /\ Untouched /\ pass = "trim" /\ Overflow > 0
      /\ Even(DOMAIN columns \ rest)
  BY TableIs DEF IInv, Trim, TrimOK
<1>2. i \in rest /\ i \in DOMAIN columns
  BY <1>1, TurnsAreOfTheRest DEF Trim, TableOK
<1>3. /\ rest' = rest \ {i} /\ UNCHANGED <<columns, maxWidth, pass>>
      /\ colWidths' = IF Diff(c) = 0 THEN colWidths ELSE Cut(i, TrimTarget(c))
  BY DEF Trim
<1> HIDE DEF i
<1>4. \A j \in DOMAIN columns :
        /\ columns[j].min \in Nat /\ Natural(columns[j]) \in Nat /\ colWidths[j] \in Nat
        /\ TrimTarget(columns[j]) \in Nat /\ TrimTarget(columns[j]) >= columns[j].min
        /\ Diff(columns[j]) \in Nat
  BY <1>1, TableIs, ColumnIs DEF TableOK
<1>5. TableOK' /\ PassOK' /\ Untouched' /\ (Overflow' = 0 \/ Even(DOMAIN columns \ rest)')
  <2>1. CASE Diff(c) = 0
    <3>1. colWidths' = colWidths
      BY <1>3, <2>1
    <3>2. TableOK' /\ PassOK' /\ Untouched'
      BY <1>1, <1>3, <3>1 DEF TableOK, PassOK, Untouched, AtLeastMinimum, TooWide, Overflow,
         Total, totalMinWidth
    <3>3. Even(DOMAIN columns \ rest)'
      <4>1. \A j \in DOMAIN columns \ rest' : j = i \/ j \in DOMAIN columns \ rest
        BY <1>3
      <4> QED BY <1>1, <1>3, <2>1, <3>1, <4>1 DEF Even
    <3> QED BY <3>2, <3>3
  <2>2. CASE Diff(c) # 0
    <3>1. Turn(i, TrimTarget(c))
      BY <1>3, <2>2 DEF Turn
    <3>2. /\ TableOK' /\ PassOK'
          /\ \A j \in DOMAIN columns : j # i => colWidths'[j] = colWidths[j]
          /\ colWidths'[i] >= Smaller(colWidths[i], TrimTarget(c))
          /\ Overflow' = 0 \/ colWidths'[i] <= TrimTarget(c)
      BY <1>1, <1>2, <1>4, <3>1, TurnIs
    <3>3. \A j \in DOMAIN columns : colWidths'[j] \in Nat
      BY <1>3, <3>2 DEF TableOK
    <3>4. Untouched'
      <4>1. colWidths[i] >= Smaller(Natural(c), TrimTarget(c))
        BY <1>1, <1>2 DEF Untouched
      <4>2. colWidths'[i] >= Smaller(Natural(c), TrimTarget(c))
        BY <1>2, <1>4, <3>2, <3>3, <4>1 DEF Smaller
      <4> QED BY <1>1, <1>3, <3>2, <4>2 DEF Untouched
    <3>5. Overflow' = 0 \/ Even(DOMAIN columns \ rest)'
      <4>1. \A j \in DOMAIN columns \ rest' : j = i \/ j \in DOMAIN columns \ rest
        BY <1>3
      <4> QED BY <1>1, <1>3, <3>2, <4>1 DEF Even
    <3> QED BY <3>2, <3>4, <3>5
  <2> QED BY <2>1, <2>2
<1>6. OutliersGoFirst'
  BY <1>5, UntouchedIsFair, PTL
<1>7. pass' = "trim"
  BY <1>1, <1>3
<1> QED BY <1>5, <1>6, <1>7 DEF IInv, TrimOK, ShrinkOK, Fitted

LEMMA EndTrimStep == IInv /\ EndTrim => IInv'
<1> SUFFICES ASSUME IInv, EndTrim PROVE IInv'
  OBVIOUS
<1>1. /\ TableOK /\ PassOK /\ Untouched /\ pass = "trim" /\ OutliersGoFirst
      /\ Overflow = 0 \/ Even(DOMAIN columns \ rest)
  BY DEF IInv, EndTrim, TrimOK
<1>2. /\ pass' = "shrink" /\ rest' = DOMAIN columns
      /\ columns' = columns /\ maxWidth' = maxWidth /\ colWidths' = colWidths
  BY DEF EndTrim
<1>3. (Overflow = 0 /\ Untouched) \/ Even(DOMAIN columns)
  <2>1. CASE rest = {}
    <3>1. DOMAIN columns \ rest = DOMAIN columns
      BY <2>1
    <3> QED BY <1>1, <3>1
  <2>2. CASE Overflow <= 0
    <3>1. Overflow >= 0 /\ Overflow \in Int
      BY <1>1, TableIs DEF PassOK
    <3> QED BY <1>1, <2>2, <3>1
  <2> QED BY <2>1, <2>2 DEF EndTrim
<1>4. TableOK' /\ PassOK' /\ OutliersGoFirst'
  BY <1>1, <1>2 DEF TableOK, PassOK, AtLeastMinimum, TooWide, Overflow, Total, totalMinWidth,
     OutliersGoFirst
<1>5. ShrinkOK'
  <2>1. Shrunk(DOMAIN columns \ rest)'
    BY <1>2 DEF Shrunk
  <2>2. ((Overflow = 0 /\ Untouched) \/ Even(DOMAIN columns))'
    BY <1>2, <1>3 DEF Overflow, Total, Untouched, Even
  <2> QED BY <2>1, <2>2 DEF ShrinkOK
<1> QED BY <1>2, <1>4, <1>5 DEF IInv, TrimOK, Fitted

LEMMA ShrinkStep == IInv /\ Shrink => IInv'
<1> SUFFICES ASSUME IInv, Shrink PROVE IInv'
  OBVIOUS
<1> DEFINE i == First(Length)
           c == columns[i]
           target == ShrinkTarget(c)
<1>1. /\ TableOK /\ PassOK /\ pass = "shrink" /\ Overflow > 0
      /\ Even(DOMAIN columns) /\ Shrunk(DOMAIN columns \ rest)
  BY TableIs DEF IInv, Shrink, ShrinkOK
<1>2. i \in rest /\ i \in DOMAIN columns
  BY <1>1, TurnsAreOfTheRest DEF Shrink, TableOK
<1>3. /\ rest' = rest \ {i} /\ UNCHANGED <<columns, maxWidth, pass>>
      /\ colWidths' = Cut(i, target)
  BY DEF Shrink
<1> HIDE DEF i
<1>4. \A j \in DOMAIN columns :
        /\ columns[j].min \in Nat /\ colWidths[j] \in Nat /\ TrimTarget(columns[j]) \in Nat
  BY <1>1, TableIs, ColumnIs DEF TableOK
<1>5. target \in Nat /\ (totalMinWidth <= maxWidth => target >= c.min)
  BY <1>2, <1>4 DEF ShrinkTarget
<1>6. /\ TableOK' /\ PassOK'
      /\ \A j \in DOMAIN columns : j # i => colWidths'[j] = colWidths[j]
      /\ colWidths'[i] <= colWidths[i]
      /\ Overflow' = 0 \/ colWidths'[i] <= target
  <2>1. Turn(i, target)
    BY <1>3 DEF Turn
  <2> HIDE DEF target
  <2>2. totalMinWidth <= maxWidth => target >= columns[i].min
    BY <1>5
  <2> QED BY <1>1, <1>2, <1>5, <2>1, <2>2, TurnIs
<1>7. Even(DOMAIN columns)'
  <2>1. \A j \in DOMAIN columns : colWidths'[j] <= colWidths[j] /\ colWidths'[j] \in Nat
    <3>1. \A j \in DOMAIN columns : colWidths'[j] \in Nat
      BY <1>3, <1>6 DEF TableOK
    <3> QED BY <1>4, <1>6, <3>1
  <2>2. ASSUME NEW j \in DOMAIN columns, Diff(columns[j]) > 0
        PROVE  colWidths'[j] <= TrimTarget(columns[j])
    <3>1. colWidths[j] <= TrimTarget(columns[j])
      BY <1>1, <2>2 DEF Even
    <3> QED BY <1>4, <2>1, <3>1
  <2> QED BY <1>3, <2>2 DEF Even
<1>8. Overflow' = 0 \/ Shrunk(DOMAIN columns \ rest)'
  <2>1. \A j \in DOMAIN columns \ rest' : j = i \/ j \in DOMAIN columns \ rest
    BY <1>3
  <2>2. \A j \in DOMAIN columns : ShrinkTarget(columns[j])' = ShrinkTarget(columns[j])
    BY <1>3 DEF ShrinkTarget, totalMinWidth, Total
  <2>3. ASSUME colWidths'[i] <= target, NEW j \in DOMAIN columns \ rest'
        PROVE  colWidths'[j] <= ShrinkTarget(columns[j])
    BY <1>1, <1>6, <2>1, <2>3 DEF Shrunk
  <2> QED BY <1>3, <1>6, <2>2, <2>3 DEF Shrunk
<1>9. OutliersGoFirst'
  BY <1>7, EvenIsFair, PTL
<1>10. pass' = "shrink"
  BY <1>1, <1>3
<1> QED BY <1>6, <1>7, <1>8, <1>9, <1>10 DEF IInv, TrimOK, ShrinkOK, Fitted

(* What does not fit at its minimum has no room for the minimums.          *)
LEMMA ShrunkIs ==
  ASSUME TableOK, Overflow > 0, Shrunk(DOMAIN columns)
  PROVE  totalMinWidth > maxWidth /\ \A i \in DOMAIN columns : colWidths[i] <= 1
<1>1. /\ Len(columns) \in Nat /\ DOMAIN columns = 1..Len(columns)
      /\ colWidths \in [DOMAIN columns -> Int] /\ Minimums \in [DOMAIN columns -> Int]
      /\ maxWidth \in Int
  BY TableIs DEF TableOK
<1>2. \A i \in DOMAIN columns : columns[i].min \in Nat
  BY TableIs, ColumnIs
<1>3. /\ Total(colWidths) = 2 * (Len(columns) - 1) + SumOf(colWidths) /\ SumOf(colWidths) \in Int
      /\ Total(Minimums) = 2 * (Len(columns) - 1) + SumOf(Minimums) /\ SumOf(Minimums) \in Int
  BY <1>1, TableIs
<1>4. totalMinWidth = Total(Minimums)
  BY DEF totalMinWidth, Minimums
<1>5. totalMinWidth > maxWidth
  <2> SUFFICES ASSUME totalMinWidth <= maxWidth PROVE FALSE
    BY <1>1, <1>3, <1>4
  <2>1. \A i \in DOMAIN columns : colWidths[i] <= Minimums[i]
    BY <1>2 DEF Shrunk, ShrinkTarget, Minimums, Larger
  <2>2. SumOf(colWidths) <= SumOf(Minimums)
    <3> DEFINE n == Len(columns)
    <3>1. n \in Nat /\ \A i \in 1..n : colWidths[i] <= Minimums[i]
      BY <1>1, <2>1
    <3>2. colWidths \in [1..n -> Int] /\ Minimums \in [1..n -> Int]
      BY <1>1
    <3> HIDE DEF n
    <3> QED BY <3>1, <3>2, SumGrows, Zenon
  <2> QED BY <1>1, <1>3, <1>4, <2>2 DEF Overflow
<1>6. \A i \in DOMAIN columns : ShrinkTarget(columns[i]) = 1
  <2>1. ~(totalMinWidth <= maxWidth)
    BY <1>1, <1>3, <1>4, <1>5
  <2> QED BY <2>1 DEF ShrinkTarget
<1> QED BY <1>5, <1>6 DEF Shrunk

LEMMA EndShrinkStep == IInv /\ EndShrink => IInv'
<1> SUFFICES ASSUME IInv, EndShrink PROVE IInv'
  OBVIOUS
<1>1. /\ TableOK /\ PassOK /\ pass = "shrink" /\ OutliersGoFirst
      /\ Overflow = 0 \/ Shrunk(DOMAIN columns \ rest)
  BY DEF IInv, EndShrink, ShrinkOK
<1>2. /\ pass' = "done" /\ UNCHANGED <<columns, maxWidth, rest, colWidths>>
  BY DEF EndShrink
<1>3. /\ maxWidth > 0 /\ TooWide /\ Overflow >= 0 /\ Overflow \in Int
      /\ totalMinWidth <= maxWidth => AtLeastMinimum
  BY <1>1, TableIs DEF PassOK
<1>4. \/ Overflow = 0
      \/ Overflow > 0 /\ totalMinWidth > maxWidth /\ \A i \in DOMAIN columns : colWidths[i] <= 1
  <2>1. CASE Overflow <= 0
    BY <1>3, <2>1
  <2>2. CASE rest = {} /\ Overflow > 0
    <3>1. DOMAIN columns \ rest = DOMAIN columns
      BY <2>2
    <3>2. Shrunk(DOMAIN columns)
      BY <1>1, <1>3, <2>2, <3>1
    <3> QED BY <1>1, <2>2, <3>2, ShrunkIs
  <2> QED BY <1>3, <2>1, <2>2 DEF EndShrink
<1>5. Fitted'
  BY <1>2, <1>3, <1>4 DEF Fitted, TooWide, Overflow, Total, totalMinWidth, AtLeastMinimum
<1>6. TableOK' /\ OutliersGoFirst'
  BY <1>1, <1>2 DEF TableOK, OutliersGoFirst
<1> QED BY <1>2, <1>5, <1>6 DEF IInv, PassOK, TrimOK, ShrinkOK

LEMMA Invariance == Spec => []IInv
<1>1. IInv /\ [Next]_vars => IInv'
  <2> SUFFICES ASSUME IInv, UNCHANGED vars PROVE IInv'
    BY TrimStep, EndTrimStep, ShrinkStep, EndShrinkStep DEF Next
  <2> QED BY DEF vars, IInv, TableOK, PassOK, TrimOK, ShrinkOK, OutliersGoFirst, Fitted,
     AtLeastMinimum, Untouched, Even, Shrunk, ShrinkTarget, TooWide, Overflow, Total,
     totalMinWidth
<1> QED BY Initially, <1>1, PTL DEF Spec

-----------------------------------------------------------------------------
(* Whatever the cells, the limits and the pane: a table that is too wide   *)
(* fills the pane exactly and keeps its minimums if they fit, or gets as   *)
(* close as columns of one character allow; others keep their natural      *)
(* widths (fitColumnWidths).                                               *)
THEOREM TablesFit == Spec => []Fitted
<1>1. IInv => Fitted
  BY DEF IInv
<1> QED BY <1>1, Invariance, PTL

(* No column is cut below its average while an uneven one has more than    *)
(* its own, however many turns the two loops of fitColumnWidths take.      *)
THEOREM AveragesAreSpared == Spec => []OutliersGoFirst
<1>1. IInv => OutliersGoFirst
  BY DEF IInv
<1> QED BY <1>1, Invariance, PTL
=============================================================================
