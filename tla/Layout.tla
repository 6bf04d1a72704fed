-------------------------------- MODULE Layout --------------------------------
(***************************************************************************)
(* Fitting the columns of a table into a pane (internal/ui/table.go).      *)
(*                                                                         *)
(* Columns are as wide as their widest cell, within their specification.   *)
(* If that is too much, a first pass trims columns towards the average of  *)
(* their cells, the most uneven one first; a second pass shrinks columns   *)
(* to their minimum, the one with the longest cells first.  Each step here *)
(* is one turn of a loop.                                                  *)
(*                                                                         *)
(* A cell is its width on the screen, zero when it is empty; that the      *)
(* width of a character may be other than one is left out.                 *)
(***************************************************************************)
EXTENDS Integers, Sequences, FiniteSetsExt

CONSTANTS
  Columns,    \* bound: the columns tables are made of, [head, cells, min, max]
  Counts,     \* bound: numbers of columns
  MaxWidths   \* bound: widths of the pane

ASSUME ColumnsAssumption ==
  /\ Columns \subseteq [head : Nat, cells : Seq(Nat), min : Nat, max : Nat]
  /\ Counts \subseteq Nat \ {0} /\ MaxWidths \subseteq Int

VARIABLES
  columns,   \* the table
  maxWidth,  \* the width it must fit
  pass,      \* "trim", "shrink" or "done"
  rest,      \* columns the pass has still to look at
  colWidths  \* widths of the columns

vars == <<columns, maxWidth, pass, rest, colWidths>>

-----------------------------------------------------------------------------
Larger(x, y) == IF x > y THEN x ELSE y
Smaller(x, y) == IF x < y THEN x ELSE y

(* Widths added up one after the other: the sum of the first k, and of all. *)
SumUpTo(widths) ==
  LET sum[k \in 0..Len(widths)] == IF k = 0 THEN 0 ELSE sum[k - 1] + widths[k]
  IN  sum
SumOf(widths) == SumUpTo(widths)[Len(widths)]

NonEmpty(c) == {i \in DOMAIN c.cells : c.cells[i] > 0}
Widest(c) == Max({0} \cup {c.cells[i] : i \in DOMAIN c.cells})

(* The width a column has by itself; a maximum of zero is none.            *)
Natural(c) ==
  LET width == Larger(Larger(c.head, Widest(c)), c.min)
  IN  IF c.max > 0 THEN Smaller(width, c.max) ELSE width

(* The average is rounded up, and leaves the header and empty cells out.   *)
Avg(c) ==
  LET count == Cardinality(NonEmpty(c))
  IN  IF count = 0 THEN Natural(c) ELSE (SumOf(c.cells) + count - 1) \div count
MaxVal(c) == Larger(Natural(c), Widest(c))
Diff(c) == Larger(0, MaxVal(c) - Avg(c))

Total(widths) == 2 * (Len(columns) - 1) + SumOf(widths)
totalMinWidth ==
  Total([i \in DOMAIN columns |-> Larger(1, columns[i].min)])
Overflow == Total(colWidths) - maxWidth

-----------------------------------------------------------------------------
(* The orders of the two passes; the last resort is the index.             *)
Precedes(a, b) ==
  \E k \in DOMAIN a : a[k] > b[k] /\ \A l \in 1..(k - 1) : a[l] = b[l]
Unevenness == [i \in rest |-> <<Diff(columns[i]), MaxVal(columns[i]), -i>>]
Length == [i \in rest |-> <<Avg(columns[i]), colWidths[i], -i>>]
First(key) == CHOOSE i \in rest : \A j \in rest \ {i} : Precedes(key[i], key[j])

(* Mutated form: the minimum of the specification is forgotten.            *)
TrimTargetAverage(c) == Larger(1, Avg(c))
(* Mutated form: the average is no limit.                                  *)
TrimTargetMin(c) == Larger(1, c.min)
TrimTarget(c) == Larger(1, Larger(Avg(c), c.min))
ShrinkTarget(c) ==
  IF c.min > 0 /\ totalMinWidth <= maxWidth THEN c.min ELSE 1

(* What is taken of a column: what it can give and is still needed.        *)
Cut(i, target) ==
  [colWidths EXCEPT ![i] = @ - Larger(0, Smaller(@ - target, Overflow))]

-----------------------------------------------------------------------------
(* Measuring the table.  A width that is not positive is no limit.         *)
Init ==
  /\ columns \in UNION {[1..n -> Columns] : n \in Counts}
  /\ maxWidth \in MaxWidths
  /\ colWidths = [i \in DOMAIN columns |-> Natural(columns[i])]
  /\ pass = IF maxWidth <= 0 \/ Overflow <= 0 THEN "done" ELSE "trim"
  /\ rest = DOMAIN columns

Trim ==
  /\ pass = "trim" /\ rest # {} /\ Overflow > 0
  /\ LET i == First(Unevenness) IN
       /\ rest' = rest \ {i}
       /\ colWidths' = IF Diff(columns[i]) = 0 THEN colWidths
                       ELSE Cut(i, TrimTarget(columns[i]))
  /\ UNCHANGED <<columns, maxWidth, pass>>

EndTrim ==
  /\ pass = "trim" /\ (rest = {} \/ Overflow <= 0)
  /\ pass' = "shrink" /\ rest' = DOMAIN columns
  /\ UNCHANGED <<columns, maxWidth, colWidths>>

Shrink ==
  /\ pass = "shrink" /\ rest # {} /\ Overflow > 0
  /\ LET i == First(Length) IN
       /\ rest' = rest \ {i}
       /\ colWidths' = Cut(i, ShrinkTarget(columns[i]))
  /\ UNCHANGED <<columns, maxWidth, pass>>

EndShrink ==
  /\ pass = "shrink" /\ (rest = {} \/ Overflow <= 0)
  /\ pass' = "done"
  /\ UNCHANGED <<columns, maxWidth, rest, colWidths>>

Next == Trim \/ EndTrim \/ Shrink \/ EndShrink
Spec == Init /\ [][Next]_vars /\ WF_vars(Next)

-----------------------------------------------------------------------------
TooWide == Total([i \in DOMAIN columns |-> Natural(columns[i])]) > maxWidth
(* A table that fits keeps its natural widths.  Any other fills the pane   *)
(* exactly, with every column at its minimum or more, if the minimums fit; *)
(* otherwise it fills the pane, or its columns are down to one character,  *)
(* with nothing cut that was not in the way (fitColumnWidths).             *)
Fitted ==
  pass = "done" =>
    \/ /\ maxWidth <= 0 \/ ~TooWide
       /\ colWidths = [i \in DOMAIN columns |-> Natural(columns[i])]
    \/ /\ maxWidth > 0 /\ TooWide
       /\ \/ Overflow = 0
          \/ Overflow > 0 /\ totalMinWidth > maxWidth
             /\ \A i \in DOMAIN columns : colWidths[i] <= 1
       /\ totalMinWidth <= maxWidth =>
            \A i \in DOMAIN columns :
              colWidths[i] >= Smaller(columns[i].min, Natural(columns[i]))

(* Outliers go first: no column is cut below the average of its cells      *)
(* while another still has more than its own (the trimming pass).          *)
OutliersGoFirst ==
  LET enough(c) == Larger(1, Larger(Avg(c), c.min)) IN
  (\E i \in DOMAIN columns :
     colWidths[i] < Smaller(Natural(columns[i]), enough(columns[i])))
  => \A j \in DOMAIN columns :
       Diff(columns[j]) > 0 => colWidths[j] <= enough(columns[j])
=============================================================================
