------------------------------ MODULE PanesProofs ------------------------------
(***************************************************************************)
(* Proofs about Panes.  A refresh puts the window of the top pane where    *)
(* the selection is, whatever model it starts from; so the invariant asks  *)
(* of every key only that it hands over a well-typed model whose modes are *)
(* those chosen by hand.  Keys that do not draw the top pane leave its     *)
(* rows and its window alone.  The bottom window follows the cursor at the *)
(* end of every key, and a refresh after that moves the cursor only if the *)
(* number of rows has changed.                                             *)
(***************************************************************************)
EXTENDS Panes, TLAPS

(* SelectionIsVisible of any model.                                        *)

SelectionShown(s) ==
  LET in(row) == row \in s.topViewport..(s.topViewport + s.topVisible - 1) IN
  /\ s.topVisible > 0 => in(s.topRows.at)
  /\ s.topVisible > 1 /\ s.topRows.picked # -1 =>
       /\ s.topRows.picked - s.topRows.at \in 1..s.topRows.shown
       /\ in(s.topRows.picked)

(* A clamped value, with and without room for it.                          *)
LEMMA ClampIs ==
  ASSUME NEW x \in Int, NEW lo \in Int, NEW hi \in Int
  PROVE  /\ clamp(x, lo, hi) \in Int /\ lo <= clamp(x, lo, hi)
         /\ lo <= hi => clamp(x, lo, hi) <= hi
         /\ lo <= x /\ x <= hi => clamp(x, lo, hi) = x
         /\ hi < lo \/ x < lo => clamp(x, lo, hi) = lo
         /\ lo <= hi /\ x > hi => clamp(x, lo, hi) = hi
BY DEF clamp, Least

(* The panes have a number of visible rows.                                *)
LEMMA Visible ==
  ASSUME NEW s, s.height \in Nat, s.percent \in Int
  PROVE  VisibleTop(s) \in Nat /\ VisibleBottom(s) \in Int
BY DEF VisibleTop, VisibleBottom, TopHeight, Most, Least, clamp

(* The window is where the current item and the children shown are.        *)
LEMMA FitsIs ==
  ASSUME NEW t, t.topVisible \in Nat, t.topRows.count \in Nat, NEW v \in Int
  PROVE  /\ Fits(t, v) \in Nat
         /\ t.topRows.count <= t.topVisible => Fits(t, v) = 0
         /\ t.topRows.count > t.topVisible => Fits(t, v) <= t.topRows.count - t.topVisible
         /\ v \in 0..(t.topRows.count - t.topVisible) => Fits(t, v) = v
         /\ v <= 0 => Fits(t, v) = 0
         /\ v > t.topRows.count - t.topVisible /\ t.topRows.count > t.topVisible =>
              Fits(t, v) = t.topRows.count - t.topVisible
BY DEF Fits, clamp, Least, Most

(* The window is where the current item and the children shown are.        *)
LEMMA WindowForChildren ==
  ASSUME NEW t, t.topVisible \in Nat, t.topVisible > 0, t.topViewport \in Nat,
         NEW n \in Nat, NEW shown \in Nat, shown > 0, NEW row \in Nat, row < n,
         t.topRows.at = row, t.topRows.shown = shown, t.topRows.count = n + shown,
         NEW total \in Nat, total = Children(t), shown = ChildrenShown(total, t.topVisible)
  PROVE  /\ Adjusted(t) \in Nat /\ Adjusted(t) <= row
         /\ row < Adjusted(t) + t.topVisible
         /\ t.topVisible > 1 => row + shown < Adjusted(t) + t.topVisible
<1> DEFINE v == Fits(t, t.topViewport)
           w == AdjustedForChildren(t, v)
<1>1. v \in Nat /\ (n + shown <= t.topVisible => v = 0)
      /\ (n + shown > t.topVisible => v <= n + shown - t.topVisible)
  BY FitsIs
<1>2. Adjusted(t) = Fits(t, w)
  BY DEF Adjusted
<1>3. w = IF total > t.topVisible - 1 THEN row
          ELSE IF row \in v..(v + t.topVisible - 1 - shown) THEN v
          ELSE row - Most(0, t.topVisible - shown - 1)
  BY DEF AdjustedForChildren
<1> HIDE DEF v, w
<1>4. CASE total > t.topVisible - 1
  <2>1. w = row /\ n + shown >= n + t.topVisible - 1
    BY <1>3, <1>4 DEF ChildrenShown, Least
  <2>2. Fits(t, w) = row
    <3>1. row \in 0..(n + shown - t.topVisible)
      BY <2>1
    <3> QED BY <2>1, <3>1, FitsIs
  <2>3. t.topVisible > 1 => shown = t.topVisible - 1
    BY <1>4 DEF ChildrenShown, Least
  <2> QED BY <1>2, <2>2, <2>3
<1>5. CASE total <= t.topVisible - 1 /\ row \in v..(v + t.topVisible - 1 - shown)
  <2>1. w = v
    BY <1>3, <1>5
  <2>2. Fits(t, w) = v
    BY <1>1, <2>1, FitsIs
  <2> QED BY <1>1, <1>2, <1>5, <2>2
<1>6. CASE total <= t.topVisible - 1 /\ row \notin v..(v + t.topVisible - 1 - shown)
  <2>1. shown = total /\ shown < t.topVisible
    BY <1>6 DEF ChildrenShown, Least
  <2>2. w = row - (t.topVisible - shown - 1)
    BY <1>3, <1>6, <2>1 DEF Most
  <2>3. CASE w <= 0
    <3>1. Fits(t, w) = 0
      BY <2>2, <2>3, FitsIs
    <3> QED BY <1>2, <2>1, <2>2, <2>3, <3>1
  <2>4. CASE w > 0
    <3>1. w \in 0..(n + shown - t.topVisible)
      BY <2>1, <2>2, <2>4
    <3>2. Fits(t, w) = w
      BY <2>2, <3>1, FitsIs
    <3> QED BY <1>2, <2>1, <2>2, <2>4, <3>2
  <2> QED BY <2>2, <2>3, <2>4
<1> QED BY <1>4, <1>5, <1>6

LEMMA WindowForRow ==
  ASSUME NEW t, t.topVisible \in Nat, t.topVisible > 0, t.topViewport \in Nat,
         NEW n \in Nat, NEW row \in Nat, row < n,
         t.topRows.at = row, t.topRows.shown = 0, t.topRows.count = n
  PROVE  /\ Adjusted(t) \in Nat /\ Adjusted(t) <= row
         /\ row < Adjusted(t) + t.topVisible
<1> DEFINE v == Fits(t, t.topViewport)
           w == AdjustedForRow(t, v)
<1>1. v \in Nat /\ (n <= t.topVisible => v = 0)
      /\ (n > t.topVisible => v <= n - t.topVisible)
  BY FitsIs
<1>2. Adjusted(t) = Fits(t, w)
  BY DEF Adjusted
<1>3. w = IF row < v THEN row ELSE Most(v, row - t.topVisible + 1)
  BY DEF AdjustedForRow
<1> HIDE DEF v, w
<1>4. w \in Nat /\ w <= row /\ row < w + t.topVisible
  BY <1>1, <1>3 DEF Most
<1>5. (n <= t.topVisible => w = 0) /\ (n > t.topVisible => w <= n - t.topVisible)
  BY <1>1, <1>3 DEF Most
<1>6. Fits(t, w) = w
  BY <1>4, <1>5, FitsIs
<1> QED BY <1>2, <1>4, <1>6

(* The child a filter picks is among those shown.                          *)
LEMMA PickedIsShown ==
  ASSUME NEW total \in Nat, NEW filter \in 0..(total - 1), NEW visible \in Nat, visible > 1
  PROVE  filter - ChildStart(total, filter, visible) \in 0..(ChildrenShown(total, visible) - 1)
BY DEF ChildStart, ChildrenShown, Most, Least, clamp

(* What a refresh reads changes neither the modes nor the layout.          *)
LEMMA ReadIs ==
  ASSUME NEW s \in Models, NEW items \in Seq(Nat), NEW rows \in Nat
  PROVE  LET u == Read(s, items, rows) IN
         /\ u \in Models /\ u.rows = rows /\ u.botCursor \in 0..Most(0, rows - 1)
         /\ u.botMode = s.botMode /\ u.topMode = s.topMode
         /\ u.saved = s.saved /\ u.help = s.help /\ u.dirty = s.dirty
         /\ u.topRows = s.topRows /\ u.topVisible = s.topVisible
         /\ u.topViewport = s.topViewport
         /\ u.height = s.height /\ u.percent = s.percent
         /\ u.botViewport = s.botViewport
         /\ rows = s.rows /\ s.botCursor \in 0..Most(0, s.rows - 1) =>
              u.botCursor = s.botCursor
<1> DEFINE u == Read(s, items, rows)
<1>1. ItemsFor(s.topMode, items) \in Seq(Nat)
  <2>1. [i \in DOMAIN items |-> 0] \in Seq(Nat)
    OBVIOUS
  <2> QED BY <2>1 DEF ItemsFor
<1>2. clamp(s.botCursor, 0, rows - 1) \in 0..Most(0, rows - 1)
  BY DEF Models, clamp, Least, Most
<1>3. u = [s EXCEPT !.items = ItemsFor(s.topMode, items), !.rows = rows,
                    !.botCursor = clamp(s.botCursor, 0, rows - 1)]
  BY DEF Read
<1>4. clamp(s.botCursor, 0, rows - 1) \in Int
  BY <1>2 DEF Most
<1>5. rows = s.rows /\ s.botCursor \in 0..Most(0, s.rows - 1) =>
        clamp(s.botCursor, 0, rows - 1) = s.botCursor
  BY DEF clamp, Least, Most
<1> QED BY <1>1, <1>2, <1>3, <1>4, <1>5 DEF Models

(* The current item is one of the list.                                    *)
LEMMA CurrentIs ==
  ASSUME NEW s \in Models
  PROVE  /\ Current(s) \in Nat /\ Children(s) \in Nat
         /\ s.items # <<>> => Current(s) < Len(s.items)
         /\ s.items = <<>> => Current(s) = 0 /\ Children(s) = 0
<1>1. s.items \in Seq(Nat) /\ s.cursor[s.topMode] \in Nat
  BY DEF Models
<1>2. Len(s.items) \in Nat /\ (s.items # <<>> => Len(s.items) > 0)
      /\ (s.items = <<>> => Len(s.items) = 0)
  BY <1>1
<1>3. /\ Current(s) \in Nat
      /\ s.items # <<>> => Current(s) < Len(s.items)
      /\ s.items = <<>> => Current(s) = 0
  BY <1>1, <1>2 DEF Current, clamp, Least
<1>4. s.items # <<>> => s.items[Current(s) + 1] \in Nat
  BY <1>1, <1>2, <1>3
<1> QED BY <1>3, <1>4 DEF Children

(* What the top pane shows after a refresh, whatever was read.             *)
LEMMA LaidIs ==
  ASSUME NEW s \in Models, NEW u, u = Laid(s)
  PROVE  /\ u \in Models /\ u.topVisible = VisibleTop(s)
         /\ u = [s EXCEPT !.topVisible = u.topVisible, !.topRows = u.topRows]
         /\ u.topRows = TopRows(s, VisibleTop(s))
<1>1. VisibleTop(s) \in Nat
  <2>1. s.height \in Nat /\ s.percent \in Int
    BY PercentAssumption DEF Models
  <2> QED BY <2>1, Visible
<1>2. ChildrenShown(Children(s), VisibleTop(s)) \in Nat
  BY <1>1, CurrentIs DEF ChildrenShown, Least
<1>3. ChildStart(Children(s), Filter(s), VisibleTop(s)) \in Int /\ Filter(s) \in Int
  <2>1. Filter(s) \in Int
    BY DEF Filter, Models, TopModes
  <2> QED BY <1>1, <2>1, CurrentIs DEF ChildStart, Most, Least, clamp
<1>4. TopRows(s, VisibleTop(s)) \in [count : Nat, at : Nat, shown : Nat, picked : Int]
  <2>1. Len(s.items) \in Nat
    BY DEF Models
  <2> QED BY <1>2, <1>3, <2>1, CurrentIs DEF TopRows
<1>5. u = [s EXCEPT !.topVisible = VisibleTop(s), !.topRows = TopRows(s, VisibleTop(s))]
  BY DEF Laid
<1> QED BY <1>1, <1>4, <1>5 DEF Models

(* What a refresh makes of a model, whatever it reads: the window of the   *)
(* top pane is where the selection is.                                     *)
LEMMA RefreshIs ==
  ASSUME NEW s \in Models, NEW items \in Seq(Nat), NEW rows \in Nat,
         NEW u, u = refreshTopAndBottom(s, items, rows)
  PROVE  /\ u \in Models /\ SelectionShown(u) /\ u.topVisible = VisibleTop(u)
         /\ u.botCursor \in 0..Most(0, u.rows - 1)
         /\ u.topRows.at \in 0..Most(0, u.topRows.count - 1)
         /\ u.botMode = s.botMode /\ u.topMode = s.topMode
         /\ u.saved = s.saved /\ u.help = s.help /\ u.dirty = s.dirty
         /\ u.rows = rows /\ u.botViewport = s.botViewport
         /\ u.height = s.height /\ u.percent = s.percent
         /\ rows = s.rows /\ s.botCursor \in 0..Most(0, s.rows - 1) =>
              u.botCursor = s.botCursor
<1> DEFINE r == Read(s, items, rows)
           t == Laid(r)
           n == Len(t.items)
           total == Children(t)
           visible == t.topVisible
<1>1. /\ r \in Models /\ r.rows = rows /\ r.botCursor \in 0..Most(0, rows - 1)
      /\ r.botMode = s.botMode /\ r.topMode = s.topMode
      /\ r.saved = s.saved /\ r.help = s.help /\ r.dirty = s.dirty
      /\ r.botViewport = s.botViewport
      /\ r.height = s.height /\ r.percent = s.percent
      /\ rows = s.rows /\ s.botCursor \in 0..Most(0, s.rows - 1) =>
           r.botCursor = s.botCursor
  BY ReadIs
<1> HIDE DEF r
<1>2. /\ t \in Models /\ t.topVisible = VisibleTop(r)
      /\ t = [r EXCEPT !.topVisible = t.topVisible, !.topRows = t.topRows]
      /\ t.topRows = TopRows(r, VisibleTop(r))
  BY <1>1, LaidIs
<1> HIDE DEF t
<1>3. /\ t.items = r.items /\ t.cursor = r.cursor /\ t.topMode = r.topMode
      /\ t.filter = r.filter /\ t.height = r.height /\ t.percent = r.percent
      /\ t.rows = r.rows /\ t.botCursor = r.botCursor
  BY <1>1, <1>2 DEF Models
<1>4. t.topRows = TopRows(t, visible)
  BY <1>2, <1>3 DEF TopRows, Children, Current, Filter
<1>5. n \in Nat /\ visible \in Nat /\ t.topViewport \in Nat
  BY <1>2 DEF Models
<1>6. /\ Current(t) \in Nat /\ total \in Nat
      /\ n > 0 => Current(t) < n
      /\ n = 0 => Current(t) = 0 /\ total = 0
  <2>1. t.items \in Seq(Nat)
    BY <1>2 DEF Models
  <2>2. n > 0 => t.items # <<>>
    BY <2>1
  <2>3. n = 0 => t.items = <<>>
    BY <2>1
  <2> QED BY <1>2, <2>2, <2>3, CurrentIs
<1>7. Filter(t) \in Int
  <2>1. t \in Models
    BY <1>2
  <2>2. t.topMode \in TopModes /\ t.filter \in [{"bridge", "vrf"} -> Nat \cup {-1}]
    BY <2>1 DEF Models
  <2> QED BY <2>2 DEF Filter, TopModes
<1> DEFINE shown == ChildrenShown(total, visible)
           row == Current(t)
<1>8. /\ t.topRows.count = n + shown /\ t.topRows.at = row /\ t.topRows.shown = shown
      /\ t.topRows.picked =
           IF Filter(t) \in 0..(total - 1)
             THEN row + 1 + (Filter(t) - ChildStart(total, Filter(t), visible)) ELSE -1
  BY <1>4 DEF TopRows
<1>9. shown \in Nat /\ (total = 0 => shown = 0)
      /\ (total > 0 => shown > 0)
  BY <1>5, <1>6 DEF ChildrenShown, Least
<1>10. visible > 1 /\ t.topRows.picked # -1 =>
         total > 0 /\ t.topRows.picked - row \in 1..shown
  <2> SUFFICES ASSUME visible > 1, t.topRows.picked # -1
               PROVE  total > 0 /\ t.topRows.picked - row \in 1..shown
    OBVIOUS
  <2>1. Filter(t) \in 0..(total - 1)
    BY <1>8
  <2>2. Filter(t) - ChildStart(total, Filter(t), visible) \in 0..(shown - 1)
    BY <1>5, <1>6, <2>1, PickedIsShown
  <2> DEFINE index == Filter(t) - ChildStart(total, Filter(t), visible)
  <2>3. t.topRows.picked = row + 1 + index
    BY <1>8, <2>1
  <2> HIDE DEF index
  <2>4. index \in 0..(shown - 1)
    BY <2>2 DEF index
  <2> QED BY <1>6, <1>9, <2>1, <2>3, <2>4
<1> DEFINE v == Adjusted(t)
<1> HIDE DEF shown, row
<1>11. v \in Nat /\ (visible > 0 => v <= row /\ row < v + visible)
       /\ (visible > 1 => row + shown < v + visible)
  <2>1. CASE visible = 0
    BY <1>5, <2>1 DEF Adjusted
  <2>2. CASE visible > 0 /\ n = 0
    <3>1. t.topRows.count = 0 /\ row = 0 /\ shown = 0
      BY <1>6, <1>8, <1>9, <2>2 DEF row
    <3>2. v = 0
      BY <2>2, <3>1 DEF Adjusted
    <3> QED BY <1>5, <2>2, <3>1, <3>2
  <2>3. CASE visible > 0 /\ n > 0 /\ total > 0
    <3>1. row \in Nat /\ row < n
      BY <1>6, <2>3 DEF row
    <3>2. shown \in Nat /\ shown > 0 /\ shown = ChildrenShown(total, visible)
      BY <1>9, <2>3 DEF shown
    <3> HIDE DEF v
    <3> QED BY <1>5, <1>6, <1>8, <2>3, <3>1, <3>2, WindowForChildren DEF v
  <2>4. CASE visible > 0 /\ n > 0 /\ total = 0
    <3>1. row \in Nat /\ row < n
      BY <1>6, <2>4 DEF row
    <3>2. shown = 0
      BY <1>9, <2>4
    <3>3. t.topRows.count = n
      BY <1>5, <1>8, <3>2
    <3> HIDE DEF v
    <3> QED BY <1>5, <1>8, <2>4, <3>1, <3>2, <3>3, WindowForRow DEF v
  <2> QED BY <1>5, <1>6, <2>1, <2>2, <2>3, <2>4
<1> HIDE DEF v
<1>12. u = [t EXCEPT !.topViewport = v]
  BY DEF refreshTopAndBottom, v, t, r
<1>13. u \in Models
  BY <1>2, <1>11, <1>12 DEF Models
<1>14. /\ u.topViewport = v /\ u.topVisible = t.topVisible /\ u.topRows = t.topRows
       /\ u.height = t.height /\ u.percent = t.percent /\ u.rows = t.rows
       /\ u.botCursor = t.botCursor /\ u.botMode = t.botMode /\ u.topMode = t.topMode
       /\ u.saved = t.saved /\ u.help = t.help /\ u.dirty = t.dirty
       /\ u.botViewport = t.botViewport
  BY <1>2, <1>12 DEF Models
<1>15. u.topVisible = VisibleTop(u)
  BY <1>2, <1>3, <1>14 DEF VisibleTop, TopHeight
<1>16. u.botCursor \in 0..Most(0, u.rows - 1)
  BY <1>1, <1>3, <1>14
<1>17. u.topRows.at \in 0..Most(0, u.topRows.count - 1)
  <2>1. row \in Nat /\ (n > 0 => row < n) /\ (n = 0 => row = 0)
    BY <1>6 DEF row
  <2>2. u.topRows.at = row /\ u.topRows.count = n + shown
    BY <1>8, <1>14
  <2> QED BY <1>5, <1>9, <2>1, <2>2 DEF Most
<1>18. SelectionShown(u)
  <2>1. row \in Nat
    BY <1>6 DEF row
  <2>2. /\ u.topRows.at = row /\ u.topRows.shown = shown /\ u.topVisible = visible
        /\ u.topRows.picked = t.topRows.picked
    BY <1>8, <1>14
  <2>3. visible > 0 => row \in v..(v + visible - 1)
    BY <1>5, <1>11, <2>1
  <2>4. t.topRows.picked \in Int
    BY <1>2 DEF Models
  <2>5. visible > 1 /\ t.topRows.picked # -1 =>
          /\ t.topRows.picked - row \in 1..shown
          /\ t.topRows.picked \in v..(v + visible - 1)
    <3> SUFFICES ASSUME visible > 1, t.topRows.picked # -1
                 PROVE  /\ t.topRows.picked - row \in 1..shown
                        /\ t.topRows.picked \in v..(v + visible - 1)
      OBVIOUS
    <3>1. t.topRows.picked - row \in 1..shown
      BY <1>10 DEF row
    <3> DEFINE picked == t.topRows.picked
    <3>2. picked \in Int /\ picked - row \in 1..shown
      BY <2>4, <3>1
    <3> HIDE DEF picked
    <3>3. picked \in v..(v + visible - 1)
      BY <1>5, <1>9, <1>11, <2>1, <3>2
    <3> QED BY <3>1, <3>3 DEF picked
  <2> QED BY <1>14, <2>2, <2>3, <2>5 DEF SelectionShown
<1>19. /\ u.botMode = s.botMode /\ u.topMode = s.topMode
       /\ u.saved = s.saved /\ u.help = s.help /\ u.dirty = s.dirty
       /\ u.rows = rows /\ u.botViewport = s.botViewport
       /\ u.height = s.height /\ u.percent = s.percent
       /\ rows = s.rows /\ s.botCursor \in 0..Most(0, s.rows - 1) =>
            u.botCursor = s.botCursor
  <2>2. /\ t.botMode = r.botMode /\ t.topMode = r.topMode
        /\ t.saved = r.saved /\ t.help = r.help /\ t.dirty = r.dirty
        /\ t.botViewport = r.botViewport
    BY <1>1, <1>2 DEF Models
  <2> QED BY <1>1, <1>3, <1>14, <2>2
<1> QED BY <1>13, <1>15, <1>16, <1>17, <1>18, <1>19

-----------------------------------------------------------------------------
(* The inductive invariant: the panes of a model fit each other, and its   *)
(* modes are those chosen by hand.                                         *)
AtAndCursor(s) ==
  /\ s.botCursor \in 0..Most(0, s.rows - 1)
  /\ s.topRows.at \in 0..Most(0, s.topRows.count - 1)
IsLaid(s) == s.topVisible = VisibleTop(s) \/ (s.help /\ s.dirty)
Modes(s, c) ==
  /\ c \in [TopModes -> BottomModes]
  /\ s.saved = c /\ s.botMode = c[s.topMode]
  /\ \A top \in TopModes : c[top] \in Allowed(top)
Good(s, c) ==
  s \in Models /\ AtAndCursor(s) /\ SelectionShown(s) /\ IsLaid(s) /\ Modes(s, c)
CursorShown(s, visible) ==
  visible > 0 => s.botCursor \in s.botViewport..(s.botViewport + visible - 1)
(* What the layout of the panes depends on, and the flags for the help.    *)
SameTop(s, u) ==
  /\ u.topRows = s.topRows /\ u.topVisible = s.topVisible
  /\ u.topViewport = s.topViewport
  /\ u.height = s.height /\ u.percent = s.percent
  /\ u.help = s.help /\ u.dirty = s.dirty

(* How much is visible depends on the size alone.                          *)
LEMMA VisibleSame ==
  ASSUME NEW s, NEW u, u.height = s.height, u.percent = s.percent
  PROVE  VisibleTop(u) = VisibleTop(s) /\ VisibleBottom(u) = VisibleBottom(s)
BY DEF VisibleTop, VisibleBottom, TopHeight

(* The same of a well-typed model.                                         *)
LEMMA VisibleTypes ==
  ASSUME NEW s \in Models
  PROVE  VisibleTop(s) \in Nat /\ VisibleBottom(s) \in Int
<1>1. s.height \in Nat /\ s.percent \in Int
  BY PercentAssumption DEF Models
<1> QED BY <1>1, Visible

(* The bottom window follows the cursor.                                   *)
LEMMA FollowsIs ==
  ASSUME NEW s \in Models, NEW visible \in Int
  PROVE  LET u == BottomFollows(s, visible) IN
         /\ u \in Models /\ SameTop(s, u) /\ CursorShown(u, visible)
         /\ u.botCursor \in 0..Most(0, u.rows - 1) /\ u.rows = s.rows
         /\ u.topMode = s.topMode /\ u.botMode = s.botMode /\ u.saved = s.saved
<1> DEFINE cursor == clamp(s.botCursor, 0, s.rows - 1)
           view == IF cursor < s.botViewport THEN cursor
                   ELSE IF cursor >= s.botViewport + visible
                     THEN Most(0, cursor - visible + 1)
                   ELSE s.botViewport
           u == BottomFollows(s, visible)
<1>1. s.botCursor \in Int /\ s.rows \in Nat /\ s.botViewport \in Nat
  BY DEF Models
<1>2. cursor \in 0..Most(0, s.rows - 1) /\ cursor \in Nat
  BY <1>1 DEF clamp, Least, Most
<1>3. u = [s EXCEPT !.botCursor = cursor, !.botViewport = view]
  BY DEF BottomFollows
<1> HIDE DEF cursor
<1>4. view \in Nat /\ (visible > 0 => cursor \in view..(view + visible - 1))
  BY <1>1, <1>2 DEF Most
<1> HIDE DEF view, u
<1>5. u \in Models /\ u.botCursor = cursor /\ u.botViewport = view
  <2>1. u \in Models
    <3>1. cursor \in Int /\ view \in Nat
      BY <1>2, <1>4
    <3> QED BY <1>3, <3>1 DEF Models
  <2>2. u.botCursor = cursor /\ u.botViewport = view
    BY <1>3 DEF Models
  <2> QED BY <2>1, <2>2
<1>6. /\ SameTop(s, u) /\ u.rows = s.rows
      /\ u.topMode = s.topMode /\ u.botMode = s.botMode /\ u.saved = s.saved
  BY <1>3 DEF Models, SameTop
<1> QED BY <1>2, <1>4, <1>5, <1>6 DEF u, CursorShown

(* Remembering what was chosen changes nothing.                            *)
LEMMA RememberedIs ==
  ASSUME NEW s \in Models, NEW c, Modes(s, c)
  PROVE  Remembered(s) = s
<1>1. s.topMode \in TopModes /\ c \in [TopModes -> BottomModes]
  BY DEF Models, Modes
<1>2. s.saved = c /\ s.botMode = c[s.topMode]
  BY DEF Modes
<1>3. [c EXCEPT ![s.topMode] = s.botMode] = c
  BY <1>1, <1>2
<1>4. [s EXCEPT !.saved = c] = s
  BY <1>2 DEF Models
<1>5. [s EXCEPT !.saved[s.topMode] = s.botMode] = [s EXCEPT !.saved = c]
  BY <1>2, <1>3
<1> QED BY <1>4, <1>5 DEF Remembered

(* A newly chosen mode is remembered.                                      *)
LEMMA RememberedAs ==
  ASSUME NEW s \in Models, NEW c, NEW mode \in Allowed(s.topMode),
         c \in [TopModes -> BottomModes], s.saved = c, s.botMode = mode,
         \A top \in TopModes : c[top] \in Allowed(top)
  PROVE  LET u == Remembered(s) IN
         /\ u \in Models /\ SameTop(s, u) /\ Modes(u, [c EXCEPT ![s.topMode] = mode])
         /\ u.botCursor = s.botCursor /\ u.botViewport = s.botViewport
         /\ u.rows = s.rows
<1> DEFINE u == Remembered(s)
           d == [c EXCEPT ![s.topMode] = mode]
<1>1. s.topMode \in TopModes /\ s.botMode \in BottomModes
  BY DEF Models
<1>2. u = [s EXCEPT !.saved = d]
  BY DEF Remembered
<1>3. d \in [TopModes -> BottomModes] /\ d[s.topMode] = mode
      /\ \A top \in TopModes : d[top] \in Allowed(top)
  BY <1>1
<1> HIDE DEF u, d
<1>4. u \in Models /\ u.saved = d /\ u.topMode = s.topMode /\ u.botMode = s.botMode
  BY <1>2, <1>3 DEF Models
<1>5. SameTop(s, u) /\ u.botCursor = s.botCursor /\ u.botViewport = s.botViewport
      /\ u.rows = s.rows
  BY <1>2 DEF Models, SameTop
<1> QED BY <1>3, <1>4, <1>5 DEF Modes, u, d

(* The modes of a model are all that Modes looks at.                       *)
LEMMA SameModes ==
  ASSUME NEW s, NEW u, NEW c, Modes(s, c),
         u.topMode = s.topMode, u.botMode = s.botMode, u.saved = s.saved
  PROVE  Modes(u, c)
BY DEF Modes

(* The two panes are drawn.                                                *)
LEMMA RefreshedIs ==
  ASSUME NEW s \in Models, NEW c, Modes(s, c),
         NEW items \in Seq(Nat), NEW rows \in Nat
  PROVE  Good(refreshTopAndBottom(s, items, rows), c)
<1> DEFINE u == refreshTopAndBottom(s, items, rows)
<1>1. /\ u \in Models /\ SelectionShown(u) /\ u.topVisible = VisibleTop(u)
      /\ u.botCursor \in 0..Most(0, u.rows - 1)
      /\ u.topRows.at \in 0..Most(0, u.topRows.count - 1)
      /\ u.botMode = s.botMode /\ u.topMode = s.topMode /\ u.saved = s.saved
  BY RefreshIs
<1> HIDE DEF u
<1>2. Modes(u, c)
  BY <1>1 DEF Modes
<1>3. Good(u, c)
  BY <1>1, <1>2 DEF Good, AtAndCursor, IsLaid
<1> QED BY <1>3 DEF u

(* A key that ends with both panes drawn.                                  *)
LEMMA EndTopIs ==
  ASSUME NEW s \in Models, NEW c, Modes(s, c), NEW visible \in Int,
         NEW items \in Seq(Nat), NEW rows \in Nat,
         NEW u, u = refreshTopAndBottom(Remembered(BottomFollows(s, visible)), items, rows)
  PROVE  /\ Good(u, c)
         /\ u.rows = s.rows => CursorShown(u, visible)
<1> DEFINE t == BottomFollows(s, visible)
<1>1. /\ t \in Models /\ CursorShown(t, visible)
      /\ t.botCursor \in 0..Most(0, t.rows - 1) /\ t.rows = s.rows
      /\ t.topMode = s.topMode /\ t.botMode = s.botMode /\ t.saved = s.saved
  BY FollowsIs
<1> HIDE DEF t
<1>2. Modes(t, c)
  BY <1>1 DEF Modes
<1>3. Remembered(t) = t
  BY <1>1, <1>2, RememberedIs
<1>4. u = refreshTopAndBottom(t, items, rows)
  BY <1>3 DEF t
<1>5. Good(u, c)
  BY <1>1, <1>2, <1>4, RefreshedIs
<1>6. /\ u.rows = rows /\ u.botViewport = t.botViewport
      /\ rows = t.rows /\ t.botCursor \in 0..Most(0, t.rows - 1) =>
           u.botCursor = t.botCursor
  <2> DEFINE w == refreshTopAndBottom(t, items, rows)
  <2>1. /\ w.rows = rows /\ w.botViewport = t.botViewport
        /\ rows = t.rows /\ t.botCursor \in 0..Most(0, t.rows - 1) =>
             w.botCursor = t.botCursor
    BY <1>1, RefreshIs
  <2> QED BY <1>4, <2>1
<1>7. u.rows = s.rows => CursorShown(u, visible)
  BY <1>1, <1>6 DEF CursorShown
<1> QED BY <1>5, <1>7

(* A key that ends with neither drawn again.                               *)
LEMMA EndBottomIs ==
  ASSUME NEW s \in Models, NEW c, Modes(s, c), NEW visible \in Int,
         NEW old, Good(old, c), SameTop(old, s)
  PROVE  LET u == Remembered(BottomFollows(s, visible)) IN
         Good(u, c) /\ CursorShown(u, visible)
<1> DEFINE t == BottomFollows(s, visible)
<1>1. /\ t \in Models /\ CursorShown(t, visible) /\ SameTop(s, t)
      /\ t.botCursor \in 0..Most(0, t.rows - 1) /\ t.rows = s.rows
      /\ t.topMode = s.topMode /\ t.botMode = s.botMode /\ t.saved = s.saved
  BY FollowsIs
<1> HIDE DEF t
<1>2. Modes(t, c)
  BY <1>1 DEF Modes
<1>3. Remembered(t) = t
  BY <1>1, <1>2, RememberedIs
<1>4. VisibleTop(t) = VisibleTop(old)
  BY <1>1, VisibleSame DEF SameTop
<1>5. Good(t, c)
  BY <1>1, <1>2, <1>4 DEF Good, AtAndCursor, SelectionShown, IsLaid, SameTop
<1> QED BY <1>1, <1>3, <1>5 DEF t

-----------------------------------------------------------------------------
(* What the keys change before the panes are drawn: the modes stay what    *)
(* was chosen, and the layout stays.                                       *)
Changed(s, u, c) == u \in Models /\ SameTop(s, u) /\ Modes(u, c) /\ u.rows = s.rows

(* Turning through a short list stays in it.                               *)
LEMMA RotatedIs ==
  ASSUME NEW seq, NEW n \in {1, 2, 3}, Len(seq) = n, DOMAIN seq = 1..n,
         NEW x, \E i \in 1..n : seq[i] = x, NEW delta \in {-1, 1}
  PROVE  \E i \in 1..n : Rotated(seq, x, delta) = seq[i]
<1>1. IndexOf(seq, x) \in 1..n
  BY DEF IndexOf
<1> DEFINE k == IndexOf(seq, x)
<1> HIDE DEF k
<1>2. ((k - 1 + delta) % n) + 1 \in 1..n
  <2>1. k \in 1..n
    BY <1>1 DEF k
  <2>2. CASE n = 1
    BY <2>1, <2>2
  <2>3. CASE n = 2
    BY <2>1, <2>3
  <2>4. CASE n = 3
    BY <2>1, <2>4
  <2> QED BY <2>2, <2>3, <2>4
<1> QED BY <1>2 DEF Rotated, k

(* So the top mode stays a mode,                                           *)
LEMMA RotatedTop ==
  ASSUME NEW top \in TopModes, NEW delta \in {-1, 1}
  PROVE  Rotated(Cycle, top, delta) \in TopModes
<1>1. Len(Cycle) = 3 /\ DOMAIN Cycle = 1..3
  BY DEF Cycle
<1>2. \A i \in 1..3 : Cycle[i] \in TopModes
  BY DEF Cycle, TopModes
<1>3. \E i \in 1..3 : Cycle[i] = top
  BY DEF Cycle, TopModes
<1>4. \E i \in 1..3 : Rotated(Cycle, top, delta) = Cycle[i]
  BY <1>1, <1>3, RotatedIs
<1> QED BY <1>2, <1>4

(* and the bottom mode one that its top mode allows.                       *)
LEMMA RotatedBottom ==
  ASSUME NEW top \in TopModes, NEW mode \in Allowed(top), NEW delta \in {-1, 1}
  PROVE  LET seq == bottomModesForTop(top)
             next == Rotated(seq, mode, delta)
         IN  next \in Allowed(top) /\ (Len(seq) <= 1 => next = mode)
<1> DEFINE seq == bottomModesForTop(top)
           next == Rotated(seq, mode, delta)
<1>1. \E n \in {1, 2} : Len(seq) = n /\ DOMAIN seq = 1..n
  BY DEF bottomModesForTop, TopModes
<1>2. PICK n \in {1, 2} : Len(seq) = n /\ DOMAIN seq = 1..n
  BY <1>1
<1>3. \E i \in 1..n : seq[i] = mode
  BY <1>2 DEF Allowed
<1>4. PICK i \in 1..n : next = seq[i]
  <2>1. n \in {1, 2, 3}
    OBVIOUS
  <2> HIDE DEF seq
  <2>2. \E i \in 1..n : Rotated(seq, mode, delta) = seq[i]
    <3>1. CASE n = 1
      BY <1>2, <1>3, <3>1, RotatedIs
    <3>2. CASE n = 2
      BY <1>2, <1>3, <3>2, RotatedIs
    <3> QED BY <3>1, <3>2
  <2> QED BY <2>2 DEF seq
<1>5. next \in Allowed(top)
  BY <1>2, <1>4 DEF Allowed
<1>6. ASSUME n = 1 PROVE next = mode
  BY <1>3, <1>4, <1>6
<1> QED BY <1>2, <1>5, <1>6

(* Every list of bottom modes has a first one.                             *)
LEMMA AllowedModes ==
  ASSUME NEW top \in TopModes
  PROVE  Allowed(top) \subseteq BottomModes /\ defaultBottomMode(top) \in Allowed(top)
BY DEF Allowed, defaultBottomMode, bottomModesForTop, TopModes, BottomModes

(* Resetting the bottom cursor changes nothing else that matters.          *)
LEMMA ResetIs ==
  ASSUME NEW s \in Models
  PROVE  LET u == BottomReset(s) IN
         /\ u \in Models /\ SameTop(s, u) /\ u.rows = s.rows
         /\ u.topMode = s.topMode /\ u.botMode = s.botMode /\ u.saved = s.saved
<1> DEFINE u == BottomReset(s)
<1>1. u \in Models
  <2> DEFINE zero == 0
  <2>1. zero \in Int /\ zero \in Nat
    OBVIOUS
  <2>2. u = [s EXCEPT !.botCursor = zero, !.botViewport = zero]
    BY DEF BottomReset
  <2> HIDE DEF zero, u
  <2> QED BY <2>1, <2>2 DEF Models
<1>2. /\ SameTop(s, u) /\ u.rows = s.rows
      /\ u.topMode = s.topMode /\ u.botMode = s.botMode /\ u.saved = s.saved
  BY DEF BottomReset, Models, SameTop
<1> QED BY <1>1, <1>2

(* Turning to a top mode takes its remembered bottom mode.                 *)
LEMMA TopModeIs ==
  ASSUME NEW s \in Models, NEW c, Modes(s, c), NEW delta \in {-1, 1}
  PROVE  LET u == rotateTopMode(s, delta) IN
         u \in Models /\ Modes(u, c) /\ u.rows = s.rows
<1> DEFINE top == Rotated(Cycle, s.topMode, delta)
           mode == bottomModeForTop(s, top)
           t == [s EXCEPT !.topMode = top, !.botMode = mode,
                          !.filter = NoFilter, !.topViewport = 0]
           u == rotateTopMode(s, delta)
<1>1. top \in TopModes
  <2>1. s.topMode \in TopModes
    BY DEF Models
  <2> QED BY <2>1, RotatedTop
<1> HIDE DEF top
<1>2. mode = c[top] /\ mode \in BottomModes
  <2>1. s.saved[top] = c[top] /\ c[top] \in Allowed(top) /\ c[top] \in BottomModes
    BY <1>1 DEF Modes
  <2> QED BY <2>1 DEF bottomModeForTop
<1> HIDE DEF mode
<1>3. NoFilter \in [{"bridge", "vrf"} -> Nat \cup {-1}]
  BY DEF NoFilter
<1>4. t \in Models
  BY <1>1, <1>2, <1>3 DEF Models
<1>5. t.topMode = top /\ t.botMode = mode /\ t.saved = s.saved /\ t.rows = s.rows
  BY DEF Models
<1>6. u = BottomReset(t)
  BY DEF rotateTopMode, top, mode
<1> HIDE DEF t, u
<1>7. /\ u \in Models /\ u.rows = t.rows
      /\ u.topMode = t.topMode /\ u.botMode = t.botMode /\ u.saved = t.saved
  BY <1>4, <1>6, ResetIs
<1>8. Modes(u, c)
  BY <1>2, <1>5, <1>7 DEF Modes
<1> QED BY <1>5, <1>7, <1>8 DEF u

(* Moving the top cursor keeps the modes,                                  *)
LEMMA MovedToIs ==
  ASSUME NEW s \in Models, NEW c, Modes(s, c), NEW index \in Int
  PROVE  LET u == MovedTo(s, index) IN
         u \in Models /\ Modes(u, c) /\ u.rows = s.rows
<1> DEFINE cursor == clamp(index, 0, Len(s.items) - 1)
           t == [s EXCEPT !.cursor[s.topMode] = cursor]
           w == WithoutFilter(t)
           u == MovedTo(s, index)
<1>1. cursor \in Nat
  <2>1. Len(s.items) \in Nat
    BY DEF Models
  <2> QED BY <2>1 DEF clamp, Least
<1>2. s.topMode \in TopModes /\ s.cursor \in [TopModes -> Nat]
  BY DEF Models
<1> HIDE DEF cursor
<1>3. t = [s EXCEPT !.cursor = [s.cursor EXCEPT ![s.topMode] = cursor]]
  OBVIOUS
<1>4. [s.cursor EXCEPT ![s.topMode] = cursor] \in [TopModes -> Nat]
  BY <1>1, <1>2
<1> HIDE DEF t
<1>5. t \in Models
  BY <1>3, <1>4 DEF Models
<1>6. t.topMode = s.topMode /\ t.botMode = s.botMode /\ t.saved = s.saved
      /\ t.rows = s.rows /\ t.filter = s.filter
  BY <1>3 DEF Models
<1>7. /\ w \in Models /\ w.topMode = t.topMode /\ w.botMode = t.botMode
      /\ w.saved = t.saved /\ w.rows = t.rows
  <2>1. CASE t.topMode = "netns"
    BY <1>5, <2>1 DEF WithoutFilter
  <2>2. CASE t.topMode # "netns"
    <3>1. t.topMode \in {"bridge", "vrf"}
      BY <1>2, <1>6, <2>2 DEF TopModes
    <3>2. t.filter \in [{"bridge", "vrf"} -> Nat \cup {-1}]
      BY <1>5 DEF Models
    <3> DEFINE filter == [t.filter EXCEPT ![t.topMode] = -1]
    <3>3. filter \in [{"bridge", "vrf"} -> Nat \cup {-1}]
      BY <3>1, <3>2
    <3>4. w = [t EXCEPT !.filter = filter]
      BY <2>2 DEF WithoutFilter
    <3> HIDE DEF filter
    <3> QED BY <1>5, <3>3, <3>4 DEF Models
  <2> QED BY <2>1, <2>2
<1>8. u = BottomReset(w)
  BY DEF MovedTo, w, t, cursor
<1> HIDE DEF w, u
<1>9. /\ u \in Models /\ u.rows = w.rows
      /\ u.topMode = w.topMode /\ u.botMode = w.botMode /\ u.saved = w.saved
  BY <1>7, <1>8, ResetIs
<1>10. Modes(u, c)
  BY <1>6, <1>7, <1>9 DEF Modes
<1> QED BY <1>6, <1>7, <1>9, <1>10 DEF u

(* and so does moving the filter.                                          *)
LEMMA MovedFilterIs ==
  ASSUME NEW s \in Models, NEW c, Modes(s, c), s.topMode # "netns",
         NEW delta \in {-1, 1}
  PROVE  LET u == MovedFilter(s, delta) IN
         u \in Models /\ Modes(u, c) /\ u.rows = s.rows
<1> DEFINE old == s.filter[s.topMode]
           index == moveFilterIndex(old, Children(s), delta)
           filter == [s.filter EXCEPT ![s.topMode] = index]
           t == [s EXCEPT !.filter = filter]
           u == MovedFilter(s, delta)
<1>1. s.topMode \in {"bridge", "vrf"} /\ s.filter \in [{"bridge", "vrf"} -> Nat \cup {-1}]
  BY DEF Models, TopModes
<1>2. index \in Nat \cup {-1}
  <2>1. old \in Nat \cup {-1} /\ Children(s) \in Nat
    BY <1>1, CurrentIs
  <2> HIDE DEF old
  <2> QED BY <2>1 DEF moveFilterIndex
<1> HIDE DEF index
<1>3. filter \in [{"bridge", "vrf"} -> Nat \cup {-1}]
  BY <1>1, <1>2
<1>4. u = BottomReset(t)
  BY DEF MovedFilter, index
<1> HIDE DEF filter
<1>5. t \in Models /\ t.rows = s.rows
      /\ t.topMode = s.topMode /\ t.botMode = s.botMode /\ t.saved = s.saved
  BY <1>3 DEF Models
<1> HIDE DEF t, u
<1>6. /\ u \in Models /\ u.rows = t.rows
      /\ u.topMode = t.topMode /\ u.botMode = t.botMode /\ u.saved = t.saved
  BY <1>4, <1>5, ResetIs
<1>7. Modes(u, c)
  BY <1>5, <1>6 DEF Modes
<1> QED BY <1>5, <1>6, <1>7 DEF u

(* The keys that only change fields of no matter to the layout.            *)
Focused(s, top) == [s EXCEPT !.focusTop = top]
Unfiltered(s) == [s EXCEPT !.filter = NoFilter]
CursorAt(s, cursor) == [s EXCEPT !.botCursor = cursor]
WindowAt(s, cursor, view) == [s EXCEPT !.botCursor = cursor, !.botViewport = view]

LEMMA FocusedIs ==
  ASSUME NEW s \in Models, NEW c, Modes(s, c), NEW top \in BOOLEAN
  PROVE  Changed(s, Focused(s, top), c)
<1> DEFINE u == Focused(s, top)
<1>1. u \in Models
  BY DEF Models, Focused
<1>2. SameTop(s, u) /\ u.rows = s.rows
      /\ u.topMode = s.topMode /\ u.botMode = s.botMode /\ u.saved = s.saved
  BY DEF Models, SameTop, Focused
<1> QED BY <1>1, <1>2, SameModes DEF Changed

LEMMA UnfilteredIs ==
  ASSUME NEW s \in Models, NEW c, Modes(s, c)
  PROVE  Changed(s, Unfiltered(s), c)
<1> DEFINE u == Unfiltered(s)
<1>1. NoFilter \in [{"bridge", "vrf"} -> Nat \cup {-1}]
  BY DEF NoFilter
<1>2. u \in Models
  BY <1>1 DEF Models, Unfiltered
<1>3. SameTop(s, u) /\ u.rows = s.rows
      /\ u.topMode = s.topMode /\ u.botMode = s.botMode /\ u.saved = s.saved
  BY DEF Models, SameTop, Unfiltered
<1> QED BY <1>2, <1>3, SameModes DEF Changed

LEMMA WindowAtIs ==
  ASSUME NEW s \in Models, NEW c, Modes(s, c), NEW cursor \in Int, NEW view \in Nat
  PROVE  Changed(s, WindowAt(s, cursor, view), c)
<1> DEFINE u == WindowAt(s, cursor, view)
<1>1. u \in Models
  BY DEF Models, WindowAt
<1>2. SameTop(s, u) /\ u.rows = s.rows
      /\ u.topMode = s.topMode /\ u.botMode = s.botMode /\ u.saved = s.saved
  BY DEF Models, SameTop, WindowAt
<1> QED BY <1>1, <1>2, SameModes DEF Changed

LEMMA CursorAtIs ==
  ASSUME NEW s \in Models, NEW c, Modes(s, c), NEW cursor \in Int
  PROVE  Changed(s, CursorAt(s, cursor), c)
<1> DEFINE u == CursorAt(s, cursor)
<1>1. u \in Models
  BY DEF Models, CursorAt
<1>2. SameTop(s, u) /\ u.rows = s.rows
      /\ u.topMode = s.topMode /\ u.botMode = s.botMode /\ u.saved = s.saved
  BY DEF Models, SameTop, CursorAt
<1> QED BY <1>1, <1>2, SameModes DEF Changed

(* Two such changes make one.                                              *)
LEMMA ChangedAgain ==
  ASSUME NEW s, NEW t, NEW u, NEW c, Changed(s, t, c), Changed(t, u, c)
  PROVE  Changed(s, u, c)
BY DEF Changed, SameTop

-----------------------------------------------------------------------------
IInv == Good(m, chosen)

(* Every step keeps the invariant, and one that moves the bottom cursor    *)
(* and nothing else leaves it in sight.                                    *)
Kept == IInv' /\ (BottomKey => BottomCursorShown')

(* Keys that end with both panes drawn keep the invariant.                 *)
LEMMA TopKept ==
  ASSUME IInv, NEW s \in Models, Modes(s, chosen), s.rows = m.rows,
         EndTop(s), UNCHANGED chosen
  PROVE  Kept
<1>1. PICK items \in Lists, rows \in RowCounts :
        m' = refreshTopAndBottom(Remembered(BottomFollows(s, VisibleBottom(m))),
                                 items, rows)
  BY DEF EndTop, RefreshAfter
<1>2. items \in Seq(Nat) /\ rows \in Nat
  BY BoundsAssumption
<1>3. VisibleBottom(m) \in Int
  BY VisibleTypes DEF IInv, Good
<1>4. /\ Good(m', chosen)
      /\ m'.rows = s.rows => CursorShown(m', VisibleBottom(m))
  BY <1>1, <1>2, <1>3, EndTopIs
<1>5. ASSUME BottomKey PROVE BottomCursorShown'
  <2>1. m'.rows = m.rows /\ m'.height = m.height /\ m'.percent = m.percent
    BY <1>5 DEF BottomKey, IInv, Good, Models
  <2>2. VisibleBottom(m') = VisibleBottom(m)
    BY <2>1, VisibleSame
  <2> QED BY <1>4, <2>1, <2>2 DEF BottomCursorShown, CursorShown
<1> QED BY <1>4, <1>5 DEF Kept, IInv

(* So do those that leave the rows of the top pane alone.                  *)
LEMMA BottomKept ==
  ASSUME IInv, NEW s, Changed(m, s, chosen), EndBottom(s), UNCHANGED chosen
  PROVE  Kept
<1>1. s \in Models /\ Modes(s, chosen) /\ SameTop(m, s) /\ Good(m, chosen)
  BY DEF Changed, IInv
<1>2. VisibleBottom(m) \in Int
  BY VisibleTypes DEF IInv, Good
<1>3. m' = Remembered(BottomFollows(s, VisibleBottom(m)))
  BY DEF EndBottom
<1>4. Good(m', chosen) /\ CursorShown(m', VisibleBottom(m))
  BY <1>1, <1>2, <1>3, EndBottomIs
<1>5. ASSUME BottomKey PROVE BottomCursorShown'
  <2>1. m'.height = m.height /\ m'.percent = m.percent
    BY <1>5 DEF BottomKey, IInv, Good, Models
  <2>2. VisibleBottom(m') = VisibleBottom(m)
    BY <2>1, VisibleSame
  <2> QED BY <1>4, <2>2 DEF BottomCursorShown, CursorShown
<1> QED BY <1>4, <1>5 DEF Kept, IInv

(* A refresh without a key does not move the bottom cursor unless the      *)
(* number of rows has changed.                                             *)
LEMMA RefreshKept ==
  ASSUME IInv, NEW s \in Models, Modes(s, chosen), s.rows = m.rows,
         s.botCursor = m.botCursor, s.botViewport = m.botViewport,
         RefreshAfter(s), UNCHANGED chosen
  PROVE  Kept
<1>1. PICK items \in Lists, rows \in RowCounts :
        m' = refreshTopAndBottom(s, items, rows)
  BY DEF RefreshAfter
<1>2. items \in Seq(Nat) /\ rows \in Nat
  BY BoundsAssumption
<1>3. Good(m', chosen)
  BY <1>1, <1>2, RefreshedIs
<1>4. ~BottomKey
  <2> SUFFICES ASSUME BottomKey PROVE FALSE
    OBVIOUS
  <2>1. m \in Models /\ m.botCursor \in 0..Most(0, m.rows - 1)
    BY DEF IInv, Good, AtAndCursor
  <2>2. m'.rows = m.rows
    BY <2>1 DEF BottomKey, Models
  <2>3. /\ m'.rows = rows /\ m'.botViewport = s.botViewport
        /\ rows = s.rows /\ s.botCursor \in 0..Most(0, s.rows - 1) =>
             m'.botCursor = s.botCursor
    <3> DEFINE w == refreshTopAndBottom(s, items, rows)
    <3>1. /\ w.rows = rows /\ w.botViewport = s.botViewport
          /\ rows = s.rows /\ s.botCursor \in 0..Most(0, s.rows - 1) =>
               w.botCursor = s.botCursor
      BY <1>2, RefreshIs
    <3> QED BY <1>1, <3>1
  <2>4. m'.botCursor = m.botCursor /\ m'.botViewport = m.botViewport
    BY <2>1, <2>2, <2>3
  <2>5. m' = [m EXCEPT !.botCursor = m.botCursor, !.botViewport = m.botViewport]
    BY <2>4 DEF BottomKey
  <2>6. m' = m
    BY <2>1, <2>5 DEF Models
  <2> QED BY <2>6 DEF BottomKey
<1> QED BY <1>3, <1>4 DEF Kept, IInv

-----------------------------------------------------------------------------
(* The first refresh establishes the invariant.                            *)
LEMMA Initially == Init => IInv
<1> SUFFICES ASSUME Init PROVE IInv
  OBVIOUS
<1> DEFINE z == [focusTop |-> TRUE, topMode |-> "vrf", botMode |-> "route",
                 cursor |-> [top \in TopModes |-> 0], filter |-> NoFilter,
                 botCursor |-> 0, botViewport |-> 0, topViewport |-> 0,
                 topVisible |-> 0,
                 topRows |-> [count |-> 0, at |-> 0, shown |-> 0, picked |-> -1],
                 percent |-> DefaultPercent, height |-> 0,
                 saved |-> [top \in TopModes |-> defaultBottomMode(top)],
                 items |-> <<>>, rows |-> 0, help |-> FALSE, dirty |-> FALSE]
<1>1. PICK items \in Lists, rows \in RowCounts : m = refreshTopAndBottom(z, items, rows)
  BY DEF Init
<1>2. chosen = [top \in TopModes |-> defaultBottomMode(top)]
  BY DEF Init
<1>3. items \in Seq(Nat) /\ rows \in Nat
  BY BoundsAssumption
<1>4. chosen \in [TopModes -> BottomModes] /\ \A top \in TopModes : chosen[top] \in Allowed(top)
  BY <1>2, AllowedModes
<1>5. z \in Models
  <2>1. NoFilter \in [{"bridge", "vrf"} -> Nat \cup {-1}]
    BY DEF NoFilter
  <2>2. DefaultPercent \in MinPercent..MaxPercent
    BY PercentAssumption
  <2>3. <<>> \in Seq(Nat)
    OBVIOUS
  <2>4. [top \in TopModes |-> 0] \in [TopModes -> Nat]
    OBVIOUS
  <2>5. [top \in TopModes |-> defaultBottomMode(top)] \in [TopModes -> BottomModes]
    BY <1>2, <1>4
  <2>6. "vrf" \in TopModes /\ "route" \in BottomModes
    BY DEF TopModes, BottomModes
  <2> QED BY <2>1, <2>2, <2>3, <2>4, <2>5, <2>6 DEF Models
<1>6. Modes(z, chosen)
  <2>1. z.saved = chosen /\ z.topMode = "vrf" /\ z.botMode = "route"
    BY <1>2
  <2>2. chosen["vrf"] = "route"
    BY <1>2 DEF TopModes, defaultBottomMode, bottomModesForTop
  <2> HIDE DEF z
  <2> QED BY <1>4, <2>1, <2>2 DEF Modes
<1> HIDE DEF z
<1> QED BY <1>1, <1>3, <1>5, <1>6, RefreshedIs DEF IInv

(* Mode memory: a mode chosen by hand is remembered at once.               *)
LEMMA BottomModeKept ==
  ASSUME IInv, NEW delta \in {-1, 1}, KeyBottomMode(delta)
  PROVE  Kept
<1> DEFINE mode == Rotated(bottomModesForTop(m.topMode), m.botMode, delta)
           r == rotateBottomMode(m, delta)
           t == BottomFollows(r, VisibleBottom(m))
           s == Remembered(t)
           c == [chosen EXCEPT ![m.topMode] = mode]
<1>1. /\ m \in Models /\ Modes(m, chosen) /\ Good(m, chosen)
      /\ m.topMode \in TopModes /\ m.botMode \in Allowed(m.topMode)
  BY DEF IInv, Good, Modes, Models
<1>2. PICK items \in Lists, rows \in RowCounts : m' = Read(s, items, rows)
  BY DEF KeyBottomMode, refreshBottomOnly
<1>3. chosen' = c
  BY DEF KeyBottomMode
<1>4. items \in Seq(Nat) /\ rows \in Nat
  BY BoundsAssumption
<1>5. mode \in Allowed(m.topMode)
      /\ (Len(bottomModesForTop(m.topMode)) <= 1 => mode = m.botMode)
  BY <1>1, RotatedBottom
<1>6. mode \in BottomModes
  BY <1>1, <1>5, AllowedModes
<1> HIDE DEF mode
<1>7. /\ r \in Models /\ SameTop(m, r) /\ r.rows = m.rows
      /\ r.topMode = m.topMode /\ r.botMode = mode /\ r.saved = m.saved
  <2>1. CASE Len(bottomModesForTop(m.topMode)) <= 1
    BY <1>1, <1>5, <2>1 DEF rotateBottomMode, SameTop
  <2>2. CASE ~(Len(bottomModesForTop(m.topMode)) <= 1)
    <3> DEFINE w == [m EXCEPT !.botMode = mode]
    <3>1. r = BottomReset(w)
      BY <2>2 DEF rotateBottomMode, mode
    <3>2. w \in Models
      BY <1>1, <1>6 DEF Models
    <3>3. /\ SameTop(m, w) /\ w.rows = m.rows
          /\ w.topMode = m.topMode /\ w.botMode = mode /\ w.saved = m.saved
      BY <1>1 DEF Models, SameTop
    <3> HIDE DEF w
    <3>4. /\ r \in Models /\ SameTop(w, r) /\ r.rows = w.rows
          /\ r.topMode = w.topMode /\ r.botMode = w.botMode /\ r.saved = w.saved
      BY <3>1, <3>2, ResetIs
    <3> QED BY <3>3, <3>4 DEF SameTop
  <2> QED BY <2>1, <2>2
<1> HIDE DEF r
<1>8. VisibleBottom(m) \in Int
  BY <1>1, VisibleTypes
<1>9. /\ t \in Models /\ SameTop(r, t) /\ CursorShown(t, VisibleBottom(m))
      /\ t.botCursor \in 0..Most(0, t.rows - 1) /\ t.rows = r.rows
      /\ t.topMode = r.topMode /\ t.botMode = r.botMode /\ t.saved = r.saved
  BY <1>7, <1>8, FollowsIs
<1> HIDE DEF t
<1>10. /\ chosen \in [TopModes -> BottomModes] /\ t.saved = chosen
       /\ \A top \in TopModes : chosen[top] \in Allowed(top)
  BY <1>1, <1>7, <1>9 DEF Modes
<1>11. /\ s \in Models /\ SameTop(t, s) /\ Modes(s, c)
       /\ s.botCursor = t.botCursor /\ s.botViewport = t.botViewport /\ s.rows = t.rows
  BY <1>5, <1>7, <1>9, <1>10, RememberedAs
<1> HIDE DEF s, c
<1> DEFINE u == Read(s, items, rows)
<1>12. /\ u \in Models /\ u.rows = rows /\ u.botCursor \in 0..Most(0, rows - 1)
       /\ u.botMode = s.botMode /\ u.topMode = s.topMode
       /\ u.saved = s.saved /\ u.help = s.help /\ u.dirty = s.dirty
       /\ u.topRows = s.topRows /\ u.topVisible = s.topVisible
       /\ u.topViewport = s.topViewport
       /\ u.height = s.height /\ u.percent = s.percent
       /\ u.botViewport = s.botViewport
       /\ rows = s.rows /\ s.botCursor \in 0..Most(0, s.rows - 1) =>
            u.botCursor = s.botCursor
  BY <1>4, <1>11, ReadIs
<1>13. m' = u
  BY <1>2
<1> HIDE DEF u
<1>14. SameTop(m, u)
  BY <1>7, <1>9, <1>11, <1>12 DEF SameTop
<1>15. VisibleTop(u) = VisibleTop(m) /\ VisibleBottom(u) = VisibleBottom(m)
  BY <1>14, VisibleSame DEF SameTop
<1>16. Modes(u, c)
  BY <1>11, <1>12 DEF Modes
<1>17. Good(u, c)
  BY <1>1, <1>12, <1>14, <1>15, <1>16 DEF Good, AtAndCursor, SelectionShown, IsLaid, SameTop
<1>18. ASSUME BottomKey PROVE BottomCursorShown'
  <2>1. m'.rows = m.rows
    BY <1>1, <1>18 DEF BottomKey, Models
  <2>2. u.botCursor = s.botCursor
    BY <1>7, <1>9, <1>11, <1>12, <1>13, <2>1
  <2> QED BY <1>9, <1>11, <1>12, <1>13, <1>15, <2>2 DEF BottomCursorShown, CursorShown
<1> QED BY <1>3, <1>13, <1>17, <1>18 DEF Kept, IInv

(* Any other change after which both panes are drawn.                      *)
LEMMA HelpKept ==
  ASSUME IInv, NEW s \in Models, Modes(s, chosen), s.rows = m.rows,
         s.botCursor = m.botCursor, s.botViewport = m.botViewport,
         SelectionShown(s), AtAndCursor(s),
         RefreshUnlessHelp(s), UNCHANGED chosen
  PROVE  Kept
<1>1. CASE ~s.help
  BY <1>1, RefreshKept DEF RefreshUnlessHelp
<1>2. CASE s.help
  <2>1. m' = [s EXCEPT !.dirty = TRUE]
    BY <1>2 DEF RefreshUnlessHelp
  <2> DEFINE u == [s EXCEPT !.dirty = TRUE]
  <2>2. u \in Models /\ u.help /\ u.dirty
    BY <1>2 DEF Models
  <2>3. /\ u.topRows = s.topRows /\ u.topVisible = s.topVisible
        /\ u.topViewport = s.topViewport /\ u.rows = s.rows
        /\ u.botCursor = s.botCursor /\ u.botViewport = s.botViewport
        /\ u.topMode = s.topMode /\ u.botMode = s.botMode /\ u.saved = s.saved
    BY DEF Models
  <2> HIDE DEF u
  <2>4. Good(u, chosen)
    BY <2>2, <2>3, SameModes DEF Good, AtAndCursor, SelectionShown, IsLaid
  <2>5. ~BottomKey
    <3> SUFFICES ASSUME BottomKey PROVE FALSE
      OBVIOUS
    <3>1. m \in Models
      BY DEF IInv, Good
    <3>2. m'.botCursor = m.botCursor /\ m'.botViewport = m.botViewport
      BY <2>1, <2>3 DEF u
    <3>3. m' = [m EXCEPT !.botCursor = m.botCursor, !.botViewport = m.botViewport]
      BY <3>2 DEF BottomKey
    <3>4. m' = m
      BY <3>1, <3>3 DEF Models
    <3> QED BY <3>4 DEF BottomKey
  <2> QED BY <2>1, <2>4, <2>5 DEF Kept, IInv, u
<1> QED BY <1>1, <1>2

(* Every step keeps the invariant.                                         *)
LEMMA StepKept == IInv /\ Next => Kept
<1> SUFFICES ASSUME IInv, Next PROVE Kept
  OBVIOUS
<1>1. /\ m \in Models /\ Modes(m, chosen) /\ Good(m, chosen)
      /\ AtAndCursor(m) /\ SelectionShown(m) /\ IsLaid(m)
  BY DEF IInv, Good
<1>2. VisibleTop(m) \in Nat /\ VisibleBottom(m) \in Int
  BY <1>1, VisibleTypes
<1>3. /\ m.botCursor \in Int /\ m.botViewport \in Nat /\ m.rows \in Nat
      /\ m.cursor[m.topMode] \in Nat /\ Len(m.items) \in Nat
  BY <1>1 DEF Models
<1>4. Changed(m, Cleared, chosen)
  BY <1>1, UnfilteredIs DEF Cleared, Unfiltered
<1>5. /\ Cleared \in Models /\ Modes(Cleared, chosen) /\ Cleared.rows = m.rows
      /\ Cleared.botViewport = m.botViewport
  <2>1. Cleared.botViewport = m.botViewport
    BY <1>1 DEF Cleared, Models
  <2> QED BY <1>4, <2>1 DEF Changed
<1>6. ASSUME NEW cursor \in Int, NEW view \in Nat
      PROVE  /\ Changed(m, WindowAt(Cleared, cursor, view), chosen)
             /\ Changed(m, CursorAt(Cleared, cursor), chosen)
  BY <1>4, <1>5, <1>6, WindowAtIs, CursorAtIs, ChangedAgain
<1>7. ASSUME NEW s, Changed(m, s, chosen), EndCleared(s), UNCHANGED chosen
      PROVE  Kept
  <2>1. s \in Models /\ Modes(s, chosen) /\ s.rows = m.rows
    BY <1>7 DEF Changed
  <2>2. EndTop(s) \/ EndBottom(s)
    BY <1>7 DEF EndCleared
  <2> QED BY <1>7, <2>1, <2>2, TopKept, BottomKept
<1>8. CASE KeyTab
  <2> DEFINE s == Focused(m, ~m.focusTop)
  <2>1. Changed(m, s, chosen)
    BY <1>1, FocusedIs
  <2>2. EndBottom(s) /\ UNCHANGED chosen
    BY <1>8 DEF KeyTab, Focused
  <2> HIDE DEF s
  <2> QED BY <2>1, <2>2, BottomKept
<1>9. CASE KeyDetailed
  BY <1>1, <1>9, TopKept DEF KeyDetailed
<1>10. CASE KeyPercent
  <2> DEFINE percent == IF m.percent + Step > MaxPercent THEN MinPercent
                                                         ELSE m.percent + Step
             s == cycleTopPanePercent(m)
  <2>1. percent \in MinPercent..MaxPercent
    BY <1>1, PercentAssumption DEF Models
  <2> HIDE DEF percent
  <2>2. s = [m EXCEPT !.percent = percent]
    BY DEF cycleTopPanePercent, percent
  <2> HIDE DEF s
  <2>3. s \in Models
    BY <1>1, <2>1, <2>2 DEF Models
  <2>4. s.rows = m.rows /\ s.topMode = m.topMode /\ s.botMode = m.botMode
        /\ s.saved = m.saved
    BY <1>1, <2>2 DEF Models
  <2>5. Modes(s, chosen)
    BY <1>1, <2>4, SameModes
  <2>6. EndTop(s) /\ UNCHANGED chosen
    BY <1>10 DEF KeyPercent, s
  <2> QED BY <2>3, <2>4, <2>5, <2>6, TopKept
<1>11. CASE KeyHelp
  <2> DEFINE u == [m EXCEPT !.help = TRUE, !.dirty = FALSE]
  <2>1. m' = u /\ ~m.help /\ UNCHANGED chosen
    BY <1>11 DEF KeyHelp, Key
  <2>2. u \in Models /\ u.help
    BY <1>1 DEF Models
  <2>3. /\ u.topRows = m.topRows /\ u.topVisible = m.topVisible
        /\ u.topViewport = m.topViewport /\ u.rows = m.rows
        /\ u.height = m.height /\ u.percent = m.percent
        /\ u.botCursor = m.botCursor /\ u.botViewport = m.botViewport
        /\ u.topMode = m.topMode /\ u.botMode = m.botMode /\ u.saved = m.saved
    BY <1>1 DEF Models
  <2> HIDE DEF u
  <2>4. VisibleTop(u) = VisibleTop(m)
    BY <2>3, VisibleSame
  <2>5. Good(u, chosen)
    BY <1>1, <2>1, <2>2, <2>3, <2>4, SameModes
       DEF Good, AtAndCursor, SelectionShown, IsLaid
  <2>6. ~BottomKey
    BY <1>1, <2>1, <2>2 DEF BottomKey, Models
  <2> QED BY <2>1, <2>5, <2>6 DEF Kept, IInv
<1>12. CASE KeyCloseHelp
  <2> DEFINE u == [m EXCEPT !.help = FALSE, !.dirty = FALSE]
  <2>1. m.help /\ UNCHANGED chosen /\ IF m.dirty THEN RefreshAfter(u) ELSE m' = u
    BY <1>12 DEF KeyCloseHelp
  <2>2. u \in Models /\ ~u.help
    BY <1>1 DEF Models
  <2>3. /\ u.topRows = m.topRows /\ u.topVisible = m.topVisible
        /\ u.topViewport = m.topViewport /\ u.rows = m.rows
        /\ u.height = m.height /\ u.percent = m.percent
        /\ u.botCursor = m.botCursor /\ u.botViewport = m.botViewport
        /\ u.topMode = m.topMode /\ u.botMode = m.botMode /\ u.saved = m.saved
    BY <1>1 DEF Models
  <2> HIDE DEF u
  <2>4. Modes(u, chosen)
    BY <1>1, <2>3, SameModes
  <2>5. CASE m.dirty
    BY <2>1, <2>2, <2>3, <2>4, <2>5, RefreshKept
  <2>6. CASE ~m.dirty
    <3>1. VisibleTop(u) = VisibleTop(m)
      BY <2>3, VisibleSame
    <3>2. Good(u, chosen)
      BY <1>1, <2>2, <2>3, <2>4, <2>6, <3>1
         DEF Good, AtAndCursor, SelectionShown, IsLaid
    <3>3. ~BottomKey
      BY <1>1, <2>1, <2>2, <2>6 DEF BottomKey, Models
    <3> QED BY <2>1, <2>6, <3>2, <3>3 DEF Kept, IInv
  <2> QED BY <2>5, <2>6
<1>13. ASSUME NEW delta \in {-1, 1}, KeyTopMode(delta) PROVE Kept
  <2> DEFINE s == rotateTopMode(m, delta)
  <2>1. Remembered(m) = m
    BY <1>1, RememberedIs
  <2>2. EndTop(s) /\ UNCHANGED chosen
    BY <1>13, <2>1 DEF KeyTopMode
  <2>3. s \in Models /\ Modes(s, chosen) /\ s.rows = m.rows
    BY <1>1, TopModeIs
  <2> HIDE DEF s
  <2> QED BY <2>2, <2>3, TopKept
<1>14. ASSUME NEW delta \in {-1, 1}, KeyBottomMode(delta) PROVE Kept
  BY <1>14, BottomModeKept
<1>15. ASSUME NEW delta \in {-1, 1}, KeyChild(delta) PROVE Kept
  <2> DEFINE s == MovedFilter(m, delta)
  <2>1. EndTop(s) /\ UNCHANGED chosen /\ m.topMode # "netns"
    BY <1>15 DEF KeyChild
  <2>2. s \in Models /\ Modes(s, chosen) /\ s.rows = m.rows
    BY <1>1, <2>1, MovedFilterIs
  <2> HIDE DEF s
  <2> QED BY <2>1, <2>2, TopKept
<1>16. ASSUME NEW s \in Models, Modes(s, chosen), s.rows = m.rows,
              NEW index \in Int, EndTop(MovedTo(s, index)), UNCHANGED chosen
       PROVE  Kept
  <2> DEFINE u == MovedTo(s, index)
  <2>1. u \in Models /\ Modes(u, chosen) /\ u.rows = m.rows
    BY <1>16, MovedToIs
  <2>2. EndTop(u)
    BY <1>16
  <2> HIDE DEF u
  <2> QED BY <1>16, <2>1, <2>2, TopKept
<1>17. ASSUME NEW delta \in {-1, 1}, KeyMove(delta) PROVE Kept
  <2>1. CASE EndTop(moveTopCursor(m, delta))
    <3>1. m.cursor[m.topMode] + delta \in Int
      BY <1>3
    <3>2. EndTop(MovedTo(m, m.cursor[m.topMode] + delta)) /\ UNCHANGED chosen
      BY <1>17, <2>1 DEF KeyMove, moveTopCursor
    <3> QED BY <1>1, <1>16, <3>1, <3>2
  <2>2. CASE EndBottom([m EXCEPT !.botCursor = m.botCursor + delta])
    <3> DEFINE cursor == m.botCursor + delta
               s == CursorAt(m, cursor)
    <3>1. cursor \in Int
      BY <1>3
    <3> HIDE DEF cursor
    <3>2. Changed(m, s, chosen)
      BY <1>1, <3>1, CursorAtIs
    <3>3. EndBottom(s) /\ UNCHANGED chosen
      BY <1>17, <2>2 DEF KeyMove, CursorAt, cursor
    <3> HIDE DEF s
    <3> QED BY <3>2, <3>3, BottomKept
  <2> QED BY <1>17, <2>1, <2>2 DEF KeyMove
<1>18. ASSUME NEW delta \in {-1, 1}, KeyPage(delta) PROVE Kept
  <2>1. CASE EndTop(moveTopCursor(Cleared, delta * Most(1, VisibleTop(m))))
    <3> DEFINE index == Cleared.cursor[Cleared.topMode] + delta * Most(1, VisibleTop(m))
    <3>1. index \in Int
      <4>1. Cleared.cursor[Cleared.topMode] \in Nat
        BY <1>5 DEF Models
      <4>2. delta * Most(1, VisibleTop(m)) \in Int
        BY <1>2 DEF Most
      <4> QED BY <4>1, <4>2
    <3>2. EndTop(MovedTo(Cleared, index)) /\ UNCHANGED chosen
      BY <1>18, <2>1 DEF KeyPage, moveTopCursor
    <3> HIDE DEF index
    <3> QED BY <1>5, <1>16, <3>1, <3>2
  <2>2. CASE EndCleared([Cleared EXCEPT !.botCursor =
                           m.botCursor + delta * VisibleBottom(m)])
    <3> DEFINE cursor == m.botCursor + delta * VisibleBottom(m)
               s == CursorAt(Cleared, cursor)
    <3>1. cursor \in Int
      BY <1>2, <1>3
    <3>2. EndCleared(s) /\ UNCHANGED chosen
      BY <1>18, <2>2 DEF KeyPage, CursorAt
    <3> HIDE DEF cursor
    <3>3. Changed(m, s, chosen)
      BY <1>6, <3>1
    <3> HIDE DEF s
    <3> QED BY <1>7, <3>2, <3>3
  <2> QED BY <1>18, <2>1, <2>2 DEF KeyPage
<1>19. ASSUME NEW b \in BOOLEAN, KeyBoundary(b) PROVE Kept
  <2>1. CASE EndTop(moveTopBoundary(Cleared, b))
    <3> DEFINE index == IF b THEN Len(Cleared.items) - 1 ELSE 0
    <3>1. index \in Int
      <4>1. Len(Cleared.items) \in Nat
        BY <1>5 DEF Models
      <4> QED BY <4>1
    <3>2. EndTop(MovedTo(Cleared, index)) /\ UNCHANGED chosen
      BY <1>19, <2>1 DEF KeyBoundary, moveTopBoundary
    <3> HIDE DEF index
    <3> QED BY <1>5, <1>16, <3>1, <3>2
  <2>2. CASE EndCleared(moveBottomBoundary(Cleared, b, VisibleBottom(m)))
    <3> DEFINE s == moveBottomBoundary(Cleared, b, VisibleBottom(m))
               last == Most(0, Cleared.rows - 1)
               view == Most(0, Cleared.rows - VisibleBottom(m))
    <3>1. last \in Int /\ view \in Nat
      BY <1>2, <1>3, <1>5 DEF Most
    <3> HIDE DEF last, view
    <3>2. s = WindowAt(Cleared, last, view) \/ s = WindowAt(Cleared, 0, 0)
      BY DEF moveBottomBoundary, BottomReset, WindowAt, last, view
    <3>3. EndCleared(s) /\ UNCHANGED chosen
      BY <1>19, <2>2 DEF KeyBoundary
    <3> HIDE DEF s
    <3>4. Changed(m, s, chosen)
      <4>1. Changed(m, WindowAt(Cleared, last, view), chosen)
        BY <1>6, <3>1
      <4>2. Changed(m, WindowAt(Cleared, 0, 0), chosen)
        BY <1>6
      <4> QED BY <3>2, <4>1, <4>2
    <3> QED BY <1>7, <3>3, <3>4
  <2> QED BY <1>19, <2>1, <2>2 DEF KeyBoundary
<1>20. ASSUME NEW b \in BOOLEAN, Click(b) PROVE Kept
  <2> DEFINE u == Focused(m, b)
  <2>1. m' = u /\ UNCHANGED chosen
    BY <1>20 DEF Click, Focused
  <2>2. Changed(m, u, chosen)
    BY <1>1, FocusedIs
  <2>3. u.botCursor = m.botCursor /\ u.botViewport = m.botViewport
    BY <1>1 DEF Models, Focused
  <2> HIDE DEF u
  <2>4. VisibleTop(u) = VisibleTop(m)
    BY <2>2, VisibleSame DEF Changed, SameTop
  <2>5. Good(u, chosen)
    BY <1>1, <2>2, <2>3, <2>4
       DEF Changed, Good, AtAndCursor, SelectionShown, IsLaid, SameTop
  <2>6. ~BottomKey
    <3> SUFFICES ASSUME BottomKey PROVE FALSE
      OBVIOUS
    <3>1. m' = [m EXCEPT !.botCursor = m.botCursor, !.botViewport = m.botViewport]
      BY <2>1, <2>3 DEF BottomKey
    <3>2. m' = m
      BY <1>1, <3>1 DEF Models
    <3> QED BY <3>2 DEF BottomKey
  <2> QED BY <2>1, <2>5, <2>6 DEF Kept, IInv
<1>21. ASSUME NEW height \in Heights, Resize(height) PROVE Kept
  <2> DEFINE s == [m EXCEPT !.height = height]
  <2>1. height \in Nat
    BY BoundsAssumption
  <2>2. RefreshUnlessHelp(s) /\ UNCHANGED chosen
    BY <1>21 DEF Resize
  <2>3. s \in Models
    BY <1>1, <2>1 DEF Models
  <2>4. /\ s.topRows = m.topRows /\ s.topVisible = m.topVisible
        /\ s.topViewport = m.topViewport /\ s.rows = m.rows /\ s.help = m.help
        /\ s.botCursor = m.botCursor /\ s.botViewport = m.botViewport
        /\ s.topMode = m.topMode /\ s.botMode = m.botMode /\ s.saved = m.saved
    BY <1>1 DEF Models
  <2> HIDE DEF s
  <2>5. Modes(s, chosen)
    BY <1>1, <2>4, SameModes
  <2>6. SelectionShown(s) /\ AtAndCursor(s)
    BY <1>1, <2>4 DEF SelectionShown, AtAndCursor
  <2> QED BY <2>2, <2>3, <2>4, <2>5, <2>6, HelpKept
<1>22. ASSUME RefreshUnlessHelp(m), UNCHANGED chosen PROVE Kept
  BY <1>1, <1>22, HelpKept
<1>23. CASE Updated
  BY <1>22, <1>23 DEF Updated
<1>24. CASE PeriodicUpdated
  BY <1>22, <1>24 DEF PeriodicUpdated
<1> QED
  BY <1>8, <1>9, <1>10, <1>11, <1>12, <1>13, <1>14, <1>15, <1>17, <1>18, <1>19,
     <1>20, <1>21, <1>23, <1>24 DEF Next

(* The invariant holds throughout.                                         *)
LEMMA Invariance == Spec => []IInv
<1>1. IInv /\ [Next]_vars => IInv'
  <2>1. IInv /\ UNCHANGED vars => IInv'
    BY DEF vars, IInv
  <2> QED BY <2>1, StepKept DEF Kept
<1> QED BY Initially, <1>1, PTL DEF Spec

-----------------------------------------------------------------------------
(* Cursors, filters, windows and remembered modes keep their types, and    *)
(* the cursors their lists, through every handler of model.go.             *)
THEOREM PaneTypes == Spec => []TypeOK
<1>1. IInv => TypeOK
  BY DEF IInv, Good, AtAndCursor, Modes, TypeOK, Models
<1> QED BY <1>1, Invariance, PTL

(* The selected row, and the child a filter picks, are in the window of    *)
(* the top pane, for every list, height and share of the screen:           *)
(* adjustTopViewport meets whatever the handlers and the lists have done.  *)
THEOREM SelectionStaysVisible == Spec => []SelectionIsVisible
<1>1. IInv => SelectionIsVisible
  BY DEF IInv, Good, SelectionShown, SelectionIsVisible, InTopWindow
<1> QED BY <1>1, Invariance, PTL

(* The panes are laid out for the size the terminal has, and what changes  *)
(* behind the help is caught up on when it closes.                         *)
THEOREM LayoutStaysCurrent == Spec => []LayoutIsCurrent
<1>1. IInv => LayoutIsCurrent
  BY DEF IInv, Good, IsLaid, LayoutIsCurrent
<1> QED BY <1>1, Invariance, PTL

(* Each top mode comes back with the bottom mode last chosen under it.     *)
THEOREM BottomModeStaysRemembered == Spec => []BottomModeIsRemembered
<1>1. IInv => BottomModeIsRemembered
  BY DEF IInv, Good, Modes, BottomModeIsRemembered
<1> QED BY <1>1, Invariance, PTL

(* Every key that moves the bottom cursor and nothing else leaves it in    *)
(* the window, wherever refreshes and resizes had left both.               *)
THEOREM BottomKeysFollow == Spec => BottomKeysShowCursor
<1>1. IInv /\ [Next]_vars => [BottomKey => BottomCursorShown']_vars
  <2>1. IInv /\ Next => (BottomKey => BottomCursorShown')
    BY StepKept DEF Kept
  <2> QED BY <2>1
<1> QED BY <1>1, Invariance, PTL DEF Spec, BottomKeysShowCursor
=============================================================================
