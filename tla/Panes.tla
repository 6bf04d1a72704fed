--------------------------------- MODULE Panes ---------------------------------
(***************************************************************************)
(* Moving about in the two panes (internal/app/model.go, top_view.go,      *)
(* selection_memory.go): modes, cursors, child filters and viewports.      *)
(*                                                                         *)
(* The top pane lists bridges, VRFs or namespaces; the selected bridge or  *)
(* VRF is followed by its interfaces, clipped to the pane.  The bottom     *)
(* pane lists what belongs to the selection.  Cursors are indices that     *)
(* outlive the lists: each refresh reads whatever the store has by then,   *)
(* here any list of a bounded set.  While the help is shown nothing is     *)
(* refreshed, only marked as out of date.                                  *)
(*                                                                         *)
(* `m' is app.Model.  Of the top items it has the list of the current      *)
(* mode, as the number of children of each item: a mode is never entered   *)
(* without a refresh.  Indices count from zero, as in the code.            *)
(***************************************************************************)
EXTENDS Integers, Sequences

CONSTANTS
  MinPercent, MaxPercent, Step,  \* constants.MinTopPanePercent, Max..., ...Step
  DefaultPercent,                \* constants.DefaultTopPanePercent
  Heights,   \* bound: heights of the terminal
  Lists,     \* bound: lists a refresh may find in the top pane
  RowCounts  \* bound: numbers of rows it may find in the bottom pane

ASSUME PercentAssumption ==
  /\ MinPercent \in 0..100 /\ MaxPercent \in MinPercent..100 /\ Step \in Nat \ {0}
  /\ DefaultPercent \in MinPercent..MaxPercent
ASSUME BoundsAssumption ==
  /\ Heights \subseteq Nat /\ Lists \subseteq Seq(Nat) /\ RowCounts \subseteq Nat

VARIABLES
  m,       \* the Model
  chosen   \* history: the bottom mode last chosen by hand under each top mode

vars == <<m, chosen>>

-----------------------------------------------------------------------------
TopModes == {"bridge", "vrf", "netns"}
Cycle == <<"bridge", "vrf", "netns">>
BottomModes == {"fdb", "neigh", "route", "process", "link"}
bottomModesForTop(top) ==
  IF top = "vrf" THEN <<"route", "neigh">>
  ELSE IF top = "netns" THEN <<"link", "process">> ELSE <<"fdb">>
(* A mode that was not remembered is the first of its list.                *)
defaultBottomMode(top) == bottomModesForTop(top)[1]
Allowed(top) == {bottomModesForTop(top)[i] : i \in DOMAIN bottomModesForTop(top)}

Least(x, y) == IF x < y THEN x ELSE y
Most(x, y) == IF x > y THEN x ELSE y
clamp(x, lo, hi) == IF hi < lo \/ x < lo THEN lo ELSE Least(x, hi)

IndexOf(seq, x) == CHOOSE i \in DOMAIN seq : seq[i] = x
Rotated(seq, x, delta) == seq[((IndexOf(seq, x) - 1 + delta) % Len(seq)) + 1]

(* paneHeights, layout.                                                    *)
TopHeight(s) ==
  LET pane == s.height - 1 IN
  IF pane > 1 THEN clamp((pane * s.percent) \div 100, 1, pane - 1) ELSE pane
VisibleTop(s) == IF s.height <= 1 THEN 0 ELSE Most(0, TopHeight(s) - 2)
VisibleBottom(s) ==
  IF s.height <= 1 THEN 0 ELSE Most(0, s.height - 1 - TopHeight(s) - 3)

(* pick: the item under the cursor, wherever the list ends now.            *)
Current(s) == clamp(s.cursor[s.topMode], 0, Len(s.items) - 1)
Children(s) ==
  IF s.items = <<>> THEN 0 ELSE s.items[Current(s) + 1]
Filter(s) == IF s.topMode = "netns" THEN -1 ELSE s.filter[s.topMode]

(* Mutated form: the children are not scrolled to the filtered one.        *)
ChildStartFirst(total, filter, visible) == 0
(* visibleChildRange, its start and the number of children in it.          *)
ChildStart(total, filter, visible) ==
  IF visible <= 1 \/ filter < 0 THEN 0
  ELSE Least(Most(0, clamp(filter, 0, total - 1) - visible + 2),
             Most(0, total - visible + 1))
ChildrenShown(total, visible) ==
  IF visible <= 1 THEN total ELSE Least(total, visible - 1)

-----------------------------------------------------------------------------
(* `topRows' describes what the top pane shows; a filter of -1 is none.    *)
Models ==
  [focusTop : BOOLEAN, topMode : TopModes, botMode : BottomModes,
   cursor : [TopModes -> Nat], filter : [{"bridge", "vrf"} -> Nat \cup {-1}],
   botCursor : Int, botViewport : Nat, topViewport : Nat, topVisible : Nat,
   topRows : [count : Nat, at : Nat, shown : Nat, picked : Int],
   percent : MinPercent..MaxPercent, height : Nat,
   saved : [TopModes -> BottomModes], items : Seq(Nat), rows : Nat,
   help : BOOLEAN, dirty : BOOLEAN]

TypeOK ==
  /\ m \in Models /\ m.botMode \in Allowed(m.topMode)
  /\ m.botCursor \in 0..Most(0, m.rows - 1)
  /\ m.topRows.at \in 0..Most(0, m.topRows.count - 1)
  /\ chosen \in [TopModes -> BottomModes]

-----------------------------------------------------------------------------
(* adjustTopViewport.  The children that are shown move the window only as *)
(* far up as it takes; if they fill it, their parent is its first row.     *)
Fits(s, viewport) == clamp(viewport, 0, Most(0, s.topRows.count - s.topVisible))
AdjustedForChildren(s, viewport) ==
  LET row == s.topRows.at
      shown == s.topRows.shown
  IN  IF Children(s) > s.topVisible - 1 THEN row
      ELSE IF row \in viewport..(viewport + s.topVisible - 1 - shown) THEN viewport
      ELSE row - Most(0, s.topVisible - shown - 1)

AdjustedForRow(s, viewport) ==
  IF s.topRows.at < viewport THEN s.topRows.at
                             ELSE Most(viewport, s.topRows.at - s.topVisible + 1)

Adjusted(s) ==
  LET viewport == Fits(s, s.topViewport) IN
  IF s.topVisible = 0 THEN s.topViewport
  ELSE IF s.topRows.count = 0 THEN 0
  ELSE Fits(s, IF s.topRows.shown > 0 THEN AdjustedForChildren(s, viewport)
                                      ELSE AdjustedForRow(s, viewport))

ItemsFor(top, items) == IF top = "netns" THEN [i \in DOMAIN items |-> 0] ELSE items

(* Mutated form: the bottom cursor stays when the rows become fewer.       *)
ReadUnclamped(s, items, rows) ==
  [s EXCEPT !.items = ItemsFor(s.topMode, items), !.rows = rows]

(* What a refresh reads.                                                   *)
Read(s, items, rows) ==
  [s EXCEPT !.items = ItemsFor(s.topMode, items),
            !.rows = rows, !.botCursor = clamp(s.botCursor, 0, rows - 1)]

(* buildTopRows: the children shown, from one on, follow the current item. *)
(* How many rows, where the current item is, and where the child a filter  *)
(* picks, or -1.                                                           *)
TopRows(s, visible) ==
  LET total == Children(s)
      shown == ChildrenShown(total, visible)
      index == Filter(s) - ChildStart(total, Filter(s), visible)
  IN  [count |-> Len(s.items) + shown, at |-> Current(s), shown |-> shown,
       picked |-> IF Filter(s) \in 0..(total - 1) THEN Current(s) + 1 + index ELSE -1]

(* refreshTopAndBottom.                                                    *)
Laid(s) ==
  [s EXCEPT !.topVisible = VisibleTop(s), !.topRows = TopRows(s, VisibleTop(s))]
refreshTopAndBottom(s, items, rows) ==
  LET t == Laid(Read(s, items, rows)) IN [t EXCEPT !.topViewport = Adjusted(t)]

(* refreshBottomOnly: the items are read again, but the rows of the top    *)
(* pane stay.                                                              *)
refreshBottomOnly(s, items, rows) == Read(s, items, rows)

-----------------------------------------------------------------------------
BottomReset(s) == [s EXCEPT !.botCursor = 0, !.botViewport = 0]

(* rememberBottomMode.                                                     *)
Remembered(s) ==
  IF s.botMode \in Allowed(s.topMode) THEN [s EXCEPT !.saved[s.topMode] = s.botMode]
                                      ELSE s

NoFilter == [top \in {"bridge", "vrf"} |-> -1]

(* Mutated form: a top mode always starts with its default bottom mode.    *)
bottomModeDefault(s, top) == defaultBottomMode(top)
bottomModeForTop(s, top) ==
  IF s.saved[top] \in Allowed(top) THEN s.saved[top] ELSE defaultBottomMode(top)

rotateTopMode(s, delta) ==
  LET top == Rotated(Cycle, s.topMode, delta) IN
  BottomReset([s EXCEPT !.topMode = top, !.botMode = bottomModeForTop(s, top),
                        !.filter = NoFilter, !.topViewport = 0])

rotateBottomMode(s, delta) ==
  IF Len(bottomModesForTop(s.topMode)) <= 1 THEN s
  ELSE BottomReset([s EXCEPT !.botMode =
                      Rotated(bottomModesForTop(s.topMode), s.botMode, delta)])

cycleTopPanePercent(s) ==
  [s EXCEPT !.percent = IF s.percent + Step > MaxPercent THEN MinPercent
                                                         ELSE s.percent + Step]

WithoutFilter(s) ==
  IF s.topMode = "netns" THEN s ELSE [s EXCEPT !.filter[s.topMode] = -1]
(* moveTopCursor and moveTopBoundary.                                      *)
MovedTo(s, index) ==
  BottomReset(WithoutFilter(
    [s EXCEPT !.cursor[s.topMode] = clamp(index, 0, Len(s.items) - 1)]))
moveTopCursor(s, delta) == MovedTo(s, s.cursor[s.topMode] + delta)
moveTopBoundary(s, last) == MovedTo(s, IF last THEN Len(s.items) - 1 ELSE 0)

moveFilterIndex(current, total, delta) ==
  LET index == current + delta IN
  IF total = 0 \/ index < -1 \/ (delta > 0 /\ index >= total) THEN -1 ELSE index
MovedFilter(s, delta) ==
  BottomReset([s EXCEPT !.filter[s.topMode] =
                 moveFilterIndex(s.filter[s.topMode], Children(s), delta)])

(* Mutated form: the window is not moved down to the cursor.               *)
BottomFollowsUp(s, visible) ==
  LET cursor == clamp(s.botCursor, 0, s.rows - 1)
  IN  [s EXCEPT !.botCursor = cursor, !.botViewport = Least(cursor, s.botViewport)]
(* The end of the key handler, with the height the pane had before it: the *)
(* bottom window follows its cursor.                                       *)
BottomFollows(s, visible) ==
  LET cursor == clamp(s.botCursor, 0, s.rows - 1)
  IN  [s EXCEPT !.botCursor = cursor,
                !.botViewport = IF cursor < s.botViewport THEN cursor
                                ELSE IF cursor >= s.botViewport + visible
                                  THEN Most(0, cursor - visible + 1)
                                ELSE s.botViewport]
(* moveBottomBoundary sets the window as well.                             *)
moveBottomBoundary(s, last, visible) ==
  IF last THEN [s EXCEPT !.botCursor = Most(0, s.rows - 1),
                         !.botViewport = Most(0, s.rows - visible)]
          ELSE BottomReset(s)

-----------------------------------------------------------------------------
Init ==
  /\ \E items \in Lists, rows \in RowCounts :
       m = refreshTopAndBottom(
             [focusTop |-> TRUE, topMode |-> "vrf", botMode |-> "route",
              cursor |-> [top \in TopModes |-> 0], filter |-> NoFilter,
              botCursor |-> 0, botViewport |-> 0, topViewport |-> 0,
              topVisible |-> 0,
              topRows |-> [count |-> 0, at |-> 0, shown |-> 0, picked |-> -1],
              percent |-> DefaultPercent, height |-> 0,
              saved |-> [top \in TopModes |-> defaultBottomMode(top)],
              items |-> <<>>, rows |-> 0, help |-> FALSE, dirty |-> FALSE],
             items, rows)
  /\ chosen = [top \in TopModes |-> defaultBottomMode(top)]

RefreshAfter(s) ==
  \E items \in Lists, rows \in RowCounts : m' = refreshTopAndBottom(s, items, rows)

(* A key while the help is not shown: first what it changes, then          *)
(* BottomFollows, then one of three ways to draw.                          *)
Key == ~m.help
EndTop(s) == RefreshAfter(Remembered(BottomFollows(s, VisibleBottom(m))))
EndBottom(s) == m' = Remembered(BottomFollows(s, VisibleBottom(m)))

KeyTab ==
  /\ Key /\ EndBottom([m EXCEPT !.focusTop = ~m.focusTop]) /\ UNCHANGED chosen
KeyDetailed == Key /\ EndTop(m) /\ UNCHANGED chosen
KeyPercent == Key /\ EndTop(cycleTopPanePercent(m)) /\ UNCHANGED chosen

KeyTopMode(delta) ==
  /\ Key /\ m.focusTop
  /\ EndTop(rotateTopMode(Remembered(m), delta))
  /\ UNCHANGED chosen
KeyBottomMode(delta) ==
  /\ Key /\ ~m.focusTop
  /\ LET s == Remembered(BottomFollows(rotateBottomMode(m, delta), VisibleBottom(m)))
     IN  /\ \E items \in Lists, rows \in RowCounts :
              m' = refreshBottomOnly(s, items, rows)
         /\ chosen' = [chosen EXCEPT ![m.topMode] =
                         Rotated(bottomModesForTop(m.topMode), m.botMode, delta)]

KeyChild(delta) ==
  /\ Key /\ m.topMode # "netns"
  /\ EndTop(MovedFilter(m, delta)) /\ UNCHANGED chosen

(* Up and down, and the mouse wheel.                                       *)
KeyMove(delta) ==
  /\ Key /\ UNCHANGED chosen
  /\ \/ m.focusTop /\ EndTop(moveTopCursor(m, delta))
     \/ ~m.focusTop /\ EndBottom([m EXCEPT !.botCursor = m.botCursor + delta])

(* Page and boundary keys clear the filter, which is a reason to refresh   *)
(* the top pane even if the bottom one has the focus.                      *)
EndCleared(s) == IF m.filter = NoFilter THEN EndBottom(s) ELSE EndTop(s)
Cleared == [m EXCEPT !.filter = NoFilter]
KeyPage(delta) ==
  /\ Key /\ UNCHANGED chosen
  /\ \/ m.focusTop /\ EndTop(moveTopCursor(Cleared, delta * Most(1, VisibleTop(m))))
     \/ /\ ~m.focusTop
        /\ EndCleared([Cleared EXCEPT !.botCursor =
                         m.botCursor + delta * VisibleBottom(m)])
KeyBoundary(last) ==
  /\ Key /\ UNCHANGED chosen
  /\ \/ m.focusTop /\ EndTop(moveTopBoundary(Cleared, last))
     \/ ~m.focusTop /\ EndCleared(moveBottomBoundary(Cleared, last, VisibleBottom(m)))

(* A click in a pane.                                                      *)
Click(top) ==
  /\ Key /\ m' = [m EXCEPT !.focusTop = top] /\ UNCHANGED chosen

KeyHelp ==
  /\ Key /\ m' = [m EXCEPT !.help = TRUE, !.dirty = FALSE]
  /\ UNCHANGED chosen
(* Any key closes the help.                                                *)
KeyCloseHelp ==
  LET s == [m EXCEPT !.help = FALSE, !.dirty = FALSE] IN
  /\ m.help
  /\ IF m.dirty THEN RefreshAfter(s) ELSE m' = s
  /\ UNCHANGED chosen

(* Mutated form: a change while the help is shown is not remembered.       *)
RefreshUnlessHelpForgotten(s) == IF s.help THEN m' = s ELSE RefreshAfter(s)
RefreshUnlessHelp(s) ==
  IF s.help THEN m' = [s EXCEPT !.dirty = TRUE] ELSE RefreshAfter(s)

Resize(height) ==
  /\ RefreshUnlessHelp([m EXCEPT !.height = height])
  /\ UNCHANGED chosen

(* InventoryUpdated, and fade ticks that change the top pane; periodic     *)
(* updates are seen by the namespace list only.                            *)
Updated == RefreshUnlessHelp(m) /\ UNCHANGED chosen
PeriodicUpdated ==
  /\ m.help \/ m.topMode = "netns"
  /\ RefreshUnlessHelp(m) /\ UNCHANGED chosen

Next ==
  \/ KeyTab \/ KeyDetailed \/ KeyPercent \/ KeyHelp \/ KeyCloseHelp
  \/ \E delta \in {-1, 1} :
       \/ KeyTopMode(delta) \/ KeyBottomMode(delta) \/ KeyChild(delta)
       \/ KeyMove(delta) \/ KeyPage(delta)
  \/ \E b \in BOOLEAN : KeyBoundary(b) \/ Click(b)
  \/ \E height \in Heights : Resize(height)
  \/ Updated \/ PeriodicUpdated

Spec == Init /\ [][Next]_vars

-----------------------------------------------------------------------------
(* The selected row, and the child a filter picks below it, are in the     *)
(* window of the top pane, after every step that lays it out, whatever the *)
(* lists have become: cursor, filter and window are moved by different     *)
(* handlers and meet in adjustTopViewport only.                            *)
InTopWindow(row) == row \in m.topViewport..(m.topViewport + m.topVisible - 1)
SelectionIsVisible ==
  /\ m.topVisible > 0 => InTopWindow(m.topRows.at)
  /\ m.topVisible > 1 /\ m.topRows.picked # -1 =>
       /\ m.topRows.picked - m.topRows.at \in 1..m.topRows.shown
       /\ InTopWindow(m.topRows.picked)

(* Except behind the help, the panes are laid out for the size that the    *)
(* terminal has, and behind it a change is never forgotten.                *)
LayoutIsCurrent == m.topVisible = VisibleTop(m) \/ (m.help /\ m.dirty)

(* Coming back to a top mode brings back the bottom mode that was last     *)
(* chosen under it.                                                        *)
BottomModeIsRemembered == m.botMode = chosen[m.topMode]

(* A step that moves the bottom cursor and nothing else leaves it in       *)
(* sight, wherever refreshes and changes of height, which do not look at   *)
(* the bottom window, had left it.                                         *)
BottomCursorShown ==
  VisibleBottom(m) > 0 =>
    m.botCursor \in m.botViewport..(m.botViewport + VisibleBottom(m) - 1)
BottomKey ==
  /\ m' # m
  /\ m' = [m EXCEPT !.botCursor = m'.botCursor, !.botViewport = m'.botViewport]
BottomKeysShowCursor == [][BottomKey => BottomCursorShown']_vars
=============================================================================
