------------------------------- MODULE Sticky -------------------------------
(***************************************************************************)
(* A rail of Semantic UI (modules/sticky.js): an element that stays on     *)
(* screen while the column it belongs to (its context) scrolls by.  It     *)
(* stands in its initial position, or is fixed to the top or the bottom of *)
(* the window, or is bound to the bottom of the column; an element larger  *)
(* than the window is scrolled along.                                      *)
(*                                                                         *)
(* Classes and inline style are the module's state; where the element then *)
(* stands follows from the style sheet (components/sticky.css).            *)
(***************************************************************************)
EXTENDS Integers

CONSTANTS
  Rails,       \* [size, offset, bottomOffset, pushing, observes]: the settings
  ColumnStart, \* where the column begins, and the element in it
  ColumnSizes, \* heights the column may have
  Windows,     \* heights the window may have
  MaxScrolled, \* bound: how far the page scrolls
  MaxChanges   \* bound: how often the column or the window changes its size

VARIABLES
  column,      \* the page: its settings, and what can be measured
  rail,        \* the module, with what it set on its element
  awaited,     \* what waits for the next frame, or for module.timer
  changes      \* how often something was resized

stickyVars == <<column, rail, awaited, changes>>

StickyAssumption ==
  /\ Rails \subseteq [size : Nat \ {0}, offset : Nat, bottomOffset : Nat, pushing : BOOLEAN,
                      observes : BOOLEAN]
  /\ ColumnStart \in Nat /\ ColumnSizes \subseteq Nat /\ Windows \subseteq Nat
  /\ \A setting \in Rails, h \in ColumnSizes : setting.size <= h   \* checkErrors
  /\ MaxScrolled \in Nat /\ MaxChanges \in Nat

-----------------------------------------------------------------------------
(* What the module works out.                                              *)

\* save.positions: the cache.
Positions(c) ==
  [bottom |-> ColumnStart + c.height, window |-> c.window,
   fits   |-> c.size + c.offset <= c.window]

\* stick's offset.
Offset(r) == IF r.side = "bottom" /\ column.pushing THEN column.bottomOffset ELSE column.offset

Abs(n) == IF n < 0 THEN -n ELSE n

\* get.elementScroll, with scrollChange and currentElementScroll.
ElementScroll(r, top) ==
  LET change   == IF r.lastScroll # 0 THEN top - r.lastScroll ELSE 0
      current  == IF r.elementScroll # 0 THEN r.elementScroll
                  ELSE Abs(IF r.side = "top" THEN r.topStyle ELSE r.bottomStyle)
      possible == current + change
      most     == column.size - r.cache.window + column.offset
  IN  IF r.cache.fits \/ possible < 0 THEN 0
      ELSE IF possible > most THEN most
      ELSE possible

-----------------------------------------------------------------------------
(* The positions.                                                          *)

\* unfix and unbind; the inline top and bottom stay.
SetInitialPosition(r) == [r EXCEPT !.place = "initial", !.side = "none"]

BindBottom(r) == [r EXCEPT !.place = "bound", !.side = "bottom", !.topStyle = 0]

FixTop(r)    == [r EXCEPT !.place = "fixed", !.side = "top", !.bottomStyle = 0]
FixBottom(r) == [r EXCEPT !.place = "fixed", !.side = "bottom", !.bottomStyle = 0]

\* set.scroll, save.lastScroll and save.elementScroll.
ScrollElement(r, top, elementScroll) ==
  LET styled == IF r.elementScroll = elementScroll THEN r
                ELSE IF r.side = "top"
                     THEN [r EXCEPT !.topStyle = -elementScroll, !.bottomStyle = 0]
                     ELSE [r EXCEPT !.bottomStyle = elementScroll, !.topStyle = 0]
  IN  [styled EXCEPT !.lastScroll = top, !.elementScroll = elementScroll]

Initially(r, top, bottomEdge) ==
  IF top >= r.cache.bottom THEN BindBottom(r)
  ELSE CASE top > ColumnStart /\ bottomEdge >= r.cache.bottom -> BindBottom(r)
         [] top > ColumnStart /\ bottomEdge < r.cache.bottom  -> FixTop(r)
         [] OTHER                                       -> r

FixedToTop(r, top, bottomEdge, elementScroll) ==
  CASE top <= ColumnStart -> SetInitialPosition(r)
    [] top > ColumnStart /\ bottomEdge >= r.cache.bottom -> BindBottom(r)
    [] OTHER -> IF r.cache.fits THEN r ELSE ScrollElement(r, top, elementScroll)

FixedToBottom(r, top, elementScroll) ==
  LET bottom == top + r.cache.window
  IN  CASE bottom - column.size <= ColumnStart -> SetInitialPosition(r)
        [] bottom - column.size > ColumnStart /\ bottom >= r.cache.bottom -> BindBottom(r)
        [] OTHER -> IF r.cache.fits THEN r ELSE ScrollElement(r, top, elementScroll)

BoundToBottom(r, top) ==
  CASE top <= ColumnStart -> SetInitialPosition(r)
    [] top > ColumnStart /\ column.pushing /\ top + r.cache.window <= r.cache.bottom -> FixBottom(r)
    [] top > ColumnStart /\ ~column.pushing /\ top <= r.cache.bottom - column.size -> FixTop(r)
    [] OTHER -> r

\* stick.
Stick(r, scrolled) ==
  LET top           == scrolled + Offset(r)
      elementScroll == IF r.cache.fits THEN 0 ELSE ElementScroll(r, top)
      bottomEdge    == column.size + top - elementScroll
  IN  CASE r.cache.bottom - ColumnStart = column.size -> r
        [] OTHER ->
           CASE r.place = "initial"                   -> Initially(r, top, bottomEdge)
             [] r.place = "fixed" /\ r.side = "top"   -> FixedToTop(r, top, bottomEdge, elementScroll)
             [] r.place = "fixed" /\ r.side = "bottom" -> FixedToBottom(r, top, elementScroll)
             [] r.place = "bound"                     -> BoundToBottom(r, top)

\* reset: module.elementScroll is not forgotten.
ResetRail(r) == [SetInitialPosition(r) EXCEPT !.lastScroll = 0]

(* Faulty variant: the element is measured where it stands.                *)
RefreshRailInPlace(r, c) == Stick([r EXCEPT !.cache.window = c.window], c.scrolled)

\* refresh: reset, save.positions - which sticks - and stick.  (The sets make
\* TLC evaluate each of the two once.)
RefreshRail(r, c) ==
  LET saved == [ResetRail(r) EXCEPT !.cache = Positions(c)]
  IN  CHOOSE again \in {Stick(once, c.scrolled) : once \in {Stick(saved, c.scrolled)}} : TRUE

-----------------------------------------------------------------------------
(* What happens.                                                           *)

\* A rail is set up at the top of the page or where it was scrolled to;
\* checkErrors warns when it is larger than its column, which none is.
StickyInit ==
  /\ \E setting \in Rails, height \in ColumnSizes, window \in Windows, scrolled \in 0..MaxScrolled :
       column = [size |-> setting.size, offset |-> setting.offset,
                 bottomOffset |-> setting.bottomOffset, pushing |-> setting.pushing,
                 observes |-> setting.observes,
                 height |-> height, window |-> window, scrolled |-> scrolled]
  /\ rail = Stick([alive |-> TRUE, place |-> "initial", side |-> "none",
                   topStyle |-> 0, bottomStyle |-> 0, lastScroll |-> 0, elementScroll |-> 0,
                   cache |-> Positions(column)], column.scrolled)
  /\ awaited = {}
  /\ changes = 0

\* event.scroll, which destroy leaves bound.
ScrollPage ==
  /\ \E s \in 0..MaxScrolled \ {column.scrolled} : column' = [column EXCEPT !.scrolled = s]
  /\ awaited' = awaited \cup {"scrollchange"}
  /\ UNCHANGED <<rail, changes>>

\* event.resize.
ResizeWindow ==
  /\ changes < MaxChanges /\ changes' = changes + 1
  /\ \E w \in Windows \ {column.window} : column' = [column EXCEPT !.window = w]
  /\ awaited' = awaited \cup (IF rail.alive THEN {"refresh"} ELSE {})
  /\ UNCHANGED rail

\* event.changed, when it is observed.
ChangeColumn ==
  /\ changes < MaxChanges /\ changes' = changes + 1
  /\ \E h \in ColumnSizes \ {column.height} : column' = [column EXCEPT !.height = h]
  /\ awaited' = awaited \cup (IF rail.alive /\ column.observes THEN {"timer"} ELSE {})
  /\ UNCHANGED rail

\* The frame of event.scroll: scrollchange, which nobody hears after destroy.
ScrollFrame ==
  /\ "scrollchange" \in awaited
  /\ awaited' = awaited \ {"scrollchange"}
  /\ rail' = IF rail.alive THEN Stick(rail, column.scrolled) ELSE rail
  /\ UNCHANGED <<column, changes>>

\* The frame of event.resize or event.load, or the timer of event.changed:
\* refresh, also of a module that was destroyed.
RefreshLater(what) ==
  /\ what \in awaited
  /\ awaited' = awaited \ {what}
  /\ rail' = RefreshRail(rail, column)
  /\ UNCHANGED <<column, changes>>

\* The page calls refresh, or it has finished loading.
PageRefreshes ==
  /\ rail.alive
  /\ rail' = RefreshRail(rail, column)
  /\ UNCHANGED <<column, awaited, changes>>

\* destroy, by the page or by documentChanged.
DestroyRail ==
  /\ rail.alive
  /\ rail' = [ResetRail(rail) EXCEPT !.alive = FALSE]
  /\ UNCHANGED <<column, awaited, changes>>

StickyNext ==
  \/ ScrollPage \/ ResizeWindow \/ ChangeColumn \/ ScrollFrame
  \/ \E what \in {"refresh", "timer"} : RefreshLater(what)
  \/ PageRefreshes \/ DestroyRail

StickySpec == StickyInit /\ [][StickyNext]_stickyVars

-----------------------------------------------------------------------------
(* Correctness.                                                            *)

\* Where a rail's top edge stands on the page.
TopEdge(r) ==
  CASE r.place = "initial" -> ColumnStart
    [] r.place = "fixed" /\ r.side = "top" -> column.scrolled + column.offset + r.topStyle
    [] r.place = "fixed" /\ r.side = "bottom" ->
         column.scrolled + column.window - r.bottomStyle - column.size
    [] r.place = "bound" -> ColumnStart + column.height - r.bottomStyle - column.size

Fitting == \A w \in Windows : column.size + column.offset <= w

\* A rail that hears of every change, and has heard of all so far.
UpToDate == rail.alive /\ column.observes /\ awaited = {}

(* stick judges where a rail stands by the scrolled distance and its       *)
(* offset. bottomOffset is part of that sum, but it does not move a rail   *)
(* that is fixed to the bottom, which ends up higher by that much.         *)
Overshoot(r) ==
  IF r.place = "fixed" /\ r.side = "bottom" THEN column.bottomOffset ELSE 0

InsideColumn(r) ==
  /\ TopEdge(r) + Overshoot(r) >= ColumnStart
  /\ TopEdge(r) + column.size <= ColumnStart + column.height

\* Fixed wherever fixing it to the top leaves it inside, unless it pushes.
OnScreen(r) ==
  ~column.pushing
    /\ ColumnStart < column.scrolled + column.offset
    /\ column.scrolled + column.offset + column.size < ColumnStart + column.height
    => r.place = "fixed"

(* Once it has heard of every scroll and change, a rail that fits is where *)
(* it belongs, wherever the page jumped to meanwhile: inside its column,   *)
(* not below it and above it by no more than the bottomOffset of one that  *)
(* pushes; and out of sight only when all its room in the column is.       *)
StaysInItsPlace == Fitting /\ UpToDate => InsideColumn(rail) /\ OnScreen(rail)

=============================================================================
