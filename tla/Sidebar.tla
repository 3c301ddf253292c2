------------------------------- MODULE Sidebar -------------------------------
(***************************************************************************)
(* Two sidebars of one page (modules/sidebar.js) that move in over the page*)
(* or push it aside.  show and hide decide at once and change the classes  *)
(* in the next frame; what follows is done when a CSS transition of the    *)
(* page, or of the sidebar, ends.                                          *)
(***************************************************************************)
EXTENDS Naturals, SequencesExt

CONSTANTS
  SidebarSettings,  \* [direction, transition, exclusive, mobile], with scrollLock on
  MaxQueued         \* bound: calls between two frames

VARIABLES
  sidebars,   \* each sidebar
  options,    \* [exclusive, mobile]: the setting, and is.mobile()
  pusher,     \* the page: [dimmed]
  queue,      \* the frames asked for
  moving      \* the elements whose CSS transition is under way

sidebarVars == <<sidebars, options, pusher, queue, moving>>

Sidebars == {1, 2}
Pusher   == 0
None     == 0
Other(a) == 3 - a

\* get.transition, with mobileTransition "auto".
Kind(s, a) ==
  IF options.mobile \/ s[a].transition = "auto"
  THEN IF s[a].direction \in {"left", "right"} THEN "uncover" ELSE "overlay"
  ELSE s[a].transition

\* What moves when a sidebar of this kind comes or goes.
Movers(a, kind) ==
  CASE kind = "overlay" -> {a}
    [] kind = "push"    -> {a, Pusher}
    [] kind = "uncover" -> {Pusher}

OthersVisible(s, a) == s[Other(a)].visible
OthersActive(s, a)  == s[Other(a)].visible \/ s[Other(a)].animating

\* $transition.
Awaited(s, a) == IF Kind(s, a) = "overlay" \/ OthersActive(s, a) THEN a ELSE Pusher

\* $transition.off, of its own handlers, and on.  "then" is the sidebar whose
\* show is the callback.
Waiting(s, a, what, then) ==
  [s EXCEPT ![a].ends = {e \in @ : e.on # Awaited(s, a)}
                          \cup {[on |-> Awaited(s, a), what |-> what, then |-> then]}]

Showing(a) == [what |-> "show", of |-> a]
Hiding(a)  == [what |-> "hide", of |-> a]
Dimming    == [what |-> "dim"]

-----------------------------------------------------------------------------
(* show and hide, of a state [s, q]: the sidebars and the frames.          *)

\* pushPage.
PushPage(st, a) ==
  [s |-> Waiting(st.s, a, "shown", None),
   q |-> st.q \o (IF OthersVisible(st.s, a) THEN <<Showing(a)>> ELSE <<Showing(a), Dimming>>)]

\* pullPage.
PullPage(st, a, then) ==
  [s |-> Waiting([st.s EXCEPT ![a].closes = FALSE, ![a].locks = FALSE], a, "hidden", then),
   q |-> Append(st.q, Hiding(a))]

\* hide.  (is.animating asks the context, which never has that class.)
HideSidebar(st, a, then) == IF st.s[a].visible THEN PullPage(st, a, then) ELSE st

\* show; one that has to wait for another to go is its callback, if that is
\* still visible.
ShowSidebar(st, a) ==
  CASE st.s[a].visible -> st
    [] ~st.s[a].visible /\ ~OthersActive(st.s, a) -> PushPage(st, a)
    [] ~st.s[a].visible /\ OthersActive(st.s, a) /\ ~options.exclusive ->
         PushPage([st EXCEPT !.s[a].transition = "overlay"], a)
    [] OTHER -> IF st.s[a].transition = "overlay"
                THEN PushPage(HideSidebar(st, Other(a), None), a)
                ELSE HideSidebar(st, Other(a), a)

-----------------------------------------------------------------------------
(* Frames and ends.                                                        *)

(* Frames do their work to w = [s, dimmed, moving].                        *)

\* animate of pushPage.
Shown(w, a) ==
  [w EXCEPT !.s[a].closes = TRUE, !.s[a].animating = TRUE, !.s[a].visible = TRUE,
            !.moving = @ \cup (IF w.s[a].visible THEN {} ELSE Movers(a, Kind(w.s, a)))]

(* Faulty variant: the page is restored only after the last animation.     *)
HiddenDimmed(w, a) ==
  [w EXCEPT !.s[a].animating = TRUE, !.s[a].visible = FALSE,
            !.dimmed = @ /\ OthersActive(w.s, a),
            !.moving = @ \cup (IF w.s[a].visible THEN Movers(a, Kind(w.s, a)) ELSE {})]

\* animate of pullPage.
Hidden(w, a) ==
  [w EXCEPT !.s[a].animating = TRUE, !.s[a].visible = FALSE,
            !.dimmed = @ /\ OthersVisible(w.s, a),
            !.moving = @ \cup (IF w.s[a].visible THEN Movers(a, Kind(w.s, a)) ELSE {})]

Animated(w, f) ==
  CASE f.what = "dim"  -> [w EXCEPT !.dimmed = TRUE]
    [] f.what = "show" -> Shown(w, f.of)
    [] f.what = "hide" -> Hidden(w, f.of)

AllAnimated ==
  FoldLeft(Animated, [s |-> sidebars, dimmed |-> pusher.dimmed, moving |-> moving], queue)

\* transitionEnd of pushPage and of pullPage.
Ended(st, a, e) ==
  IF e.what = "shown"
  THEN [st EXCEPT !.s[a].ends = @ \ {e}, !.s[a].animating = FALSE, !.s[a].locks = TRUE]
  ELSE LET ended == [st EXCEPT !.s[a].ends = @ \ {e}, !.s[a].animating = FALSE]
       IN  IF e.then = None THEN ended ELSE ShowSidebar(ended, e.then)

\* Every handler a sidebar has on the element, in turn.
EndsOf(st, a, x) ==
  LET heard == {e \in st.s[a].ends : e.on = x}
  IN  IF heard = {} THEN st ELSE Ended(st, a, CHOOSE e \in heard : TRUE)

-----------------------------------------------------------------------------
(* What happens.                                                           *)

SidebarInit ==
  \E setting \in SidebarSettings :
    /\ options = [exclusive |-> setting.exclusive, mobile |-> setting.mobile]
    /\ sidebars = [a \in Sidebars |->
         [direction |-> setting.direction, transition |-> setting.transition, visible |-> FALSE,
          animating |-> FALSE, closes |-> FALSE, locks |-> FALSE, ends |-> {}]]
    /\ pusher = [dimmed |-> FALSE]
    /\ queue = <<>> /\ moving = {}

Becoming(st) == sidebars' = st.s /\ queue' = st.q

State == [s |-> sidebars, q |-> queue]

CallShow ==
  /\ Len(queue) < MaxQueued
  /\ \E a \in Sidebars : Becoming(ShowSidebar(State, a))
  /\ UNCHANGED <<options, pusher, moving>>

CallHide ==
  /\ Len(queue) < MaxQueued
  /\ \E a \in Sidebars : sidebars[a].visible /\ Becoming(HideSidebar(State, a, None))
  /\ UNCHANGED <<options, pusher, moving>>

\* event.clickaway of every sidebar that listens.
ClickPage ==
  /\ Len(queue) < MaxQueued
  /\ \E a \in Sidebars : sidebars[a].closes
  /\ LET first == IF sidebars[1].closes THEN HideSidebar(State, 1, None) ELSE State
     IN  Becoming(IF sidebars[2].closes THEN HideSidebar(first, 2, None) ELSE first)
  /\ UNCHANGED <<options, pusher, moving>>

NextFrame ==
  /\ queue # <<>>
  /\ LET w == AllAnimated
     IN  /\ sidebars' = w.s
         /\ pusher' = [dimmed |-> w.dimmed]
         /\ moving' = w.moving
  /\ queue' = <<>>
  /\ UNCHANGED options

TransitionEnds(x) ==
  /\ x \in moving
  /\ moving' = moving \ {x}
  /\ Becoming(EndsOf(EndsOf(State, 1, x), 2, x))
  /\ UNCHANGED <<options, pusher>>

SidebarNext ==
  \/ CallShow \/ CallHide \/ ClickPage \/ NextFrame
  \/ \E x \in Sidebars \cup {Pusher} : TransitionEnds(x)

SidebarSpec == SidebarInit /\ [][SidebarNext]_sidebarVars

-----------------------------------------------------------------------------
(* Correctness.                                                            *)

(* Once the frames are drawn, a click on the page closes every sidebar that*)
(* is open, and no other.                                                  *)
OpenSidebarCloses ==
  queue = <<>> => \A a \in Sidebars : sidebars[a].closes = sidebars[a].visible

(* Once the frames are drawn, the page is not left dimmed with no sidebar  *)
(* open, in whatever order and frames the two come and go.                 *)
DimmedOnlyWhileOpen ==
  queue = <<>> /\ pusher.dimmed => \E a \in Sidebars : sidebars[a].visible

(* Of sidebars that move in over the page, one at a time: once nothing     *)
(* moves, none that is closed holds the page's scroll.                     *)
ClosedFreesScroll ==
  queue = <<>> /\ moving = {} /\ options.exclusive =>
    \A a \in Sidebars :
      Kind(sidebars, a) = "overlay" /\ sidebars[a].locks => sidebars[a].visible

(* Sidebars give the page back: a click on it closes what is open, and no  *)
(* closed one keeps it dimmed or locked.                                   *)
ClosedFreesPage == OpenSidebarCloses /\ DimmedOnlyWhileOpen /\ ClosedFreesScroll

=============================================================================
