-------------------------- MODULE PagePartsProofs --------------------------
(***************************************************************************)
(* Theorems about parts of the console's pages, each by itself: the        *)
(* progress bar, the popups of any set of elements, the search box, a      *)
(* sticky rail, and the menus of actions.                                  *)
(***************************************************************************)
EXTENDS PageParts, Sequences, WellFoundedInduction, TLAPS

-----------------------------------------------------------------------------
(* The progress bar.                                                       *)

ServerActions == {"None", "Provision", "Reconfigure", "Deprovision"}
ServerPhases  == {"None", "Storage", "Security", "Instance", "Network", "Monitoring",
                  "Configuration", "Ingress"}
Percents      == 0 .. 100 \cup {ABar!Unset}

ServerView == [action : ServerActions, phase : ServerPhases]

Bars ==
  [width : Percents, data : Percents, active : BOOLEAN, success : BOOLEAN, module : BOOLEAN,
   percent : Percents, ticking : BOOLEAN, ending : SUBSET {"own", "gone"}]

BarTypeOK ==
  /\ now \in ServerView /\ server \in ServerView
  /\ hasError \in BOOLEAN
  /\ bar \in Bars
  /\ visits \in 0 .. MaxVisits

(* The colours and the pulse are those of the width, but while an          *)
(* animation is under way that has still to set the pulse.                 *)
Coloured(b) ==
  /\ b.percent = b.width
  /\ b.width \in 1 .. 99 => ~b.success
  /\ b.ending = {} => (b.active <=> b.width \in 1 .. 99)

(* What a module that is gone has left to do is done together with what    *)
(* the one that took its place has.                                        *)
BarInv ==
  /\ BarTypeOK
  /\ bar.module => Coloured(bar) /\ bar.width = ABar!PercentOf[server.phase]
  /\ "gone" \in bar.ending /\ bar.module => "own" \in bar.ending
  /\ "own" \in bar.ending => bar.module
  /\ bar.ticking => bar.module

LEMMA PercentTyped ==
    ASSUME NEW phase \in ServerPhases
    PROVE  ABar!PercentOf[phase] \in 0 .. 100
BY DEF ServerPhases, ABar!PercentOf, ABar!None

LEMMA CourseTyped ==
    ASSUME NEW action \in DOMAIN ABar!Course
    PROVE  /\ action \in ServerActions
           /\ ABar!Course[action] \in Seq(ServerPhases) /\ ABar!Course[action] # <<>>
<1>1. action \in {"Provision", "Reconfigure", "Deprovision"}
  BY DEF ABar!Course
<1>2. /\ ABar!Building \in Seq(ServerPhases) /\ ABar!Building # <<>>
  BY DEF ABar!Building, ServerPhases
<1>3. /\ <<"Ingress", "Monitoring", "Network", "Instance", "Security", "Storage">>
           \in Seq(ServerPhases)
      /\ <<"Ingress", "Monitoring", "Network", "Instance", "Security", "Storage">> # <<>>
  BY DEF ServerPhases
<1>4. CASE action \in {"Provision", "Reconfigure"}
  BY <1>2, <1>4 DEF ABar!Course, ServerActions
<1>5. CASE action = "Deprovision"
  BY <1>3, <1>5 DEF ABar!Course, ServerActions
<1>6. QED
  BY <1>1, <1>4, <1>5

(* set.state(), with the module's own percent or that of one that is gone. *)
LEMMA StateSet ==
    ASSUME NEW b \in Bars, NEW percent \in Percents, NEW c, c = ABar!SetState(b, percent)
    PROVE  /\ c \in Bars /\ c.width = b.width /\ c.percent = b.percent
           /\ c.module = b.module /\ c.ticking = b.ticking /\ c.ending = b.ending
           /\ c.active <=> percent \in 1 .. 99
           /\ percent \in 1 .. 99 => ~c.success
<1>1. CASE percent = 100
  <2>1. c = [b EXCEPT !.success = TRUE, !.active = FALSE] /\ percent \notin 1 .. 99
    BY <1>1 DEF ABar!SetState
  <2>2. QED
    BY <2>1 DEF Bars
<1>2. CASE percent \in 1 .. 99
  <2>1. c = [b EXCEPT !.active = TRUE, !.success = FALSE]
    BY <1>2 DEF ABar!SetState
  <2>2. QED
    BY <1>2, <2>1 DEF Bars
<1>3. CASE percent # 100 /\ percent \notin 1 .. 99
  <2>1. c = [b EXCEPT !.active = FALSE]
    BY <1>3 DEF ABar!SetState
  <2>2. QED
    BY <1>3, <2>1 DEF Bars
<1>4. QED
  BY <1>1, <1>2, <1>3

LEMMA PercentSet ==
    ASSUME NEW b \in Bars, NEW percent \in Percents
    PROVE  LET c == ABar!SetPercent(b, percent)
           IN  /\ c \in Bars /\ Coloured(c) /\ c.width = percent
               /\ c.module = b.module /\ c.ticking /\ c.ending = b.ending \cup {"own"}
<1> DEFINE ending == b.ending \cup {"own"}
           v == [b EXCEPT !.width = percent, !.percent = percent, !.ticking = TRUE,
                          !.ending = ending]
           c == ABar!SetState(v, percent)
<1>1. ending \in SUBSET {"own", "gone"} /\ "own" \in ending
  BY DEF Bars
<1> HIDE DEF ending
<1>2. /\ v \in Bars /\ v.width = percent /\ v.percent = percent /\ v.ticking
      /\ v.ending = ending /\ v.module = b.module
  BY <1>1 DEF Bars
<1>3. ABar!SetPercent(b, percent) = c
  BY DEF ABar!SetPercent, ending
<1> HIDE DEF v
<1>4. /\ c \in Bars /\ c.width = percent /\ c.percent = percent
      /\ c.module = b.module /\ c.ticking /\ c.ending = ending
      /\ percent \in 1 .. 99 => ~c.success
  BY <1>2, StateSet
<1> HIDE DEF c
<1>5. Coloured(c)
  BY <1>1, <1>4 DEF Coloured
<1>6. QED
  BY <1>3, <1>4, <1>5 DEF ending

LEMMA BarAttached ==
    ASSUME NEW b \in Bars, NEW s \in ServerView
    PROVE  LET c == ABar!Attached(b, s)
           IN  /\ c \in Bars /\ Coloured(c) /\ c.width = ABar!PercentOf[s.phase]
               /\ c.module /\ "own" \in c.ending
<1> DEFINE p == ABar!ReadPercent(b)
           v == [b EXCEPT !.data = p, !.module = TRUE]
           u == ABar!Initialize(b)
<1>1. p \in Percents
  BY DEF ABar!ReadPercent, Bars
<1>2. u \in {v, ABar!SetPercent(v, p)}
  BY DEF ABar!Initialize
<1> HIDE DEF p, u
<1>3. v \in Bars /\ v.module
  BY <1>1 DEF Bars
<1> HIDE DEF v
<1>4. u \in Bars /\ u.module
  BY <1>1, <1>2, <1>3, PercentSet
<1>5. ABar!PercentOf[s.phase] \in Percents
  BY PercentTyped DEF ServerView, Percents
<1>6. ABar!Attached(b, s) = ABar!SetPercent(u, ABar!PercentOf[s.phase])
  BY DEF ABar!Attached, u
<1>7. QED
  BY <1>4, <1>5, <1>6, PercentSet

LEMMA BarRefreshed ==
    ASSUME NEW b \in Bars, NEW s \in ServerView, NEW t \in ServerView
    PROVE  LET c == ABar!Refreshed(b, s, t)
           IN  /\ c \in Bars /\ Coloured(c) /\ c.width = ABar!PercentOf[t.phase]
               /\ c.module = b.module /\ "own" \in c.ending
<1> DEFINE u == ABar!SetPercent(b, ABar!PercentOf[s.phase])
<1>1. ABar!PercentOf[s.phase] \in Percents /\ ABar!PercentOf[t.phase] \in Percents
  BY PercentTyped DEF ServerView, Percents
<1>2. u \in Bars /\ u.module = b.module
  BY <1>1, PercentSet
<1>3. ABar!Refreshed(b, s, t) = ABar!SetPercent(u, ABar!PercentOf[t.phase])
  BY DEF ABar!Refreshed
<1> HIDE DEF u
<1>4. QED
  BY <1>1, <1>2, <1>3, PercentSet

LEMMA BarDestroyed ==
    ASSUME NEW b \in Bars
    PROVE  LET c == ABar!Destroyed(b)
           IN  c \in Bars /\ ~c.module /\ ~c.ticking /\ "own" \notin c.ending
<1> DEFINE ending == IF b.ending = {} THEN {} ELSE {"gone"}
<1>1. ending \in SUBSET {"own", "gone"} /\ "own" \notin ending
  OBVIOUS
<1>2. ABar!Destroyed(b) = [b EXCEPT !.module = FALSE, !.percent = ABar!Unset, !.ticking = FALSE,
                                   !.ending = ending]
  BY DEF ABar!Destroyed
<1> HIDE DEF ending
<1>3. QED
  BY <1>1, <1>2 DEF Bars, Percents

(* LoadStarts, Loaded and LoadFails.                                       *)
LEMMA BarInvShow ==
    ASSUME BarInv, NEW s \in ServerView, NEW failed \in BOOLEAN, ABar!Show(s, failed),
           UNCHANGED <<now, visits>>
    PROVE  BarInv'
<1>1. BarTypeOK /\ bar \in Bars /\ server \in ServerView
  BY DEF BarInv, BarTypeOK
<1>2. server' = s /\ hasError' = failed
  BY DEF ABar!Show
<1>3. CASE bar' = bar /\ ~bar.module
  BY <1>1, <1>2, <1>3 DEF BarInv, BarTypeOK
<1>4. CASE bar' = ABar!Destroyed(bar)
  <2>1. bar' \in Bars /\ ~bar'.module /\ ~bar'.ticking /\ "own" \notin bar'.ending
    BY <1>1, <1>4, BarDestroyed
  <2>2. QED
    BY <1>1, <1>2, <2>1 DEF BarInv, BarTypeOK
<1>5. CASE (bar' = ABar!Refreshed(bar, server, s) /\ bar.module) \/ bar' = ABar!Attached(bar, s)
  <2>1. /\ bar' \in Bars /\ Coloured(bar') /\ bar'.width = ABar!PercentOf[s.phase]
        /\ bar'.module /\ "own" \in bar'.ending
    <3>1. CASE bar' = ABar!Refreshed(bar, server, s) /\ bar.module
      BY <1>1, <3>1, BarRefreshed
    <3>2. CASE bar' = ABar!Attached(bar, s)
      BY <1>1, <3>2, BarAttached
    <3>3. QED
      BY <1>5, <3>1, <3>2
  <2>2. QED
    BY <1>1, <1>2, <2>1 DEF BarInv, BarTypeOK, Coloured
<1>6. QED
  BY <1>3, <1>4, <1>5 DEF ABar!Show

LEMMA BarInvStep ==
    ABar!ProgressAssumption /\ BarInv /\ [ABar!Next]_(ABar!vars) => BarInv'
<1> SUFFICES ASSUME ABar!ProgressAssumption, BarInv, [ABar!Next]_(ABar!vars) PROVE BarInv'
  OBVIOUS
<1>1. /\ BarTypeOK /\ bar \in Bars /\ now \in ServerView /\ server \in ServerView
      /\ hasError \in BOOLEAN /\ visits \in 0 .. MaxVisits
  BY DEF BarInv, BarTypeOK
<1>2. CASE UNCHANGED ABar!vars
  BY <1>1, <1>2 DEF ABar!vars, BarInv, BarTypeOK, Coloured
<1>3. CASE ABar!Requested \/ ABar!Advances \/ ABar!EndsOrFails
  <2>1. now' \in ServerView
    <3>1. CASE ABar!Requested
      BY <1>1, <3>1, CourseTyped DEF ABar!Requested, ServerView
    <3>2. CASE ABar!Advances
      <4> DEFINE course == ABar!Course[now.action]
      <4>1. now.action \in DOMAIN ABar!Course
        BY <1>1, <3>2 DEF ABar!Advances, ABar!Course, ABar!None, ServerView, ServerActions
      <4>2. course \in Seq(ServerPhases) /\ course # <<>>
        BY <4>1, CourseTyped
      <4>3. PICK phase : now' = [now EXCEPT !.phase = phase]
                          /\ (phase = Head(course)
                              \/ \E i \in 1 .. Len(course) - 1 : phase = course[i + 1])
        BY <3>2 DEF ABar!Advances
      <4> HIDE DEF course
      <4>4. phase \in ServerPhases
        BY <4>2, <4>3
      <4>5. QED
        BY <1>1, <4>3, <4>4 DEF ServerView
    <3>3. CASE ABar!EndsOrFails
      BY <3>3 DEF ABar!EndsOrFails, ABar!Idle, ABar!None, ServerView, ServerActions, ServerPhases
    <3>4. QED
      BY <1>3, <3>1, <3>2, <3>3
  <2>2. visits' \in 0 .. MaxVisits /\ UNCHANGED <<server, hasError, bar>>
    <3>1. MaxVisits \in Nat
      BY DEF ABar!ProgressAssumption
    <3>2. CASE ABar!Requested
      BY <1>1, <3>1, <3>2 DEF ABar!Requested
    <3>3. CASE ABar!Advances \/ ABar!EndsOrFails
      BY <1>1, <3>3 DEF ABar!Advances, ABar!EndsOrFails
    <3>4. QED
      BY <1>3, <3>2, <3>3
  <2>3. QED
    BY <1>1, <2>1, <2>2 DEF BarInv, BarTypeOK, Coloured
<1>4. CASE ABar!LoadStarts
  BY <1>1, <1>4, BarInvShow DEF ABar!LoadStarts
<1>5. CASE ABar!Loaded
  BY <1>1, <1>5, BarInvShow DEF ABar!Loaded
<1>6. CASE ABar!LoadFails
  BY <1>1, <1>6, BarInvShow DEF ABar!LoadFails
<1>7. CASE ABar!AnimationEnds
  <2> DEFINE elder == IF "gone" \in bar.ending THEN ABar!Outlived(bar) ELSE bar
             own   == IF "own" \in bar.ending THEN ABar!StopTicking(elder) ELSE elder
             stopped == [elder EXCEPT !.ticking = FALSE]
  <2>1. UNCHANGED <<now, server, hasError, visits>> /\ bar' = [own EXCEPT !.ending = {}]
    BY <1>7 DEF ABar!AnimationEnds
  <2>2. /\ elder \in Bars /\ elder.width = bar.width /\ elder.percent = bar.percent
        /\ elder.module = bar.module /\ elder.ticking = bar.ticking
    <3>1. ABar!Unset \in Percents
      BY DEF Percents
    <3>2. QED
      BY <1>1, <3>1, StateSet DEF ABar!Outlived
  <2>3. own = IF "own" \in bar.ending THEN ABar!SetState(stopped, elder.percent) ELSE elder
    BY DEF ABar!StopTicking
  <2> HIDE DEF elder, own
  <2>4. /\ stopped \in Bars /\ stopped.width = bar.width /\ stopped.percent = bar.percent
        /\ stopped.module = bar.module /\ ~stopped.ticking
    BY <2>2 DEF Bars
  <2> HIDE DEF stopped
  <2>5. CASE "own" \in bar.ending
    <3>1. bar.module /\ bar.percent = bar.width /\ elder.percent \in Percents
          /\ bar.width = ABar!PercentOf[server.phase]
      BY <2>2, <2>5 DEF BarInv, Coloured, Bars
    <3>2. /\ own \in Bars /\ own.width = bar.width /\ own.percent = bar.percent /\ own.module
          /\ ~own.ticking
          /\ own.active <=> own.width \in 1 .. 99
          /\ own.width \in 1 .. 99 => ~own.success
      <4>1. own = ABar!SetState(stopped, elder.percent)
        BY <2>3, <2>5
      <4>2. /\ own \in Bars /\ own.width = stopped.width /\ own.percent = stopped.percent
            /\ own.module = stopped.module /\ own.ticking = stopped.ticking
            /\ own.active <=> elder.percent \in 1 .. 99
            /\ elder.percent \in 1 .. 99 => ~own.success
        BY <2>4, <3>1, <4>1, StateSet
      <4>3. QED
        BY <2>2, <2>4, <3>1, <4>2
    <3>3. /\ bar' \in Bars /\ bar'.width = bar.width /\ bar'.percent = bar.percent /\ bar'.module
          /\ ~bar'.ticking /\ bar'.ending = {}
          /\ bar'.active <=> bar'.width \in 1 .. 99
          /\ bar'.width \in 1 .. 99 => ~bar'.success
      BY <2>1, <3>2 DEF Bars
    <3>4. QED
      BY <1>1, <2>1, <3>1, <3>3 DEF BarInv, BarTypeOK, Coloured
  <2>6. CASE "own" \notin bar.ending
    <3>1. own = elder /\ ~bar.module /\ ~bar.ticking
      BY <1>1, <1>7, <2>3, <2>6 DEF BarInv, Bars, ABar!AnimationEnds
    <3>2. bar' \in Bars /\ ~bar'.module /\ ~bar'.ticking /\ bar'.ending = {}
      BY <2>1, <2>2, <3>1 DEF Bars
    <3>3. QED
      BY <1>1, <2>1, <3>2 DEF BarInv, BarTypeOK
  <2>7. QED
    BY <2>5, <2>6
<1>8. CASE ABar!Tick
  <2>1. /\ UNCHANGED <<now, server, hasError, visits>>
        /\ bar.module /\ bar' = ABar!SetState(bar, bar.percent) /\ Coloured(bar)
    BY <1>8 DEF ABar!Tick, BarInv
  <2>2. bar.percent \in Percents
    BY <1>1 DEF Bars
  <2>3. /\ bar' \in Bars /\ bar'.width = bar.width /\ bar'.percent = bar.percent
        /\ bar'.module = bar.module /\ bar'.ending = bar.ending
        /\ bar'.active <=> bar.percent \in 1 .. 99
        /\ bar.percent \in 1 .. 99 => ~bar'.success
    BY <1>1, <2>1, <2>2, StateSet
  <2>4. QED
    BY <1>1, <2>1, <2>3 DEF BarInv, BarTypeOK, Coloured
<1>9. QED
  BY <1>2, <1>3, <1>4, <1>5, <1>6, <1>7, <1>8 DEF ABar!Next

(* progress.js, server-provisioning-phase.ts: the bar shows the phase the  *)
(* page knows, pulses while it is part of the way and is never green then, *)
(* however often it goes and comes back while animations are under way.    *)
THEOREM BarTellsTheTruth == ABar!Spec => []BarIsTrue
<1> ABar!ProgressAssumption
  BY PartsAssumption
<1>1. ABar!Init => BarInv
  <2> SUFFICES ASSUME ABar!Init PROVE BarInv
    OBVIOUS
  <2>1. ABar!NewBar \in Bars /\ ~ABar!NewBar.module /\ ~ABar!NewBar.ticking
        /\ ABar!NewBar.ending = {}
    BY DEF ABar!NewBar, Bars, Percents
  <2>2. ABar!Idle \in ServerView
    BY DEF ABar!Idle, ABar!None, ServerView, ServerActions, ServerPhases
  <2>3. MaxVisits \in Nat
    BY DEF ABar!ProgressAssumption
  <2>4. /\ now = ABar!Idle /\ server = ABar!Idle /\ hasError = FALSE /\ bar = ABar!NewBar
        /\ visits = 0
    BY DEF ABar!Init
  <2>5. BarTypeOK
    <3>1. visits \in 0 .. MaxVisits
      BY <2>3, <2>4
    <3>2. bar \in Bars
      BY <2>1, <2>4
    <3>3. now \in ServerView /\ server \in ServerView /\ hasError \in BOOLEAN
      BY <2>2, <2>4
    <3>4. QED
      BY <3>1, <3>2, <3>3 DEF BarTypeOK
  <2>6. QED
    BY <2>1, <2>4, <2>5 DEF BarInv
<1>2. BarInv => BarIsTrue
  BY DEF BarInv, Coloured, BarIsTrue, ABar!BarIsTrue, ABar!ShowsThePhase, ABar!PulsesWhileUnderWay,
         ABar!NotGreenHalfWay
<1>3. BarInv /\ [ABar!Next]_(ABar!vars) => BarInv'
  BY BarInvStep
<1>4. QED
  BY <1>1, <1>2, <1>3, PTL DEF ABar!Spec

-----------------------------------------------------------------------------
(* The popups.                                                             *)

Callbacks(a) == {APopup!NoCallback, APopup!Opened(a), APopup!Gone(a)}

Animations(a) ==
  [anim : {"none", "in", "out"}, shown : BOOLEAN, queue : {<<>>},
   instance : Callbacks(a), handler : Callbacks(a)]

Popups(a) ==
  [el : Animations(a), exists : BOOLEAN, alive : BOOLEAN, showTimer : BOOLEAN,
   hideTimer : BOOLEAN, touched : BOOLEAN, closers : SUBSET {"click", "touch"},
   title : BOOLEAN, cached : BOOLEAN]

(* An animation under way ends in what it was started for.                 *)
OwnCallbacks(el, a) ==
  /\ el.anim = "in" => el.instance = APopup!Opened(a) /\ el.handler = APopup!Opened(a)
  /\ el.anim = "out" => el.instance = APopup!Gone(a) /\ el.handler = APopup!Gone(a)

(* What holds of a popup whether it can be closed or not: its timer runs   *)
(* while the mouse is over its element, and it goes with its element.      *)
Kept(q, a, where) ==
  /\ q \in Popups(a)
  /\ OwnCallbacks(q.el, a)
  /\ q.showTimer => settings.on = "hover"
  /\ q.showTimer /\ ~settings.hoverable => q.alive /\ where = APopup!Over(a)
  /\ ~settings.preserve /\ ~q.alive => ~q.exists /\ ~q.showTimer

(* Who is over the element of a popup will leave it, who has left it has a *)
(* timer, and who has touched it will touch elsewhere.                     *)
Attended(q, a, where) ==
  settings.on = "hover" =>
    settings.hoverable \/ where = APopup!Over(a) \/ q.hideTimer \/ q.touched

Opening(q, a, where) == q.alive /\ q.exists /\ q.el.anim = "in" => Attended(q, a, where)

Open(q, a, where) ==
  q.alive /\ q.exists /\ q.el.shown /\ q.el.anim = "none" =>
    IF settings.on = "click" THEN "click" \in q.closers
    ELSE settings.hoverable \/ where = APopup!Over(a) \/ q.hideTimer \/ "touch" \in q.closers

Closable(q, a, where) == Kept(q, a, where) /\ Opening(q, a, where) /\ Open(q, a, where)

AllClosable(p, where) ==
  DOMAIN p = Elements /\ \A a \in Elements : Closable(p[a], a, where)

PopupInv ==
  /\ settings.on \in {"click", "hover"}
  /\ pointer \in APopup!Pointers
  /\ AllClosable(popups, pointer)

(* What an operation on the popup of a does: it leaves the others, and the *)
(* timers of this one, alone.                                              *)
Only(r, p, a) ==
  DOMAIN r = Elements /\ \A b \in Elements : b # a => r[b] = p[b]

Moved(r, q, a) ==
  /\ r \in Popups(a)
  /\ r.alive = q.alive /\ r.showTimer = q.showTimer /\ r.hideTimer = q.hideTimer
  /\ r.touched = q.touched /\ (r.exists => q.exists)

LEMMA MovedTwice ==
    ASSUME NEW a, NEW q, NEW r, NEW s, Moved(r, q, a), Moved(s, r, a)
    PROVE  Moved(s, q, a)
BY DEF Moved

LEMMA OnlyTwice ==
    ASSUME NEW a, NEW p, NEW r, NEW s, Only(r, p, a), Only(s, r, a)
    PROVE  Only(s, p, a)
BY DEF Only

(* One popup is changed.                                                   *)
LEMMA OneChanges ==
    ASSUME NEW p, DOMAIN p = Elements, NEW a \in Elements, NEW q,
           NEW r, r = [p EXCEPT ![a] = q]
    PROVE  Only(r, p, a) /\ r[a] = q
BY DEF Only

LEMMA CallbacksDiffer ==
    ASSUME NEW a
    PROVE  /\ APopup!Opened(a).what = "opened" /\ APopup!Opened(a).of = a
           /\ APopup!Gone(a).what = "gone" /\ APopup!Gone(a).of = a
           /\ APopup!NoCallback.what = "nothing"
           /\ APopup!Opened(a) \in Callbacks(a) /\ APopup!Gone(a) \in Callbacks(a)
           /\ APopup!NoCallback \in Callbacks(a)
BY DEF APopup!Opened, APopup!Gone, APopup!NoCallback, Callbacks

LEMMA ClosersBound ==
    ASSUME NEW p, DOMAIN p = Elements, NEW a \in Elements, p[a] \in Popups(a),
           NEW r, r = APopup!BindClose(p, a)
    PROVE  /\ Only(r, p, a) /\ Moved(r[a], p[a], a)
           /\ r[a].el = p[a].el /\ r[a].exists = p[a].exists
           /\ settings.on = "click" => "click" \in r[a].closers
           /\ settings.on = "hover" /\ p[a].touched => "touch" \in r[a].closers
<1> DEFINE c == p[a].closers \cup (IF settings.on = "click" THEN {"click"} ELSE {})
                  \cup (IF settings.on = "hover" /\ p[a].touched THEN {"touch"} ELSE {})
           q == [p[a] EXCEPT !.closers = c]
<1>1. r = [p EXCEPT ![a] = q]
  BY DEF APopup!BindClose
<1>2. /\ c \in SUBSET {"click", "touch"}
      /\ settings.on = "click" => "click" \in c
      /\ settings.on = "hover" /\ p[a].touched => "touch" \in c
  BY DEF Popups
<1> HIDE DEF c
<1>3. Moved(q, p[a], a) /\ q.el = p[a].el /\ q.exists = p[a].exists /\ q.closers = c
  BY <1>2 DEF Moved, Popups
<1> HIDE DEF q
<1>4. Only(r, p, a) /\ r[a] = q
  BY <1>1, OneChanges
<1>5. QED
  BY <1>2, <1>3, <1>4

LEMMA PopupRemoved ==
    ASSUME NEW p, DOMAIN p = Elements, NEW a \in Elements, p[a] \in Popups(a),
           NEW r, r = APopup!RemovePopup(p, a)
    PROVE  /\ Only(r, p, a) /\ Moved(r[a], p[a], a)
           /\ ~r[a].exists \/ ~r[a].el.shown
           /\ r[a].el.anim \in {p[a].el.anim, "none"}
           /\ OwnCallbacks(p[a].el, a) => OwnCallbacks(r[a].el, a)
           /\ ~settings.preserve => ~r[a].exists
<1>1. CASE settings.preserve
  <2> DEFINE el == [p[a].el EXCEPT !.shown = FALSE]
             q == [p[a] EXCEPT !.el = el]
  <2>1. r = [p EXCEPT ![a] = q]
    BY <1>1 DEF APopup!RemovePopup
  <2>2. /\ el \in Animations(a) /\ ~el.shown /\ el.anim = p[a].el.anim
        /\ OwnCallbacks(p[a].el, a) => OwnCallbacks(el, a)
    BY DEF Popups, Animations, OwnCallbacks
  <2> HIDE DEF el
  <2>3. Moved(q, p[a], a) /\ q.el = el
    BY <2>2 DEF Moved, Popups
  <2> HIDE DEF q
  <2>4. Only(r, p, a) /\ r[a] = q
    BY <2>1, OneChanges
  <2>5. QED
    BY <1>1, <2>2, <2>3, <2>4
<1>2. CASE ~settings.preserve
  <2> DEFINE q == [p[a] EXCEPT !.el = APopup!NewElement, !.exists = FALSE]
  <2>1. r = [p EXCEPT ![a] = q]
    BY <1>2 DEF APopup!RemovePopup
  <2>2. /\ APopup!NewElement \in Animations(a) /\ APopup!NewElement.anim = "none"
        /\ OwnCallbacks(APopup!NewElement, a)
    BY CallbacksDiffer DEF APopup!NewElement, Animations, OwnCallbacks
  <2>3. Moved(q, p[a], a) /\ q.el = APopup!NewElement /\ ~q.exists
    BY <2>2 DEF Moved, Popups
  <2> HIDE DEF q
  <2>4. Only(r, p, a) /\ r[a] = q
    BY <2>1, OneChanges
  <2>5. QED
    BY <2>2, <2>3, <2>4
<1>3. QED
  BY <1>1, <1>2

(* The element of one popup is changed.                                    *)
WithElement(p, a, el) == [p EXCEPT ![a].el = el]

LEMMA ElementChanges ==
    ASSUME NEW p, DOMAIN p = Elements, NEW a \in Elements, p[a] \in Popups(a),
           NEW el \in Animations(a), NEW r, r = WithElement(p, a, el)
    PROVE  /\ Only(r, p, a) /\ Moved(r[a], p[a], a)
           /\ r[a].el = el /\ r[a].exists = p[a].exists /\ r[a].closers = p[a].closers
<1> DEFINE q == [p[a] EXCEPT !.el = el]
<1>1. r = [p EXCEPT ![a] = q]
  BY DEF WithElement
<1>2. Moved(q, p[a], a) /\ q.el = el /\ q.exists = p[a].exists /\ q.closers = p[a].closers
  BY DEF Moved, Popups
<1> HIDE DEF q
<1>3. Only(r, p, a) /\ r[a] = q
  BY <1>1, OneChanges
<1>4. QED
  BY <1>2, <1>3

LEMMA AnimationTyped ==
    ASSUME NEW a, NEW el \in Animations(a)
    PROVE  /\ APopup!Complete(el) \in Animations(a) /\ APopup!Complete(el).anim = "none"
           /\ OwnCallbacks(APopup!Complete(el), a)
           /\ el.anim = "out" => ~APopup!Complete(el).shown
<1> DEFINE n(s) == [el EXCEPT !.anim = "none", !.shown = s, !.handler = APopup!NoCallback]
<1>1. \A s \in BOOLEAN : n(s) \in Animations(a) /\ n(s).anim = "none" /\ n(s).shown = s
  BY CallbacksDiffer DEF Animations
<1>2. CASE el.anim = "in"
  <2>1. APopup!Complete(el) = n(TRUE)
    BY <1>2 DEF APopup!Complete
  <2> HIDE DEF n
  <2>2. QED
    BY <1>1, <1>2, <2>1 DEF OwnCallbacks
<1>3. CASE el.anim # "in"
  <2>1. APopup!Complete(el) = n(FALSE)
    BY <1>3 DEF APopup!Complete
  <2> HIDE DEF n
  <2>2. QED
    BY <1>1, <2>1 DEF OwnCallbacks
<1>4. QED
  BY <1>2, <1>3

(* What an animation is started with.                                      *)
Purpose(dir, done, a) ==
  \/ dir = "in" /\ done = APopup!Opened(a)
  \/ dir = "out" /\ done = APopup!Gone(a)

LEMMA AnimationStarted ==
    ASSUME NEW a, NEW el \in Animations(a), NEW dir, NEW done, Purpose(dir, done, a)
    PROVE  /\ APopup!Start(el, dir, done) \in Animations(a)
           /\ APopup!Start(el, dir, done).anim = dir
           /\ OwnCallbacks(APopup!Start(el, dir, done), a)
           /\ OwnCallbacks(el, a) /\ el.anim = dir =>
                /\ APopup!Repeat(el, done) \in Animations(a)
                /\ APopup!Repeat(el, done).anim = dir
                /\ OwnCallbacks(APopup!Repeat(el, done), a)
<1>1. dir \in {"in", "out"} /\ done \in Callbacks(a)
      /\ (dir = "in" => done = APopup!Opened(a)) /\ (dir = "out" => done = APopup!Gone(a))
  BY CallbacksDiffer DEF Purpose
<1>2. APopup!Start(el, dir, done) = [el EXCEPT !.anim = dir, !.instance = done, !.handler = done]
  BY DEF APopup!Start
<1>3. APopup!Repeat(el, done) = [el EXCEPT !.instance = done]
  BY DEF APopup!Repeat
<1>4. APopup!Start(el, dir, done) \in Animations(a) /\ APopup!Start(el, dir, done).anim = dir
      /\ OwnCallbacks(APopup!Start(el, dir, done), a)
  BY <1>1, <1>2 DEF Animations, OwnCallbacks
<1>5. ASSUME OwnCallbacks(el, a), el.anim = dir
      PROVE  APopup!Repeat(el, done) \in Animations(a) /\ APopup!Repeat(el, done).anim = dir
             /\ OwnCallbacks(APopup!Repeat(el, done), a)
  <2> DEFINE n == [el EXCEPT !.instance = done]
  <2>1. n \in Animations(a) /\ n.anim = dir /\ n.instance = done /\ n.handler = el.handler
    BY <1>1, <1>5 DEF Animations
  <2> HIDE DEF n
  <2>2. OwnCallbacks(n, a)
    BY <1>1, <1>5, <2>1 DEF OwnCallbacks
  <2>3. QED
    BY <1>3, <2>1, <2>2 DEF n
<1>6. QED
  BY <1>4, <1>5

(* What runs at the end of an animation.                                   *)
LEMMA CallbackRuns ==
    ASSUME NEW p, DOMAIN p = Elements, NEW a \in Elements, p[a] \in Popups(a),
           OwnCallbacks(p[a].el, a), NEW done \in Callbacks(a), NEW r, r = APopup!Callback(p, done)
    PROVE  /\ Only(r, p, a) /\ Moved(r[a], p[a], a)
           /\ r[a].el.anim \in {p[a].el.anim, "none"}
           /\ OwnCallbacks(r[a].el, a)
           /\ done = APopup!Gone(a) => ~r[a].exists \/ ~r[a].el.shown
           /\ done = APopup!Opened(a) =>
                /\ settings.on = "click" => "click" \in r[a].closers
                /\ settings.on = "hover" /\ p[a].touched => "touch" \in r[a].closers
<1>1. CASE done = APopup!Opened(a)
  <2>1. r = APopup!BindClose(p, a) /\ done # APopup!Gone(a)
    BY <1>1, CallbacksDiffer DEF APopup!Callback
  <2>2. QED
    BY <1>1, <2>1, ClosersBound
<1>2. CASE done = APopup!Gone(a)
  <2>1. r = APopup!RemovePopup(p, a) /\ done # APopup!Opened(a)
    BY <1>2, CallbacksDiffer DEF APopup!Callback
  <2>2. QED
    BY <1>2, <2>1, PopupRemoved
<1>3. CASE done = APopup!NoCallback
  <2>1. r = p /\ done # APopup!Opened(a) /\ done # APopup!Gone(a)
    BY <1>3, CallbacksDiffer DEF APopup!Callback
  <2>2. QED
    BY <2>1 DEF Only, Moved, Popups
<1>4. QED
  BY <1>1, <1>2, <1>3 DEF Callbacks

(* transition: the opposite animation is completed first.                  *)
LEMMA AnimationMoves ==
    ASSUME NEW p, DOMAIN p = Elements, NEW a \in Elements, p[a] \in Popups(a),
           OwnCallbacks(p[a].el, a), NEW dir, NEW done, Purpose(dir, done, a),
           NEW r, r = APopup!Animate(p, a, dir, done)
    PROVE  /\ Only(r, p, a) /\ Moved(r[a], p[a], a)
           /\ r[a].el.anim = dir /\ OwnCallbacks(r[a].el, a)
<1> DEFINE el == p[a].el
<1>1. el \in Animations(a)
  BY DEF Popups
<1>2. CASE el.anim = dir
  <2> DEFINE n == APopup!Repeat(el, done)
  <2>1. r = WithElement(p, a, n)
    BY <1>2 DEF APopup!Animate, APopup!IsOccurring, WithElement
  <2>2. n \in Animations(a) /\ n.anim = dir /\ OwnCallbacks(n, a)
    BY <1>1, <1>2, AnimationStarted
  <2> HIDE DEF n
  <2>3. QED
    BY <2>1, <2>2, ElementChanges
<1>3. CASE el.anim # dir
  <2> DEFINE u == WithElement(p, a, APopup!Complete(el))
             ended == IF el.anim # "none" THEN APopup!Callback(u, el.instance) ELSE p
             n == APopup!Start(ended[a].el, dir, done)
  <2>1. r = WithElement(ended, a, n)
    BY <1>3 DEF APopup!Animate, APopup!IsOccurring, APopup!Interrupts, APopup!IsAnimating, WithElement
  <2>2. Only(ended, p, a) /\ Moved(ended[a], p[a], a)
    <3>1. CASE el.anim # "none"
      <4>1. APopup!Complete(el) \in Animations(a) /\ OwnCallbacks(APopup!Complete(el), a)
        BY <1>1, AnimationTyped
      <4>2. Only(u, p, a) /\ Moved(u[a], p[a], a) /\ u[a].el = APopup!Complete(el)
        BY <4>1, ElementChanges
      <4> HIDE DEF u
      <4>3. el.instance \in Callbacks(a)
        BY <1>1 DEF Animations
      <4>4. DOMAIN u = Elements /\ u[a] \in Popups(a) /\ OwnCallbacks(u[a].el, a)
        BY <4>1, <4>2 DEF Only, Moved
      <4> DEFINE e == APopup!Callback(u, el.instance)
      <4> HIDE DEF e
      <4>5. Only(e, u, a) /\ Moved(e[a], u[a], a)
        BY <4>3, <4>4, CallbackRuns DEF e
      <4>6. ended = e
        BY <3>1 DEF e
      <4>7. QED
        BY <4>2, <4>5, <4>6, OnlyTwice, MovedTwice
    <3>2. CASE el.anim = "none"
      BY <3>2 DEF Only, Moved
    <3>3. QED
      BY <3>1, <3>2
  <2> HIDE DEF ended
  <2>3. ended[a].el \in Animations(a) /\ DOMAIN ended = Elements /\ ended[a] \in Popups(a)
    BY <2>2 DEF Only, Moved, Popups
  <2>4. n \in Animations(a) /\ n.anim = dir /\ OwnCallbacks(n, a)
    BY <2>3, AnimationStarted
  <2> HIDE DEF n
  <2>5. Only(r, ended, a) /\ Moved(r[a], ended[a], a) /\ r[a].el = n
    BY <2>1, <2>3, <2>4, ElementChanges
  <2>6. QED
    BY <2>2, <2>4, <2>5, OnlyTwice, MovedTwice
<1>4. QED
  BY <1>2, <1>3

(* A popup that is shown, or comes, or goes, goes; another stays.          *)
LEMMA HidingMoves ==
    ASSUME NEW p, DOMAIN p = Elements, NEW a \in Elements, p[a] \in Popups(a),
           OwnCallbacks(p[a].el, a), NEW r, r = APopup!Hide(p, a)
    PROVE  /\ Only(r, p, a) /\ Moved(r[a], p[a], a) /\ OwnCallbacks(r[a].el, a)
           /\ \/ r[a].el.anim = "out"
              \/ ~r[a].exists \/ (~r[a].el.shown /\ r[a].el.anim = "none")
<1>1. CASE ~(APopup!Visible(p, a) \/ APopup!Animating(p, a))
  <2>1. r = p
    BY <1>1 DEF APopup!Hide
  <2>2. Only(r, p, a) /\ Moved(r[a], p[a], a)
    BY <2>1 DEF Only, Moved
  <2>3. ~p[a].exists \/ (~p[a].el.shown /\ p[a].el.anim = "none")
    BY <1>1 DEF APopup!Visible, APopup!Animating, APopup!IsAnimating
  <2>4. QED
    BY <2>1, <2>2, <2>3
<1>2. CASE APopup!Visible(p, a) \/ APopup!Animating(p, a)
  <2> DEFINE q == [p[a] EXCEPT !.closers = {}, !.title = p[a].title \/ p[a].cached]
             u == APopup!RestoreTitle(APopup!UnbindClose(p, a), a)
  <2>1. Only(u, p, a) /\ Moved(u[a], p[a], a) /\ u[a].el = p[a].el
    <3> DEFINE v == [p[a] EXCEPT !.closers = {}]
               w == APopup!UnbindClose(p, a)
               t == w[a].title \/ w[a].cached
               x == [w[a] EXCEPT !.title = t]
    <3>1. Moved(v, p[a], a) /\ v.el = p[a].el
      BY DEF Moved, Popups
    <3>2. w = [p EXCEPT ![a] = v]
      BY DEF APopup!UnbindClose
    <3> HIDE DEF v
    <3>3. Only(w, p, a) /\ w[a] = v
      BY <3>2, OneChanges
    <3>4. u = [w EXCEPT ![a] = x]
      BY DEF APopup!RestoreTitle
    <3> HIDE DEF w
    <3>5. t \in BOOLEAN
      OBVIOUS
    <3> HIDE DEF t
    <3>6. Moved(x, w[a], a) /\ x.el = w[a].el
      BY <3>1, <3>3, <3>5 DEF Moved, Popups
    <3> HIDE DEF x, u
    <3>7. Only(u, w, a) /\ u[a] = x
      BY <3>3, <3>4, OneChanges DEF Only
    <3>8. QED
      BY <3>1, <3>3, <3>6, <3>7, OnlyTwice, MovedTwice
  <2>2. r = APopup!Animate(u, a, "out", APopup!Gone(a))
    BY <1>2 DEF APopup!Hide
  <2> HIDE DEF u
  <2>3. DOMAIN u = Elements /\ u[a] \in Popups(a) /\ OwnCallbacks(u[a].el, a)
    BY <2>1 DEF Only, Moved
  <2>4. Purpose("out", APopup!Gone(a), a)
    BY DEF Purpose
  <2>5. Only(r, u, a) /\ Moved(r[a], u[a], a) /\ r[a].el.anim = "out" /\ OwnCallbacks(r[a].el, a)
    BY <2>2, <2>3, <2>4, AnimationMoves
  <2>6. QED
    BY <2>1, <2>5, OnlyTwice, MovedTwice
<1>3. QED
  BY <1>1, <1>2

LEMMA KeptMoves ==
    ASSUME NEW a, NEW where, NEW q, Kept(q, a, where), NEW r, Moved(r, q, a),
           OwnCallbacks(r.el, a)
    PROVE  Kept(r, a, where)
BY DEF Kept, Moved

(* What goes, or is gone, or is not shown, need not be closed.             *)
LEMMA GoneIsClosable ==
    ASSUME NEW a, NEW where, NEW q, Kept(q, a, where),
           \/ q.el.anim = "out"
           \/ ~q.exists
           \/ ~q.el.shown /\ q.el.anim = "none"
    PROVE  Closable(q, a, where)
BY DEF Closable, Opening, Open

LEMMA HiddenIsClosable ==
    ASSUME NEW p, DOMAIN p = Elements, NEW a \in Elements, NEW where, Kept(p[a], a, where),
           NEW r, r = APopup!Hide(p, a)
    PROVE  Only(r, p, a) /\ Closable(r[a], a, where)
<1>1. p[a] \in Popups(a) /\ OwnCallbacks(p[a].el, a)
  BY DEF Kept
<1>2. /\ Only(r, p, a) /\ Moved(r[a], p[a], a) /\ OwnCallbacks(r[a].el, a)
      /\ \/ r[a].el.anim = "out"
         \/ ~r[a].exists \/ (~r[a].el.shown /\ r[a].el.anim = "none")
  BY <1>1, HidingMoves
<1>3. Kept(r[a], a, where)
  BY <1>2, KeptMoves
<1>4. QED
  BY <1>2, <1>3, GoneIsClosable

(* Some of the popups are hidden: those that listen, or all but one.       *)
LEMMA AllClosed ==
    ASSUME NEW p, NEW where, AllClosable(p, where), NEW kind,
           NEW r, r = APopup!CloseAll(p, kind)
    PROVE  AllClosable(r, where)
<1>1. DOMAIN r = Elements
  BY DEF APopup!CloseAll
<1>2. ASSUME NEW b \in Elements PROVE Closable(r[b], b, where)
  <2>1. DOMAIN p = Elements /\ Closable(p[b], b, where) /\ Kept(p[b], b, where)
    BY DEF AllClosable, Closable
  <2> DEFINE h == APopup!Hide(p, b)
  <2> HIDE DEF h
  <2>2. Closable(h[b], b, where)
    BY <2>1, HiddenIsClosable DEF h
  <2>3. r[b] = h[b] \/ r[b] = p[b]
    BY DEF APopup!CloseAll, h
  <2>4. QED
    BY <2>1, <2>2, <2>3
<1>3. QED
  BY <1>1, <1>2 DEF AllClosable

OthersClosable(p, a, where) ==
  DOMAIN p = Elements /\ \A b \in Elements : b # a => Closable(p[b], b, where)

LEMMA OthersHidden ==
    ASSUME NEW p, NEW a \in Elements, NEW where, OthersClosable(p, a, where),
           NEW r, r = APopup!HideAll(p, a)
    PROVE  OthersClosable(r, a, where) /\ r[a] = p[a]
<1>1. DOMAIN r = Elements /\ r[a] = p[a]
  BY DEF APopup!HideAll
<1>2. ASSUME NEW b \in Elements, b # a PROVE Closable(r[b], b, where)
  <2>1. DOMAIN p = Elements /\ Closable(p[b], b, where) /\ Kept(p[b], b, where)
    BY <1>2 DEF OthersClosable, Closable
  <2> DEFINE h == APopup!Hide(p, b)
  <2> HIDE DEF h
  <2>2. Closable(h[b], b, where)
    BY <2>1, HiddenIsClosable DEF h
  <2>3. r[b] = h[b] \/ r[b] = p[b]
    BY DEF APopup!HideAll, h
  <2>4. QED
    BY <2>1, <2>2, <2>3
<1>3. QED
  BY <1>1, <1>2 DEF OthersClosable

LEMMA OnlyOneChanges ==
    ASSUME NEW p, NEW a \in Elements, NEW where, OthersClosable(p, a, where),
           NEW r, Only(r, p, a)
    PROVE  OthersClosable(r, a, where)
BY DEF OthersClosable, Only

LEMMA OneAndOthers ==
    ASSUME NEW p, NEW a \in Elements, NEW where
    PROVE  AllClosable(p, where) <=> OthersClosable(p, a, where) /\ Closable(p[a], a, where)
BY DEF AllClosable, OthersClosable

(* An animation that comes makes a popup that will be able to be closed.   *)
LEMMA ShownIsClosable ==
    ASSUME NEW p, DOMAIN p = Elements, NEW a \in Elements, NEW where, Kept(p[a], a, where),
           Attended(p[a], a, where),
           NEW r, r = APopup!Animate(p, a, "in", APopup!Opened(a))
    PROVE  Only(r, p, a) /\ Closable(r[a], a, where)
<1>1. p[a] \in Popups(a) /\ OwnCallbacks(p[a].el, a)
  BY DEF Kept
<1>2. Purpose("in", APopup!Opened(a), a)
  BY DEF Purpose
<1>3. Only(r, p, a) /\ Moved(r[a], p[a], a) /\ r[a].el.anim = "in" /\ OwnCallbacks(r[a].el, a)
  BY <1>1, <1>2, AnimationMoves
<1>4. Kept(r[a], a, where)
  BY <1>3, KeptMoves
<1>5. Attended(r[a], a, where)
  BY <1>3 DEF Attended, Moved
<1>6. QED
  BY <1>3, <1>4, <1>5 DEF Closable, Opening, Open

(* Its popup is created and its title taken off.                           *)
Created(p, a) == [p EXCEPT ![a].exists = TRUE]

LEMMA CreatedIsKept ==
    ASSUME NEW p, DOMAIN p = Elements, NEW a \in Elements, NEW where, Kept(p[a], a, where),
           p[a].alive \/ settings.preserve,
           NEW c, c = Created(p, a),
           NEW r, r = APopup!SaveTitle(c, a)
    PROVE  /\ Only(c, p, a) /\ Kept(c[a], a, where) /\ c[a].alive = p[a].alive
           /\ Only(r, p, a) /\ Kept(r[a], a, where)
           /\ Attended(p[a], a, where) => Attended(c[a], a, where) /\ Attended(r[a], a, where)
<1> DEFINE q == [p[a] EXCEPT !.exists = TRUE]
<1>1. /\ q \in Popups(a) /\ q.el = p[a].el /\ q.alive = p[a].alive
      /\ q.showTimer = p[a].showTimer /\ q.hideTimer = p[a].hideTimer
      /\ q.touched = p[a].touched
  BY DEF Kept, Popups
<1>2. c = [p EXCEPT ![a] = q]
  BY DEF Created
<1> HIDE DEF q
<1>3. Only(c, p, a) /\ c[a] = q /\ DOMAIN c = Elements
  BY <1>2, OneChanges DEF Only
<1>4. Kept(q, a, where) /\ (Attended(p[a], a, where) => Attended(q, a, where))
  BY <1>1 DEF Kept, Attended
<1> DEFINE t == c[a].title
           s == [c[a] EXCEPT !.cached = t, !.title = FALSE]
<1>5. t \in BOOLEAN
  BY <1>1, <1>3 DEF Popups
<1>6. r = [c EXCEPT ![a] = s]
  BY DEF APopup!SaveTitle
<1> HIDE DEF t
<1>7. Moved(s, q, a) /\ s.el = q.el
  BY <1>1, <1>3, <1>5 DEF Moved, Popups
<1> HIDE DEF s
<1>8. Only(r, c, a) /\ r[a] = s
  BY <1>3, <1>6, OneChanges
<1>9. Kept(s, a, where) /\ (Attended(q, a, where) => Attended(s, a, where))
  <2>1. OwnCallbacks(s.el, a)
    BY <1>4, <1>7 DEF Kept
  <2>2. QED
    BY <1>4, <1>7, <2>1, KeptMoves DEF Moved, Attended
<1>10. QED
  BY <1>1, <1>3, <1>4, <1>8, <1>9, OnlyTwice

LEMMA RemovedIsClosable ==
    ASSUME NEW p, DOMAIN p = Elements, NEW a \in Elements, NEW where, Kept(p[a], a, where),
           Opening(p[a], a, where), NEW r, r = APopup!RemovePopup(p, a)
    PROVE  Only(r, p, a) /\ Closable(r[a], a, where)
<1>1. p[a] \in Popups(a) /\ OwnCallbacks(p[a].el, a)
  BY DEF Kept
<1>2. /\ Only(r, p, a) /\ Moved(r[a], p[a], a)
      /\ ~r[a].exists \/ ~r[a].el.shown
      /\ r[a].el.anim \in {p[a].el.anim, "none"}
      /\ OwnCallbacks(r[a].el, a)
  BY <1>1, PopupRemoved
<1>3. Kept(r[a], a, where)
  BY <1>2, KeptMoves
<1>4. Opening(r[a], a, where)
  BY <1>2 DEF Opening, Attended, Moved
<1>5. QED
  BY <1>2, <1>3, <1>4 DEF Closable, Open

(* show: the others are hidden first, and without a place it is removed.   *)
LEMMA ShowLeavesClosable ==
    ASSUME NEW p, NEW a \in Elements, NEW where, OthersClosable(p, a, where),
           Kept(p[a], a, where), Attended(p[a], a, where),
           APopup!Visible(p, a) => Closable(p[a], a, where),
           p[a].alive \/ settings.preserve,
           NEW hasPlace, NEW r, r = APopup!Show(p, a, hasPlace)
    PROVE  AllClosable(r, where)
<1> DEFINE c == Created(p, a)
           t == APopup!SaveTitle(c, a)
           h == APopup!HideAll(t, a)
<1>0. DOMAIN p = Elements
  BY DEF OthersClosable
<1>1. r = p \/ r = APopup!Animate(h, a, "in", APopup!Opened(a)) \/ r = APopup!RemovePopup(c, a)
  BY DEF APopup!Show, Created
<1>2. r = p /\ ~APopup!Visible(p, a) => Closable(p[a], a, where)
  BY DEF APopup!Visible, Closable, Open, Opening
<1> HIDE DEF c
<1> HIDE DEF t
<1>3. /\ Only(c, p, a) /\ Kept(c[a], a, where) /\ Attended(c[a], a, where)
      /\ Only(t, p, a) /\ Kept(t[a], a, where) /\ Attended(t[a], a, where)
  BY <1>0, CreatedIsKept DEF c, t
<1>4. OthersClosable(c, a, where) /\ OthersClosable(t, a, where)
  BY <1>3, OnlyOneChanges
<1> HIDE DEF h
<1>5. OthersClosable(h, a, where) /\ h[a] = t[a]
  BY <1>4, OthersHidden DEF h
<1>6. CASE r = p
  BY <1>2, <1>6, OneAndOthers
<1>7. CASE r = APopup!Animate(h, a, "in", APopup!Opened(a))
  <2>1. DOMAIN h = Elements
    BY <1>5 DEF OthersClosable
  <2>2. Only(r, h, a) /\ Closable(r[a], a, where)
    BY <1>3, <1>5, <1>7, <2>1, ShownIsClosable
  <2>3. QED
    BY <1>5, <2>2, OnlyOneChanges, OneAndOthers
<1>8. CASE r = APopup!RemovePopup(c, a)
  <2>1. DOMAIN c = Elements /\ Opening(c[a], a, where)
    BY <1>3, <1>4 DEF OthersClosable, Opening
  <2>2. Only(r, c, a) /\ Closable(r[a], a, where)
    BY <1>3, <1>8, <2>1, RemovedIsClosable
  <2>3. QED
    BY <1>4, <2>2, OnlyOneChanges, OneAndOthers
<1>9. QED
  BY <1>1, <1>6, <1>7, <1>8

(* The timers of one popup are set or cleared.                             *)
Timed(q, s, h) == [q EXCEPT !.showTimer = s, !.hideTimer = h]

LEMMA TimersSet ==
    ASSUME NEW a, NEW q \in Popups(a), NEW s \in BOOLEAN, NEW h \in BOOLEAN
    PROVE  /\ Timed(q, s, h) \in Popups(a)
           /\ Timed(q, s, h).showTimer = s /\ Timed(q, s, h).hideTimer = h
           /\ Timed(q, s, h).el = q.el /\ Timed(q, s, h).exists = q.exists
           /\ Timed(q, s, h).alive = q.alive /\ Timed(q, s, h).touched = q.touched
           /\ Timed(q, s, h).closers = q.closers
BY DEF Timed, Popups

(* The mouse has left: wherever it is now, the popup can be closed.        *)
LEMMA LeftIsClosable ==
    ASSUME NEW p, DOMAIN p = Elements, NEW a \in Elements, NEW where, Closable(p[a], a, where),
           NEW r, r = APopup!EndEvent(p, a), NEW w
    PROVE  /\ Only(r, p, a) /\ Closable(r[a], a, w)
           /\ r[a].alive = p[a].alive /\ r[a].exists = p[a].exists
<1> DEFINE q == Timed(p[a], FALSE, TRUE)
<1>1. r = [p EXCEPT ![a] = q]
  BY DEF APopup!EndEvent, Timed
<1>2. p[a] \in Popups(a)
  BY DEF Closable, Kept
<1>3. /\ q \in Popups(a) /\ ~q.showTimer /\ q.hideTimer
      /\ q.el = p[a].el /\ q.exists = p[a].exists /\ q.alive = p[a].alive
      /\ q.touched = p[a].touched /\ q.closers = p[a].closers
  BY <1>2, TimersSet
<1> HIDE DEF q
<1>4. Closable(q, a, w)
  BY <1>3 DEF Closable, Kept, Opening, Open, Attended
<1>5. Only(r, p, a) /\ r[a] = q
  BY <1>1, OneChanges
<1>6. QED
  BY <1>3, <1>4, <1>5

(* The mouse has come: it is over the element, or the popup reacts to it.  *)
LEMMA EnteredIsClosable ==
    ASSUME NEW p, DOMAIN p = Elements, NEW a \in Elements, NEW where, Closable(p[a], a, where),
           settings.on = "hover", settings.hoverable \/ where = APopup!Over(a),
           p[a].alive \/ (settings.hoverable /\ p[a].exists),
           NEW r, r = APopup!StartEvent(p, a)
    PROVE  Only(r, p, a) /\ Closable(r[a], a, where)
<1> DEFINE s == p[a].showTimer \/ ~p[a].touched
<1>1. r = [p EXCEPT ![a] = Timed(p[a], s, FALSE)]
  BY DEF APopup!StartEvent, Timed
<1>2. p[a] \in Popups(a)
  BY DEF Closable, Kept
<1> HIDE DEF s
<1>3. PICK x \in BOOLEAN : s = x
  BY DEF s
<1> DEFINE q == Timed(p[a], x, FALSE)
<1>4. /\ q \in Popups(a) /\ q.hideTimer = FALSE
      /\ q.el = p[a].el /\ q.exists = p[a].exists /\ q.alive = p[a].alive
      /\ q.touched = p[a].touched /\ q.closers = p[a].closers
  <2>1. /\ q \in Popups(a) /\ q.hideTimer = FALSE
        /\ q.el = p[a].el /\ q.exists = p[a].exists
    BY <1>2 DEF Timed, Popups
  <2>2. q.alive = p[a].alive /\ q.touched = p[a].touched /\ q.closers = p[a].closers
    BY <1>2 DEF Timed, Popups
  <2>3. QED
    BY <2>1, <2>2
<1> HIDE DEF q
<1>5. Kept(q, a, where)
  BY <1>4 DEF Closable, Kept
<1>6. Closable(q, a, where)
  BY <1>4, <1>5 DEF Closable, Opening, Open, Attended
<1>7. Only(r, p, a) /\ r[a] = q
  BY <1>1, <1>3, OneChanges DEF q
<1>8. QED
  BY <1>6, <1>7

(* Where the mouse is tells nothing of a popup of which the element is not *)
(* under it.                                                               *)
LEMMA ElsewhereIsClosable ==
    ASSUME NEW q, NEW a, NEW where, Closable(q, a, where), where # APopup!Over(a), NEW w
    PROVE  Closable(q, a, w)
BY DEF Closable, Kept, Opening, Open, Attended

LEMMA PointersDiffer ==
    ASSUME NEW a, NEW b
    PROVE  /\ APopup!Over(a) = APopup!Over(b) <=> a = b
           /\ APopup!Over(a) # APopup!OverPopup(b)
           /\ APopup!Over(a) # APopup!Nowhere /\ APopup!OverPopup(a) # APopup!Nowhere
           /\ APopup!Over(a).over = "element" /\ APopup!Over(a).of = a
           /\ APopup!OverPopup(a).over = "popup" /\ APopup!OverPopup(a).of = a
           /\ APopup!Nowhere.over = "nothing"
BY DEF APopup!Over, APopup!OverPopup, APopup!Nowhere

(* The mouse moves: it leaves one thing, then comes over another.          *)
LEMMA LeavingLeavesClosable ==
    ASSUME NEW p, NEW where \in APopup!Pointers, AllClosable(p, where), settings.on = "hover",
           NEW r, r = APopup!Left(p, where), NEW w
    PROVE  /\ AllClosable(r, w)
           /\ \A a \in Elements : r[a].alive = p[a].alive /\ r[a].exists = p[a].exists
<1>1. DOMAIN p = Elements /\ \A a \in Elements : Closable(p[a], a, where)
  BY DEF AllClosable
<1>2. ASSUME NEW a \in Elements, r = APopup!EndEvent(p, a),
             \A b \in Elements : b # a => where # APopup!Over(b)
      PROVE  /\ AllClosable(r, w)
             /\ \A b \in Elements : r[b].alive = p[b].alive /\ r[b].exists = p[b].exists
  <2>1. /\ Only(r, p, a) /\ Closable(r[a], a, w)
        /\ r[a].alive = p[a].alive /\ r[a].exists = p[a].exists
    BY <1>1, <1>2, LeftIsClosable
  <2>2. \A b \in Elements : b # a => r[b] = p[b] /\ Closable(p[b], b, w)
    BY <1>1, <1>2, <2>1, ElsewhereIsClosable DEF Only
  <2>3. QED
    BY <2>1, <2>2 DEF AllClosable, Only
<1>3. ASSUME r = p, \A b \in Elements : where # APopup!Over(b)
      PROVE  AllClosable(r, w)
  BY <1>1, <1>3, ElsewhereIsClosable DEF AllClosable
<1>4. CASE where = APopup!Nowhere
  <2>1. r = p
    BY <1>4 DEF APopup!Left
  <2>2. QED
    BY <1>3, <1>4, <2>1, PointersDiffer
<1>5. ASSUME NEW a \in Elements, where = APopup!Over(a)
      PROVE  /\ AllClosable(r, w)
             /\ \A b \in Elements : r[b].alive = p[b].alive /\ r[b].exists = p[b].exists
  <2>1. where # APopup!Nowhere /\ where.over = "element" /\ where.of = a
        /\ \A b \in Elements : b # a => where # APopup!Over(b)
    BY <1>5, PointersDiffer
  <2>2. r = APopup!EndEvent(p, a)
    BY <2>1 DEF APopup!Left
  <2>3. QED
    BY <1>2, <2>1, <2>2
<1>6. ASSUME NEW a \in Elements, where = APopup!OverPopup(a)
      PROVE  /\ AllClosable(r, w)
             /\ \A b \in Elements : r[b].alive = p[b].alive /\ r[b].exists = p[b].exists
  <2>1. where # APopup!Nowhere /\ where.over = "popup" /\ where.of = a
        /\ \A b \in Elements : where # APopup!Over(b)
    BY <1>6, PointersDiffer
  <2>2. r = APopup!EndEvent(p, a) \/ r = p
    BY <2>1 DEF APopup!Left
  <2>3. QED
    BY <1>2, <1>3, <2>1, <2>2
<1>7. QED
  BY <1>4, <1>5, <1>6 DEF APopup!Pointers

LEMMA ComingLeavesClosable ==
    ASSUME NEW p, NEW where \in APopup!Pointers, AllClosable(p, where), settings.on = "hover",
           where.over = "element" => p[where.of].alive,
           where.over = "popup" => p[where.of].exists,
           NEW r, r = APopup!Entered(p, where)
    PROVE  AllClosable(r, where)
<1>1. DOMAIN p = Elements /\ \A a \in Elements : Closable(p[a], a, where)
  BY DEF AllClosable
<1>2. ASSUME NEW a \in Elements, r = APopup!StartEvent(p, a),
             settings.hoverable \/ where = APopup!Over(a),
             p[a].alive \/ (settings.hoverable /\ p[a].exists)
      PROVE  AllClosable(r, where)
  <2>1. Only(r, p, a) /\ Closable(r[a], a, where)
    BY <1>1, <1>2, EnteredIsClosable
  <2>2. QED
    BY <1>1, <2>1 DEF AllClosable, Only
<1>3. CASE where = APopup!Nowhere
  BY <1>3 DEF APopup!Entered
<1>4. ASSUME NEW a \in Elements, where = APopup!Over(a)
      PROVE  AllClosable(r, where)
  <2>1. where # APopup!Nowhere /\ where.over = "element" /\ where.of = a
    BY <1>4, PointersDiffer
  <2>2. r = APopup!StartEvent(p, a) /\ p[a].alive
    BY <2>1 DEF APopup!Entered
  <2>3. QED
    BY <1>2, <1>4, <2>2
<1>5. ASSUME NEW a \in Elements, where = APopup!OverPopup(a)
      PROVE  AllClosable(r, where)
  <2>1. where # APopup!Nowhere /\ where.over = "popup" /\ where.of = a
    BY <1>5, PointersDiffer
  <2>2. p[a].exists /\ (r = p \/ (settings.hoverable /\ r = APopup!StartEvent(p, a)))
    BY <2>1 DEF APopup!Entered
  <2>3. QED
    BY <1>2, <2>2
<1>6. QED
  BY <1>3, <1>4, <1>5 DEF APopup!Pointers

(* What is gone from under the mouse is not under it any more.             *)
LEMMA UnderTheMouse ==
    ASSUME NEW p, AllClosable(p, pointer), pointer \in APopup!Pointers,
           NEW w, w = APopup!StaysUnder(p)
    PROVE  AllClosable(p, w) /\ w \in APopup!Pointers
<1>1. CASE w = pointer
  BY <1>1
<1>2. CASE w # pointer
  <2>1. /\ w = APopup!Nowhere
        /\ \/ pointer.over = "popup"
           \/ pointer.over = "element" /\ ~p[pointer.of].alive
    BY <1>2 DEF APopup!StaysUnder
  <2>2. ASSUME NEW a \in Elements PROVE Closable(p[a], a, w)
    <3>1. Closable(p[a], a, pointer)
      BY DEF AllClosable
    <3>2. CASE pointer = APopup!Over(a)
      <4>1. ~p[a].alive
        BY <2>1, <3>2, PointersDiffer
      <4>2. QED
        BY <3>1, <4>1 DEF Closable, Kept, Opening, Open
    <3>3. CASE pointer # APopup!Over(a)
      BY <3>1, <3>3, ElsewhereIsClosable
    <3>4. QED
      BY <3>2, <3>3
  <2>3. QED
    BY <2>1, <2>2 DEF AllClosable, APopup!Pointers
<1>3. QED
  BY <1>1, <1>2

LEMMA BecomesClosable ==
    ASSUME PopupInv, NEW p, AllClosable(p, pointer), APopup!Becomes(p)
    PROVE  PopupInv'
<1>1. popups' = p /\ settings' = settings /\ pointer' = APopup!StaysUnder(p)
  BY DEF APopup!Becomes
<1> DEFINE w == APopup!StaysUnder(p)
<1>2. pointer' = w
  BY <1>1
<1> HIDE DEF w
<1>3. AllClosable(p, w) /\ w \in APopup!Pointers
  BY UnderTheMouse DEF PopupInv, w
<1>4. (pointer \in APopup!Pointers)'
  BY <1>2, <1>3 DEF APopup!Pointers, APopup!Over, APopup!OverPopup, APopup!Nowhere
<1>5. AllClosable(popups, pointer)'
  BY <1>1, <1>2, <1>3 DEF AllClosable, Closable, Kept, Opening, Open, Attended
<1>6. QED
  BY <1>1, <1>4, <1>5 DEF PopupInv

(* A touch of the element.                                                 *)
WithTouched(p, a) == [p EXCEPT ![a].touched = TRUE]

LEMMA TouchedIsClosable ==
    ASSUME NEW p, DOMAIN p = Elements, NEW a \in Elements, NEW where, Closable(p[a], a, where),
           NEW r, r = WithTouched(p, a)
    PROVE  Only(r, p, a) /\ Closable(r[a], a, where) /\ r[a].touched /\ r[a].alive = p[a].alive
<1> DEFINE q == [p[a] EXCEPT !.touched = TRUE]
<1>1. p[a] \in Popups(a)
  BY DEF Closable, Kept
<1>2. /\ q \in Popups(a) /\ q.touched
      /\ q.el = p[a].el /\ q.exists = p[a].exists /\ q.alive = p[a].alive
      /\ q.showTimer = p[a].showTimer /\ q.hideTimer = p[a].hideTimer
      /\ q.closers = p[a].closers
  BY <1>1 DEF Popups
<1>3. r = [p EXCEPT ![a] = q]
  BY DEF WithTouched
<1> HIDE DEF q
<1>4. Closable(q, a, where)
  BY <1>2 DEF Closable, Kept, Opening, Open, Attended
<1>5. Only(r, p, a) /\ r[a] = q
  BY <1>3, OneChanges
<1>6. QED
  BY <1>2, <1>4, <1>5

(* The listeners of a popup that is not open are taken.                    *)
LEMMA UnboundIsKept ==
    ASSUME NEW p, DOMAIN p = Elements, NEW a \in Elements, NEW where, Closable(p[a], a, where),
           NEW r, r = APopup!UnbindClose(p, a)
    PROVE  /\ Only(r, p, a) /\ Kept(r[a], a, where)
           /\ r[a].alive = p[a].alive /\ r[a].exists = p[a].exists /\ r[a].el = p[a].el
<1> DEFINE q == [p[a] EXCEPT !.closers = {}]
<1>1. p[a] \in Popups(a)
  BY DEF Closable, Kept
<1>2. Moved(q, p[a], a) /\ q.el = p[a].el /\ q.exists = p[a].exists
  BY <1>1 DEF Moved, Popups
<1>3. r = [p EXCEPT ![a] = q]
  BY DEF APopup!UnbindClose
<1> HIDE DEF q
<1>4. Kept(q, a, where)
  BY <1>2, KeptMoves DEF Closable, Kept
<1>5. Only(r, p, a) /\ r[a] = q
  BY <1>3, OneChanges
<1>6. QED
  BY <1>2, <1>4, <1>5 DEF Moved

(* The timers are cleared one at a time when they elapse.                  *)
WithoutShowTimer(p, a) == [p EXCEPT ![a].showTimer = FALSE]
WithoutHideTimer(p, a) == [p EXCEPT ![a].hideTimer = FALSE]

LEMMA TimersElapse ==
    ASSUME NEW p, DOMAIN p = Elements, NEW a \in Elements, NEW where, Closable(p[a], a, where),
           NEW r, r = WithoutShowTimer(p, a), NEW s, s = WithoutHideTimer(p, a)
    PROVE  /\ Only(r, p, a) /\ Closable(r[a], a, where)
           /\ r[a].alive = p[a].alive
           /\ Attended(p[a], a, where) => Attended(r[a], a, where)
           /\ Only(s, p, a) /\ Kept(s[a], a, where)
<1> DEFINE q == [p[a] EXCEPT !.showTimer = FALSE]
           t == [p[a] EXCEPT !.hideTimer = FALSE]
<1>1. p[a] \in Popups(a)
  BY DEF Closable, Kept
<1>2. /\ q \in Popups(a) /\ q.showTimer = FALSE
      /\ q.el = p[a].el /\ q.exists = p[a].exists /\ q.alive = p[a].alive
      /\ q.touched = p[a].touched /\ q.hideTimer = p[a].hideTimer /\ q.closers = p[a].closers
  BY <1>1 DEF Popups
<1>3. /\ t \in Popups(a) /\ t.showTimer = p[a].showTimer
      /\ t.el = p[a].el /\ t.exists = p[a].exists /\ t.alive = p[a].alive
  BY <1>1 DEF Popups
<1>4. r = [p EXCEPT ![a] = q] /\ s = [p EXCEPT ![a] = t]
  BY DEF WithoutShowTimer, WithoutHideTimer
<1> HIDE DEF q, t
<1>5. Closable(q, a, where) /\ (Attended(p[a], a, where) => Attended(q, a, where))
  BY <1>2 DEF Closable, Kept, Opening, Open, Attended
<1>6. Kept(t, a, where)
  BY <1>3 DEF Closable, Kept
<1>7. Only(r, p, a) /\ r[a] = q
  BY <1>4, OneChanges
<1>8. Only(s, p, a) /\ s[a] = t
  BY <1>4, OneChanges
<1>9. QED
  BY <1>2, <1>5, <1>6, <1>7, <1>8

(* destroy: no timer, no listener, and no popup unless it is preserved.    *)
LEMMA DestroyedIsClosable ==
    ASSUME NEW p, DOMAIN p = Elements, NEW a \in Elements, NEW where, Closable(p[a], a, where),
           NEW r, r = APopup!Destroy(p, a)
    PROVE  Only(r, p, a) /\ Closable(r[a], a, where)
<1> DEFINE v == IF settings.preserve THEN p ELSE APopup!RemovePopup(p, a)
           u == APopup!UnbindClose(v, a)
<1>1. /\ Only(v, p, a) /\ Closable(v[a], a, where)
      /\ ~settings.preserve => ~v[a].exists
  <2>1. CASE settings.preserve
    <3>1. v = p
      BY <2>1
    <3>2. QED
      BY <2>1, <3>1 DEF Only
  <2>2. CASE ~settings.preserve
    <3> DEFINE w == APopup!RemovePopup(p, a)
    <3>1. v = w
      BY <2>2
    <3> HIDE DEF w, v
    <3>2. Only(w, p, a) /\ Closable(w[a], a, where)
      BY RemovedIsClosable DEF Closable, w
    <3>3. ~w[a].exists
      BY <2>2, PopupRemoved DEF Closable, Kept, w
    <3>4. QED
      BY <3>1, <3>2, <3>3
  <2>3. QED
    BY <2>1, <2>2
<1>2. r = [u EXCEPT ![a].alive = FALSE, ![a].showTimer = FALSE, ![a].hideTimer = FALSE]
  BY DEF APopup!Destroy
<1> HIDE DEF v
<1>3. DOMAIN v = Elements
  BY <1>1 DEF Only
<1> HIDE DEF u
<1>4. Only(u, v, a) /\ Kept(u[a], a, where) /\ u[a].exists = v[a].exists
  BY <1>1, <1>3, UnboundIsKept DEF u
<1> DEFINE q == [u[a] EXCEPT !.alive = FALSE, !.showTimer = FALSE, !.hideTimer = FALSE]
<1>5. r = [u EXCEPT ![a] = q]
  BY <1>2
<1>6. u[a] \in Popups(a) /\ OwnCallbacks(u[a].el, a) /\ DOMAIN u = Elements
  BY <1>4 DEF Kept, Only
<1>7. /\ q \in Popups(a) /\ q.alive = FALSE /\ q.showTimer = FALSE
      /\ q.el = u[a].el /\ q.exists = u[a].exists
  BY <1>6 DEF Popups
<1> HIDE DEF q
<1>8. Closable(q, a, where)
  BY <1>1, <1>4, <1>6, <1>7 DEF Closable, Kept, Opening, Open
<1>9. Only(r, u, a) /\ r[a] = q
  BY <1>5, <1>6, OneChanges
<1>10. QED
  BY <1>1, <1>4, <1>8, <1>9, OnlyTwice

-----------------------------------------------------------------------------
(* The steps of the popups.                                                *)

LEMMA PointKeepsClosable ==
    ASSUME PopupInv, APopup!Point
    PROVE  PopupInv'
<1>1. PICK target \in APopup!Pointers :
        /\ target.over = "element" => popups[target.of].alive
        /\ target.over = "popup" => popups[target.of].exists
        /\ popups' = APopup!Entered(APopup!Left(popups, pointer), target)
        /\ pointer' = target
  BY DEF APopup!Point
<1>2. settings' = settings
  BY DEF APopup!Point
<1> DEFINE l == APopup!Left(popups, pointer)
           r == APopup!Entered(l, target)
<1>3. AllClosable(r, target)
  <2>1. AllClosable(popups, pointer) /\ pointer \in APopup!Pointers
    BY DEF PopupInv
  <2>2. CASE settings.on = "hover"
    <3> HIDE DEF l
    <3>1. /\ AllClosable(l, target)
          /\ \A a \in Elements : l[a].alive = popups[a].alive /\ l[a].exists = popups[a].exists
      BY <2>1, <2>2, LeavingLeavesClosable DEF l
    <3>2. target = APopup!Nowhere \/ target.of \in Elements
      BY PointersDiffer DEF APopup!Pointers
    <3>3. /\ target.over = "element" => l[target.of].alive
          /\ target.over = "popup" => l[target.of].exists
      BY <1>1, <3>1, <3>2, PointersDiffer
    <3> HIDE DEF r
    <3>4. QED
      BY <2>2, <3>1, <3>3, ComingLeavesClosable DEF r
  <2>3. CASE settings.on # "hover"
    <3>1. l = popups /\ r = l
      BY <2>3 DEF APopup!Left, APopup!Entered
    <3>2. ASSUME NEW a \in Elements PROVE Closable(popups[a], a, target)
      <4>1. Closable(popups[a], a, pointer)
        BY <2>1 DEF AllClosable
      <4>2. ~popups[a].showTimer
        BY <2>3, <4>1 DEF Closable, Kept
      <4>3. settings.on = "click"
        BY <2>3 DEF PopupInv
      <4>4. QED
        BY <2>3, <4>1, <4>2, <4>3 DEF Closable, Kept, Opening, Open, Attended
    <3>3. QED
      BY <2>1, <3>1, <3>2 DEF AllClosable
  <2>4. QED
    BY <2>2, <2>3
<1>4. popups' = r /\ pointer' = target
  BY <1>1
<1> HIDE DEF r
<1>5. (pointer \in APopup!Pointers)'
  BY <1>4 DEF APopup!Pointers, APopup!Over, APopup!OverPopup, APopup!Nowhere
<1>6. AllClosable(popups, pointer)'
  BY <1>2, <1>3, <1>4 DEF AllClosable, Closable, Kept, Opening, Open, Attended
<1>7. QED
  BY <1>2, <1>5, <1>6 DEF PopupInv

(* The click toggles the popup, and closes those that listen for clicks.   *)
LEMMA ClickKeepsClosable ==
    ASSUME PopupInv, APopup!Click
    PROVE  PopupInv'
<1>1. PICK a \in Elements, hasPlace \in BOOLEAN :
        popups[a].alive /\ APopup!Becomes(APopup!Toggle(popups, a, hasPlace))
  BY DEF APopup!Click
<1>2. settings.on = "click"
  BY DEF APopup!Click
<1>3. AllClosable(popups, pointer) /\ OthersClosable(popups, a, pointer)
      /\ Closable(popups[a], a, pointer) /\ DOMAIN popups = Elements
  BY OneAndOthers DEF PopupInv, AllClosable
<1> DEFINE u == APopup!UnbindClose(popups, a)
           h == APopup!Hide(popups, a)
           s == APopup!Show(u, a, hasPlace)
           t == IF APopup!Visible(popups, a) THEN h ELSE s
           r == APopup!CloseAll(t, "click")
<1>4. AllClosable(t, pointer)
  <2>1. CASE APopup!Visible(popups, a)
    <3>1. t = h
      BY <2>1
    <3> HIDE DEF h, t
    <3>2. Only(h, popups, a) /\ Closable(h[a], a, pointer)
      BY <1>3, HiddenIsClosable DEF h, Closable
    <3>3. QED
      BY <1>3, <3>1, <3>2, OnlyOneChanges, OneAndOthers
  <2>2. CASE ~APopup!Visible(popups, a)
    <3>1. t = s
      BY <2>2
    <3> HIDE DEF u, s, t
    <3>2. /\ Only(u, popups, a) /\ Kept(u[a], a, pointer)
          /\ u[a].alive = popups[a].alive /\ u[a].exists = popups[a].exists
          /\ u[a].el = popups[a].el
      BY <1>3, UnboundIsKept DEF u
    <3>3. OthersClosable(u, a, pointer)
      BY <1>3, <3>2, OnlyOneChanges
    <3>4. Attended(u[a], a, pointer)
      BY <1>2 DEF Attended
    <3>5. ~APopup!Visible(u, a) /\ u[a].alive
      BY <1>1, <2>2, <3>2 DEF APopup!Visible
    <3>6. QED
      BY <3>1, <3>2, <3>3, <3>4, <3>5, ShowLeavesClosable DEF s
  <2>3. QED
    BY <2>1, <2>2
<1>5. APopup!Becomes(r)
  BY <1>1 DEF APopup!Toggle
<1> HIDE DEF t
<1>6. AllClosable(r, pointer)
  BY <1>4, AllClosed
<1> HIDE DEF r
<1>7. QED
  BY <1>5, <1>6, BecomesClosable

LEMMA TouchKeepsClosable ==
    ASSUME PopupInv, APopup!Touch
    PROVE  PopupInv'
<1>1. PICK a \in Elements, hasPlace \in BOOLEAN :
        /\ popups[a].alive
        /\ APopup!Becomes(APopup!CloseAll(APopup!Show([popups EXCEPT ![a].touched = TRUE], a, hasPlace),
                                    "touch"))
  BY DEF APopup!Touch
<1>2. AllClosable(popups, pointer) /\ OthersClosable(popups, a, pointer)
      /\ Closable(popups[a], a, pointer) /\ DOMAIN popups = Elements
  BY OneAndOthers DEF PopupInv, AllClosable
<1> DEFINE u == WithTouched(popups, a)
           s == APopup!Show(u, a, hasPlace)
           r == APopup!CloseAll(s, "touch")
<1>3. APopup!Becomes(r)
  BY <1>1 DEF WithTouched
<1> HIDE DEF u
<1>4. /\ Only(u, popups, a) /\ Closable(u[a], a, pointer)
      /\ u[a].touched /\ u[a].alive = popups[a].alive
  BY <1>2, TouchedIsClosable DEF u
<1>5. OthersClosable(u, a, pointer) /\ Attended(u[a], a, pointer) /\ Kept(u[a], a, pointer)
  BY <1>2, <1>4, OnlyOneChanges DEF Attended, Closable
<1> HIDE DEF s
<1>6. AllClosable(s, pointer)
  BY <1>1, <1>4, <1>5, ShowLeavesClosable DEF s
<1> HIDE DEF r
<1>7. AllClosable(r, pointer)
  BY <1>6, AllClosed DEF r
<1>8. QED
  BY <1>3, <1>7, BecomesClosable

(* A click or a touch elsewhere.                                           *)
LEMMA AwayKeepsClosable ==
    ASSUME PopupInv, APopup!ClickAway \/ APopup!TouchAway
    PROVE  PopupInv'
<1>1. PICK kind \in {"click", "touch"} : APopup!Becomes(APopup!CloseAll(popups, kind))
  BY DEF APopup!ClickAway, APopup!TouchAway
<1> DEFINE r == APopup!CloseAll(popups, kind)
<1>2. APopup!Becomes(r)
  BY <1>1
<1> HIDE DEF r
<1>3. AllClosable(r, pointer)
  BY AllClosed DEF PopupInv, r
<1>4. QED
  BY <1>2, <1>3, BecomesClosable

LEMMA ShowTimerKeepsClosable ==
    ASSUME PopupInv, NEW a \in Elements, APopup!ShowTimer(a)
    PROVE  PopupInv'
<1>1. PICK hasPlace \in BOOLEAN :
        APopup!Becomes(APopup!Show([popups EXCEPT ![a].showTimer = FALSE], a, hasPlace))
  BY DEF APopup!ShowTimer
<1>2. AllClosable(popups, pointer) /\ OthersClosable(popups, a, pointer)
      /\ Closable(popups[a], a, pointer) /\ DOMAIN popups = Elements
  BY OneAndOthers DEF PopupInv, AllClosable
<1> DEFINE u == WithoutShowTimer(popups, a)
           r == APopup!Show(u, a, hasPlace)
<1>3. APopup!Becomes(r)
  BY <1>1 DEF WithoutShowTimer
<1> HIDE DEF u
<1>4. /\ Attended(popups[a], a, pointer)
      /\ popups[a].alive \/ settings.preserve
  BY <1>2 DEF APopup!ShowTimer, Closable, Kept, Attended
<1>5. /\ Only(u, popups, a) /\ Closable(u[a], a, pointer)
      /\ u[a].alive = popups[a].alive /\ Attended(u[a], a, pointer)
  BY <1>2, <1>4, TimersElapse DEF u
<1>6. OthersClosable(u, a, pointer) /\ Kept(u[a], a, pointer)
  BY <1>2, <1>5, OnlyOneChanges DEF Closable
<1> HIDE DEF r
<1>7. AllClosable(r, pointer)
  BY <1>4, <1>5, <1>6, ShowLeavesClosable DEF r
<1>8. QED
  BY <1>3, <1>7, BecomesClosable

LEMMA HideTimerKeepsClosable ==
    ASSUME PopupInv, NEW a \in Elements, APopup!HideTimer(a)
    PROVE  PopupInv'
<1>1. AllClosable(popups, pointer) /\ OthersClosable(popups, a, pointer)
      /\ Closable(popups[a], a, pointer) /\ DOMAIN popups = Elements
  BY OneAndOthers DEF PopupInv, AllClosable
<1> DEFINE u == WithoutHideTimer(popups, a)
           r == APopup!Hide(u, a)
<1>2. APopup!Becomes(r)
  BY DEF APopup!HideTimer, WithoutHideTimer
<1> HIDE DEF u
<1>3. Only(u, popups, a) /\ Kept(u[a], a, pointer)
  BY <1>1, TimersElapse DEF u
<1>4. OthersClosable(u, a, pointer) /\ DOMAIN u = Elements
  BY <1>1, <1>3, OnlyOneChanges DEF Only
<1> HIDE DEF r
<1>5. Only(r, u, a) /\ Closable(r[a], a, pointer)
  BY <1>3, <1>4, HiddenIsClosable DEF r
<1>6. AllClosable(r, pointer)
  BY <1>4, <1>5, OnlyOneChanges, OneAndOthers
<1>7. QED
  BY <1>2, <1>6, BecomesClosable

(* What opened is bound to be closed, and what went is removed.            *)
LEMMA AnimationKeepsClosable ==
    ASSUME PopupInv, NEW a \in Elements, APopup!AnimationEnds(a)
    PROVE  PopupInv'
<1>1. AllClosable(popups, pointer) /\ OthersClosable(popups, a, pointer)
      /\ Closable(popups[a], a, pointer) /\ DOMAIN popups = Elements
  BY OneAndOthers DEF PopupInv, AllClosable
<1>2. /\ popups[a] \in Popups(a) /\ OwnCallbacks(popups[a].el, a)
      /\ popups[a].el \in Animations(a) /\ popups[a].el.handler \in Callbacks(a)
  BY <1>1 DEF Closable, Kept, Popups, Animations
<1> DEFINE el == popups[a].el
           n == APopup!Complete(el)
           u == WithElement(popups, a, n)
           r == APopup!Callback(u, el.handler)
<1>3. APopup!Becomes(r) /\ popups[a].exists /\ el.anim \in {"in", "out"}
  BY <1>2 DEF APopup!AnimationEnds, APopup!Animating, APopup!IsAnimating, WithElement, Animations
<1>4. n \in Animations(a) /\ n.anim = "none" /\ OwnCallbacks(n, a)
  BY <1>2, AnimationTyped
<1>5. /\ el.anim = "in" => el.handler = APopup!Opened(a)
      /\ el.anim = "out" => el.handler = APopup!Gone(a)
  BY <1>2 DEF OwnCallbacks
<1> HIDE DEF n
<1> HIDE DEF u
<1>6. /\ Only(u, popups, a) /\ Moved(u[a], popups[a], a) /\ u[a].el = n
  BY <1>1, <1>2, <1>4, ElementChanges DEF u
<1>7. DOMAIN u = Elements /\ u[a] \in Popups(a) /\ OwnCallbacks(u[a].el, a)
  BY <1>4, <1>6 DEF Only, Moved
<1> HIDE DEF r
<1>8. /\ Only(r, u, a) /\ Moved(r[a], u[a], a)
      /\ r[a].el.anim = "none" /\ OwnCallbacks(r[a].el, a)
      /\ el.handler = APopup!Gone(a) => ~r[a].exists \/ ~r[a].el.shown
      /\ el.handler = APopup!Opened(a) =>
           /\ settings.on = "click" => "click" \in r[a].closers
           /\ settings.on = "hover" /\ u[a].touched => "touch" \in r[a].closers
  BY <1>2, <1>4, <1>6, <1>7, CallbackRuns DEF r
<1>9. Only(r, popups, a) /\ Moved(r[a], popups[a], a)
  BY <1>6, <1>8, OnlyTwice, MovedTwice
<1>10. Kept(r[a], a, pointer)
  BY <1>1, <1>8, <1>9, KeptMoves DEF Closable
<1>11. CASE el.anim = "in"
  <2>1. popups[a].alive => Attended(popups[a], a, pointer)
    BY <1>1, <1>3, <1>11 DEF Closable, Opening
  <2>2. Open(r[a], a, pointer) /\ Opening(r[a], a, pointer)
    <3>1. settings.on \in {"click", "hover"}
      BY DEF PopupInv
    <3>2. r[a].alive = popups[a].alive /\ r[a].hideTimer = popups[a].hideTimer
          /\ u[a].touched = popups[a].touched
      BY <1>6, <1>9 DEF Moved
    <3>3. QED
      BY <1>5, <1>8, <1>11, <2>1, <3>1, <3>2 DEF Open, Opening, Attended
  <2>3. Closable(r[a], a, pointer)
    BY <1>10, <2>2 DEF Closable
  <2>4. AllClosable(r, pointer)
    BY <1>1, <1>9, <2>3, OnlyOneChanges, OneAndOthers
  <2>5. QED
    BY <1>3, <2>4, BecomesClosable
<1>12. CASE el.anim = "out"
  <2>1. Closable(r[a], a, pointer)
    BY <1>5, <1>8, <1>10, <1>12, GoneIsClosable
  <2>2. AllClosable(r, pointer)
    BY <1>1, <1>9, <2>1, OnlyOneChanges, OneAndOthers
  <2>3. QED
    BY <1>3, <2>2, BecomesClosable
<1>13. QED
  BY <1>3, <1>11, <1>12

(* The window changes its size, or an element leaves the page.             *)
LEMMA LosingKeepsClosable ==
    ASSUME PopupInv, APopup!Resize \/ APopup!Remove
    PROVE  PopupInv'
<1>1. PICK a \in Elements :
        \/ APopup!Becomes(APopup!RemovePopup(popups, a))
        \/ APopup!Becomes(APopup!Destroy(popups, a))
  BY DEF APopup!Resize, APopup!Remove
<1>2. AllClosable(popups, pointer) /\ OthersClosable(popups, a, pointer)
      /\ Closable(popups[a], a, pointer) /\ DOMAIN popups = Elements
  BY OneAndOthers DEF PopupInv, AllClosable
<1> DEFINE r == APopup!RemovePopup(popups, a)
           d == APopup!Destroy(popups, a)
<1>3. APopup!Becomes(r) \/ APopup!Becomes(d)
  BY <1>1
<1> HIDE DEF r, d
<1>4. Only(r, popups, a) /\ Closable(r[a], a, pointer)
  BY <1>2, RemovedIsClosable DEF Closable, r
<1>5. Only(d, popups, a) /\ Closable(d[a], a, pointer)
  BY <1>2, DestroyedIsClosable DEF d
<1>6. AllClosable(r, pointer) /\ AllClosable(d, pointer)
  BY <1>2, <1>4, <1>5, OnlyOneChanges, OneAndOthers
<1>7. QED
  BY <1>3, <1>6, BecomesClosable

(* An open popup hears what closes it while its element is there: a click  *)
(* elsewhere, the mouse that leaves, its timer or a touch elsewhere; and   *)
(* unless it is to be preserved it goes with its element.  For any number  *)
(* of elements and every setting of the popups.                            *)
THEOREM PopupsCanBeClosed == APopup!PopupSpec => []PopupCanBeClosed
<1> APopup!PopupAssumption
  BY PartsAssumption
<1>1. APopup!PopupInit => PopupInv
  <2> SUFFICES ASSUME APopup!PopupInit PROVE PopupInv
    OBVIOUS
  <2>1. settings.on \in {"click", "hover"} /\ settings.preserve \in BOOLEAN
        /\ pointer = APopup!Nowhere /\ popups = [a \in Elements |-> APopup!NewPopup]
    BY DEF APopup!PopupInit, APopup!PopupAssumption
  <2>2. ASSUME NEW a \in Elements PROVE Closable(popups[a], a, pointer)
    <3> DEFINE q == APopup!NewPopup
               t == settings.content = "title"
    <3>1. popups[a] = q
      BY <2>1
    <3>2. /\ APopup!NewElement \in Animations(a) /\ APopup!NewElement.anim = "none"
          /\ ~APopup!NewElement.shown
      BY CallbacksDiffer DEF APopup!NewElement, Animations
    <3>3. t \in BOOLEAN
      OBVIOUS
    <3>4. q = [el |-> APopup!NewElement, exists |-> settings.preserve, alive |-> TRUE,
               showTimer |-> FALSE, hideTimer |-> FALSE, touched |-> FALSE, closers |-> {},
               title |-> t, cached |-> FALSE]
      BY DEF APopup!NewPopup
    <3> HIDE DEF t, q
    <3>5. /\ q \in Popups(a) /\ q.el = APopup!NewElement
          /\ q.alive = TRUE /\ q.showTimer = FALSE
      BY <2>1, <3>2, <3>3, <3>4 DEF Popups
    <3>6. Closable(q, a, pointer)
      BY <3>2, <3>5 DEF Closable, Kept, OwnCallbacks, Opening, Open
    <3>7. QED
      BY <3>1, <3>6
  <2>3. QED
    BY <2>1, <2>2 DEF PopupInv, AllClosable, APopup!Pointers
<1>2. PopupInv => PopupCanBeClosed
  BY DEF PopupInv, AllClosable, Closable, Kept, Open, PopupCanBeClosed, APopup!PopupCanBeClosed,
         APopup!OpenPopupCanBeClosed, APopup!NoPopupWithoutElement, APopup!Visible, APopup!Animating,
         APopup!IsAnimating
<1>3. PopupInv /\ [APopup!PopupNext]_(APopup!popupVars) => PopupInv'
  <2> SUFFICES ASSUME PopupInv, [APopup!PopupNext]_(APopup!popupVars) PROVE PopupInv'
    OBVIOUS
  <2>1. CASE UNCHANGED APopup!popupVars
    BY <2>1 DEF APopup!popupVars, PopupInv, AllClosable, Closable, Kept, Opening, Open, Attended,
                APopup!Pointers, APopup!Over, APopup!OverPopup, APopup!Nowhere
  <2>2. CASE APopup!Point
    BY <2>2, PointKeepsClosable
  <2>3. CASE APopup!Click
    BY <2>3, ClickKeepsClosable
  <2>4. CASE APopup!Touch
    BY <2>4, TouchKeepsClosable
  <2>5. CASE APopup!ClickAway \/ APopup!TouchAway
    BY <2>5, AwayKeepsClosable
  <2>6. CASE APopup!Resize \/ APopup!Remove
    BY <2>6, LosingKeepsClosable
  <2>7. ASSUME NEW a \in Elements,
               APopup!ShowTimer(a) \/ APopup!HideTimer(a) \/ APopup!AnimationEnds(a)
        PROVE  PopupInv'
    BY <2>7, ShowTimerKeepsClosable, HideTimerKeepsClosable, AnimationKeepsClosable
  <2>8. QED
    BY <2>1, <2>2, <2>3, <2>4, <2>5, <2>6, <2>7 DEF APopup!PopupNext
<1>4. QED
  BY <1>1, <1>2, <1>3, PTL DEF APopup!PopupSpec

-----------------------------------------------------------------------------
(* The search box: SearchBoxProofs has its theorems.                       *)

SearchTheory == INSTANCE SearchBoxProofs

(* parse.response: what is kept and shown as the answer to a text is what  *)
(* the server answered to it, whatever is typed, cancelled, lost and late. *)
(* (SearchTheory!Spec is the specification of SearchBox.)                  *)
THEOREM SearchAnswersAreTheirs == SearchTheory!Spec => []AnswersAreTheirs
<1>1. SearchTheory!SearchAssumption
  BY PartsAssumption DEF ASearch!SearchAssumption, SearchTheory!SearchAssumption
<1>2. SearchTheory!Spec => []SearchTheory!AnswersAreTheirs
  BY <1>1, SearchTheory!AnswersBelongToTheirTexts
<1>3. SearchTheory!AnswersAreTheirs => AnswersAreTheirs
  BY DEF SearchTheory!AnswersAreTheirs, SearchTheory!CacheIsHonest,
         SearchTheory!OneSearchUnderWay, SearchTheory!InPhase, SearchTheory!Newest,
         SearchTheory!Nothing, AnswersAreTheirs, ASearch!AnswersAreTheirs,
         ASearch!CacheIsHonest, ASearch!OneSearchUnderWay, ASearch!InPhase, ASearch!Newest,
         ASearch!Nothing
<1>4. QED
  BY <1>2, <1>3, PTL

-----------------------------------------------------------------------------
(* The sticky rail.                                                        *)

Flags == BOOLEAN

PageColumns ==
  [size : Nat, offset : Nat, bottomOffset : Nat, pushing : Flags, observes : Flags,
   height : ColumnSizes, window : Windows, scrolled : 0 .. MaxScrolled]

Places == {"initial", "fixed", "bound"}
Sides  == {"none", "top", "bottom"}
Caches == [bottom : Int, window : Windows, fits : Flags]

RailStates ==
  [alive : Flags, place : Places, side : Sides, topStyle : Int, bottomStyle : Int,
   lastScroll : Int, elementScroll : Int, cache : Caches]

ColumnOK == column \in PageColumns /\ \A h \in ColumnSizes : column.size <= h

(* The classes agree, and only a rail that pushes is fixed to the bottom.  *)
Consistent(r) ==
  /\ r.place = "initial" <=> r.side = "none"
  /\ r.place = "bound" => r.side = "bottom"
  /\ r.place = "fixed" /\ r.side = "bottom" => column.pushing

(* A rail as high as its column never leaves its initial position.         *)
Fills(r) == r.cache.bottom - ColumnStart = column.size

Placed(r) == Consistent(r) /\ (Fills(r) => r.place = "initial")

Unstyled(r) == r.topStyle = 0 /\ r.bottomStyle = 0

(* A rail that fits is never scrolled along.                               *)
Unscrolled(r) == ARail!Fitting => r.cache.fits /\ Unstyled(r)

(* Unless a refresh is awaited, the cache is what would be measured now.   *)
Measured == rail.alive /\ column.observes /\ awaited \subseteq {"scrollchange"}
              => rail.cache = ARail!Positions(column)

RailInv ==
  /\ ColumnOK
  /\ rail \in RailStates /\ Placed(rail) /\ Unscrolled(rail)
  /\ awaited \subseteq {"scrollchange", "refresh", "timer"}
  /\ Measured
  /\ StaysInItsPlace

(* q is r, put in another position.                                        *)
PutTo(r, q, place, side) ==
  /\ q \in RailStates /\ q.place = place /\ q.side = side
  /\ q.cache = r.cache /\ q.alive = r.alive
  /\ Unstyled(r) => Unstyled(q)

LEMMA Positioned ==
    ASSUME NEW r \in RailStates
    PROVE  /\ PutTo(r, ARail!SetInitialPosition(r), "initial", "none")
           /\ PutTo(r, ARail!BindBottom(r), "bound", "bottom")
           /\ PutTo(r, ARail!FixTop(r), "fixed", "top")
           /\ PutTo(r, ARail!FixBottom(r), "fixed", "bottom")
<1>1. /\ "initial" \in Places /\ "fixed" \in Places /\ "bound" \in Places
      /\ "none" \in Sides /\ "top" \in Sides /\ "bottom" \in Sides
  BY DEF Places, Sides
<1>2. ASSUME NEW place \in Places, NEW side \in Sides, NEW q,
             q = [r EXCEPT !.place = place, !.side = side]
      PROVE  PutTo(r, q, place, side)
  <2>1. q \in RailStates
    BY <1>2 DEF RailStates
  <2>2. /\ q.place = place /\ q.side = side /\ q.cache = r.cache
        /\ q.topStyle = r.topStyle /\ q.bottomStyle = r.bottomStyle
    BY <1>2 DEF RailStates
  <2>3. q.alive = r.alive
    BY <1>2 DEF RailStates
  <2>4. QED
    BY <2>1, <2>2, <2>3 DEF PutTo, Unstyled
<1>3. ASSUME NEW place \in Places, NEW side \in Sides, NEW style \in Int, NEW q, style = 0,
             \/ q = [r EXCEPT !.place = place, !.side = side, !.topStyle = style]
             \/ q = [r EXCEPT !.place = place, !.side = side, !.bottomStyle = style]
      PROVE  PutTo(r, q, place, side)
  <2>1. q \in RailStates
    BY <1>3 DEF RailStates
  <2>2. /\ q.place = place /\ q.side = side /\ q.cache = r.cache
        /\ q.topStyle \in {style, r.topStyle} /\ q.bottomStyle \in {style, r.bottomStyle}
    BY <1>3 DEF RailStates
  <2>3. q.alive = r.alive
    BY <1>3 DEF RailStates
  <2>4. QED
    BY <1>3, <2>1, <2>2, <2>3 DEF PutTo, Unstyled
<1>4. PutTo(r, ARail!SetInitialPosition(r), "initial", "none")
  <2>1. ARail!SetInitialPosition(r) = [r EXCEPT !.place = "initial", !.side = "none"]
    BY DEF ARail!SetInitialPosition
  <2>2. QED
    BY <1>1, <1>2, <2>1
<1>5. PutTo(r, ARail!BindBottom(r), "bound", "bottom")
  <2>1. ARail!BindBottom(r) = [r EXCEPT !.place = "bound", !.side = "bottom", !.topStyle = 0]
    BY DEF ARail!BindBottom
  <2>2. 0 \in Int
    OBVIOUS
  <2>3. QED
    BY <1>1, <1>3, <2>1, <2>2, Zenon
<1>6. PutTo(r, ARail!FixTop(r), "fixed", "top")
  <2>1. ARail!FixTop(r) = [r EXCEPT !.place = "fixed", !.side = "top", !.bottomStyle = 0]
    BY DEF ARail!FixTop
  <2>2. 0 \in Int
    OBVIOUS
  <2>3. QED
    BY <1>1, <1>3, <2>1, <2>2, Zenon
<1>7. PutTo(r, ARail!FixBottom(r), "fixed", "bottom")
  <2>1. ARail!FixBottom(r) = [r EXCEPT !.place = "fixed", !.side = "bottom", !.bottomStyle = 0]
    BY DEF ARail!FixBottom
  <2>2. 0 \in Int
    OBVIOUS
  <2>3. QED
    BY <1>1, <1>3, <2>1, <2>2, Zenon
<1>8. QED
  BY <1>4, <1>5, <1>6, <1>7

LEMMA ScrolledAlong ==
    ASSUME NEW r \in RailStates, NEW top \in Int, NEW elementScroll \in Int, NEW q,
           q = ARail!ScrollElement(r, top, elementScroll)
    PROVE  /\ q \in RailStates /\ q.place = r.place /\ q.side = r.side
           /\ q.cache = r.cache /\ q.alive = r.alive
<1> DEFINE Same(a, b) == /\ a \in RailStates /\ a.place = b.place /\ a.side = b.side
                         /\ a.cache = b.cache /\ a.alive = b.alive
           styled == IF r.elementScroll = elementScroll THEN r
                     ELSE IF r.side = "top"
                          THEN [r EXCEPT !.topStyle = -elementScroll, !.bottomStyle = 0]
                          ELSE [r EXCEPT !.bottomStyle = elementScroll, !.topStyle = 0]
<1>1. styled \in {r, [r EXCEPT !.topStyle = -elementScroll, !.bottomStyle = 0],
                   [r EXCEPT !.bottomStyle = elementScroll, !.topStyle = 0]}
  BY Zenon
<1>2. q = [styled EXCEPT !.lastScroll = top, !.elementScroll = elementScroll]
  BY DEF ARail!ScrollElement
<1> HIDE DEF styled
<1>3. ASSUME NEW atTop \in Int, NEW atBottom \in Int,
             NEW s, \/ s = [r EXCEPT !.topStyle = atTop, !.bottomStyle = atBottom]
                    \/ s = [r EXCEPT !.bottomStyle = atBottom, !.topStyle = atTop]
      PROVE  Same(s, r)
  <2>1. s \in RailStates
    BY <1>3 DEF RailStates
  <2>2. s.place = r.place /\ s.side = r.side /\ s.cache = r.cache
    BY <1>3 DEF RailStates
  <2>3. s.alive = r.alive
    BY <1>3 DEF RailStates
  <2>4. QED
    BY <2>1, <2>2, <2>3
<1>4. Same(styled, r)
  <2>1. -elementScroll \in Int /\ 0 \in Int /\ Same(r, r)
    OBVIOUS
  <2>2. Same([r EXCEPT !.topStyle = -elementScroll, !.bottomStyle = 0], r)
    BY <1>3, <2>1
  <2>3. Same([r EXCEPT !.bottomStyle = elementScroll, !.topStyle = 0], r)
    BY <1>3, <2>1
  <2> HIDE DEF Same
  <2>4. QED
    BY <1>1, <2>1, <2>2, <2>3
<1>5. q \in RailStates
  BY <1>2, <1>4 DEF RailStates
<1>6. q.place = styled.place /\ q.side = styled.side /\ q.cache = styled.cache
  BY <1>2, <1>4 DEF RailStates
<1>7. q.alive = styled.alive
  BY <1>2, <1>4 DEF RailStates
<1>8. QED
  BY <1>4, <1>5, <1>6, <1>7

LEMMA ElementScrollTyped ==
    ASSUME ColumnOK, NEW r \in RailStates, NEW top \in Int
    PROVE  ARail!ElementScroll(r, top) \in Int
<1> DEFINE change   == IF r.lastScroll # 0 THEN top - r.lastScroll ELSE 0
           current  == IF r.elementScroll # 0 THEN r.elementScroll
                       ELSE ARail!Abs(IF r.side = "top" THEN r.topStyle ELSE r.bottomStyle)
           possible == current + change
           most     == column.size - r.cache.window + column.offset
<1>1. /\ r.lastScroll \in Int /\ r.elementScroll \in Int
      /\ r.topStyle \in Int /\ r.bottomStyle \in Int
      /\ r.cache.window \in Windows
  BY DEF RailStates, Caches
<1>2. change \in Int
  BY <1>1
<1>3. current \in Int
  <2>1. \A n \in Int : ARail!Abs(n) \in Int
    BY DEF ARail!Abs
  <2>2. (IF r.side = "top" THEN r.topStyle ELSE r.bottomStyle) \in Int
    BY <1>1
  <2>3. QED
    BY <1>1, <2>1, <2>2
<1>4. most \in Int
  <2>1. r.cache.window \in Int
    <3>1. Windows \subseteq Nat
      BY PartsAssumption, Zenon DEF ARail!StickyAssumption
    <3>2. r.cache.window \in Nat
      BY <1>1, <3>1, Zenon
    <3>3. QED
      BY <3>2
  <2>2. column.size \in Int /\ column.offset \in Int
    BY DEF ColumnOK, PageColumns
  <2>3. QED
    BY <2>1, <2>2
<1>5. ARail!ElementScroll(r, top) =
        IF r.cache.fits \/ possible < 0 THEN 0 ELSE IF possible > most THEN most ELSE possible
  BY DEF ARail!ElementScroll
<1> HIDE DEF change, current, most
<1>6. QED
  BY <1>2, <1>3, <1>4, <1>5

\* stick's scroll.top and the edges it compares with.
Top(r, s) == s + ARail!Offset(r)

LEMMA TopTyped ==
    ASSUME ColumnOK, NEW r \in RailStates, NEW s \in Int
    PROVE  Top(r, s) \in Int
<1>1. column.offset \in Int /\ column.bottomOffset \in Int
  BY DEF ColumnOK, PageColumns
<1>2. ARail!Offset(r) \in Int
  BY <1>1 DEF ARail!Offset
<1>3. QED
  BY <1>2 DEF Top

(* stick, by the position it finds the rail in.                            *)
LEMMA StickByPlace ==
    ASSUME ColumnOK, NEW r \in RailStates, NEW s \in Int, NEW q, q = ARail!Stick(r, s)
    PROVE  \/ Fills(r) /\ q = r
           \/ /\ ~Fills(r)
              /\ \E elementScroll \in Int, bottomEdge \in Int :
                   /\ r.cache.fits => bottomEdge = column.size + Top(r, s)
                   /\ r.place = "initial" => q = ARail!Initially(r, Top(r, s), bottomEdge)
                   /\ r.place = "fixed" /\ r.side = "top" =>
                        q = ARail!FixedToTop(r, Top(r, s), bottomEdge, elementScroll)
                   /\ r.place = "fixed" /\ r.side = "bottom" =>
                        q = ARail!FixedToBottom(r, Top(r, s), elementScroll)
                   /\ r.place = "bound" => q = ARail!BoundToBottom(r, Top(r, s))
<1> DEFINE top           == s + ARail!Offset(r)
           elementScroll == IF r.cache.fits THEN 0 ELSE ARail!ElementScroll(r, top)
           bottomEdge    == column.size + top - elementScroll
<1>1. top = Top(r, s) /\ top \in Int
  BY TopTyped DEF Top
<1>2. elementScroll \in Int
  <2> HIDE DEF top
  <2>1. ARail!ElementScroll(r, top) \in Int
    BY <1>1, ElementScrollTyped
  <2>2. QED
    BY <2>1
<1>3. bottomEdge \in Int /\ (r.cache.fits => bottomEdge = column.size + top)
  <2>1. column.size \in Int
    BY DEF ColumnOK, PageColumns
  <2>2. r.cache.fits => elementScroll = 0
    OBVIOUS
  <2> HIDE DEF top, elementScroll
  <2>3. QED
    BY <1>1, <1>2, <2>1, <2>2
<1>4. q = CASE r.cache.bottom - ColumnStart = column.size -> r
            [] OTHER ->
               CASE r.place = "initial" -> ARail!Initially(r, top, bottomEdge)
                 [] r.place = "fixed" /\ r.side = "top" ->
                      ARail!FixedToTop(r, top, bottomEdge, elementScroll)
                 [] r.place = "fixed" /\ r.side = "bottom" ->
                      ARail!FixedToBottom(r, top, elementScroll)
                 [] r.place = "bound" -> ARail!BoundToBottom(r, top)
  BY Zenon DEF ARail!Stick
<1> HIDE DEF top, elementScroll, bottomEdge
<1>5. CASE Fills(r)
  BY <1>4, <1>5, Zenon DEF Fills
<1>6. CASE ~Fills(r)
  <2>1. q = CASE r.place = "initial" -> ARail!Initially(r, top, bottomEdge)
              [] r.place = "fixed" /\ r.side = "top" ->
                   ARail!FixedToTop(r, top, bottomEdge, elementScroll)
              [] r.place = "fixed" /\ r.side = "bottom" ->
                   ARail!FixedToBottom(r, top, elementScroll)
              [] r.place = "bound" -> ARail!BoundToBottom(r, top)
    BY <1>4, <1>6, Zenon DEF Fills
  <2>2. r.place = "initial" => q = ARail!Initially(r, top, bottomEdge)
    BY <2>1
  <2>3. r.place = "fixed" /\ r.side = "top" =>
          q = ARail!FixedToTop(r, top, bottomEdge, elementScroll)
    BY <2>1
  <2>4. r.place = "fixed" /\ r.side = "bottom" => q = ARail!FixedToBottom(r, top, elementScroll)
    BY <2>1
  <2>5. r.place = "bound" => q = ARail!BoundToBottom(r, top)
    BY <2>1
  <2>6. QED
    BY <1>1, <1>2, <1>3, <1>6, <2>2, <2>3, <2>4, <2>5, Zenon
<1>7. QED
  BY <1>5, <1>6

(* q is r after a step of stick's: measured as it was, in a position that  *)
(* makes sense, and unscrolled if it fits and was.                         *)
Stuck(r, q) ==
  /\ q \in RailStates /\ q.cache = r.cache /\ q.alive = r.alive
  /\ Consistent(q)
  /\ r.cache.fits /\ Unstyled(r) => Unstyled(q)

(* Where a rail that was measured by that cache may be left.               *)
Due(r, q, scrolled) ==
  LET top == scrolled + column.offset
  IN  /\ q.place \in {"initial", "bound"} =>
           column.pushing \/ top <= ColumnStart \/ top + column.size >= r.cache.bottom
      /\ q.place = "fixed" /\ q.side = "top" =>
           top > ColumnStart /\ top + column.size <= r.cache.bottom
      /\ q.place = "fixed" /\ q.side = "bottom" =>
           /\ column.pushing
           /\ scrolled + column.bottomOffset + r.cache.window - column.size >= ColumnStart
           /\ scrolled + r.cache.window <= r.cache.bottom

LEMMA PutIsMoved ==
    ASSUME NEW r \in RailStates, NEW q, NEW place \in Places, NEW side \in Sides,
           PutTo(r, q, place, side),
           place = "initial" <=> side = "none",
           place = "bound" => side = "bottom",
           place = "fixed" /\ side = "bottom" => column.pushing
    PROVE  Stuck(r, q)
BY Zenon DEF PutTo, Stuck, Consistent

LEMMA PositionsMove ==
    ASSUME NEW r \in RailStates
    PROVE  /\ /\ Stuck(r, ARail!SetInitialPosition(r))
              /\ ARail!SetInitialPosition(r).place = "initial"
           /\ Stuck(r, ARail!BindBottom(r)) /\ ARail!BindBottom(r).place = "bound"
           /\ /\ Stuck(r, ARail!FixTop(r))
              /\ ARail!FixTop(r).place = "fixed" /\ ARail!FixTop(r).side = "top"
           /\ /\ column.pushing => Stuck(r, ARail!FixBottom(r))
              /\ ARail!FixBottom(r).place = "fixed" /\ ARail!FixBottom(r).side = "bottom"
<1>1. /\ "initial" \in Places /\ "fixed" \in Places /\ "bound" \in Places
      /\ "none" \in Sides /\ "top" \in Sides /\ "bottom" \in Sides
  BY DEF Places, Sides
<1>2. Stuck(r, ARail!SetInitialPosition(r))
  BY <1>1, Positioned, PutIsMoved
<1>3. Stuck(r, ARail!BindBottom(r))
  BY <1>1, Positioned, PutIsMoved
<1>4. Stuck(r, ARail!FixTop(r))
  BY <1>1, Positioned, PutIsMoved
<1>5. column.pushing => Stuck(r, ARail!FixBottom(r))
  BY <1>1, Positioned, PutIsMoved
<1>6. QED
  BY <1>2, <1>3, <1>4, <1>5, Positioned, Zenon DEF PutTo

LEMMA Numbers ==
    ASSUME ColumnOK, NEW r \in RailStates
    PROVE  /\ column.size \in Nat /\ column.offset \in Nat /\ column.bottomOffset \in Nat
           /\ column.height \in Nat /\ column.window \in Nat /\ column.scrolled \in Nat
           /\ r.cache.bottom \in Int /\ r.cache.window \in Nat /\ ColumnStart \in Nat
           /\ column.size <= column.height
<1>1. /\ Windows \subseteq Nat /\ ColumnSizes \subseteq Nat
      /\ ColumnStart \in Nat /\ MaxScrolled \in Nat
  BY PartsAssumption, Zenon DEF ARail!StickyAssumption
<1>2. /\ column.size \in Nat /\ column.offset \in Nat /\ column.bottomOffset \in Nat
      /\ column.height \in ColumnSizes /\ column.window \in Windows
      /\ column.scrolled \in 0 .. MaxScrolled
  BY DEF ColumnOK, PageColumns
<1>3. r.cache.bottom \in Int /\ r.cache.window \in Windows
  BY DEF RailStates, Caches
<1>4. /\ column.height \in Nat /\ column.window \in Nat /\ r.cache.window \in Nat
      /\ column.size <= column.height
  BY <1>1, <1>2, <1>3, Zenon DEF ColumnOK
<1>5. column.scrolled \in Nat
  BY <1>1, <1>2
<1>6. QED
  BY <1>1, <1>2, <1>3, <1>4, <1>5, Zenon

(* r is put where the style sheet leaves it inside its column.             *)
LEMMA DueIsInPlace ==
    ASSUME ColumnOK, NEW r \in RailStates, NEW q \in RailStates, Stuck(r, q), Unstyled(q),
           Due(r, q, column.scrolled), r.cache.bottom = ColumnStart + column.height,
           r.cache.window = column.window
    PROVE  ARail!InsideColumn(q) /\ ARail!OnScreen(q)
<1>1. q.place \in {"initial", "fixed", "bound"} /\ q.side \in {"none", "top", "bottom"}
  BY DEF RailStates, Places, Sides
<1>2. q.topStyle = 0 /\ q.bottomStyle = 0
  BY DEF Unstyled
<1>3. CASE q.place = "initial"
  <2>1. ARail!TopEdge(q) = ColumnStart
    BY <1>3 DEF ARail!TopEdge
  <2>2. ARail!Overshoot(q) = 0
    BY <1>3 DEF ARail!Overshoot
  <2>3. ARail!InsideColumn(q)
    BY <2>1, <2>2, Numbers DEF ARail!InsideColumn
  <2>4. \/ column.pushing \/ column.scrolled + column.offset <= ColumnStart
        \/ column.scrolled + column.offset + column.size >= ColumnStart + column.height
    BY <1>3 DEF Due
  <2>5. ARail!OnScreen(q)
    BY <2>4, Numbers DEF ARail!OnScreen
  <2>6. QED
    BY <2>3, <2>5
<1>4. CASE q.place = "bound"
  <2>1. ARail!TopEdge(q) = ColumnStart + column.height - q.bottomStyle - column.size
    BY <1>4 DEF ARail!TopEdge
  <2>2. ARail!Overshoot(q) = 0
    BY <1>4 DEF ARail!Overshoot
  <2>3. ARail!InsideColumn(q)
    BY <1>2, <2>1, <2>2, Numbers DEF ARail!InsideColumn
  <2>4. \/ column.pushing \/ column.scrolled + column.offset <= ColumnStart
        \/ column.scrolled + column.offset + column.size >= ColumnStart + column.height
    BY <1>4 DEF Due
  <2>5. ARail!OnScreen(q)
    BY <2>4, Numbers DEF ARail!OnScreen
  <2>6. QED
    BY <2>3, <2>5
<1>5. CASE q.place = "fixed" /\ q.side = "top"
  <2>1. ARail!TopEdge(q) = column.scrolled + column.offset + q.topStyle
    BY <1>5 DEF ARail!TopEdge
  <2>2. ARail!Overshoot(q) = 0
    BY <1>5 DEF ARail!Overshoot
  <2>3. /\ column.scrolled + column.offset > ColumnStart
        /\ column.scrolled + column.offset + column.size <= ColumnStart + column.height
    BY <1>5 DEF Due
  <2>4. ARail!InsideColumn(q)
    BY <1>2, <2>1, <2>2, <2>3, Numbers DEF ARail!InsideColumn
  <2>5. ARail!OnScreen(q)
    BY <1>5 DEF ARail!OnScreen
  <2>6. QED
    BY <2>4, <2>5
<1>6. CASE q.place = "fixed" /\ q.side = "bottom"
  <2>1. ARail!TopEdge(q) = column.scrolled + column.window - q.bottomStyle - column.size
    BY <1>6 DEF ARail!TopEdge
  <2>2. ARail!Overshoot(q) = column.bottomOffset
    BY <1>6 DEF ARail!Overshoot
  <2>3. /\ column.scrolled + column.bottomOffset + column.window - column.size >= ColumnStart
        /\ column.scrolled + column.window <= ColumnStart + column.height
    BY <1>6 DEF Due
  <2>4. ARail!InsideColumn(q)
    BY <1>2, <2>1, <2>2, <2>3, Numbers DEF ARail!InsideColumn
  <2>5. ARail!OnScreen(q)
    BY <1>6 DEF ARail!OnScreen
  <2>6. QED
    BY <2>4, <2>5
<1>7. ~(q.place = "fixed" /\ q.side = "none")
  BY DEF Stuck, Consistent
<1>8. QED
  BY <1>1, <1>3, <1>4, <1>5, <1>6, <1>7

LEMMA StickInitially ==
    ASSUME ColumnOK, NEW r \in RailStates, Placed(r), NEW s \in Nat, NEW edge \in Int,
           r.place = "initial", NEW q, q = ARail!Initially(r, Top(r, s), edge)
    PROVE  /\ Stuck(r, q)
           /\ edge = column.size + Top(r, s) => Due(r, q, s)
<1> DEFINE top == s + column.offset
<1>1. Top(r, s) = top /\ top \in Int
  BY Numbers DEF Top, ARail!Offset, Placed, Consistent
<1>2. q = IF top >= r.cache.bottom THEN ARail!BindBottom(r)
          ELSE CASE top > ColumnStart /\ edge >= r.cache.bottom -> ARail!BindBottom(r)
                 [] top > ColumnStart /\ edge < r.cache.bottom  -> ARail!FixTop(r)
                 [] OTHER                                 -> r
  BY <1>1 DEF ARail!Initially
<1>3. /\ r.cache.bottom \in Int /\ ColumnStart \in Int /\ column.size \in Nat
  BY Numbers
<1> HIDE DEF top
<1>4. CASE top >= r.cache.bottom \/ (top > ColumnStart /\ edge >= r.cache.bottom)
  <2>1. q = ARail!BindBottom(r)
    <3>1. CASE top >= r.cache.bottom
      BY <1>2, <3>1
    <3>2. CASE ~(top >= r.cache.bottom)
      BY <1>1, <1>2, <1>3, <1>4, <3>2
    <3>3. QED
      BY <3>1, <3>2
  <2>2. Stuck(r, q) /\ q.place = "bound"
    BY <2>1, PositionsMove, Zenon
  <2>3. edge = column.size + top => top + column.size >= r.cache.bottom
    BY <1>1, <1>3, <1>4
  <2>4. QED
    BY <1>1, <2>2, <2>3 DEF Due, top
<1>5. CASE top > ColumnStart /\ edge < r.cache.bottom /\ ~(top >= r.cache.bottom)
  <2>1. q = ARail!FixTop(r)
    BY <1>1, <1>2, <1>3, <1>5
  <2>2. Stuck(r, q) /\ q.place = "fixed" /\ q.side = "top"
    BY <2>1, PositionsMove, Zenon
  <2>3. edge = column.size + top => top > ColumnStart /\ top + column.size <= r.cache.bottom
    BY <1>1, <1>3, <1>5
  <2>4. QED
    BY <1>1, <2>2, <2>3 DEF Due, top
<1>6. CASE ~(top > ColumnStart) /\ ~(top >= r.cache.bottom)
  <2>1. q = r
    BY <1>2, <1>6
  <2>2. Stuck(r, q)
    BY <2>1 DEF Stuck, Placed
  <2>3. top <= ColumnStart
    BY <1>1, <1>3, <1>6
  <2>4. QED
    BY <2>1, <2>2, <2>3 DEF Due, top
<1>7. QED
  BY <1>1, <1>3, <1>4, <1>5, <1>6

LEMMA ScrolledIsMoved ==
    ASSUME NEW r \in RailStates, Placed(r), NEW top \in Int, NEW elementScroll \in Int, NEW q,
           q = (IF r.cache.fits THEN r ELSE ARail!ScrollElement(r, top, elementScroll))
    PROVE  Stuck(r, q) /\ q.place = r.place /\ q.side = r.side
<1>1. CASE r.cache.fits
  BY <1>1 DEF Stuck, Placed
<1>2. CASE ~r.cache.fits
  <2>1. q = ARail!ScrollElement(r, top, elementScroll)
    BY <1>2
  <2>2. /\ q \in RailStates /\ q.place = r.place /\ q.side = r.side
        /\ q.cache = r.cache /\ q.alive = r.alive
    BY <2>1, ScrolledAlong
  <2>3. QED
    BY <1>2, <2>2 DEF Stuck, Placed, Consistent
<1>3. QED
  BY <1>1, <1>2

LEMMA StickFixedToTop ==
    ASSUME ColumnOK, NEW r \in RailStates, Placed(r), NEW s \in Nat, NEW edge \in Int,
           NEW elementScroll \in Int, r.place = "fixed", r.side = "top",
           NEW q, q = ARail!FixedToTop(r, Top(r, s), edge, elementScroll)
    PROVE  /\ Stuck(r, q)
           /\ edge = column.size + Top(r, s) => Due(r, q, s)
<1> DEFINE top == s + column.offset
           along == IF r.cache.fits THEN r ELSE ARail!ScrollElement(r, top, elementScroll)
<1>1. Top(r, s) = top /\ top \in Int
  BY Numbers DEF Top, ARail!Offset
<1>2. q = CASE top <= ColumnStart                              -> ARail!SetInitialPosition(r)
            [] top > ColumnStart /\ edge >= r.cache.bottom     -> ARail!BindBottom(r)
            [] OTHER                                     -> along
  BY <1>1 DEF ARail!FixedToTop
<1>3. /\ r.cache.bottom \in Int /\ ColumnStart \in Int /\ column.size \in Nat
  BY Numbers
<1>4. Stuck(r, along) /\ along.place = "fixed" /\ along.side = "top"
  BY <1>1, ScrolledIsMoved
<1> HIDE DEF top, along
<1>5. CASE top <= ColumnStart
  <2>1. q = ARail!SetInitialPosition(r)
    BY <1>1, <1>2, <1>3, <1>5
  <2>2. Stuck(r, q) /\ q.place = "initial"
    BY <2>1, PositionsMove, Zenon
  <2>3. QED
    BY <1>5, <2>2 DEF Due, top
<1>6. CASE top > ColumnStart /\ edge >= r.cache.bottom
  <2>1. q = ARail!BindBottom(r)
    BY <1>1, <1>2, <1>3, <1>6
  <2>2. Stuck(r, q) /\ q.place = "bound"
    BY <2>1, PositionsMove, Zenon
  <2>3. edge = column.size + top => top + column.size >= r.cache.bottom
    BY <1>1, <1>3, <1>6
  <2>4. QED
    BY <1>1, <2>2, <2>3 DEF Due, top
<1>7. CASE top > ColumnStart /\ ~(edge >= r.cache.bottom)
  <2>1. q = along
    BY <1>1, <1>2, <1>3, <1>7
  <2>2. edge = column.size + top => top > ColumnStart /\ top + column.size <= r.cache.bottom
    BY <1>1, <1>3, <1>7
  <2>3. QED
    BY <1>1, <1>4, <2>1, <2>2 DEF Due, top
<1>8. QED
  BY <1>1, <1>3, <1>5, <1>6, <1>7

LEMMA StickFixedToBottom ==
    ASSUME ColumnOK, NEW r \in RailStates, Placed(r), NEW s \in Nat,
           NEW elementScroll \in Int, r.place = "fixed", r.side = "bottom",
           NEW q, q = ARail!FixedToBottom(r, Top(r, s), elementScroll)
    PROVE  Stuck(r, q) /\ Due(r, q, s)
<1> DEFINE top    == s + column.bottomOffset
           bottom == top + r.cache.window
           along  == IF r.cache.fits THEN r ELSE ARail!ScrollElement(r, top, elementScroll)
<1>1. column.pushing
  BY DEF Placed, Consistent
<1>2. Top(r, s) = top /\ top \in Int /\ bottom \in Int
  BY <1>1, Numbers DEF Top, ARail!Offset
<1>3. q = CASE bottom - column.size <= ColumnStart -> ARail!SetInitialPosition(r)
            [] bottom - column.size > ColumnStart /\ bottom >= r.cache.bottom -> ARail!BindBottom(r)
            [] OTHER -> along
  BY <1>2 DEF ARail!FixedToBottom
<1>4. /\ r.cache.bottom \in Int /\ ColumnStart \in Int /\ column.size \in Nat
      /\ column.bottomOffset \in Nat /\ r.cache.window \in Nat
  BY Numbers
<1>5. Stuck(r, along) /\ along.place = "fixed" /\ along.side = "bottom"
  BY <1>2, ScrolledIsMoved
<1> HIDE DEF top, bottom, along
<1>6. CASE bottom - column.size <= ColumnStart
  <2>1. q = ARail!SetInitialPosition(r)
    BY <1>2, <1>3, <1>4, <1>6
  <2>2. Stuck(r, q) /\ q.place = "initial"
    BY <2>1, PositionsMove, Zenon
  <2>3. QED
    BY <1>1, <2>2 DEF Due
<1>7. CASE bottom - column.size > ColumnStart /\ bottom >= r.cache.bottom
  <2>1. q = ARail!BindBottom(r)
    BY <1>2, <1>3, <1>4, <1>7
  <2>2. Stuck(r, q) /\ q.place = "bound"
    BY <2>1, PositionsMove, Zenon
  <2>3. QED
    BY <1>1, <2>2 DEF Due
<1>8. CASE bottom - column.size > ColumnStart /\ ~(bottom >= r.cache.bottom)
  <2>1. q = along
    BY <1>2, <1>3, <1>4, <1>8
  <2>2. /\ s + column.bottomOffset + r.cache.window - column.size >= ColumnStart
        /\ s + r.cache.window <= r.cache.bottom
    BY <1>4, <1>8 DEF bottom, top
  <2>3. QED
    BY <1>1, <1>5, <2>1, <2>2 DEF Due
<1>9. QED
  BY <1>2, <1>4, <1>6, <1>7, <1>8

LEMMA StickBound ==
    ASSUME ColumnOK, NEW r \in RailStates, Placed(r), NEW s \in Nat, r.place = "bound",
           NEW q, q = ARail!BoundToBottom(r, Top(r, s))
    PROVE  /\ Stuck(r, q)
           /\ column.size <= r.cache.window => Due(r, q, s)
<1> DEFINE top == s + (IF column.pushing THEN column.bottomOffset ELSE column.offset)
<1>1. Top(r, s) = top /\ top \in Int
  BY Numbers DEF Top, ARail!Offset, Placed, Consistent
<1>2. q = CASE top <= ColumnStart -> ARail!SetInitialPosition(r)
            [] top > ColumnStart /\ column.pushing /\ top + r.cache.window <= r.cache.bottom ->
                 ARail!FixBottom(r)
            [] top > ColumnStart /\ ~column.pushing /\ top <= r.cache.bottom - column.size ->
                 ARail!FixTop(r)
            [] OTHER -> r
  BY <1>1 DEF ARail!BoundToBottom
<1>3. /\ r.cache.bottom \in Int /\ ColumnStart \in Int /\ column.size \in Nat
      /\ column.bottomOffset \in Nat /\ r.cache.window \in Nat /\ column.offset \in Nat
  BY Numbers
<1>4. Stuck(r, r)
  BY DEF Stuck, Placed
<1>5. ~column.pushing => top = s + column.offset
  OBVIOUS
<1>6. column.pushing => top = s + column.bottomOffset
  OBVIOUS
<1> HIDE DEF top
<1>7. CASE top <= ColumnStart
  <2>1. q = ARail!SetInitialPosition(r)
    BY <1>1, <1>2, <1>3, <1>7
  <2>2. Stuck(r, q) /\ q.place = "initial"
    BY <2>1, PositionsMove, Zenon
  <2>3. QED
    BY <1>5, <1>7, <2>2 DEF Due
<1>8. CASE top > ColumnStart /\ column.pushing /\ top + r.cache.window <= r.cache.bottom
  <2>1. q = ARail!FixBottom(r)
    BY <1>1, <1>2, <1>3, <1>8
  <2>2. Stuck(r, q) /\ q.place = "fixed" /\ q.side = "bottom"
    BY <1>8, <2>1, PositionsMove, Zenon
  <2>3. column.size <= r.cache.window =>
          /\ s + column.bottomOffset + r.cache.window - column.size >= ColumnStart
          /\ s + r.cache.window <= r.cache.bottom
    BY <1>3, <1>6, <1>8
  <2>4. QED
    BY <1>8, <2>2, <2>3 DEF Due
<1>9. CASE top > ColumnStart /\ ~column.pushing /\ top <= r.cache.bottom - column.size
  <2>1. q = ARail!FixTop(r)
    BY <1>1, <1>2, <1>3, <1>9
  <2>2. Stuck(r, q) /\ q.place = "fixed" /\ q.side = "top"
    BY <2>1, PositionsMove, Zenon
  <2>3. s + column.offset > ColumnStart /\ s + column.offset + column.size <= r.cache.bottom
    BY <1>3, <1>5, <1>9
  <2>4. QED
    BY <2>2, <2>3 DEF Due
<1>10. CASE /\ top > ColumnStart
            /\ ~(column.pushing /\ top + r.cache.window <= r.cache.bottom)
            /\ ~(~column.pushing /\ top <= r.cache.bottom - column.size)
  <2>1. q = r
    BY <1>1, <1>2, <1>3, <1>10
  <2>2. column.pushing \/ s + column.offset + column.size >= r.cache.bottom
    BY <1>3, <1>5, <1>10
  <2>3. QED
    BY <1>4, <2>1, <2>2 DEF Due
<1>11. QED
  BY <1>1, <1>3, <1>7, <1>8, <1>9, <1>10

LEMMA StickMoves ==
    ASSUME ColumnOK, NEW r \in RailStates, Placed(r), NEW s \in Nat,
           NEW q, q = ARail!Stick(r, s)
    PROVE  /\ Stuck(r, q) /\ Placed(q)
           /\ r.cache.fits /\ column.size <= r.cache.window => Due(r, q, s)
<1>1. s \in Int
  OBVIOUS
<1>2. CASE Fills(r) /\ q = r
  <2>1. Stuck(r, q)
    BY <1>2 DEF Stuck, Placed
  <2>2. r.place = "initial" /\ r.cache.bottom - ColumnStart = column.size
    BY <1>2 DEF Placed, Fills
  <2>3. s + column.offset <= ColumnStart \/ s + column.offset + column.size >= r.cache.bottom
    BY <2>2, Numbers
  <2>4. QED
    BY <1>2, <2>1, <2>2, <2>3 DEF Due
<1>3. CASE ~Fills(r)
  <2>1. ~Fills(q) \/ q.cache # r.cache
    BY <1>3 DEF Fills
  <2>2. PICK elementScroll \in Int, bottomEdge \in Int :
          /\ r.cache.fits => bottomEdge = column.size + Top(r, s)
          /\ r.place = "initial" => q = ARail!Initially(r, Top(r, s), bottomEdge)
          /\ r.place = "fixed" /\ r.side = "top" =>
               q = ARail!FixedToTop(r, Top(r, s), bottomEdge, elementScroll)
          /\ r.place = "fixed" /\ r.side = "bottom" =>
               q = ARail!FixedToBottom(r, Top(r, s), elementScroll)
          /\ r.place = "bound" => q = ARail!BoundToBottom(r, Top(r, s))
    BY <1>1, <1>3, StickByPlace, Zenon
  <2>3. /\ Stuck(r, q)
        /\ r.cache.fits /\ column.size <= r.cache.window => Due(r, q, s)
    <3>1. CASE r.place = "initial"
      BY <2>2, <3>1, StickInitially, Zenon
    <3>2. CASE r.place = "fixed" /\ r.side = "top"
      BY <2>2, <3>2, StickFixedToTop, Zenon
    <3>3. CASE r.place = "fixed" /\ r.side = "bottom"
      BY <2>2, <3>3, StickFixedToBottom, Zenon
    <3>4. CASE r.place = "bound"
      BY <2>2, <3>4, StickBound, Zenon
    <3>5. /\ r.place \in {"initial", "fixed", "bound"} /\ r.side \in {"none", "top", "bottom"}
          /\ ~(r.place = "fixed" /\ r.side = "none")
      BY DEF RailStates, Places, Sides, Placed, Consistent
    <3>6. QED
      BY <3>1, <3>2, <3>3, <3>4, <3>5
  <2>4. Placed(q)
    BY <2>1, <2>3 DEF Stuck, Placed
  <2>5. QED
    BY <2>3, <2>4
<1>4. QED
  BY <1>1, <1>2, <1>3, StickByPlace

(* What is measured now.                                                   *)
LEMMA Measurement ==
    ASSUME ColumnOK
    PROVE  /\ ARail!Positions(column) \in Caches
           /\ ARail!Positions(column).bottom = ColumnStart + column.height
           /\ ARail!Positions(column).window = column.window
           /\ ARail!Fitting => /\ ARail!Positions(column).fits
                              /\ column.size <= column.window
<1> DEFINE fits == column.size + column.offset <= column.window
<1>1. /\ column.size \in Nat /\ column.offset \in Nat
      /\ column.height \in ColumnSizes /\ column.window \in Windows
  BY DEF ColumnOK, PageColumns
<1>2. Windows \subseteq Nat /\ ColumnSizes \subseteq Nat /\ ColumnStart \in Nat
  BY PartsAssumption, Zenon DEF ARail!StickyAssumption
<1>3. ColumnStart + column.height \in Int
  <2>1. column.height \in Nat
    BY <1>1, <1>2, Zenon
  <2>2. QED
    BY <1>2, <2>1
<1>4. fits \in Flags
  BY DEF Flags
<1>5. ARail!Positions(column) =
        [bottom |-> ColumnStart + column.height, window |-> column.window, fits |-> fits]
  BY DEF ARail!Positions
<1>6. ARail!Fitting => fits
  BY <1>1, Zenon DEF ARail!Fitting
<1>7. fits => column.size <= column.window
  <2>1. column.window \in Nat
    BY <1>1, <1>2, Zenon
  <2>2. QED
    BY <1>1, <2>1
<1> HIDE DEF fits
<1>8. ARail!Positions(column) \in Caches
  BY <1>1, <1>3, <1>4, <1>5 DEF Caches
<1>9. /\ ARail!Positions(column).bottom = ColumnStart + column.height
      /\ ARail!Positions(column).window = column.window
      /\ ARail!Positions(column).fits = fits
  BY <1>5
<1>10. QED
  BY <1>6, <1>7, <1>8, <1>9, Zenon

(* A rail that is stuck by what is measured now is in its place.           *)
LEMMA StickSettles ==
    ASSUME ColumnOK, NEW r \in RailStates, Placed(r), Unscrolled(r),
           NEW q, q = ARail!Stick(r, column.scrolled)
    PROVE  /\ q \in RailStates /\ q.cache = r.cache /\ q.alive = r.alive
           /\ Placed(q) /\ Unscrolled(q)
           /\ r.cache = ARail!Positions(column) /\ ARail!Fitting =>
                ARail!InsideColumn(q) /\ ARail!OnScreen(q)
<1>1. column.scrolled \in Nat
  BY Numbers
<1>2. /\ Stuck(r, q) /\ Placed(q)
      /\ r.cache.fits /\ column.size <= r.cache.window => Due(r, q, column.scrolled)
  BY <1>1, StickMoves
<1>3. q \in RailStates /\ q.cache = r.cache /\ q.alive = r.alive
  BY <1>2 DEF Stuck
<1>4. Unscrolled(q)
  BY <1>2, <1>3 DEF Stuck, Unscrolled
<1>5. ASSUME r.cache = ARail!Positions(column), ARail!Fitting
      PROVE  ARail!InsideColumn(q) /\ ARail!OnScreen(q)
  <2>1. /\ r.cache.bottom = ColumnStart + column.height /\ r.cache.window = column.window
        /\ r.cache.fits /\ column.size <= r.cache.window
    BY <1>5, Measurement
  <2>2. Due(r, q, column.scrolled) /\ Unstyled(q)
    BY <1>2, <1>4, <1>5, <2>1 DEF Unscrolled
  <2>3. QED
    BY <1>2, <1>3, <2>1, <2>2, DueIsInPlace
<1>6. QED
  BY <1>2, <1>3, <1>4, <1>5

LEMMA RefreshSettles ==
    ASSUME ColumnOK, NEW r \in RailStates, ARail!Fitting => Unstyled(r),
           NEW q, q = ARail!RefreshRail(r, column)
    PROVE  /\ q \in RailStates /\ q.alive = r.alive /\ q.cache = ARail!Positions(column)
           /\ Placed(q) /\ Unscrolled(q)
           /\ ARail!Fitting => ARail!InsideColumn(q) /\ ARail!OnScreen(q)
<1> DEFINE i     == ARail!SetInitialPosition(r)
           reset == ARail!ResetRail(r)
           saved == [reset EXCEPT !.cache = ARail!Positions(column)]
           once  == ARail!Stick(saved, column.scrolled)
<1>1. /\ i \in RailStates /\ i.place = "initial" /\ i.side = "none" /\ i.alive = r.alive
      /\ Unstyled(r) => Unstyled(i)
  BY Positioned DEF PutTo
<1>2. reset = [i EXCEPT !.lastScroll = 0]
  BY DEF ARail!ResetRail
<1>3. q = ARail!Stick(once, column.scrolled)
  BY Zenon DEF ARail!RefreshRail
<1> HIDE DEF i, reset
<1>4. ASSUME NEW zero \in Int, zero = 0
      PROVE  /\ reset \in RailStates /\ reset.place = i.place /\ reset.side = i.side
             /\ reset.topStyle = i.topStyle /\ reset.bottomStyle = i.bottomStyle
  <2>1. reset = [i EXCEPT !.lastScroll = zero]
    BY <1>2, <1>4
  <2>2. reset \in RailStates
    BY <1>1, <2>1 DEF RailStates
  <2>3. /\ reset.place = i.place /\ reset.side = i.side
        /\ reset.topStyle = i.topStyle /\ reset.bottomStyle = i.bottomStyle
    BY <1>1, <2>1 DEF RailStates
  <2>4. QED
    BY <2>2, <2>3
<1>5. reset.alive = i.alive
  BY <1>1, <1>2 DEF RailStates
<1>6. ARail!Positions(column) \in Caches
  BY Measurement
<1>7. saved = [reset EXCEPT !.cache = ARail!Positions(column)]
  OBVIOUS
<1> HIDE DEF saved
<1>8. 0 \in Int
  OBVIOUS
<1>9. reset \in RailStates
  BY <1>4, <1>8, Zenon
<1>10. saved \in RailStates
  BY <1>6, <1>7, <1>9 DEF RailStates
<1>11. /\ saved.place = reset.place /\ saved.side = reset.side
       /\ saved.topStyle = reset.topStyle /\ saved.bottomStyle = reset.bottomStyle
       /\ saved.cache = ARail!Positions(column)
  BY <1>6, <1>7, <1>9 DEF RailStates
<1>12. saved.alive = reset.alive
  BY <1>6, <1>7, <1>9 DEF RailStates
<1>13. /\ saved.place = "initial" /\ saved.side = "none" /\ saved.alive = r.alive
       /\ Unstyled(r) => Unstyled(saved)
  BY <1>1, <1>4, <1>5, <1>8, <1>11, <1>12, Zenon DEF Unstyled
<1>14. Placed(saved)
  BY <1>13 DEF Placed, Consistent
<1>15. Unscrolled(saved)
  BY <1>11, <1>13, Measurement DEF Unscrolled
<1>16. /\ once \in RailStates /\ once.cache = ARail!Positions(column)
       /\ once.alive = r.alive /\ Placed(once) /\ Unscrolled(once)
  BY <1>10, <1>11, <1>13, <1>14, <1>15, StickSettles
<1> HIDE DEF once
<1>17. QED
  BY <1>3, <1>16, StickSettles

-----------------------------------------------------------------------------

LEMMA RailInitially == ARail!StickyInit => RailInv
<1> SUFFICES ASSUME ARail!StickyInit PROVE RailInv
  OBVIOUS
<1>1. ColumnOK
  <2>1. PICK setting \in Rails, height \in ColumnSizes, window \in Windows,
             scrolled \in 0 .. MaxScrolled :
          column = [size |-> setting.size, offset |-> setting.offset,
                    bottomOffset |-> setting.bottomOffset, pushing |-> setting.pushing,
                    observes |-> setting.observes,
                    height |-> height, window |-> window, scrolled |-> scrolled]
    BY Zenon DEF ARail!StickyInit
  <2>2. /\ Rails \subseteq [size : Nat \ {0}, offset : Nat, bottomOffset : Nat,
                           pushing : BOOLEAN, observes : BOOLEAN]
        /\ \A h \in ColumnSizes : setting.size <= h
    BY PartsAssumption, Zenon DEF ARail!StickyAssumption
  <2>3. setting \in [size : Nat \ {0}, offset : Nat, bottomOffset : Nat, pushing : Flags,
                    observes : Flags]
    BY <2>2, Zenon DEF Flags
  <2>4. /\ setting.size \in Nat /\ setting.offset \in Nat /\ setting.bottomOffset \in Nat
        /\ setting.pushing \in Flags /\ setting.observes \in Flags
    BY <2>3
  <2>5. column \in PageColumns /\ column.size = setting.size
    BY <2>1, <2>4 DEF PageColumns
  <2>6. QED
    BY <2>2, <2>5, Zenon DEF ColumnOK
<1> DEFINE fresh == [alive |-> TRUE, place |-> "initial", side |-> "none",
                     topStyle |-> 0, bottomStyle |-> 0, lastScroll |-> 0, elementScroll |-> 0,
                     cache |-> ARail!Positions(column)]
<1>2. /\ rail = ARail!Stick(fresh, column.scrolled)
      /\ awaited = {}
  BY Zenon DEF ARail!StickyInit
<1>3. /\ ARail!Positions(column) \in Caches /\ "initial" \in Places /\ "none" \in Sides
      /\ TRUE \in Flags
  BY <1>1, Measurement DEF Places, Sides, Flags
<1>4. fresh \in RailStates
  <2>1. ASSUME NEW alive \in Flags, NEW place \in Places, NEW side \in Sides,
               NEW zero \in Int, NEW cache \in Caches
        PROVE  [alive |-> alive, place |-> place, side |-> side, topStyle |-> zero,
                bottomStyle |-> zero, lastScroll |-> zero, elementScroll |-> zero,
                cache |-> cache] \in RailStates
    BY <2>1 DEF RailStates
  <2>2. 0 \in Int
    OBVIOUS
  <2>3. QED
    BY <1>3, <2>1, <2>2, Zenon
<1>5. /\ fresh.place = "initial" /\ fresh.side = "none" /\ Unstyled(fresh)
      /\ fresh.cache = ARail!Positions(column)
  BY DEF Unstyled
<1> HIDE DEF fresh
<1>6. Placed(fresh) /\ Unscrolled(fresh)
  BY <1>1, <1>5, Measurement DEF Placed, Consistent, Unscrolled
<1>7. /\ rail \in RailStates /\ rail.cache = ARail!Positions(column)
      /\ Placed(rail) /\ Unscrolled(rail)
      /\ ARail!Fitting => ARail!InsideColumn(rail) /\ ARail!OnScreen(rail)
  BY <1>1, <1>2, <1>4, <1>5, <1>6, StickSettles
<1>8. StaysInItsPlace
  BY <1>7 DEF StaysInItsPlace, ARail!StaysInItsPlace
<1>9. QED
  BY <1>1, <1>2, <1>7, <1>8 DEF RailInv, Measured

(* A step that sticks the rail where the page is.                          *)
LEMMA RailRestuck ==
    ASSUME RailInv, column' = column, awaited' \subseteq awaited,
           rail' \in RailStates, Placed(rail'), Unscrolled(rail'),
           Measured',
           awaited' = {} /\ rail'.alive /\ column.observes =>
             (ARail!Fitting => ARail!InsideColumn(rail') /\ ARail!OnScreen(rail'))
    PROVE  RailInv'
<1>1. ColumnOK'
  BY DEF RailInv, ColumnOK
<1>2. Placed(rail)'
  BY DEF Placed, Consistent, Fills
<1>3. Unscrolled(rail)'
  BY DEF Unscrolled, ARail!Fitting, Unstyled
<1>4. StaysInItsPlace'
  BY DEF StaysInItsPlace, ARail!StaysInItsPlace, ARail!UpToDate, ARail!Fitting,
         ARail!InsideColumn, ARail!OnScreen, ARail!TopEdge, ARail!Overshoot
<1>5. awaited' \subseteq {"scrollchange", "refresh", "timer"}
  BY DEF RailInv
<1>6. QED
  BY <1>1, <1>2, <1>3, <1>4, <1>5 DEF RailInv

(* A step of the page, after which a live rail that observes its column    *)
(* awaits something.                                                       *)
LEMMA RailLeftBehind ==
    ASSUME RailInv, rail' = rail, column' \in PageColumns, column'.size = column.size,
           column'.offset = column.offset, column'.pushing = column.pushing,
           column'.observes = column.observes,
           awaited' \subseteq {"scrollchange", "refresh", "timer"},
           Measured', ~ARail!UpToDate'
    PROVE  RailInv'
<1>1. ColumnOK'
  BY DEF RailInv, ColumnOK
<1>2. Placed(rail)'
  BY DEF RailInv, Placed, Consistent, Fills
<1>3. Unscrolled(rail)'
  BY DEF RailInv, Unscrolled, ARail!Fitting, Unstyled
<1>4. StaysInItsPlace'
  BY DEF StaysInItsPlace, ARail!StaysInItsPlace
<1>5. rail' \in RailStates
  BY DEF RailInv
<1>6. QED
  BY <1>1, <1>2, <1>3, <1>4, <1>5 DEF RailInv

LEMMA ScrollingPage == RailInv /\ ARail!ScrollPage => RailInv'
<1> SUFFICES ASSUME RailInv, ARail!ScrollPage PROVE RailInv'
  OBVIOUS
<1>1. PICK s \in 0 .. MaxScrolled : column' = [column EXCEPT !.scrolled = s]
  BY Zenon DEF ARail!ScrollPage
<1>2. rail' = rail /\ awaited' = awaited \cup {"scrollchange"}
  BY Zenon DEF ARail!ScrollPage
<1>3. column \in PageColumns
  BY DEF RailInv, ColumnOK
<1>4. column' \in PageColumns
  BY <1>1, <1>3 DEF PageColumns
<1>5. /\ column'.size = column.size /\ column'.offset = column.offset
      /\ column'.height = column.height /\ column'.window = column.window
  BY <1>1, <1>3 DEF PageColumns
<1>6. column'.pushing = column.pushing /\ column'.observes = column.observes
  BY <1>1, <1>3 DEF PageColumns
<1>7. ARail!Positions(column') = ARail!Positions(column)
  BY <1>5 DEF ARail!Positions
<1>8. Measured'
  BY <1>2, <1>6, <1>7 DEF RailInv, Measured
<1>9. ~ARail!UpToDate'
  BY <1>2 DEF ARail!UpToDate
<1>10. QED
  BY <1>2, <1>4, <1>5, <1>6, <1>8, <1>9, RailLeftBehind DEF RailInv

LEMMA ResizingWindow == RailInv /\ ARail!ResizeWindow => RailInv'
<1> SUFFICES ASSUME RailInv, ARail!ResizeWindow PROVE RailInv'
  OBVIOUS
<1>1. PICK w \in Windows : column' = [column EXCEPT !.window = w]
  BY Zenon DEF ARail!ResizeWindow
<1>2. rail' = rail /\ awaited' = awaited \cup (IF rail.alive THEN {"refresh"} ELSE {})
  BY Zenon DEF ARail!ResizeWindow
<1>3. column \in PageColumns
  BY DEF RailInv, ColumnOK
<1>4. column' \in PageColumns
  BY <1>1, <1>3 DEF PageColumns
<1>5. column'.size = column.size /\ column'.offset = column.offset
  BY <1>1, <1>3 DEF PageColumns
<1>6. column'.pushing = column.pushing /\ column'.observes = column.observes
  BY <1>1, <1>3 DEF PageColumns
<1>7. rail.alive => "refresh" \in awaited'
  BY <1>2
<1>8. Measured' /\ ~ARail!UpToDate'
  BY <1>2, <1>7 DEF Measured, ARail!UpToDate
<1>9. awaited' \subseteq {"scrollchange", "refresh", "timer"}
  BY <1>2 DEF RailInv
<1>10. QED
  BY <1>2, <1>4, <1>5, <1>6, <1>8, <1>9, RailLeftBehind

LEMMA ChangingColumn == RailInv /\ ARail!ChangeColumn => RailInv'
<1> SUFFICES ASSUME RailInv, ARail!ChangeColumn PROVE RailInv'
  OBVIOUS
<1>1. PICK h \in ColumnSizes : column' = [column EXCEPT !.height = h]
  BY Zenon DEF ARail!ChangeColumn
<1>2. /\ rail' = rail
      /\ awaited' = awaited \cup (IF rail.alive /\ column.observes THEN {"timer"} ELSE {})
  BY Zenon DEF ARail!ChangeColumn
<1>3. column \in PageColumns
  BY DEF RailInv, ColumnOK
<1>4. column' \in PageColumns
  BY <1>1, <1>3 DEF PageColumns
<1>5. column'.size = column.size /\ column'.offset = column.offset
  BY <1>1, <1>3 DEF PageColumns
<1>6. column'.pushing = column.pushing /\ column'.observes = column.observes
  BY <1>1, <1>3 DEF PageColumns
<1>7. rail.alive /\ column.observes => "timer" \in awaited'
  BY <1>2
<1>8. Measured' /\ ~ARail!UpToDate'
  BY <1>2, <1>6, <1>7 DEF Measured, ARail!UpToDate
<1>9. awaited' \subseteq {"scrollchange", "refresh", "timer"}
  BY <1>2 DEF RailInv
<1>10. QED
  BY <1>2, <1>4, <1>5, <1>6, <1>8, <1>9, RailLeftBehind

LEMMA ScrollingFrame == RailInv /\ ARail!ScrollFrame => RailInv'
<1> SUFFICES ASSUME RailInv, ARail!ScrollFrame PROVE RailInv'
  OBVIOUS
<1>1. /\ column' = column /\ awaited' = awaited \ {"scrollchange"}
      /\ rail' = IF rail.alive THEN ARail!Stick(rail, column.scrolled) ELSE rail
  BY Zenon DEF ARail!ScrollFrame
<1>2. /\ ColumnOK /\ rail \in RailStates /\ Placed(rail) /\ Unscrolled(rail)
      /\ awaited \subseteq {"scrollchange", "refresh", "timer"}
  BY DEF RailInv
<1>3. /\ rail' \in RailStates /\ rail'.cache = rail.cache /\ rail'.alive = rail.alive
      /\ Placed(rail') /\ Unscrolled(rail')
      /\ rail.alive /\ rail.cache = ARail!Positions(column) /\ ARail!Fitting =>
           ARail!InsideColumn(rail') /\ ARail!OnScreen(rail')
  <2>1. CASE rail.alive
    <3>1. rail' = ARail!Stick(rail, column.scrolled)
      BY <1>1, <2>1
    <3>2. QED
      BY <1>2, <3>1, StickSettles
  <2>2. CASE ~rail.alive
    BY <1>1, <1>2, <2>2
  <2>3. QED
    BY <2>1, <2>2
<1>4. awaited' \subseteq {"scrollchange"} => awaited \subseteq {"scrollchange"}
  BY <1>1
<1>5. Measured'
  BY <1>1, <1>3, <1>4 DEF RailInv, Measured
<1>6. awaited' = {} /\ rail'.alive /\ column.observes => rail.cache = ARail!Positions(column)
  BY <1>3, <1>4 DEF RailInv, Measured
<1>7. awaited' \subseteq awaited
  BY <1>1
<1>8. QED
  BY <1>1, <1>3, <1>5, <1>6, <1>7, RailRestuck

(* refresh, of the page or when it was awaited.                            *)
LEMMA Refreshing ==
    ASSUME RailInv, column' = column, awaited' \subseteq awaited,
           rail' = ARail!RefreshRail(rail, column)
    PROVE  RailInv'
<1>1. /\ ColumnOK /\ rail \in RailStates
      /\ ARail!Fitting => Unstyled(rail)
  BY DEF RailInv, Unscrolled
<1>2. /\ rail' \in RailStates /\ rail'.alive = rail.alive
      /\ rail'.cache = ARail!Positions(column)
      /\ Placed(rail') /\ Unscrolled(rail')
      /\ ARail!Fitting => ARail!InsideColumn(rail') /\ ARail!OnScreen(rail')
  BY <1>1, RefreshSettles
<1>3. Measured'
  BY <1>2 DEF Measured
<1>4. QED
  BY <1>2, <1>3, RailRestuck

LEMMA DestroyingRail == RailInv /\ ARail!DestroyRail => RailInv'
<1> SUFFICES ASSUME RailInv, ARail!DestroyRail PROVE RailInv'
  OBVIOUS
<1> DEFINE i     == ARail!SetInitialPosition(rail)
           reset == ARail!ResetRail(rail)
<1>1. column' = column /\ awaited' = awaited /\ rail' = [reset EXCEPT !.alive = FALSE]
  BY Zenon DEF ARail!DestroyRail
<1>2. ColumnOK /\ rail \in RailStates /\ Unscrolled(rail)
  BY DEF RailInv
<1>3. /\ i \in RailStates /\ i.place = "initial" /\ i.side = "none" /\ i.cache = rail.cache
      /\ Unstyled(rail) => Unstyled(i)
  BY <1>2, Positioned DEF PutTo
<1>4. reset = [i EXCEPT !.lastScroll = 0]
  BY DEF ARail!ResetRail
<1> HIDE DEF i, reset
<1>5. ASSUME NEW zero \in Int, NEW t, NEW q,
             t = [i EXCEPT !.lastScroll = zero], q = [t EXCEPT !.alive = FALSE]
      PROVE  /\ q \in RailStates /\ ~q.alive /\ q.place = i.place /\ q.side = i.side
             /\ q.cache = i.cache /\ q.topStyle = i.topStyle /\ q.bottomStyle = i.bottomStyle
  <2>1. t \in RailStates
    BY <1>3, <1>5 DEF RailStates
  <2>2. q \in RailStates
    BY <1>5, <2>1 DEF RailStates, Flags
  <2>3. ~q.alive
    BY <1>5, <2>1 DEF RailStates
  <2>4. /\ t.place = i.place /\ t.side = i.side /\ t.cache = i.cache
        /\ t.topStyle = i.topStyle /\ t.bottomStyle = i.bottomStyle
    BY <1>3, <1>5 DEF RailStates
  <2>5. /\ q.place = t.place /\ q.side = t.side /\ q.cache = t.cache
        /\ q.topStyle = t.topStyle /\ q.bottomStyle = t.bottomStyle
    BY <1>5, <2>1 DEF RailStates
  <2>6. QED
    BY <2>2, <2>3, <2>4, <2>5
<1>6. 0 \in Int
  OBVIOUS
<1>7. /\ rail' \in RailStates /\ ~rail'.alive /\ rail'.place = i.place
      /\ rail'.side = i.side /\ rail'.cache = i.cache
      /\ rail'.topStyle = i.topStyle /\ rail'.bottomStyle = i.bottomStyle
  BY <1>1, <1>4, <1>5, <1>6, Zenon
<1>8. Placed(rail')
  BY <1>3, <1>7 DEF Placed, Consistent
<1>9. Unscrolled(rail')
  BY <1>2, <1>3, <1>7 DEF Unscrolled, Unstyled
<1>10. Measured' /\ ~rail'.alive
  BY <1>7 DEF Measured
<1>11. QED
  BY <1>1, <1>7, <1>8, <1>9, <1>10, RailRestuck

(* sticky.js stick, refresh: a rail that has heard of every scroll and     *)
(* change is in its place, for any sizes of the rail, its column and the   *)
(* window and all its settings, however they change and in whatever order  *)
(* the frames and the timer come.                                          *)
THEOREM RailsStayInTheirPlace == ARail!StickySpec => []StaysInItsPlace
<1>1. RailInv => StaysInItsPlace
  BY DEF RailInv
<1>2. RailInv /\ UNCHANGED ARail!stickyVars => RailInv'
  <2> SUFFICES ASSUME RailInv, UNCHANGED ARail!stickyVars PROVE RailInv'
    OBVIOUS
  <2>1. column' = column /\ rail' = rail /\ awaited' = awaited
    BY DEF ARail!stickyVars
  <2>2. Measured' /\ Placed(rail') /\ Unscrolled(rail') /\ rail' \in RailStates
    BY <2>1 DEF RailInv, Measured
  <2>3. awaited' = {} /\ rail'.alive /\ column.observes =>
          (ARail!Fitting => ARail!InsideColumn(rail') /\ ARail!OnScreen(rail'))
    BY <2>1 DEF RailInv, StaysInItsPlace, ARail!StaysInItsPlace, ARail!UpToDate
  <2>4. QED
    BY <2>1, <2>2, <2>3, RailRestuck
<1>3. RailInv /\ ARail!StickyNext => RailInv'
  <2> SUFFICES ASSUME RailInv, ARail!StickyNext PROVE RailInv'
    OBVIOUS
  <2>1. CASE ARail!ScrollPage \/ ARail!ResizeWindow \/ ARail!ChangeColumn
    BY <2>1, ScrollingPage, ResizingWindow, ChangingColumn
  <2>2. CASE ARail!ScrollFrame \/ ARail!DestroyRail
    BY <2>2, ScrollingFrame, DestroyingRail
  <2>3. ASSUME NEW what \in {"refresh", "timer"}, ARail!RefreshLater(what)
        PROVE  RailInv'
    BY <2>3, Refreshing DEF ARail!RefreshLater
  <2>4. CASE ARail!PageRefreshes
    BY <2>4, Refreshing DEF ARail!PageRefreshes
  <2>5. QED
    BY <2>1, <2>2, <2>3, <2>4 DEF ARail!StickyNext
<1>4. QED
  BY RailInitially, <1>1, <1>2, <1>3, PTL DEF ARail!StickySpec

-----------------------------------------------------------------------------
(* The menus of actions.                                                   *)

MenuCallbacks == [what : {"shown", "hidden"}, by : Nat]

QueuedMenus == [dir : {"in", "out"}, done : MenuCallbacks]

MenuAnimations ==
  [anim : {"none", "in", "out"}, shown : BOOLEAN, queue : Seq(QueuedMenus),
   instance : MenuCallbacks \cup {AMenu!NoCallback},
   handler : MenuCallbacks \cup {AMenu!NoCallback}]

OneMenu ==
  [el : MenuAnimations, active : BOOLEAN, listens : SUBSET Nat, module : Nat,
   activated : BOOLEAN, pageLostFocus : BOOLEAN, disabled : BOOLEAN]

IsMenu(w) == w \in OneMenu /\ (w.el.anim # "none" => w.el.handler \in MenuCallbacks)

Screens == [menu : [Menus -> OneMenu], focus : AMenu!Places]

IsScreen(u) == u \in Screens /\ \A m \in Menus : IsMenu(u.menu[m])

(* A menu that the page has not taken off while it was open: it listens as *)
(* long as it lies open, and an animation ends in what its present module  *)
(* has started it for; whatever waits is the opposite of it.               *)
LiesTrue(w) ==
  w.el.anim = "none" =>
    /\ w.active = w.el.shown /\ w.el.queue = <<>>
    /\ w.listens = IF w.el.shown THEN {w.module} ELSE {}

ComesTrue(w) ==
  w.el.anim = "in" =>
    /\ w.active /\ ~w.el.shown /\ w.listens = {}
    /\ w.el.handler = AMenu!Shown(w.module)
    /\ w.el.queue \in Seq({[dir |-> "out", done |-> AMenu!Hidden(w.module)]})

GoesTrue(w) ==
  w.el.anim = "out" =>
    /\ ~w.active /\ w.el.shown /\ w.listens = {}
    /\ w.el.handler = AMenu!Hidden(w.module)
    /\ w.el.queue \in Seq({[dir |-> "in", done |-> AMenu!Shown(w.module)]})

MenuTrue(w) == LiesTrue(w) /\ ComesTrue(w) /\ GoesTrue(w)

(* A menu of a user who waits for animations is, or becomes, as he wished, *)
(* and nothing waits behind that.                                          *)
AsWished(w, wish) ==
  /\ w.el.queue = <<>>
  /\ w.el.anim = "none" => (w.el.shown <=> wish = "open")
  /\ w.el.anim = "in" => wish = "open"
  /\ w.el.anim = "out" => wish = "closed"

Closed(w) == w.el.anim = "none" /\ ~w.el.shown

MenuTypeOK ==
  /\ IsScreen(menus)
  /\ attached \in BOOLEAN /\ careful \in BOOLEAN
  /\ want \in [Menus -> {"open", "closed"}]

(* The mouse is pressed in a menu that is "activated"; without the content *)
(* of the page nothing has the focus.                                      *)
Trusted(m) ==
  LET w == menus.menu[m]
  IN  /\ MenuTrue(w)
      /\ ~attached => Closed(w)
      /\ careful => AsWished(w, want[m])

MenuInv ==
  /\ MenuTypeOK
  /\ \A m \in Menus \ carried : Trusted(m)
  /\ ~attached => menus.focus = AMenu!Nowhere
  /\ careful /\ attached =>
       \A m \in Menus : menus.menu[m].activated => pressed \in AMenu!Within(m)

SameUser(r, w) ==
  r.module = w.module /\ r.activated = w.activated /\ r.disabled = w.disabled
    /\ r.pageLostFocus = w.pageLostFocus

-----------------------------------------------------------------------------
LEMMA MenuStarts ==
    ASSUME NEW w, IsMenu(w), NEW dir \in {"in", "out"}, NEW done \in MenuCallbacks,
           NEW r, r = AMenu!StartMenu(w, dir, done)
    PROVE  /\ IsMenu(r) /\ SameUser(r, w)
           /\ r.el.anim = dir /\ r.el.shown = w.el.shown /\ r.el.queue = w.el.queue
           /\ r.el.handler = done
           /\ r.active \in BOOLEAN /\ (r.active <=> dir = "in")
           /\ dir = "out" => r.listens = w.listens \ {done.by}
           /\ dir = "in" => r.listens = w.listens
<1>1. w \in OneMenu /\ w.el \in MenuAnimations
  BY DEF IsMenu, OneMenu
<1>2. r = [w EXCEPT !.el = AMenu!Start(w.el, dir, done), !.active = (dir = "in"),
                    !.listens = IF dir = "out" THEN w.listens \ {done.by} ELSE w.listens]
  BY DEF AMenu!StartMenu
<1>3. AMenu!Start(w.el, dir, done)
        = [w.el EXCEPT !.anim = dir, !.instance = done, !.handler = done]
  BY DEF AMenu!Start
<1>4. AMenu!Start(w.el, dir, done) \in MenuAnimations
  BY <1>1, <1>3 DEF MenuAnimations
<1>5. /\ r.el = AMenu!Start(w.el, dir, done)
      /\ r.active \in BOOLEAN /\ (r.active <=> dir = "in")
      /\ r.listens = IF dir = "out" THEN w.listens \ {done.by} ELSE w.listens
      /\ SameUser(r, w)
  BY <1>1, <1>2 DEF OneMenu, SameUser
<1>6. r \in OneMenu
  BY <1>1, <1>2, <1>4 DEF OneMenu
<1>7. /\ r.el.anim = dir /\ r.el.shown = w.el.shown /\ r.el.queue = w.el.queue
      /\ r.el.handler = done
  BY <1>1, <1>3, <1>5 DEF MenuAnimations
<1>8. QED
  BY <1>5, <1>6, <1>7 DEF IsMenu

WaitingMenu(w, dir, done) == [w EXCEPT !.el = AMenu!Enqueue(@, dir, done)]

LEMMA MenuQueues ==
    ASSUME NEW w, IsMenu(w), NEW dir \in {"in", "out"}, NEW done \in MenuCallbacks,
           NEW r, r = WaitingMenu(w, dir, done)
    PROVE  /\ IsMenu(r) /\ SameUser(r, w)
           /\ r.el.anim = w.el.anim /\ r.el.shown = w.el.shown /\ r.el.handler = w.el.handler
           /\ r.active = w.active /\ r.listens = w.listens
           /\ r.el.queue = IF w.el.anim = dir THEN w.el.queue
                           ELSE Append(w.el.queue, [dir |-> dir, done |-> done])
<1>1. w \in OneMenu /\ w.el \in MenuAnimations
  BY DEF IsMenu, OneMenu
<1>2. r = [w EXCEPT !.el = AMenu!Enqueue(w.el, dir, done)]
  BY DEF WaitingMenu
<1>3. AMenu!Enqueue(w.el, dir, done)
        = IF w.el.anim = dir THEN w.el
          ELSE [w.el EXCEPT !.queue = Append(w.el.queue, [dir |-> dir, done |-> done])]
  BY DEF AMenu!Enqueue, AMenu!IsOccurring
<1>4. [dir |-> dir, done |-> done] \in QueuedMenus /\ w.el.queue \in Seq(QueuedMenus)
  BY <1>1 DEF QueuedMenus, MenuAnimations
<1>5. Append(w.el.queue, [dir |-> dir, done |-> done]) \in Seq(QueuedMenus)
  BY <1>4
<1>6. AMenu!Enqueue(w.el, dir, done) \in MenuAnimations
  BY <1>1, <1>3, <1>5 DEF MenuAnimations
<1>7. /\ r.el = AMenu!Enqueue(w.el, dir, done) /\ r.active = w.active /\ r.listens = w.listens
      /\ SameUser(r, w)
  BY <1>1, <1>2 DEF OneMenu, SameUser
<1>8. r \in OneMenu
  BY <1>1, <1>2, <1>6 DEF OneMenu
<1>9. /\ r.el.anim = w.el.anim /\ r.el.shown = w.el.shown /\ r.el.handler = w.el.handler
      /\ r.el.queue = IF w.el.anim = dir THEN w.el.queue
                      ELSE Append(w.el.queue, [dir |-> dir, done |-> done])
  BY <1>1, <1>3, <1>7 DEF MenuAnimations
<1>10. QED
  BY <1>7, <1>8, <1>9 DEF IsMenu

(* Showing: a menu that is to be shown comes now, or waits for its end.    *)
LEMMA MenuShows ==
    ASSUME NEW w, IsMenu(w), NEW r, r = AMenu!ShowMenu(w, w.module)
    PROVE  /\ IsMenu(r) /\ SameUser(r, w)
           /\ MenuTrue(w) => MenuTrue(r)
           /\ w.disabled \/ w.active => r = w
           /\ \A wish \in {"open", "closed"} :
                MenuTrue(w) /\ ~w.disabled /\ AsWished(w, wish)
                  /\ (wish = "closed" => w.el.anim = "none") => AsWished(r, "open")
<1> DEFINE done == AMenu!Shown(w.module)
           Goes == ~w.disabled /\ ~w.active /\ (~w.el.shown \/ w.el.anim # "none")
<1>1. done \in MenuCallbacks /\ w.module \in Nat /\ w.el \in MenuAnimations
      /\ w.active \in BOOLEAN
  BY DEF IsMenu, OneMenu, MenuCallbacks, AMenu!Shown
<1>2. r = IF Goes THEN IF w.el.anim # "none" THEN WaitingMenu(w, "in", done)
                       ELSE AMenu!StartMenu(w, "in", done)
          ELSE w
  BY DEF AMenu!ShowMenu, AMenu!AnimateMenu, AMenu!IsAnimating, WaitingMenu
<1>3. CASE ~Goes
  <2>1. r = w
    BY <1>2, <1>3
  <2>2. ASSUME MenuTrue(w), ~w.disabled, NEW wish \in {"open", "closed"},
               AsWished(w, wish), wish = "closed" => w.el.anim = "none"
        PROVE  AsWished(r, "open")
    <3>1. w.active \/ (w.el.shown /\ w.el.anim = "none")
      BY <1>3, <2>2
    <3>2. w.el.anim \in {"none", "in", "out"}
      BY <1>1 DEF MenuAnimations
    <3>3. QED
      BY <2>1, <2>2, <3>1, <3>2 DEF AsWished, MenuTrue, LiesTrue, ComesTrue, GoesTrue
  <2>3. QED
    BY <2>1, <2>2 DEF SameUser
<1>4. CASE Goes /\ w.el.anim = "none"
  <2>1. r = AMenu!StartMenu(w, "in", done)
    BY <1>2, <1>4
  <2>2. /\ IsMenu(r) /\ SameUser(r, w)
        /\ r.el.anim = "in" /\ r.el.shown = w.el.shown /\ r.el.queue = w.el.queue
        /\ r.el.handler = done /\ r.active /\ r.listens = w.listens
    BY <1>1, <2>1, MenuStarts
  <2>3. ASSUME MenuTrue(w) PROVE MenuTrue(r)
    <3>1. ~w.el.shown /\ w.el.queue = <<>> /\ w.listens = {}
      BY <1>4, <2>3 DEF MenuTrue, LiesTrue
    <3>2. <<>> \in Seq({[dir |-> "out", done |-> AMenu!Hidden(r.module)]})
      OBVIOUS
    <3>3. QED
      BY <2>2, <3>1, <3>2 DEF MenuTrue, LiesTrue, ComesTrue, GoesTrue, SameUser
  <2>4. ASSUME MenuTrue(w) PROVE AsWished(r, "open")
    BY <1>4, <2>2, <2>4 DEF AsWished, MenuTrue, LiesTrue
  <2>5. QED
    BY <1>4, <2>2, <2>3, <2>4
<1>5. CASE Goes /\ w.el.anim # "none"
  <2>1. r = WaitingMenu(w, "in", done)
    BY <1>2, <1>5
  <2>2. /\ IsMenu(r) /\ SameUser(r, w)
        /\ r.el.anim = w.el.anim /\ r.el.shown = w.el.shown /\ r.el.handler = w.el.handler
        /\ r.active = w.active /\ r.listens = w.listens
        /\ r.el.queue = IF w.el.anim = "in" THEN w.el.queue
                        ELSE Append(w.el.queue, [dir |-> "in", done |-> done])
    BY <1>1, <2>1, MenuQueues
  <2>3. ASSUME MenuTrue(w)
        PROVE  MenuTrue(r) /\ w.el.anim = "out"
    <3>1. w.el.anim = "out"
      BY <1>1, <1>5, <2>3 DEF MenuTrue, ComesTrue, MenuAnimations
    <3>2. w.el.queue \in Seq({[dir |-> "in", done |-> done]})
      BY <2>3, <3>1 DEF MenuTrue, GoesTrue
    <3>3. r.el.queue \in Seq({[dir |-> "in", done |-> done]})
      BY <2>2, <3>1, <3>2
    <3>4. QED
      BY <2>2, <2>3, <3>1, <3>3 DEF MenuTrue, LiesTrue, ComesTrue, GoesTrue, SameUser
  <2>4. QED
    BY <1>5, <2>2, <2>3 DEF AsWished
<1>6. QED
  BY <1>3, <1>4, <1>5

(* Hiding, likewise.                                                       *)
LEMMA MenuHides ==
    ASSUME NEW w, IsMenu(w), NEW r, r = AMenu!HideMenu(w, w.module)
    PROVE  /\ IsMenu(r) /\ SameUser(r, w)
           /\ MenuTrue(w) => MenuTrue(r)
           /\ ~w.active => r = w
           /\ \A wish \in {"open", "closed"} :
                MenuTrue(w) /\ AsWished(w, wish)
                  /\ (wish = "open" => w.el.anim = "none") => AsWished(r, "closed")
<1> DEFINE done == AMenu!Hidden(w.module)
           Goes == w.active /\ (w.el.shown \/ w.el.anim # "none")
<1>1. done \in MenuCallbacks /\ done.by = w.module /\ w.module \in Nat /\ w.el \in MenuAnimations
      /\ w.active \in BOOLEAN
  BY DEF IsMenu, OneMenu, MenuCallbacks, AMenu!Hidden
<1>2. r = IF Goes THEN IF w.el.anim # "none" THEN WaitingMenu(w, "out", done)
                       ELSE AMenu!StartMenu(w, "out", done)
          ELSE w
  BY DEF AMenu!HideMenu, AMenu!AnimateMenu, AMenu!IsAnimating, WaitingMenu
<1>3. CASE ~Goes
  <2>1. r = w
    BY <1>2, <1>3
  <2>2. ASSUME MenuTrue(w), NEW wish \in {"open", "closed"},
               AsWished(w, wish), wish = "open" => w.el.anim = "none"
        PROVE  AsWished(r, "closed")
    <3>1. ~w.active \/ (~w.el.shown /\ w.el.anim = "none")
      BY <1>3, <2>2
    <3>2. w.el.anim \in {"none", "in", "out"}
      BY <1>1 DEF MenuAnimations
    <3>3. QED
      BY <2>1, <2>2, <3>1, <3>2 DEF AsWished, MenuTrue, LiesTrue, ComesTrue, GoesTrue
  <2>3. QED
    BY <2>1, <2>2 DEF SameUser
<1>4. CASE Goes /\ w.el.anim = "none"
  <2>1. r = AMenu!StartMenu(w, "out", done)
    BY <1>2, <1>4
  <2>2. /\ IsMenu(r) /\ SameUser(r, w)
        /\ r.el.anim = "out" /\ r.el.shown = w.el.shown /\ r.el.queue = w.el.queue
        /\ r.el.handler = done /\ ~r.active /\ r.listens = w.listens \ {w.module}
    BY <1>1, <2>1, MenuStarts
  <2>3. ASSUME MenuTrue(w) PROVE MenuTrue(r)
    <3>1. w.el.shown /\ w.el.queue = <<>> /\ w.listens = {w.module}
      BY <1>4, <2>3 DEF MenuTrue, LiesTrue
    <3>2. <<>> \in Seq({[dir |-> "in", done |-> AMenu!Shown(r.module)]})
      OBVIOUS
    <3>3. QED
      BY <2>2, <3>1, <3>2 DEF MenuTrue, LiesTrue, ComesTrue, GoesTrue, SameUser
  <2>4. ASSUME MenuTrue(w) PROVE AsWished(r, "closed")
    BY <1>4, <2>2, <2>4 DEF AsWished, MenuTrue, LiesTrue
  <2>5. QED
    BY <1>4, <2>2, <2>3, <2>4
<1>5. CASE Goes /\ w.el.anim # "none"
  <2>1. r = WaitingMenu(w, "out", done)
    BY <1>2, <1>5
  <2>2. /\ IsMenu(r) /\ SameUser(r, w)
        /\ r.el.anim = w.el.anim /\ r.el.shown = w.el.shown /\ r.el.handler = w.el.handler
        /\ r.active = w.active /\ r.listens = w.listens
        /\ r.el.queue = IF w.el.anim = "out" THEN w.el.queue
                        ELSE Append(w.el.queue, [dir |-> "out", done |-> done])
    BY <1>1, <2>1, MenuQueues
  <2>3. ASSUME MenuTrue(w)
        PROVE  MenuTrue(r) /\ w.el.anim = "in"
    <3>1. w.el.anim = "in"
      BY <1>1, <1>5, <2>3 DEF MenuTrue, GoesTrue, MenuAnimations
    <3>2. w.el.queue \in Seq({[dir |-> "out", done |-> done]})
      BY <2>3, <3>1 DEF MenuTrue, ComesTrue
    <3>3. r.el.queue \in Seq({[dir |-> "out", done |-> done]})
      BY <2>2, <3>1, <3>2
    <3>4. QED
      BY <2>2, <2>3, <3>1, <3>3 DEF MenuTrue, LiesTrue, ComesTrue, GoesTrue, SameUser
  <2>4. QED
    BY <1>5, <2>2, <2>3 DEF AsWished
<1>6. QED
  BY <1>3, <1>4, <1>5

LEMMA SmallestExists ==
    ASSUME NEW T, T \subseteq Nat, T # {}
    PROVE  \E x \in T : \A y \in T : x <= y
<1> DEFINE R == OpToRel(<, Nat)
<1>1. IsWellFoundedOn(R, Nat)
  BY NatLessThanWellFounded
<1> HIDE DEF R
<1>2. PICK x \in T : \A y \in T : <<y, x>> \notin R
  BY <1>1, WFMin
<1>3. \A y \in Nat : y < x => <<y, x>> \in R
  BY <1>2 DEF R, OpToRel
<1>4. ASSUME NEW y \in T PROVE x <= y
  <2>1. x \in Nat /\ y \in Nat
    BY <1>2
  <2>2. ~(y < x)
    BY <1>2, <1>3, <2>1
  <2>3. QED
    BY <2>1, <2>2
<1>5. QED
  BY <1>2, <1>4

(* Any module may hide a menu; the others of it stay as they are.          *)
LEMMA MenuHidesTyped ==
    ASSUME NEW w, IsMenu(w), NEW by \in Nat, NEW r, r = AMenu!HideMenu(w, by)
    PROVE  IsMenu(r) /\ SameUser(r, w)
<1> DEFINE done == AMenu!Hidden(by)
<1>1. done \in MenuCallbacks
  BY DEF MenuCallbacks, AMenu!Hidden
<1>2. r = w \/ r = WaitingMenu(w, "out", done) \/ r = AMenu!StartMenu(w, "out", done)
  BY DEF AMenu!HideMenu, AMenu!AnimateMenu, AMenu!IsAnimating, WaitingMenu
<1>3. CASE r = w
  BY <1>3 DEF SameUser
<1>4. CASE r = WaitingMenu(w, "out", done)
  BY <1>1, <1>4, MenuQueues
<1>5. CASE r = AMenu!StartMenu(w, "out", done)
  BY <1>1, <1>5, MenuStarts
<1>6. QED
  BY <1>2, <1>3, <1>4, <1>5

(* A click on the document.                                                *)
LEMMA DocumentHides ==
    ASSUME NEW w, IsMenu(w), NEW r, r = AMenu!ClickDocument(w)
    PROVE  /\ IsMenu(r) /\ SameUser(r, w)
           /\ MenuTrue(w) => MenuTrue(r)
           /\ MenuTrue(w) /\ Closed(w) => r = w
           /\ \A wish \in {"open", "closed"} :
                MenuTrue(w) /\ AsWished(w, wish)
                  /\ (wish = "open" => w.el.anim = "none") => AsWished(r, "closed")
<1>1. w.listens \subseteq Nat /\ w.el \in MenuAnimations
  BY DEF IsMenu, OneMenu
<1>2. CASE w.listens = {}
  <2>1. r = w
    BY <1>2 DEF AMenu!ClickDocument
  <2>2. ASSUME NEW wish \in {"open", "closed"}, MenuTrue(w), AsWished(w, wish),
               wish = "open" => w.el.anim = "none"
        PROVE  AsWished(r, "closed")
    <3>1. w.el.anim \in {"none", "in", "out"}
      BY <1>1 DEF MenuAnimations
    <3>2. w.el.anim = "none" => ~w.el.shown
      BY <1>2, <2>2 DEF MenuTrue, LiesTrue
    <3>3. QED
      BY <2>1, <2>2, <3>1, <3>2 DEF AsWished
  <2>3. QED
    BY <2>1, <2>2 DEF SameUser
<1>3. CASE w.listens # {}
  <2> DEFINE oldest == CHOOSE old \in w.listens : \A by \in w.listens : old <= by
  <2>1. oldest \in w.listens
    <3>1. \E old \in w.listens : \A by \in w.listens : old <= by
      BY <1>1, <1>3, SmallestExists
    <3>2. QED
      BY <3>1
  <2>2. r = AMenu!HideMenu(w, oldest)
    BY <1>3 DEF AMenu!ClickDocument
  <2> HIDE DEF oldest
  <2>3. IsMenu(r) /\ SameUser(r, w)
    BY <1>1, <2>1, <2>2, MenuHidesTyped
  <2>4. ASSUME MenuTrue(w) PROVE oldest = w.module /\ ~Closed(w)
    <3>1. w.el.anim = "none"
      BY <1>1, <1>3, <2>4 DEF MenuTrue, ComesTrue, GoesTrue, MenuAnimations
    <3>2. QED
      BY <1>3, <2>1, <2>4, <3>1 DEF MenuTrue, LiesTrue, Closed
  <2>5. ASSUME MenuTrue(w) PROVE r = AMenu!HideMenu(w, w.module)
    BY <2>2, <2>4, <2>5
  <2>6. QED
    BY <2>3, <2>4, <2>5, MenuHides
<1>4. QED
  BY <1>2, <1>3

(* The button that loses the focus, and the one that gets it.              *)
LostFocus(w) == [w EXCEPT !.pageLostFocus = FALSE]

LEMMA FocusForgotten ==
    ASSUME NEW w, IsMenu(w), NEW v, v = LostFocus(w)
    PROVE  /\ IsMenu(v) /\ v.module = w.module /\ v.activated = w.activated
           /\ v.disabled = w.disabled /\ v.active = w.active /\ v.el = w.el
           /\ v.listens = w.listens
           /\ MenuTrue(w) => MenuTrue(v)
<1>1. /\ v \in OneMenu /\ v.module = w.module /\ v.activated = w.activated
      /\ v.disabled = w.disabled /\ v.active = w.active /\ v.el = w.el
      /\ v.listens = w.listens
  BY DEF IsMenu, OneMenu, LostFocus
<1>2. QED
  BY <1>1 DEF IsMenu, MenuTrue, LiesTrue, ComesTrue, GoesTrue

LEMMA MenuBlurs ==
    ASSUME NEW w, IsMenu(w), NEW r, r = AMenu!Blurred(w)
    PROVE  /\ IsMenu(r) /\ r.module = w.module /\ r.activated = w.activated
           /\ r.disabled = w.disabled
           /\ MenuTrue(w) => MenuTrue(r)
           /\ w.activated \/ ~w.active => r.el = w.el /\ r.listens = w.listens /\ r.active = w.active
           /\ \A wish \in {"open", "closed"} :
                MenuTrue(w) /\ ~w.activated /\ AsWished(w, wish)
                  /\ (wish = "open" => w.el.anim = "none") => AsWished(r, "closed")
<1> DEFINE v == LostFocus(w)
<1>1. /\ IsMenu(v) /\ v.module = w.module /\ v.activated = w.activated
      /\ v.disabled = w.disabled /\ v.active = w.active /\ v.el = w.el
      /\ v.listens = w.listens
      /\ MenuTrue(w) => MenuTrue(v)
  BY FocusForgotten
<1>2. r = IF v.activated THEN v ELSE AMenu!HideMenu(v, v.module)
  BY DEF AMenu!Blurred, LostFocus
<1> HIDE DEF v
<1>3. CASE v.activated
  BY <1>1, <1>2, <1>3
<1>4. CASE ~v.activated
  <2>1. /\ IsMenu(r) /\ SameUser(r, v)
        /\ MenuTrue(v) => MenuTrue(r)
        /\ ~v.active => r = v
        /\ \A wish \in {"open", "closed"} :
             MenuTrue(v) /\ AsWished(v, wish)
               /\ (wish = "open" => v.el.anim = "none") => AsWished(r, "closed")
    BY <1>1, <1>2, <1>4, MenuHides
  <2>2. \A wish : AsWished(w, wish) => AsWished(v, wish)
    BY <1>1 DEF AsWished
  <2>3. QED
    BY <1>1, <1>4, <2>1, <2>2 DEF SameUser
<1>5. QED
  BY <1>3, <1>4

LEMMA MenuFocuses ==
    ASSUME NEW w, IsMenu(w), NEW r, r = AMenu!Focused(w)
    PROVE  /\ IsMenu(r) /\ SameUser(r, w)
           /\ MenuTrue(w) => MenuTrue(r)
           /\ w.disabled \/ w.activated \/ w.pageLostFocus => r = w
           /\ \A wish \in {"open", "closed"} :
                MenuTrue(w) /\ ~w.disabled /\ ~w.activated /\ ~w.pageLostFocus /\ AsWished(w, wish)
                  /\ (wish = "closed" => w.el.anim = "none") => AsWished(r, "open")
<1>1. r = IF w.activated \/ w.el.shown \/ w.pageLostFocus THEN w
          ELSE AMenu!ShowMenu(w, w.module)
  BY DEF AMenu!Focused
<1>2. w.el.anim \in {"none", "in", "out"}
  BY DEF IsMenu, OneMenu, MenuAnimations
<1>3. CASE w.activated \/ w.el.shown \/ w.pageLostFocus
  <2>1. r = w
    BY <1>1, <1>3
  <2>2. ASSUME NEW wish \in {"open", "closed"},
               MenuTrue(w), ~w.activated, ~w.pageLostFocus, AsWished(w, wish),
               wish = "closed" => w.el.anim = "none"
        PROVE  AsWished(r, "open")
    BY <1>2, <1>3, <2>1, <2>2 DEF AsWished, MenuTrue, LiesTrue, ComesTrue, GoesTrue
  <2>3. QED
    BY <2>1, <2>2 DEF SameUser
<1>4. CASE ~(w.activated \/ w.el.shown \/ w.pageLostFocus)
  <2>1. r = AMenu!ShowMenu(w, w.module)
    BY <1>1, <1>4
  <2>2. QED
    BY <1>4, <2>1, MenuShows
<1>5. QED
  BY <1>3, <1>4

(* A click, at a place that is in the menu or beside it.                   *)
LEMMA MenuClicked ==
    ASSUME NEW m \in Menus, NEW target, NEW w, IsMenu(w), NEW r, r = AMenu!Clicked(w, m, target)
    PROVE  /\ IsMenu(r) /\ SameUser(r, w)
           /\ MenuTrue(w) => MenuTrue(r)
           /\ target = AMenu!Inside(m) => r = w
           /\ target \notin AMenu!Within(m) /\ MenuTrue(w) /\ Closed(w) => r = w
           /\ \A wish \in {"open", "closed"} :
                MenuTrue(w) /\ target = AMenu!Button(m) /\ ~w.disabled /\ wish = "closed"
                  /\ AsWished(w, wish) /\ w.el.anim = "none" => AsWished(r, "open")
           /\ \A wish \in {"open", "closed"} :
                MenuTrue(w) /\ target # AMenu!Inside(m) /\ AsWished(w, wish)
                  /\ (target = AMenu!Button(m) => wish = "open")
                  /\ (wish = "open" => w.el.anim = "none") => AsWished(r, "closed")
<1>1. /\ AMenu!Button(m) # AMenu!Item(m) /\ AMenu!Button(m) # AMenu!Inside(m)
      /\ AMenu!Item(m) # AMenu!Inside(m)
      /\ AMenu!Within(m) = {AMenu!Button(m), AMenu!Inside(m), AMenu!Item(m)}
  BY DEF AMenu!Button, AMenu!Item, AMenu!Inside, AMenu!Within
<1>2. CASE target = AMenu!Button(m)
  <2>1. r = IF w.active THEN AMenu!HideMenu(w, w.module) ELSE AMenu!ShowMenu(w, w.module)
    BY <1>1, <1>2 DEF AMenu!Clicked, AMenu!Toggle
  <2>2. MenuTrue(w) /\ w.el.anim = "none" => (w.active <=> w.el.shown)
    BY DEF MenuTrue, LiesTrue
  <2>3. \A wish : AsWished(w, wish) /\ w.el.anim = "none" => (w.el.shown <=> wish = "open")
    BY DEF AsWished
  <2>4. CASE w.active
    BY <1>1, <1>2, <2>1, <2>2, <2>3, <2>4, MenuHides
  <2>5. CASE ~w.active
    BY <1>1, <1>2, <2>1, <2>2, <2>3, <2>5, MenuShows
  <2>6. QED
    BY <2>4, <2>5
<1>3. CASE target = AMenu!Item(m)
  <2>1. r = AMenu!HideMenu(w, w.module)
    BY <1>1, <1>3 DEF AMenu!Clicked
  <2>2. QED
    BY <1>1, <1>3, <2>1, MenuHides
<1>4. CASE target = AMenu!Inside(m)
  <2>1. r = w
    BY <1>1, <1>4 DEF AMenu!Clicked
  <2>2. QED
    BY <1>1, <1>4, <2>1 DEF SameUser
<1>5. CASE target \notin AMenu!Within(m)
  <2>1. r = AMenu!ClickDocument(w)
    BY <1>1, <1>5 DEF AMenu!Clicked
  <2>2. QED
    BY <1>1, <1>5, <2>1, DocumentHides
<1>6. QED
  BY <1>1, <1>2, <1>3, <1>4, <1>5

(* The end of an animation, for the menu itself: "done" has run, and what  *)
(* waited starts.                                                          *)
Rested(w) ==
  [w EXCEPT !.el = [AMenu!Complete(@) EXCEPT !.queue = <<>>, !.instance = AMenu!NoCallback],
            !.listens = IF w.el.handler.what = "shown" THEN @ \cup {w.el.handler.by} ELSE @]

LEMMA RestedTrue ==
    ASSUME NEW w, IsMenu(w), w.el.anim # "none", NEW r, r = Rested(w)
    PROVE  /\ IsMenu(r) /\ SameUser(r, w)
           /\ r.el.anim = "none" /\ r.el.queue = <<>> /\ (r.el.shown <=> w.el.anim = "in")
           /\ MenuTrue(w) => MenuTrue(r)
<1>1. /\ w \in OneMenu /\ w.el \in MenuAnimations /\ w.el.handler \in MenuCallbacks
      /\ w.el.anim \in {"in", "out"}
  BY DEF IsMenu, OneMenu, MenuAnimations
<1> DEFINE el == [AMenu!Complete(w.el) EXCEPT !.queue = <<>>, !.instance = AMenu!NoCallback]
           heard == IF w.el.handler.what = "shown" THEN w.listens \cup {w.el.handler.by}
                    ELSE w.listens
<1>2. r = [w EXCEPT !.el = el, !.listens = heard]
  BY DEF Rested
<1>3. AMenu!Complete(w.el)
        = [w.el EXCEPT !.anim = "none", !.shown = (w.el.anim = "in"),
                       !.handler = AMenu!NoCallback]
  BY DEF AMenu!Complete
<1>4. /\ el \in MenuAnimations /\ el.anim = "none" /\ el.queue = <<>>
      /\ (el.shown <=> w.el.anim = "in")
  <2> DEFINE c == AMenu!Complete(w.el)
  <2>1. c \in MenuAnimations /\ c.anim = "none" /\ (c.shown <=> w.el.anim = "in")
    BY <1>1, <1>3 DEF MenuAnimations
  <2> HIDE DEF c
  <2>2. <<>> \in Seq(QueuedMenus)
    OBVIOUS
  <2>3. el = [c EXCEPT !.queue = <<>>, !.instance = AMenu!NoCallback]
    BY DEF c
  <2>4. QED
    BY <2>1, <2>2, <2>3 DEF MenuAnimations
<1>5. heard \subseteq Nat
  BY <1>1 DEF OneMenu, MenuCallbacks
<1> HIDE DEF el, heard
<1>6. /\ r \in OneMenu /\ r.el = el /\ r.listens = heard /\ r.active = w.active
      /\ SameUser(r, w)
  BY <1>1, <1>2, <1>4, <1>5 DEF OneMenu, SameUser
<1>7. ASSUME MenuTrue(w) PROVE MenuTrue(r)
  <2>1. heard = IF w.el.anim = "in" THEN {w.module} ELSE {}
    <3>1. CASE w.el.anim = "in"
      <4>1. w.listens = {} /\ w.el.handler = AMenu!Shown(w.module)
        BY <1>7, <3>1 DEF MenuTrue, ComesTrue
      <4>2. w.el.handler.what = "shown" /\ w.el.handler.by = w.module
        BY <4>1 DEF AMenu!Shown
      <4>3. QED
        BY <3>1, <4>1, <4>2 DEF heard
    <3>2. CASE w.el.anim = "out"
      <4>1. w.listens = {} /\ w.el.handler = AMenu!Hidden(w.module)
        BY <1>7, <3>2 DEF MenuTrue, GoesTrue
      <4>2. w.el.handler.what = "hidden"
        BY <4>1 DEF AMenu!Hidden
      <4>3. QED
        BY <3>2, <4>1, <4>2 DEF heard
    <3>3. QED
      BY <1>1, <3>1, <3>2
  <2>2. r.el.shown \in BOOLEAN /\ r.active \in BOOLEAN
    BY <1>6 DEF OneMenu, MenuAnimations
  <2>3. r.active = r.el.shown
    BY <1>1, <1>4, <1>6, <1>7, <2>2 DEF MenuTrue, ComesTrue, GoesTrue
  <2>4. QED
    BY <1>1, <1>4, <1>6, <2>1, <2>3 DEF MenuTrue, LiesTrue, ComesTrue, GoesTrue, SameUser
<1>8. QED
  BY <1>4, <1>6, <1>7 DEF IsMenu

LEMMA QueueRuns ==
    ASSUME NEW w, IsMenu(w), w.el.anim # "none",
           NEW r, r = AMenu!RunQueued(Rested(w), w.el.queue)
    PROVE  /\ IsMenu(r) /\ SameUser(r, w)
           /\ MenuTrue(w) => MenuTrue(r)
           /\ \A wish : AsWished(w, wish) => AsWished(r, wish)
<1> DEFINE v == Rested(w)
<1>1. /\ IsMenu(v) /\ SameUser(v, w)
      /\ v.el.anim = "none" /\ v.el.queue = <<>> /\ (v.el.shown <=> w.el.anim = "in")
      /\ MenuTrue(w) => MenuTrue(v)
  BY RestedTrue
<1>2. w.el \in MenuAnimations /\ w.el.queue \in Seq(QueuedMenus) /\ w.el.anim \in {"in", "out"}
  BY DEF IsMenu, OneMenu, MenuAnimations
<1>3. r = AMenu!RunQueued(v, w.el.queue)
  OBVIOUS
<1> HIDE DEF v
<1>4. CASE w.el.queue = <<>>
  <2>1. r = v
    BY <1>3, <1>4 DEF AMenu!RunQueued
  <2>2. QED
    BY <1>1, <1>2, <2>1 DEF AsWished
<1>5. CASE w.el.queue # <<>>
  <2> DEFINE first == Head(w.el.queue)
  <2>1. first \in QueuedMenus
    BY <1>2, <1>5
  <2>2. first.dir \in {"in", "out"} /\ first.done \in MenuCallbacks
    BY <2>1 DEF QueuedMenus
  <2>3. r = AMenu!StartMenu(v, first.dir, first.done)
    <3>1. r = AMenu!AnimateMenu(v, first.dir, first.done)
      BY <1>3, <1>5 DEF AMenu!RunQueued
    <3>2. QED
      BY <1>1, <3>1 DEF AMenu!AnimateMenu, AMenu!IsAnimating
  <2>4. ASSUME MenuTrue(w)
        PROVE  first = IF w.el.anim = "in" THEN [dir |-> "out", done |-> AMenu!Hidden(w.module)]
                       ELSE [dir |-> "in", done |-> AMenu!Shown(w.module)]
    <3>1. CASE w.el.anim = "in"
      <4>1. w.el.queue \in Seq({[dir |-> "out", done |-> AMenu!Hidden(w.module)]})
        BY <2>4, <3>1 DEF MenuTrue, ComesTrue
      <4>2. QED
        BY <1>5, <3>1, <4>1
    <3>2. CASE w.el.anim = "out"
      <4>1. w.el.queue \in Seq({[dir |-> "in", done |-> AMenu!Shown(w.module)]})
        BY <2>4, <3>2 DEF MenuTrue, GoesTrue
      <4>2. QED
        BY <1>5, <3>2, <4>1
    <3>3. QED
      BY <1>2, <3>1, <3>2
  <2> HIDE DEF first
  <2>5. /\ IsMenu(r) /\ SameUser(r, v)
        /\ r.el.anim = first.dir /\ r.el.shown = v.el.shown /\ r.el.queue = v.el.queue
        /\ r.el.handler = first.done
        /\ r.active \in BOOLEAN /\ (r.active <=> first.dir = "in")
        /\ first.dir = "out" => r.listens = v.listens \ {first.done.by}
        /\ first.dir = "in" => r.listens = v.listens
    <3>1. ASSUME NEW dir \in {"in", "out"}, NEW done \in MenuCallbacks,
                 r = AMenu!StartMenu(v, dir, done)
          PROVE  /\ IsMenu(r) /\ SameUser(r, v)
                 /\ r.el.anim = dir /\ r.el.shown = v.el.shown /\ r.el.queue = v.el.queue
                 /\ r.el.handler = done
                 /\ r.active \in BOOLEAN /\ (r.active <=> dir = "in")
                 /\ dir = "out" => r.listens = v.listens \ {done.by}
                 /\ dir = "in" => r.listens = v.listens
      BY <1>1, <3>1, MenuStarts
    <3>2. QED
      BY <2>2, <2>3, <3>1
  <2>6. ASSUME MenuTrue(w) PROVE MenuTrue(r)
    <3>1. v.listens = IF v.el.shown THEN {w.module} ELSE {}
      BY <1>1, <2>6 DEF MenuTrue, LiesTrue, SameUser
    <3>2. \A S : <<>> \in Seq(S)
      OBVIOUS
    <3>3. r.module = w.module
      BY <1>1, <2>5 DEF SameUser
    <3>4. CASE w.el.anim = "in"
      <4>1. first.dir = "out" /\ first.done = AMenu!Hidden(w.module) /\ first.done.by = w.module
        BY <2>4, <2>6, <3>4 DEF AMenu!Hidden
      <4>2. QED
        BY <1>1, <2>5, <3>1, <3>2, <3>3, <3>4, <4>1 DEF MenuTrue, LiesTrue, ComesTrue, GoesTrue
    <3>5. CASE w.el.anim = "out"
      <4>1. first.dir = "in" /\ first.done = AMenu!Shown(w.module)
        BY <2>4, <2>6, <3>5
      <4>2. QED
        BY <1>1, <2>5, <3>1, <3>2, <3>3, <3>5, <4>1 DEF MenuTrue, LiesTrue, ComesTrue, GoesTrue
    <3>6. QED
      BY <1>2, <3>4, <3>5
  <2>7. QED
    BY <1>1, <1>5, <2>5, <2>6 DEF AsWished, SameUser
<1>6. QED
  BY <1>4, <1>5

LEMMA PlacesDiffer ==
    ASSUME NEW m \in Menus, NEW k \in Menus
    PROVE  /\ AMenu!Nowhere \notin AMenu!Within(m)
           /\ AMenu!Unpressed \notin AMenu!Within(m) /\ AMenu!Removed \notin AMenu!Within(m)
           /\ AMenu!Button(m) \in AMenu!Within(k) => m = k
           /\ AMenu!Button(m) \in AMenu!Within(m) /\ AMenu!Inside(m) \in AMenu!Within(m)
           /\ AMenu!Item(m) \in AMenu!Within(m)
           /\ AMenu!Button(m) # AMenu!Inside(k) /\ AMenu!Button(m) # AMenu!Nowhere
           /\ AMenu!Inside(m) # AMenu!Nowhere /\ AMenu!Item(m) # AMenu!Nowhere
BY DEF AMenu!Nowhere, AMenu!Unpressed, AMenu!Removed, AMenu!Within, AMenu!Button, AMenu!Inside,
       AMenu!Item

(* What the user asks for, menu by menu.                                   *)
Wishes(opens, closes) ==
  /\ careful' \in BOOLEAN /\ want' \in [Menus -> {"open", "closed"}]
  /\ careful' => careful
  /\ careful' => \A m \in Menus :
       /\ m \in opens => /\ want'[m] = "open"
                         /\ want[m] = "closed" => menus.menu[m].el.anim = "none"
       /\ m \in closes \ opens => /\ want'[m] = "closed"
                                  /\ want[m] = "open" => menus.menu[m].el.anim = "none"
       /\ m \notin opens \cup closes => want'[m] = want[m]

LEMMA AsksGives ==
    ASSUME MenuTypeOK, NEW opens, NEW closes, NEW care, AMenu!Asks(opens, closes, care)
    PROVE  Wishes(opens, closes)
<1> DEFINE asked == {m \in opens : want[m] = "closed"} \cup {m \in closes : want[m] = "open"}
<1>1. /\ careful' = (careful /\ care /\ \A m \in asked : menus.menu[m].el.anim = "none")
      /\ want' = [m \in Menus |-> IF ~careful' THEN "closed"
                                  ELSE IF m \in opens THEN "open"
                                  ELSE IF m \in closes THEN "closed" ELSE want[m]]
  BY DEF AMenu!Asks, AMenu!IsAnimating
<1>2. want \in [Menus -> {"open", "closed"}] /\ careful \in BOOLEAN
  BY DEF MenuTypeOK
<1>3. careful' \in BOOLEAN /\ (careful' => careful)
  BY <1>1, <1>2
<1>4. want' \in [Menus -> {"open", "closed"}]
  BY <1>1, <1>2
<1>5. ASSUME careful', NEW m \in Menus
      PROVE  /\ m \in opens => /\ want'[m] = "open"
                               /\ want[m] = "closed" => menus.menu[m].el.anim = "none"
             /\ m \in closes \ opens =>
                  /\ want'[m] = "closed"
                  /\ want[m] = "open" => menus.menu[m].el.anim = "none"
             /\ m \notin opens \cup closes => want'[m] = want[m]
  <2>1. m \in asked => menus.menu[m].el.anim = "none"
    BY <1>1, <1>2, <1>5
  <2>2. want'[m] = IF m \in opens THEN "open" ELSE IF m \in closes THEN "closed" ELSE want[m]
    BY <1>1, <1>5
  <2>3. QED
    BY <2>1, <2>2
<1>6. QED
  BY <1>3, <1>4, <1>5 DEF Wishes

(* The focus goes from one place to another: at most one button loses it,  *)
(* and at most one gets it.                                                *)
LEMMA FocusLeaves ==
    ASSUME NEW u, IsScreen(u), NEW v, v = AMenu!Blur(u)
    PROVE  /\ IsScreen(v) /\ v.focus = u.focus
           /\ \A m \in Menus : v.menu[m] = IF u.focus = AMenu!Button(m)
                                           THEN AMenu!Blurred(u.menu[m]) ELSE u.menu[m]
<1> DEFINE after == [m \in Menus |-> IF u.focus = AMenu!Button(m)
                                      THEN AMenu!Blurred(u.menu[m]) ELSE u.menu[m]]
<1>1. v = [u EXCEPT !.menu = after]
  BY DEF AMenu!Blur
<1>2. \A m \in Menus : IsMenu(u.menu[m])
  BY DEF IsScreen
<1>3. ASSUME NEW m \in Menus PROVE IsMenu(after[m])
  <2>1. CASE u.focus = AMenu!Button(m)
    <3>1. IsMenu(AMenu!Blurred(u.menu[m]))
      BY <1>2, MenuBlurs
    <3>2. after[m] = AMenu!Blurred(u.menu[m])
      BY <2>1
    <3>3. QED
      BY <3>1, <3>2
  <2>2. CASE u.focus # AMenu!Button(m)
    <3>1. after[m] = u.menu[m]
      BY <2>2
    <3>2. QED
      BY <1>2, <3>1
  <2>3. QED
    BY <2>1, <2>2
<1>4. after \in [Menus -> OneMenu]
  <2>1. \A m \in Menus : after[m] \in OneMenu
    BY <1>3 DEF IsMenu
  <2>2. QED
    BY <2>1
<1>5. \A m \in Menus : after[m] = IF u.focus = AMenu!Button(m)
                                  THEN AMenu!Blurred(u.menu[m]) ELSE u.menu[m]
  OBVIOUS
<1> HIDE DEF after
<1>6. v \in Screens /\ v.menu = after /\ v.focus = u.focus
  BY <1>1, <1>4 DEF IsScreen, Screens
<1>7. QED
  BY <1>3, <1>5, <1>6 DEF IsScreen

LEMMA FocusArrives ==
    ASSUME NEW u, IsScreen(u), NEW place \in AMenu!Places, NEW v, v = AMenu!Focus(u, place)
    PROVE  /\ IsScreen(v) /\ v.focus = place
           /\ \A m \in Menus : v.menu[m] = IF place = AMenu!Button(m)
                                           THEN AMenu!Focused(u.menu[m]) ELSE u.menu[m]
<1> DEFINE after == [m \in Menus |-> IF place = AMenu!Button(m)
                                      THEN AMenu!Focused(u.menu[m]) ELSE u.menu[m]]
<1>1. v = [menu |-> after, focus |-> place]
  BY DEF AMenu!Focus
<1>2. \A m \in Menus : IsMenu(u.menu[m])
  BY DEF IsScreen
<1>3. ASSUME NEW m \in Menus PROVE IsMenu(after[m])
  <2>1. CASE place = AMenu!Button(m)
    <3>1. IsMenu(AMenu!Focused(u.menu[m]))
      BY <1>2, MenuFocuses
    <3>2. after[m] = AMenu!Focused(u.menu[m])
      BY <2>1
    <3>3. QED
      BY <3>1, <3>2
  <2>2. CASE place # AMenu!Button(m)
    <3>1. after[m] = u.menu[m]
      BY <2>2
    <3>2. QED
      BY <1>2, <3>1
  <2>3. QED
    BY <2>1, <2>2
<1>4. after \in [Menus -> OneMenu]
  <2>1. \A m \in Menus : after[m] \in OneMenu
    BY <1>3 DEF IsMenu
  <2>2. QED
    BY <2>1
<1>5. \A m \in Menus : after[m] = IF place = AMenu!Button(m)
                                  THEN AMenu!Focused(u.menu[m]) ELSE u.menu[m]
  OBVIOUS
<1> HIDE DEF after
<1>6. v \in Screens /\ v.menu = after /\ v.focus = place
  BY <1>1, <1>4 DEF Screens
<1>7. QED
  BY <1>3, <1>5, <1>6 DEF IsScreen

LEMMA FocusMoves ==
    ASSUME NEW u, IsScreen(u), NEW place \in AMenu!Places, NEW v, v = AMenu!MoveFocus(u, place)
    PROVE  /\ IsScreen(v) /\ v.focus = place
           /\ \A m \in Menus :
                /\ u.focus = place => v.menu[m] = u.menu[m]
                /\ u.focus # place /\ u.focus = AMenu!Button(m) => v.menu[m] = AMenu!Blurred(u.menu[m])
                /\ u.focus # place /\ place = AMenu!Button(m) => v.menu[m] = AMenu!Focused(u.menu[m])
                /\ u.focus # AMenu!Button(m) /\ place # AMenu!Button(m) => v.menu[m] = u.menu[m]
<1>1. CASE u.focus = place
  <2>1. v = u
    BY <1>1 DEF AMenu!MoveFocus
  <2>2. QED
    BY <1>1, <2>1
<1>2. CASE u.focus # place
  <2> DEFINE b == AMenu!Blur(u)
  <2>1. /\ IsScreen(b) /\ b.focus = u.focus
        /\ \A m \in Menus : b.menu[m] = IF u.focus = AMenu!Button(m)
                                        THEN AMenu!Blurred(u.menu[m]) ELSE u.menu[m]
    BY FocusLeaves
  <2>2. v = AMenu!Focus(b, place)
    BY <1>2 DEF AMenu!MoveFocus
  <2> HIDE DEF b
  <2>3. /\ IsScreen(v) /\ v.focus = place
        /\ \A m \in Menus : v.menu[m] = IF place = AMenu!Button(m)
                                        THEN AMenu!Focused(b.menu[m]) ELSE b.menu[m]
    BY <2>1, <2>2, FocusArrives
  <2>4. QED
    BY <1>2, <2>1, <2>3
<1>3. QED
  BY <1>1, <1>2

(* Menus of which a module learns that the mouse is held down on them.     *)
Held(w, b) == [w EXCEPT !.activated = b]

LEMMA MenuHeld ==
    ASSUME NEW w, IsMenu(w), NEW b \in BOOLEAN, NEW v, v = Held(w, b)
    PROVE  /\ IsMenu(v) /\ v.activated = b /\ v.module = w.module /\ v.disabled = w.disabled
           /\ v.el = w.el /\ v.active = w.active /\ v.listens = w.listens
           /\ MenuTrue(w) => MenuTrue(v)
<1>1. /\ v \in OneMenu /\ v.activated = b /\ v.module = w.module /\ v.disabled = w.disabled
      /\ v.el = w.el /\ v.active = w.active /\ v.listens = w.listens
  BY DEF IsMenu, OneMenu, Held
<1>2. QED
  BY <1>1 DEF IsMenu, MenuTrue, LiesTrue, ComesTrue, GoesTrue

HeldIn(u, target, b) ==
  [u EXCEPT !.menu = [m \in Menus |-> IF target \in AMenu!Within(m) THEN [@[m] EXCEPT !.activated = b]
                                      ELSE @[m]]]

LEMMA HeldInGives ==
    ASSUME NEW u, IsScreen(u), NEW target, NEW b \in BOOLEAN, NEW v, v = HeldIn(u, target, b)
    PROVE  /\ IsScreen(v) /\ v.focus = u.focus
           /\ \A m \in Menus :
                /\ target \in AMenu!Within(m) => v.menu[m].activated = b
                /\ v.menu[m].module = u.menu[m].module /\ v.menu[m].disabled = u.menu[m].disabled
                /\ v.menu[m].el = u.menu[m].el /\ v.menu[m].active = u.menu[m].active
                /\ target \notin AMenu!Within(m) => v.menu[m] = u.menu[m]
                /\ MenuTrue(u.menu[m]) => MenuTrue(v.menu[m])
<1> DEFINE after == [m \in Menus |-> IF target \in AMenu!Within(m) THEN Held(u.menu[m], b)
                                      ELSE u.menu[m]]
<1>1. v = [u EXCEPT !.menu = after]
  BY DEF HeldIn, Held
<1>2. \A m \in Menus : IsMenu(u.menu[m])
  BY DEF IsScreen
<1>3. ASSUME NEW m \in Menus
      PROVE  /\ IsMenu(after[m])
             /\ target \in AMenu!Within(m) => after[m].activated = b
             /\ after[m].module = u.menu[m].module /\ after[m].disabled = u.menu[m].disabled
             /\ after[m].el = u.menu[m].el /\ after[m].active = u.menu[m].active
             /\ target \notin AMenu!Within(m) => after[m] = u.menu[m]
             /\ MenuTrue(u.menu[m]) => MenuTrue(after[m])
  <2>1. CASE target \in AMenu!Within(m)
    <3>1. after[m] = Held(u.menu[m], b)
      BY <2>1
    <3> HIDE DEF after
    <3>2. QED
      BY <1>2, <2>1, <3>1, MenuHeld
  <2>2. CASE target \notin AMenu!Within(m)
    <3>1. after[m] = u.menu[m]
      BY <2>2
    <3> HIDE DEF after
    <3>2. QED
      BY <1>2, <2>2, <3>1
  <2>3. QED
    BY <2>1, <2>2
<1>4. after \in [Menus -> OneMenu]
  <2>1. \A m \in Menus : after[m] \in OneMenu
    BY <1>3 DEF IsMenu
  <2>2. QED
    BY <2>1
<1> HIDE DEF after
<1>5. v \in Screens /\ v.menu = after /\ v.focus = u.focus
  BY <1>1, <1>4 DEF IsScreen, Screens
<1>6. QED
  BY <1>3, <1>5 DEF IsScreen

(* Where the user points: without the content of the page, beside it.      *)
LEMMA PointsAtPage ==
    ASSUME NEW target, AMenu!Pointable(target)
    PROVE  /\ attached \/ target = AMenu!Nowhere
           /\ \A m \in Menus : target = AMenu!Button(m) => ~menus.menu[m].disabled
<1>1. \A m \in Menus, k \in Menus :
        /\ AMenu!Button(m) # AMenu!Nowhere
        /\ AMenu!Button(m) = AMenu!Button(k) => m = k
        /\ AMenu!Button(m) # AMenu!Inside(k) /\ AMenu!Button(m) # AMenu!Item(k)
  BY DEF AMenu!Nowhere, AMenu!Button, AMenu!Inside, AMenu!Item
<1>2. CASE target = AMenu!Nowhere
  BY <1>1, <1>2
<1>3. CASE target # AMenu!Nowhere
  <2>1. PICK k \in rows.rows :
           /\ attached /\ ~menus.menu[k].disabled
           /\ target = AMenu!Button(k) \/ target \in {AMenu!Inside(k), AMenu!Item(k)}
    BY <1>3 DEF AMenu!Pointable
  <2>2. QED
    BY <1>1, <2>1 DEF AMenu!Button, AMenu!Inside, AMenu!Item
<1>4. QED
  BY <1>2, <1>3

LEMMA WishOfElement ==
    ASSUME NEW w, NEW r, r.el = w.el, NEW wish, AsWished(w, wish)
    PROVE  AsWished(r, wish)
BY DEF AsWished

LEMMA MouseDownKeeps ==
    ASSUME MenuInv, NEW target \in AMenu!Targets, AMenu!MouseDown(target)
    PROVE  MenuInv'
<1> DEFINE v      == HeldIn(menus, target, TRUE)
           place  == IF target[1] = "item" THEN AMenu!Inside(target[2]) ELSE target
           closes == {m \in Menus : menus.focus = AMenu!Button(m) /\ target \notin AMenu!Within(m)}
<1>1. /\ pressed = AMenu!Unpressed /\ AMenu!Pointable(target) /\ pressed' = target
      /\ menus' = AMenu!MoveFocus(v, place)
      /\ AMenu!Asks({}, closes, TRUE)
      /\ UNCHANGED <<attached, carried>>
  BY DEF AMenu!MouseDown, HeldIn
<1>2. IsScreen(menus) /\ MenuTypeOK /\ attached \in BOOLEAN
  BY DEF MenuInv, MenuTypeOK
<1>3. /\ IsScreen(v) /\ v.focus = menus.focus
      /\ \A m \in Menus :
           /\ target \in AMenu!Within(m) => v.menu[m].activated = TRUE
           /\ v.menu[m].el = menus.menu[m].el
           /\ target \notin AMenu!Within(m) => v.menu[m] = menus.menu[m]
           /\ MenuTrue(menus.menu[m]) => MenuTrue(v.menu[m])
  <2>1. PICK holding \in BOOLEAN : holding = TRUE
    OBVIOUS
  <2>2. v = HeldIn(menus, target, holding)
    BY <2>1
  <2> HIDE DEF v
  <2>3. /\ IsScreen(v) /\ v.focus = menus.focus
        /\ \A m \in Menus :
             /\ target \in AMenu!Within(m) => v.menu[m].activated = holding
             /\ v.menu[m].el = menus.menu[m].el
             /\ target \notin AMenu!Within(m) => v.menu[m] = menus.menu[m]
             /\ MenuTrue(menus.menu[m]) => MenuTrue(v.menu[m])
    BY <1>2, <2>2, HeldInGives
  <2>4. QED
    BY <2>1, <2>3
<1>4. /\ place \in AMenu!Places
      /\ \A m \in Menus : place = AMenu!Button(m) => target = AMenu!Button(m)
      /\ target = AMenu!Nowhere => place = AMenu!Nowhere
  <2>1. CASE \E k \in Menus : target = AMenu!Item(k)
    <3>1. PICK k \in Menus : target = AMenu!Item(k)
      BY <2>1
    <3>2. place = AMenu!Inside(k)
      BY <3>1 DEF AMenu!Item
    <3>3. QED
      BY <3>1, <3>2, PlacesDiffer DEF AMenu!Places
  <2>2. CASE target \in AMenu!Places
    <3>1. target[1] # "item"
      BY <2>2 DEF AMenu!Places, AMenu!Nowhere, AMenu!Button, AMenu!Inside
    <3>2. QED
      BY <2>2, <3>1
  <2>3. QED
    BY <2>1, <2>2 DEF AMenu!Targets
<1>5. /\ careful' \in BOOLEAN /\ want' \in [Menus -> {"open", "closed"}]
      /\ careful' => careful
      /\ careful' => \A m \in Menus :
           /\ m \in closes => /\ want'[m] = "closed"
                              /\ want[m] = "open" => menus.menu[m].el.anim = "none"
           /\ m \notin closes => want'[m] = want[m]
  <2> HIDE DEF closes
  <2>1. Wishes({}, closes)
    BY <1>1, <1>2, AsksGives
  <2>2. QED
    BY <2>1 DEF Wishes
<1> HIDE DEF v, place
<1>6. /\ IsScreen(menus') /\ menus'.focus = place
      /\ \A m \in Menus :
           /\ menus.focus = place => menus'.menu[m] = v.menu[m]
           /\ menus.focus # place /\ menus.focus = AMenu!Button(m)
                => menus'.menu[m] = AMenu!Blurred(v.menu[m])
           /\ menus.focus # place /\ place = AMenu!Button(m)
                => menus'.menu[m] = AMenu!Focused(v.menu[m])
           /\ menus.focus # AMenu!Button(m) /\ place # AMenu!Button(m)
                => menus'.menu[m] = v.menu[m]
  BY <1>1, <1>3, <1>4, FocusMoves
<1>7. \A m \in Menus : IsMenu(v.menu[m])
  BY <1>3 DEF IsScreen
<1>8. attached \/ (target = AMenu!Nowhere /\ place = AMenu!Nowhere /\ menus.focus = place)
  BY <1>1, <1>4, PointsAtPage DEF MenuInv
<1>9. ASSUME NEW m \in Menus
      PROVE  /\ menus'.menu[m].activated = v.menu[m].activated
             /\ MenuTrue(v.menu[m]) => MenuTrue(menus'.menu[m])
             /\ m \notin closes => menus'.menu[m].el = v.menu[m].el
             /\ m \in closes => menus'.menu[m] = AMenu!Blurred(v.menu[m])
  <2>1. AMenu!Button(m) \in AMenu!Within(m)
    BY PlacesDiffer
  <2>2. CASE menus.focus # place /\ menus.focus = AMenu!Button(m)
    <3>1. menus'.menu[m] = AMenu!Blurred(v.menu[m])
      BY <1>6, <2>2
    <3>2. m \notin closes => v.menu[m].activated
      BY <1>3, <2>2
    <3>3. QED
      BY <1>7, <3>1, <3>2, MenuBlurs
  <2>3. CASE menus.focus # place /\ place = AMenu!Button(m)
    <3>1. menus'.menu[m] = AMenu!Focused(v.menu[m])
      BY <1>6, <2>3
    <3>2. v.menu[m].activated /\ m \notin closes
      BY <1>3, <1>4, <2>1, <2>3
    <3>3. menus'.menu[m] = v.menu[m]
      BY <1>7, <3>1, <3>2, MenuFocuses
    <3>4. QED
      BY <3>2, <3>3
  <2>4. CASE menus.focus = place \/ (menus.focus # AMenu!Button(m) /\ place # AMenu!Button(m))
    <3>1. menus'.menu[m] = v.menu[m]
      BY <1>6, <2>4
    <3>2. m \notin closes
      BY <1>4, <2>1, <2>4
    <3>3. QED
      BY <3>1, <3>2
  <2>5. QED
    BY <2>2, <2>3, <2>4
<1>10. MenuTypeOK'
  BY <1>1, <1>2, <1>5, <1>6 DEF MenuTypeOK
<1>11. ASSUME NEW m \in Menus \ carried' PROVE Trusted(m)'
  <2>1. Trusted(m)
    BY <1>1, <1>11 DEF MenuInv
  <2>2. MenuTrue(menus'.menu[m])
    BY <1>3, <1>9, <2>1 DEF Trusted
  <2>3. ASSUME ~attached' PROVE Closed(menus'.menu[m])
    <3>1. menus'.menu[m] = menus.menu[m]
      BY <1>1, <1>3, <1>6, <1>8, <2>3, PlacesDiffer
    <3>2. QED
      BY <1>1, <2>1, <2>3, <3>1 DEF Trusted
  <2>4. ASSUME careful' PROVE AsWished(menus'.menu[m], want'[m])
    <3>1. careful /\ AsWished(menus.menu[m], want[m]) /\ MenuTrue(menus.menu[m])
      BY <1>5, <2>1, <2>4 DEF Trusted
    <3>2. AsWished(v.menu[m], want[m]) /\ MenuTrue(v.menu[m])
      BY <1>3, <3>1, WishOfElement
    <3>3. CASE m \in closes
      <4>1. attached
        BY <1>4, <1>8, <3>3, PlacesDiffer
      <4>2. ~v.menu[m].activated
        BY <1>1, <1>3, <3>1, <3>3, <4>1, PlacesDiffer DEF MenuInv
      <4>3. want[m] \in {"open", "closed"}
        BY <1>2 DEF MenuTypeOK
      <4>4. menus'.menu[m] = AMenu!Blurred(v.menu[m]) /\ IsMenu(v.menu[m])
        BY <1>7, <1>9, <3>3
      <4>5. AsWished(v.menu[m], want[m]) /\ (want[m] = "open" => v.menu[m].el.anim = "none")
        BY <1>3, <1>5, <2>4, <3>2, <3>3
      <4>6. AsWished(menus'.menu[m], "closed")
        BY <3>2, <4>2, <4>3, <4>4, <4>5, MenuBlurs
      <4>7. QED
        BY <1>5, <2>4, <3>3, <4>6
    <3>4. CASE m \notin closes
      BY <1>5, <1>9, <2>4, <3>2, <3>4, WishOfElement
    <3>5. QED
      BY <3>3, <3>4
  <2>5. QED
    BY <2>2, <2>3, <2>4 DEF Trusted
<1>12. ~attached' => menus'.focus = AMenu!Nowhere
  BY <1>1, <1>6, <1>8
<1>13. ASSUME careful', attached', NEW m \in Menus, menus'.menu[m].activated
       PROVE  pressed' \in AMenu!Within(m)
  <2>1. target \in AMenu!Within(m) \/ menus.menu[m].activated
    BY <1>3, <1>9, <1>13
  <2>2. ~menus.menu[m].activated
    BY <1>1, <1>5, <1>13, PlacesDiffer DEF MenuInv
  <2>3. QED
    BY <1>1, <2>1, <2>2
<1>14. QED
  BY <1>10, <1>11, <1>12, <1>13 DEF MenuInv

LEMMA ClickGives ==
    ASSUME NEW u, IsScreen(u), NEW target, NEW v, v = AMenu!Click(u, target)
    PROVE  /\ IsScreen(v) /\ v.focus = u.focus
           /\ \A m \in Menus : v.menu[m] = AMenu!Clicked(u.menu[m], m, target)
<1> DEFINE after == [m \in Menus |-> AMenu!Clicked(u.menu[m], m, target)]
<1>1. v = [u EXCEPT !.menu = after]
  BY DEF AMenu!Click
<1>2. \A m \in Menus : IsMenu(u.menu[m])
  BY DEF IsScreen
<1>3. \A m \in Menus : IsMenu(after[m])
  BY <1>2, MenuClicked
<1>4. after \in [Menus -> OneMenu]
  <2>1. \A m \in Menus : after[m] \in OneMenu
    BY <1>3 DEF IsMenu
  <2>2. QED
    BY <2>1
<1>5. \A m \in Menus : after[m] = AMenu!Clicked(u.menu[m], m, target)
  OBVIOUS
<1> HIDE DEF after
<1>6. v \in Screens /\ v.menu = after /\ v.focus = u.focus
  BY <1>1, <1>4 DEF IsScreen, Screens
<1>7. QED
  BY <1>3, <1>5, <1>6 DEF IsScreen

LEMMA MouseUpKeeps ==
    ASSUME MenuInv, NEW target \in AMenu!Targets, AMenu!MouseUp(target)
    PROVE  MenuInv'
<1> DEFINE v      == HeldIn(menus, target, FALSE)
           opens  == {m \in Menus : target = AMenu!Button(m) /\ target = pressed
                                      /\ want[m] = "closed" /\ ~menus.menu[m].disabled}
           closes == IF target = pressed
                     THEN Menus \ (opens \cup {m \in Menus : target = AMenu!Inside(m)}) ELSE {}
           care   == pressed \in {target, AMenu!Removed}
<1>1. /\ AMenu!Pointable(target) /\ pressed' = AMenu!Unpressed
      /\ menus' = IF target = pressed THEN AMenu!Click(v, target) ELSE v
      /\ AMenu!Asks(opens, closes, care)
      /\ UNCHANGED <<attached, carried>>
  BY DEF AMenu!MouseUp, HeldIn
<1>2. IsScreen(menus) /\ MenuTypeOK /\ attached \in BOOLEAN
  BY DEF MenuInv, MenuTypeOK
<1>3. /\ IsScreen(v) /\ v.focus = menus.focus
      /\ \A m \in Menus :
           /\ target \in AMenu!Within(m) => v.menu[m].activated = FALSE
           /\ v.menu[m].el = menus.menu[m].el /\ v.menu[m].disabled = menus.menu[m].disabled
           /\ target \notin AMenu!Within(m) => v.menu[m] = menus.menu[m]
           /\ MenuTrue(menus.menu[m]) => MenuTrue(v.menu[m])
  <2>1. PICK holding \in BOOLEAN : holding = FALSE
    OBVIOUS
  <2>2. v = HeldIn(menus, target, holding)
    BY <2>1
  <2> HIDE DEF v
  <2>3. /\ IsScreen(v) /\ v.focus = menus.focus
        /\ \A m \in Menus :
             /\ target \in AMenu!Within(m) => v.menu[m].activated = holding
             /\ v.menu[m].el = menus.menu[m].el /\ v.menu[m].disabled = menus.menu[m].disabled
             /\ target \notin AMenu!Within(m) => v.menu[m] = menus.menu[m]
             /\ MenuTrue(menus.menu[m]) => MenuTrue(v.menu[m])
    BY <1>2, <2>2, HeldInGives
  <2>4. QED
    BY <2>1, <2>3
<1>4. careful' => care
  BY <1>1 DEF AMenu!Asks
<1>5. /\ careful' \in BOOLEAN /\ want' \in [Menus -> {"open", "closed"}]
      /\ careful' => careful
      /\ careful' => \A m \in Menus :
           /\ m \in opens => /\ want'[m] = "open"
                             /\ want[m] = "closed" => menus.menu[m].el.anim = "none"
           /\ m \in closes \ opens =>
                /\ want'[m] = "closed"
                /\ want[m] = "open" => menus.menu[m].el.anim = "none"
           /\ m \notin opens \cup closes => want'[m] = want[m]
  <2> HIDE DEF care, opens, closes
  <2>1. Wishes(opens, closes)
    BY <1>1, <1>2, AsksGives
  <2>2. QED
    BY <2>1 DEF Wishes
<1> HIDE DEF v
<1>6. \A m \in Menus : IsMenu(v.menu[m])
  BY <1>3 DEF IsScreen
<1>7. IsScreen(menus') /\ menus'.focus = menus.focus
  BY <1>1, <1>3, ClickGives
<1>8. ASSUME NEW m \in Menus
      PROVE  /\ menus'.menu[m].activated = v.menu[m].activated
             /\ MenuTrue(v.menu[m]) => MenuTrue(menus'.menu[m])
             /\ target = pressed => menus'.menu[m] = AMenu!Clicked(v.menu[m], m, target)
             /\ target # pressed => menus'.menu[m] = v.menu[m]
  <2>1. CASE target = pressed
    <3>1. menus'.menu[m] = AMenu!Clicked(v.menu[m], m, target)
      BY <1>1, <1>3, <2>1, ClickGives
    <3>2. QED
      BY <1>6, <2>1, <3>1, MenuClicked DEF SameUser
  <2>2. CASE target # pressed
    BY <1>1, <2>2
  <2>3. QED
    BY <2>1, <2>2
<1>9. attached \/ target = AMenu!Nowhere
  BY <1>1, PointsAtPage
<1>10. MenuTypeOK'
  BY <1>1, <1>2, <1>5, <1>7 DEF MenuTypeOK
<1>11. ASSUME NEW m \in Menus \ carried' PROVE Trusted(m)'
  <2>1. Trusted(m)
    BY <1>1, <1>11 DEF MenuInv
  <2>2. MenuTrue(v.menu[m]) /\ MenuTrue(menus'.menu[m])
    BY <1>3, <1>8, <2>1 DEF Trusted
  <2>3. ASSUME ~attached' PROVE Closed(menus'.menu[m])
    <3>1. target \notin AMenu!Within(m) /\ v.menu[m] = menus.menu[m] /\ Closed(v.menu[m])
      BY <1>1, <1>3, <1>9, <2>1, <2>3, PlacesDiffer DEF Trusted
    <3>2. menus'.menu[m] = v.menu[m]
      BY <1>6, <1>8, <2>2, <3>1, MenuClicked
    <3>3. QED
      BY <3>1, <3>2
  <2>4. ASSUME careful' PROVE AsWished(menus'.menu[m], want'[m])
    <3>1. careful /\ AsWished(menus.menu[m], want[m])
      BY <1>5, <2>1, <2>4 DEF Trusted
    <3>2. AsWished(v.menu[m], want[m]) /\ IsMenu(v.menu[m])
      BY <1>3, <1>6, <3>1, WishOfElement
    <3>3. want[m] \in {"open", "closed"}
      BY <1>2 DEF MenuTypeOK
    <3>4. AMenu!Button(m) # AMenu!Inside(m)
      BY PlacesDiffer
    <3>5. CASE target # pressed
      <4>1. m \notin opens \cup closes
        BY <3>5
      <4>2. want'[m] = want[m] /\ menus'.menu[m] = v.menu[m]
        BY <1>5, <1>8, <2>4, <3>5, <4>1
      <4>3. QED
        BY <3>2, <4>2
    <3>6. CASE target = pressed /\ target = AMenu!Inside(m)
      <4>1. m \notin opens \cup closes
        BY <3>4, <3>6
      <4>2. want'[m] = want[m] /\ menus'.menu[m] = v.menu[m]
        BY <1>5, <1>6, <1>8, <2>4, <3>6, <4>1, MenuClicked
      <4>3. QED
        BY <3>2, <4>2
    <3>7. CASE target = pressed /\ target = AMenu!Button(m) /\ want[m] = "closed"
      <4>1. ~menus.menu[m].disabled /\ ~v.menu[m].disabled
        BY <1>1, <1>3, <3>7, PointsAtPage
      <4>2. m \in opens
        BY <3>7, <4>1
      <4>3. want'[m] = "open" /\ v.menu[m].el.anim = "none"
        BY <1>3, <1>5, <2>4, <3>7, <4>2
      <4>4. menus'.menu[m] = AMenu!Clicked(v.menu[m], m, target)
        BY <1>8, <3>7
      <4>5. AsWished(menus'.menu[m], "open")
        BY <2>2, <3>2, <3>3, <3>7, <4>1, <4>3, <4>4, MenuClicked
      <4>6. QED
        BY <4>3, <4>5
    <3>8. CASE /\ target = pressed /\ target # AMenu!Inside(m)
               /\ target = AMenu!Button(m) => want[m] = "open"
      <4>1. m \in closes \ opens
        BY <3>8
      <4>2. want'[m] = "closed" /\ (want[m] = "open" => v.menu[m].el.anim = "none")
        BY <1>3, <1>5, <2>4, <4>1
      <4>3. menus'.menu[m] = AMenu!Clicked(v.menu[m], m, target)
        BY <1>8, <3>8
      <4>4. AsWished(menus'.menu[m], "closed")
        BY <2>2, <3>2, <3>3, <3>8, <4>2, <4>3, MenuClicked
      <4>5. QED
        BY <4>2, <4>4
    <3>9. QED
      BY <3>3, <3>5, <3>6, <3>7, <3>8
  <2>5. QED
    BY <2>2, <2>3, <2>4 DEF Trusted
<1>12. ~attached' => menus'.focus = AMenu!Nowhere
  BY <1>1, <1>7 DEF MenuInv
<1>13. ASSUME careful', attached', NEW m \in Menus PROVE ~menus'.menu[m].activated
  <2>1. CASE target \in AMenu!Within(m)
    BY <1>3, <1>8, <2>1
  <2>2. CASE target \notin AMenu!Within(m)
    <3>1. menus.menu[m].activated => pressed \in AMenu!Within(m)
      BY <1>1, <1>5, <1>13 DEF MenuInv
    <3>2. pressed \notin AMenu!Within(m)
      BY <1>4, <1>13, <2>2, PlacesDiffer
    <3>3. QED
      BY <1>3, <1>8, <2>2, <3>1, <3>2
  <2>3. QED
    BY <2>1, <2>2
<1>14. QED
  BY <1>10, <1>11, <1>12, <1>13 DEF MenuInv

LEMMA TabKeeps ==
    ASSUME MenuInv, NEW place \in AMenu!Places, AMenu!Tab(place)
    PROVE  MenuInv'
<1> DEFINE opens  == {m \in Menus : place = AMenu!Button(m) /\ ~menus.menu[m].disabled
                                      /\ ~menus.menu[m].activated /\ ~menus.menu[m].pageLostFocus}
           closes == {m \in Menus : menus.focus \in AMenu!Within(m) /\ place # AMenu!Button(m)}
           care   == \A m \in Menus : menus.focus = AMenu!Inside(m) => ~menus.menu[m].active
<1>1. /\ pressed = AMenu!Unpressed
      /\ place = AMenu!Nowhere \/ (attached /\ \E m \in rows.rows : place = AMenu!Button(m))
      /\ place # menus.focus
      /\ menus' = AMenu!MoveFocus(menus, place)
      /\ AMenu!Asks(opens, closes, care)
      /\ UNCHANGED <<attached, pressed, carried>>
  BY DEF AMenu!Tab, AMenu!IsOpen
<1>2. IsScreen(menus) /\ MenuTypeOK /\ attached \in BOOLEAN /\ (\A m \in Menus : IsMenu(menus.menu[m]))
  BY DEF MenuInv, MenuTypeOK, IsScreen
<1>3. attached
  BY <1>1, <1>2 DEF MenuInv
<1>4. careful' => care
  BY <1>1 DEF AMenu!Asks
<1>5. /\ careful' \in BOOLEAN /\ want' \in [Menus -> {"open", "closed"}]
      /\ careful' => careful
      /\ careful' => \A m \in Menus :
           /\ m \in opens => /\ want'[m] = "open"
                             /\ want[m] = "closed" => menus.menu[m].el.anim = "none"
           /\ m \in closes \ opens =>
                /\ want'[m] = "closed"
                /\ want[m] = "open" => menus.menu[m].el.anim = "none"
           /\ m \notin opens \cup closes => want'[m] = want[m]
  <2> HIDE DEF care, opens, closes
  <2>1. Wishes(opens, closes)
    BY <1>1, <1>2, AsksGives
  <2>2. QED
    BY <2>1 DEF Wishes
<1>6. /\ IsScreen(menus') /\ menus'.focus = place
      /\ \A m \in Menus :
           /\ menus.focus = AMenu!Button(m) => menus'.menu[m] = AMenu!Blurred(menus.menu[m])
           /\ place = AMenu!Button(m) => menus'.menu[m] = AMenu!Focused(menus.menu[m])
           /\ menus.focus # AMenu!Button(m) /\ place # AMenu!Button(m)
                => menus'.menu[m] = menus.menu[m]
  BY <1>1, <1>2, FocusMoves
<1>7. MenuTypeOK'
  BY <1>1, <1>2, <1>5, <1>6 DEF MenuTypeOK
<1>8. ASSUME NEW m \in Menus
      PROVE  /\ MenuTrue(menus.menu[m]) => MenuTrue(menus'.menu[m])
             /\ menus'.menu[m].activated = menus.menu[m].activated
  BY <1>2, <1>6, MenuBlurs, MenuFocuses DEF SameUser
<1>9. ASSUME NEW m \in Menus \ carried' PROVE Trusted(m)'
  <2>1. Trusted(m)
    BY <1>1, <1>9 DEF MenuInv
  <2>2. MenuTrue(menus.menu[m]) /\ MenuTrue(menus'.menu[m])
    BY <1>8, <2>1 DEF Trusted
  <2>3. ASSUME careful' PROVE AsWished(menus'.menu[m], want'[m])
    <3>1. careful /\ AsWished(menus.menu[m], want[m]) /\ ~menus.menu[m].activated
      BY <1>1, <1>3, <1>5, <2>1, <2>3, PlacesDiffer DEF Trusted, MenuInv
    <3>2. want[m] \in {"open", "closed"} /\ IsMenu(menus.menu[m])
      BY <1>2 DEF MenuTypeOK
    <3>3. CASE place = AMenu!Button(m)
      <4>1. menus'.menu[m] = AMenu!Focused(menus.menu[m]) /\ m \notin closes
        BY <1>6, <3>3
      <4>2. CASE m \in opens
        <5>1. want'[m] = "open" /\ (want[m] = "closed" => menus.menu[m].el.anim = "none")
          BY <1>5, <2>3, <4>2
        <5>2. ~menus.menu[m].disabled /\ ~menus.menu[m].activated /\ ~menus.menu[m].pageLostFocus
          BY <4>2
        <5>3. AsWished(menus'.menu[m], "open")
          BY <2>2, <3>1, <3>2, <4>1, <5>1, <5>2, MenuFocuses
        <5>4. QED
          BY <5>1, <5>3
      <4>3. CASE m \notin opens
        <5>1. want'[m] = want[m]
          BY <1>5, <2>3, <4>1, <4>3
        <5>2. menus.menu[m].disabled \/ menus.menu[m].activated \/ menus.menu[m].pageLostFocus
          BY <3>3, <4>3
        <5>3. menus'.menu[m] = menus.menu[m]
          BY <3>2, <4>1, <5>2, MenuFocuses
        <5>4. QED
          BY <3>1, <5>1, <5>3
      <4>4. QED
        BY <4>2, <4>3
    <3>4. CASE place # AMenu!Button(m) /\ menus.focus = AMenu!Button(m)
      <4>1. menus'.menu[m] = AMenu!Blurred(menus.menu[m])
        BY <1>6, <3>4
      <4>2. m \in closes \ opens
        BY <3>4, PlacesDiffer
      <4>3. want'[m] = "closed" /\ (want[m] = "open" => menus.menu[m].el.anim = "none")
        BY <1>5, <2>3, <4>2
      <4>4. AsWished(menus'.menu[m], "closed")
        BY <2>2, <3>1, <3>2, <4>1, <4>3, MenuBlurs
      <4>5. QED
        BY <4>3, <4>4
    <3>5. CASE place # AMenu!Button(m) /\ menus.focus # AMenu!Button(m)
      <4>1. menus'.menu[m] = menus.menu[m] /\ m \notin opens
        BY <1>6, <3>5
      <4>2. CASE m \notin closes
        BY <1>5, <2>3, <3>1, <4>1, <4>2
      <4>3. CASE m \in closes
        <5>1. want'[m] = "closed"
          BY <1>5, <2>3, <4>1, <4>3
        <5>2. menus.focus = AMenu!Inside(m)
          <6>1. menus.focus \in {AMenu!Button(m), AMenu!Inside(m), AMenu!Item(m)}
            BY <4>3 DEF AMenu!Within
          <6>2. menus.focus # AMenu!Item(m)
            <7>1. menus.focus \in AMenu!Places
              BY <1>2 DEF IsScreen, Screens
            <7>2. QED
              BY <7>1 DEF AMenu!Places, AMenu!Nowhere, AMenu!Button, AMenu!Inside, AMenu!Item
          <6>3. QED
            BY <3>5, <6>1, <6>2
        <5>3. ~menus.menu[m].active
          BY <1>4, <2>3, <5>2
        <5>4. menus.menu[m].el.anim \in {"none", "in", "out"}
          BY <3>2 DEF IsMenu, OneMenu, MenuAnimations
        <5>5. want[m] = "closed"
          BY <2>2, <3>1, <3>2, <5>3, <5>4 DEF AsWished, MenuTrue, LiesTrue, ComesTrue
        <5>6. QED
          BY <3>1, <4>1, <5>1, <5>5
      <4>4. QED
        BY <4>2, <4>3
    <3>6. QED
      BY <3>3, <3>4, <3>5
  <2>4. QED
    BY <1>1, <1>3, <2>2, <2>3 DEF Trusted
<1>10. ASSUME careful', NEW m \in Menus, menus'.menu[m].activated
       PROVE  pressed' \in AMenu!Within(m)
  BY <1>1, <1>3, <1>5, <1>8, <1>10 DEF MenuInv
<1>11. QED
  BY <1>1, <1>3, <1>7, <1>9, <1>10 DEF MenuInv

LEMMA OneMenuChanges ==
    ASSUME NEW u, IsScreen(u), NEW k \in Menus, NEW w, IsMenu(w), NEW v, v = [u EXCEPT !.menu[k] = w]
    PROVE  /\ IsScreen(v) /\ v.focus = u.focus
           /\ v.menu[k] = w /\ \A m \in Menus \ {k} : v.menu[m] = u.menu[m]
<1>1. u \in Screens /\ u.menu \in [Menus -> OneMenu] /\ \A m \in Menus : IsMenu(u.menu[m])
  BY DEF IsScreen, Screens
<1>2. w \in OneMenu
  BY DEF IsMenu
<1> DEFINE after == [u.menu EXCEPT ![k] = w]
<1>3. v = [u EXCEPT !.menu = after]
  OBVIOUS
<1>4. after \in [Menus -> OneMenu] /\ after[k] = w
      /\ \A m \in Menus \ {k} : after[m] = u.menu[m]
  BY <1>1, <1>2
<1> HIDE DEF after
<1>5. v \in Screens /\ v.menu = after /\ v.focus = u.focus
  BY <1>1, <1>3, <1>4 DEF Screens
<1>6. \A m \in Menus : IsMenu(after[m])
  BY <1>1, <1>4
<1>7. QED
  BY <1>4, <1>5, <1>6 DEF IsScreen

LEMMA KeyDownKeeps ==
    ASSUME MenuInv, NEW k \in Menus, NEW key, AMenu!KeyDown(k, key)
    PROVE  MenuInv'
<1> DEFINE w == menus.menu[k]
           down == AMenu!ShowMenu(w, w.module)
           up   == AMenu!HideMenu(w, w.module)
           shows == /\ menus' = [menus EXCEPT !.menu[k] = down]
                    /\ AMenu!Asks(IF w.disabled THEN {} ELSE {k}, {}, TRUE)
           hides == menus' = [menus EXCEPT !.menu[k] = up] /\ AMenu!Asks({}, {k}, TRUE)
<1>1. attached /\ (shows \/ hides) /\ UNCHANGED <<attached, pressed, carried>>
  BY DEF AMenu!KeyDown
<1>2. /\ IsScreen(menus) /\ MenuTypeOK /\ IsMenu(w)
  BY DEF MenuInv, MenuTypeOK, IsScreen
<1>3. /\ IsMenu(down) /\ SameUser(down, w) /\ (MenuTrue(w) => MenuTrue(down))
      /\ IsMenu(up) /\ SameUser(up, w) /\ (MenuTrue(w) => MenuTrue(up))
      /\ w.disabled => down = w
  BY <1>2, MenuShows, MenuHides
<1>4. PICK r : /\ menus' = [menus EXCEPT !.menu[k] = r]
               /\ IsMenu(r) /\ SameUser(r, w) /\ (MenuTrue(w) => MenuTrue(r))
  BY <1>1, <1>3
<1>5. /\ IsScreen(menus') /\ menus'.focus = menus.focus
      /\ menus'.menu[k] = r /\ \A m \in Menus \ {k} : menus'.menu[m] = menus.menu[m]
  BY <1>2, <1>4, OneMenuChanges
<1>6. /\ careful' \in BOOLEAN /\ want' \in [Menus -> {"open", "closed"}]
      /\ careful' => careful /\ \A m \in Menus \ {k} : want'[m] = want[m]
  <2>1. CASE shows
    <3> DEFINE opens == IF w.disabled THEN {} ELSE {k}
    <3>1. AMenu!Asks(opens, {}, TRUE) /\ opens \subseteq {k}
      BY <2>1
    <3> HIDE DEF opens
    <3>2. Wishes(opens, {})
      BY <1>2, <3>1, AsksGives
    <3>3. QED
      BY <3>1, <3>2 DEF Wishes
  <2>2. CASE hides
    <3>1. Wishes({}, {k})
      BY <1>2, <2>2, AsksGives
    <3>2. QED
      BY <3>1 DEF Wishes
  <2>3. QED
    BY <1>1, <2>1, <2>2
<1>7. ASSUME careful', MenuTrue(w), AsWished(w, want[k]) PROVE AsWished(r, want'[k])
  <2>1. want[k] \in {"open", "closed"}
    BY <1>2 DEF MenuTypeOK
  <2>2. CASE shows
    <3>1. r = down
      <4>1. menus'.menu[k] = down
        BY <1>2, <1>3, <2>2, OneMenuChanges
      <4>2. QED
        BY <1>5, <4>1
    <3>2. CASE w.disabled
      <4>1. AMenu!Asks({}, {}, TRUE)
        BY <2>2, <3>2
      <4>2. Wishes({}, {})
        BY <1>2, <4>1, AsksGives
      <4>3. want'[k] = want[k]
        BY <1>7, <4>2 DEF Wishes
      <4>4. QED
        BY <1>3, <1>7, <3>1, <3>2, <4>3
    <3>3. CASE ~w.disabled
      <4>1. AMenu!Asks({k}, {}, TRUE)
        BY <2>2, <3>3
      <4>2. Wishes({k}, {})
        BY <1>2, <4>1, AsksGives
      <4>3. want'[k] = "open" /\ (want[k] = "closed" => w.el.anim = "none")
        BY <1>7, <4>2 DEF Wishes
      <4>4. AsWished(down, "open")
        BY <1>2, <1>7, <2>1, <3>3, <4>3, MenuShows
      <4>5. QED
        BY <3>1, <4>3, <4>4
    <3>4. QED
      BY <3>2, <3>3
  <2>3. CASE hides
    <3>1. r = up
      <4>1. menus'.menu[k] = up
        BY <1>2, <1>3, <2>3, OneMenuChanges
      <4>2. QED
        BY <1>5, <4>1
    <3>2. want'[k] = "closed" /\ (want[k] = "open" => w.el.anim = "none")
      <4>1. Wishes({}, {k})
        BY <1>2, <2>3, AsksGives
      <4>2. QED
        BY <1>7, <4>1 DEF Wishes
    <3>3. AsWished(up, "closed")
      BY <1>2, <1>7, <2>1, <3>2, MenuHides
    <3>4. QED
      BY <3>1, <3>2, <3>3
  <2>4. QED
    BY <1>1, <2>2, <2>3
<1>8. MenuTypeOK'
  BY <1>1, <1>2, <1>5, <1>6 DEF MenuTypeOK
<1>9. ASSUME NEW m \in Menus \ carried' PROVE Trusted(m)'
  <2>1. Trusted(m)
    BY <1>1, <1>9 DEF MenuInv
  <2>2. CASE m = k
    BY <1>1, <1>4, <1>5, <1>6, <1>7, <2>1, <2>2 DEF Trusted
  <2>3. CASE m # k
    BY <1>1, <1>5, <1>6, <2>1, <2>3 DEF Trusted
  <2>4. QED
    BY <2>2, <2>3
<1>10. ASSUME careful', NEW m \in Menus, menus'.menu[m].activated
       PROVE  pressed' \in AMenu!Within(m)
  <2>1. menus'.menu[m].activated = menus.menu[m].activated
    BY <1>4, <1>5 DEF SameUser
  <2>2. QED
    BY <1>1, <1>6, <1>10, <2>1 DEF MenuInv
<1>11. QED
  BY <1>1, <1>8, <1>9, <1>10 DEF MenuInv

(* What leaves the menus as they are but for what only the next focus      *)
(* looks at.                                                               *)
LEMMA MenusStay ==
    ASSUME MenuInv, IsScreen(menus'), menus'.focus = menus.focus,
           \A m \in Menus : /\ menus'.menu[m].el = menus.menu[m].el
                            /\ menus'.menu[m].activated = menus.menu[m].activated
                            /\ MenuTrue(menus.menu[m]) => MenuTrue(menus'.menu[m]),
           UNCHANGED <<attached, pressed, want, carried, careful>>
    PROVE  MenuInv'
<1>1. MenuTypeOK'
  BY DEF MenuInv, MenuTypeOK
<1>2. ASSUME NEW m \in Menus \ carried' PROVE Trusted(m)'
  BY <1>2 DEF MenuInv, Trusted, Closed, AsWished
<1>3. QED
  BY <1>1, <1>2 DEF MenuInv

LEMMA WindowBlurKeeps ==
    ASSUME MenuInv, AMenu!WindowBlur
    PROVE  MenuInv'
<1> DEFINE Lost(w) == [w EXCEPT !.pageLostFocus = TRUE]
           after == [m \in Menus |-> IF menus.focus = AMenu!Button(m) THEN Lost(menus.menu[m])
                                     ELSE menus.menu[m]]
<1>1. menus' = [menus EXCEPT !.menu = after]
      /\ UNCHANGED <<attached, pressed, want, carried, careful>>
  BY DEF AMenu!WindowBlur
<1>2. IsScreen(menus) /\ \A m \in Menus : IsMenu(menus.menu[m])
  BY DEF MenuInv, MenuTypeOK, IsScreen
<1>3. ASSUME NEW m \in Menus
      PROVE  /\ IsMenu(after[m]) /\ after[m].el = menus.menu[m].el
             /\ after[m].activated = menus.menu[m].activated
             /\ MenuTrue(menus.menu[m]) => MenuTrue(after[m])
  <2> DEFINE w == menus.menu[m]
  <2>1. IsMenu(w)
    BY <1>2
  <2>2. CASE after[m] = w
    BY <2>1, <2>2
  <2>3. CASE after[m] = Lost(w)
    <3> HIDE DEF after, w
    <3>1. /\ after[m] \in OneMenu /\ after[m].el = w.el /\ after[m].activated = w.activated
          /\ after[m].module = w.module /\ after[m].active = w.active
          /\ after[m].listens = w.listens
      BY <2>1, <2>3 DEF IsMenu, OneMenu
    <3>2. QED
      BY <2>1, <3>1 DEF w, IsMenu, MenuTrue, LiesTrue, ComesTrue, GoesTrue
  <2>4. QED
    BY <2>2, <2>3
<1>4. after \in [Menus -> OneMenu]
  <2>1. \A m \in Menus : after[m] \in OneMenu
    BY <1>3 DEF IsMenu
  <2>2. QED
    BY <2>1
<1> HIDE DEF after
<1>5. menus' \in Screens /\ menus'.menu = after /\ menus'.focus = menus.focus
  BY <1>1, <1>2, <1>4 DEF IsScreen, Screens
<1>6. IsScreen(menus')
  BY <1>3, <1>5 DEF IsScreen
<1>7. QED
  BY <1>1, <1>3, <1>5, <1>6, MenusStay

LEMMA WindowFocusKeeps ==
    ASSUME MenuInv, AMenu!WindowFocus
    PROVE  MenuInv'
<1> DEFINE opens == {m \in Menus : menus.focus = AMenu!Button(m) /\ ~menus.menu[m].disabled
                       /\ ~menus.menu[m].activated /\ ~menus.menu[m].pageLostFocus}
<1>1. /\ menus' = AMenu!Focus(menus, menus.focus)
      /\ AMenu!Asks(opens, {}, TRUE)
      /\ UNCHANGED <<attached, pressed, carried>>
  BY DEF AMenu!WindowFocus
<1>2. /\ IsScreen(menus) /\ MenuTypeOK /\ menus.focus \in AMenu!Places
      /\ \A m \in Menus : IsMenu(menus.menu[m])
  BY DEF MenuInv, MenuTypeOK, IsScreen, Screens
<1>3. /\ IsScreen(menus') /\ menus'.focus = menus.focus
      /\ \A m \in Menus : menus'.menu[m] = IF menus.focus = AMenu!Button(m)
                                           THEN AMenu!Focused(menus.menu[m]) ELSE menus.menu[m]
  BY <1>1, <1>2, FocusArrives
<1>4. /\ careful' \in BOOLEAN /\ want' \in [Menus -> {"open", "closed"}]
      /\ careful' => careful
      /\ careful' => \A m \in Menus :
           /\ m \in opens => /\ want'[m] = "open"
                             /\ want[m] = "closed" => menus.menu[m].el.anim = "none"
           /\ m \notin opens => want'[m] = want[m]
  <2> HIDE DEF opens
  <2>1. Wishes(opens, {})
    BY <1>1, <1>2, AsksGives
  <2>2. QED
    BY <2>1 DEF Wishes
<1>5. MenuTypeOK'
  BY <1>1, <1>2, <1>3, <1>4 DEF MenuTypeOK
<1>6. ASSUME NEW m \in Menus
      PROVE  /\ MenuTrue(menus.menu[m]) => MenuTrue(menus'.menu[m])
             /\ menus'.menu[m].activated = menus.menu[m].activated
             /\ menus.focus = AMenu!Nowhere => menus'.menu[m] = menus.menu[m]
  BY <1>2, <1>3, MenuFocuses, PlacesDiffer DEF SameUser
<1>7. ASSUME NEW m \in Menus \ carried' PROVE Trusted(m)'
  <2>1. Trusted(m)
    BY <1>1, <1>7 DEF MenuInv
  <2>2. MenuTrue(menus.menu[m]) /\ MenuTrue(menus'.menu[m])
    BY <1>6, <2>1 DEF Trusted
  <2>3. ~attached' => Closed(menus'.menu[m])
    BY <1>1, <1>6, <2>1 DEF Trusted, MenuInv
  <2>4. ASSUME careful' PROVE AsWished(menus'.menu[m], want'[m])
    <3>1. careful /\ AsWished(menus.menu[m], want[m])
      BY <1>4, <2>1, <2>4 DEF Trusted
    <3>2. want[m] \in {"open", "closed"} /\ IsMenu(menus.menu[m])
      BY <1>2 DEF MenuTypeOK
    <3>3. CASE m \in opens
      <4>1. want'[m] = "open" /\ (want[m] = "closed" => menus.menu[m].el.anim = "none")
        BY <1>4, <2>4, <3>3
      <4>2. /\ ~menus.menu[m].disabled /\ ~menus.menu[m].activated /\ ~menus.menu[m].pageLostFocus
            /\ menus'.menu[m] = AMenu!Focused(menus.menu[m])
        BY <1>3, <3>3
      <4>3. AsWished(menus'.menu[m], "open")
        BY <2>2, <3>1, <3>2, <4>1, <4>2, MenuFocuses
      <4>4. QED
        BY <4>1, <4>3
    <3>4. CASE m \notin opens
      <4>1. want'[m] = want[m]
        BY <1>4, <2>4, <3>4
      <4>2. menus'.menu[m] = menus.menu[m]
        <5>1. CASE menus.focus # AMenu!Button(m)
          BY <1>3, <5>1
        <5>2. CASE menus.menu[m].disabled \/ menus.menu[m].activated \/ menus.menu[m].pageLostFocus
          BY <1>3, <3>2, <5>2, MenuFocuses
        <5>3. QED
          BY <3>4, <5>1, <5>2
      <4>3. QED
        BY <3>1, <4>1, <4>2
    <3>5. QED
      BY <3>3, <3>4
  <2>5. QED
    BY <2>2, <2>3, <2>4 DEF Trusted
<1>8. ASSUME careful', attached', NEW m \in Menus, menus'.menu[m].activated
      PROVE  pressed' \in AMenu!Within(m)
  BY <1>1, <1>4, <1>6, <1>8 DEF MenuInv
<1>9. QED
  BY <1>1, <1>3, <1>5, <1>7, <1>8 DEF MenuInv

(* The end of an animation: what waited behind it starts.                  *)
LEMMA AnimationEndKeeps ==
    ASSUME MenuInv, NEW k \in Menus, AMenu!MenuAnimationEnds(k)
    PROVE  MenuInv'
<1> DEFINE w    == menus.menu[k]
           rest == [AMenu!Complete(w.el) EXCEPT !.queue = <<>>, !.instance = AMenu!NoCallback]
           u    == [menus EXCEPT !.menu[k].el = rest]
           v    == AMenu!RunMenuCallback(u, k, w.el.handler)
           r    == AMenu!RunQueued(Rested(w), w.el.queue)
<1>1. /\ w.el.anim # "none"
      /\ menus' = [v EXCEPT !.menu[k] = AMenu!RunQueued(v.menu[k], w.el.queue)]
      /\ UNCHANGED <<attached, pressed, want, carried, careful>>
  BY DEF AMenu!MenuAnimationEnds, AMenu!MenuCompletes, AMenu!IsAnimating
<1>2. /\ IsScreen(menus) /\ MenuTypeOK /\ IsMenu(w) /\ w \in OneMenu
      /\ menus \in Screens /\ w.el.handler \in MenuCallbacks
  BY <1>1 DEF MenuInv, MenuTypeOK, IsScreen, IsMenu
<1>3. \/ v = [menus EXCEPT !.menu[k] = Rested(w)]
      \/ v = [menus EXCEPT !.menu[k] = Rested(w), !.focus = AMenu!Nowhere]
  <2>1. w.el.handler.what \in {"shown", "hidden"}
    BY <1>2 DEF MenuCallbacks
  <2> HIDE DEF rest
  <2>2. CASE w.el.handler.what = "shown"
    <3>1. v = [u EXCEPT !.menu[k].listens = @ \cup {w.el.handler.by}]
      BY <2>2 DEF AMenu!RunMenuCallback
    <3>2. Rested(w) = [w EXCEPT !.el = rest, !.listens = w.listens \cup {w.el.handler.by}]
      BY <2>2 DEF Rested, rest
    <3>3. QED
      BY <1>2, <3>1, <3>2 DEF Screens, OneMenu
  <2>3. CASE w.el.handler.what = "hidden"
    <3>1. v = u \/ v = [u EXCEPT !.focus = AMenu!Nowhere]
      BY <1>2, <2>3 DEF AMenu!RunMenuCallback, Screens
    <3>2. Rested(w) = [w EXCEPT !.el = rest, !.listens = w.listens]
      BY <2>3 DEF Rested, rest
    <3>3. Rested(w) = [w EXCEPT !.el = rest]
      BY <1>2, <3>2 DEF OneMenu
    <3>4. u = [menus EXCEPT !.menu[k] = Rested(w)]
      BY <1>2, <3>3 DEF Screens
    <3>5. QED
      BY <3>1, <3>4
  <2>4. QED
    BY <2>1, <2>2, <2>3
<1>4. IsMenu(Rested(w))
  BY <1>1, <1>2, RestedTrue
<1>5. PICK x : /\ x = [menus EXCEPT !.menu[k] = Rested(w)]
               /\ v = x \/ v = [x EXCEPT !.focus = AMenu!Nowhere]
  BY <1>3
<1>6. /\ IsScreen(x) /\ x.focus = menus.focus
      /\ x.menu[k] = Rested(w) /\ \A m \in Menus \ {k} : x.menu[m] = menus.menu[m]
  BY <1>2, <1>4, <1>5, OneMenuChanges
<1>7. /\ IsScreen(v) /\ v.focus \in {menus.focus, AMenu!Nowhere} /\ v.menu = x.menu
  <2> HIDE DEF v
  <2>1. AMenu!Nowhere \in AMenu!Places
    BY DEF AMenu!Places
  <2>2. QED
    BY <1>5, <1>6, <2>1 DEF IsScreen, Screens
<1>8. /\ IsMenu(r) /\ SameUser(r, w)
      /\ MenuTrue(w) => MenuTrue(r)
      /\ \A wish : AsWished(w, wish) => AsWished(r, wish)
  BY <1>1, <1>2, QueueRuns
<1> HIDE DEF v, r
<1>9. menus' = [v EXCEPT !.menu[k] = r]
  BY <1>1, <1>6, <1>7 DEF r
<1>10. /\ IsScreen(menus') /\ menus'.focus = v.focus
       /\ menus'.menu[k] = r /\ \A m \in Menus \ {k} : menus'.menu[m] = menus.menu[m]
  <2>1. PICK y : y = v
    OBVIOUS
  <2>2. y \in Screens /\ IsScreen(y) /\ IsMenu(r) /\ menus' = [y EXCEPT !.menu[k] = r]
    BY <1>7, <1>8, <1>9, <2>1 DEF IsScreen
  <2>3. /\ IsScreen(menus') /\ menus'.focus = y.focus
        /\ menus'.menu[k] = r /\ \A m \in Menus \ {k} : menus'.menu[m] = y.menu[m]
    BY <2>2, OneMenuChanges DEF Screens
  <2>4. QED
    BY <1>6, <1>7, <2>1, <2>3
<1>11. MenuTypeOK'
  BY <1>1, <1>2, <1>10 DEF MenuTypeOK
<1>12. ASSUME NEW m \in Menus \ carried' PROVE Trusted(m)'
  <2>1. Trusted(m)
    BY <1>1, <1>12 DEF MenuInv
  <2>2. CASE m = k
    <3>1. attached
      BY <1>1, <2>1, <2>2, <1>2 DEF Trusted, Closed, MenuTypeOK
    <3>2. QED
      BY <1>1, <1>8, <1>10, <2>1, <2>2, <3>1 DEF Trusted
  <2>3. CASE m # k
    BY <1>1, <1>10, <2>1, <2>3 DEF Trusted
  <2>4. QED
    BY <2>2, <2>3
<1>13. ~attached' => menus'.focus = AMenu!Nowhere
  BY <1>1, <1>7, <1>10 DEF MenuInv
<1>14. ASSUME careful', attached', NEW m \in Menus, menus'.menu[m].activated
       PROVE  pressed' \in AMenu!Within(m)
  BY <1>1, <1>8, <1>10, <1>14 DEF MenuInv, SameUser
<1>15. QED
  BY <1>11, <1>12, <1>13, <1>14 DEF MenuInv

LEMMA StatusChangeKeeps ==
    ASSUME MenuInv, NEW k \in Menus, AMenu!StatusChanges(k)
    PROVE  MenuInv'
<1> DEFINE w == menus.menu[k]
           r == [w EXCEPT !.disabled = ~w.disabled]
<1>1. /\ IsScreen(menus) /\ menus \in Screens /\ IsMenu(w) /\ w \in OneMenu
  BY DEF MenuInv, MenuTypeOK, IsScreen, IsMenu
<1>2. /\ menus' = [menus EXCEPT !.menu[k] = r]
      /\ UNCHANGED <<attached, pressed, want, carried, careful>>
  BY <1>1 DEF AMenu!StatusChanges, Screens, OneMenu
<1>3. /\ r \in OneMenu /\ r.el = w.el /\ r.activated = w.activated /\ r.module = w.module
      /\ r.active = w.active /\ r.listens = w.listens
  BY <1>1 DEF OneMenu
<1> HIDE DEF r
<1>4. IsMenu(r) /\ (MenuTrue(w) => MenuTrue(r))
  BY <1>1, <1>3 DEF IsMenu, MenuTrue, LiesTrue, ComesTrue, GoesTrue
<1>5. /\ IsScreen(menus') /\ menus'.focus = menus.focus
      /\ menus'.menu[k] = r /\ \A m \in Menus \ {k} : menus'.menu[m] = menus.menu[m]
  BY <1>1, <1>2, <1>4, OneMenuChanges
<1>6. QED
  BY <1>2, <1>3, <1>4, <1>5, MenusStay

(* A menu that is closed keeps so when only its module, its flags and what *)
(* it listens to change.                                                   *)
LikeClosed(r, w) ==
  r.el = w.el /\ r.active = w.active /\ (w.listens = {} => r.listens = {})

LEMMA ClosedIsTrue ==
    ASSUME NEW w, MenuTrue(w), Closed(w), NEW r, LikeClosed(r, w)
    PROVE  MenuTrue(r) /\ Closed(r)
BY DEF MenuTrue, LiesTrue, ComesTrue, GoesTrue, Closed, LikeClosed

LEMMA DestroyGives ==
    ASSUME NEW u, IsScreen(u), NEW v, v = AMenu!Destroy(u)
    PROVE  /\ IsScreen(v) /\ v.focus = u.focus
           /\ \A m \in Menus : LikeClosed(v.menu[m], u.menu[m])
<1> DEFINE after == [m \in Menus |-> AMenu!Destroyed(u.menu[m])]
<1>1. /\ u \in Screens /\ u.menu \in [Menus -> OneMenu]
      /\ \A m \in Menus : IsMenu(u.menu[m]) /\ u.menu[m] \in OneMenu
  BY DEF IsScreen, Screens, IsMenu
<1>2. v = [u EXCEPT !.menu = after]
  BY DEF AMenu!Destroy
<1>3. ASSUME NEW m \in Menus
      PROVE  after[m] \in OneMenu /\ IsMenu(after[m]) /\ LikeClosed(after[m], u.menu[m])
  <2>1. after[m] = [u.menu[m] EXCEPT !.listens = u.menu[m].listens \ {u.menu[m].module}]
    BY DEF AMenu!Destroyed
  <2> HIDE DEF after
  <2>2. after[m] \in OneMenu /\ after[m].el = u.menu[m].el /\ after[m].active = u.menu[m].active
        /\ after[m].listens = u.menu[m].listens \ {u.menu[m].module}
    BY <1>1, <2>1 DEF OneMenu
  <2>3. IsMenu(u.menu[m])
    BY <1>1
  <2>4. QED
    BY <2>2, <2>3 DEF IsMenu, LikeClosed
<1>4. after \in [Menus -> OneMenu]
  <2>1. \A m \in Menus : after[m] \in OneMenu
    BY <1>3
  <2>2. QED
    BY <2>1
<1> HIDE DEF after
<1>5. v \in Screens /\ v.menu = after /\ v.focus = u.focus
  BY <1>1, <1>2, <1>4 DEF Screens
<1>6. QED
  BY <1>3, <1>5 DEF IsScreen

LEMMA ContentGoesKeeps ==
    ASSUME MenuInv, AMenu!ContentGoes
    PROVE  MenuInv'
<1> DEFINE unfocused(v) == [v EXCEPT !.focus = AMenu!Nowhere]
<1>1. /\ attached /\ ~attached' /\ attached' \in BOOLEAN
      /\ carried' = carried \cup {m \in Menus : menus.menu[m].active
                                                   \/ menus.menu[m].el.anim # "none"}
      /\ UNCHANGED <<want, careful>>
  BY DEF AMenu!ContentGoes, AMenu!IsOpen, AMenu!IsAnimating
<1>2. PICK v : /\ v = AMenu!Blur(menus) \/ v = menus
               /\ menus' = AMenu!Destroy(unfocused(v)) \/ menus' = unfocused(v)
  BY DEF AMenu!ContentGoes
<1>3. IsScreen(menus) /\ MenuTypeOK /\ \A m \in Menus : IsMenu(menus.menu[m])
  BY DEF MenuInv, MenuTypeOK, IsScreen
<1>4. ASSUME NEW m \in Menus \ carried'
      PROVE  /\ MenuTrue(menus.menu[m]) /\ Closed(menus.menu[m]) /\ ~menus.menu[m].active
             /\ careful => AsWished(menus.menu[m], want[m])
  <2>1. m \notin carried /\ ~menus.menu[m].active /\ menus.menu[m].el.anim = "none"
    BY <1>1
  <2>2. Trusted(m)
    BY <2>1 DEF MenuInv
  <2>3. QED
    BY <2>1, <2>2 DEF Trusted, MenuTrue, LiesTrue, Closed
<1>5. IsScreen(v) /\ \A m \in Menus \ carried' : LikeClosed(v.menu[m], menus.menu[m])
  <2>1. CASE v = menus
    BY <1>3, <2>1 DEF LikeClosed
  <2>2. CASE v = AMenu!Blur(menus)
    <3>1. /\ IsScreen(v)
          /\ \A m \in Menus : v.menu[m] = IF menus.focus = AMenu!Button(m)
                                            THEN AMenu!Blurred(menus.menu[m]) ELSE menus.menu[m]
      BY <1>3, <2>2, FocusLeaves
    <3>2. ASSUME NEW m \in Menus \ carried' PROVE LikeClosed(v.menu[m], menus.menu[m])
      <4>1. CASE v.menu[m] = menus.menu[m]
        BY <4>1 DEF LikeClosed
      <4>2. CASE v.menu[m] = AMenu!Blurred(menus.menu[m])
        BY <1>3, <1>4, <4>2, MenuBlurs DEF LikeClosed
      <4>3. QED
        BY <3>1, <4>1, <4>2
    <3>3. QED
      BY <3>1, <3>2
  <2>3. QED
    BY <1>2, <2>1, <2>2
<1>6. PICK x : x = unfocused(v)
  OBVIOUS
<1>7. IsScreen(x) /\ x.menu = v.menu /\ x.focus = AMenu!Nowhere
  BY <1>5, <1>6 DEF IsScreen, Screens, AMenu!Places
<1>8. /\ IsScreen(menus') /\ menus'.focus = AMenu!Nowhere
      /\ \A m \in Menus : LikeClosed(menus'.menu[m], x.menu[m])
  <2>1. CASE menus' = x
    BY <1>7, <2>1 DEF LikeClosed
  <2>2. CASE menus' = AMenu!Destroy(x)
    BY <1>7, <2>2, DestroyGives
  <2>3. QED
    BY <1>2, <1>6, <2>1, <2>2
<1>9. MenuTypeOK'
  BY <1>1, <1>3, <1>8 DEF MenuTypeOK
<1>10. ASSUME NEW m \in Menus \ carried' PROVE Trusted(m)'
  <2>1. LikeClosed(menus'.menu[m], menus.menu[m])
    BY <1>5, <1>7, <1>8 DEF LikeClosed
  <2>2. MenuTrue(menus'.menu[m]) /\ Closed(menus'.menu[m])
    BY <1>4, <2>1, ClosedIsTrue
  <2>3. careful' => AsWished(menus'.menu[m], want'[m])
    BY <1>1, <1>4, <2>1 DEF AsWished, LikeClosed
  <2>4. QED
    BY <2>2, <2>3 DEF Trusted
<1>11. QED
  BY <1>1, <1>8, <1>9, <1>10 DEF MenuInv

LEMMA ContentComesKeeps ==
    ASSUME MenuInv, AMenu!ContentComes
    PROVE  MenuInv'
<1>1. /\ ~attached /\ attached' /\ attached' \in BOOLEAN
      /\ UNCHANGED <<pressed, want, carried, careful>>
  BY DEF AMenu!ContentComes
<1>2. IsScreen(menus) /\ MenuTypeOK
  BY DEF MenuInv, MenuTypeOK
<1>3. PICK u : u = AMenu!Destroy(menus)
  OBVIOUS
<1>4. IsScreen(u) /\ \A m \in Menus : LikeClosed(u.menu[m], menus.menu[m])
  BY <1>2, <1>3, DestroyGives
<1> DEFINE after == [m \in Menus |-> AMenu!Renewed(u.menu[m])]
<1>5. menus' = [u EXCEPT !.menu = after]
  BY <1>3 DEF AMenu!ContentComes
<1>6. /\ u \in Screens
      /\ \A m \in Menus : IsMenu(u.menu[m]) /\ u.menu[m] \in OneMenu
  BY <1>4 DEF IsScreen, IsMenu
<1>7. ASSUME NEW m \in Menus
      PROVE  /\ after[m] \in OneMenu /\ IsMenu(after[m]) /\ LikeClosed(after[m], u.menu[m])
             /\ ~after[m].activated
  <2> DEFINE w == u.menu[m]
  <2>1. after[m] = [w EXCEPT !.module = w.module + 1, !.activated = FALSE,
                             !.pageLostFocus = FALSE]
    BY DEF AMenu!Renewed
  <2>2. w \in OneMenu /\ IsMenu(w) /\ w.module + 1 \in Nat
    BY <1>6 DEF OneMenu
  <2> HIDE DEF after, w
  <2>3. after[m] \in OneMenu /\ after[m].el = w.el /\ after[m].active = w.active
        /\ after[m].listens = w.listens /\ ~after[m].activated
    BY <2>1, <2>2 DEF OneMenu
  <2>4. QED
    BY <2>2, <2>3 DEF w, IsMenu, LikeClosed
<1>8. after \in [Menus -> OneMenu]
  <2>1. \A m \in Menus : after[m] \in OneMenu
    BY <1>7
  <2>2. QED
    BY <2>1
<1> HIDE DEF after
<1>9. menus' \in Screens /\ menus'.menu = after
  BY <1>5, <1>6, <1>8 DEF Screens
<1>10. IsScreen(menus')
  BY <1>7, <1>9 DEF IsScreen
<1>11. MenuTypeOK'
  BY <1>1, <1>2, <1>10 DEF MenuTypeOK
<1>12. ASSUME NEW m \in Menus \ carried' PROVE Trusted(m)'
  <2>1. Trusted(m)
    BY <1>1, <1>12 DEF MenuInv
  <2>2. MenuTrue(menus.menu[m]) /\ Closed(menus.menu[m])
    BY <1>1, <2>1 DEF Trusted
  <2>3. LikeClosed(menus'.menu[m], menus.menu[m])
    BY <1>4, <1>7, <1>9 DEF LikeClosed
  <2>4. MenuTrue(menus'.menu[m]) /\ Closed(menus'.menu[m])
    BY <2>2, <2>3, ClosedIsTrue
  <2>5. careful' => AsWished(menus'.menu[m], want'[m])
    BY <1>1, <2>1, <2>3 DEF Trusted, AsWished, LikeClosed
  <2>6. QED
    BY <2>4, <2>5 DEF Trusted
<1>13. QED
  BY <1>1, <1>7, <1>9, <1>11, <1>12 DEF MenuInv

(* New menus are closed and say nothing.                                   *)
LEMMA NewMenus ==
    ASSUME NEW u, u = [menu |-> [m \in Menus |-> AMenu!NewMenu], focus |-> AMenu!Nowhere]
    PROVE  /\ IsScreen(u) /\ u.focus = AMenu!Nowhere
           /\ \A m \in Menus : /\ MenuTrue(u.menu[m]) /\ Closed(u.menu[m])
                                  /\ AsWished(u.menu[m], "closed") /\ ~u.menu[m].activated
<1> DEFINE w == AMenu!NewMenu
<1>1. <<>> \in Seq(QueuedMenus)
  OBVIOUS
<1>2. AMenu!NewElement \in MenuAnimations
  BY <1>1 DEF AMenu!NewElement, MenuAnimations, AMenu!NoCallback
<1>3. w \in OneMenu
  BY <1>2 DEF AMenu!NewMenu, OneMenu
<1>4. /\ w.el.anim = "none" /\ ~w.el.shown /\ w.el.shown = FALSE /\ w.el.queue = <<>>
      /\ w.active = FALSE /\ w.listens = {} /\ ~w.activated
  BY DEF AMenu!NewMenu, AMenu!NewElement
<1> HIDE DEF w
<1>5. IsMenu(w) /\ MenuTrue(w) /\ Closed(w) /\ AsWished(w, "closed")
  BY <1>3, <1>4 DEF IsMenu, MenuTrue, LiesTrue, ComesTrue, GoesTrue, Closed, AsWished
<1>6. AMenu!Nowhere \in AMenu!Places
  BY DEF AMenu!Places
<1>7. u.menu = [m \in Menus |-> w] /\ u.focus = AMenu!Nowhere /\ u \in Screens
  BY <1>3, <1>6 DEF w, Screens
<1>8. \A m \in Menus : u.menu[m] = w
  BY <1>7
<1>9. QED
  BY <1>4, <1>5, <1>7, <1>8 DEF IsScreen

LEMMA RowsAreNewKeeps ==
    ASSUME MenuInv, AMenu!RowsAreNew
    PROVE  MenuInv'
<1>1. /\ menus' = [menu |-> [m \in Menus |-> AMenu!NewMenu], focus |-> AMenu!Nowhere]
      /\ want' = [m \in Menus |-> "closed"] /\ attached' = attached /\ careful' = careful
  BY DEF AMenu!RowsAreNew
<1>2. /\ IsScreen(menus') /\ menus'.focus = AMenu!Nowhere
      /\ \A m \in Menus : /\ MenuTrue(menus'.menu[m]) /\ Closed(menus'.menu[m])
                             /\ AsWished(menus'.menu[m], "closed") /\ ~menus'.menu[m].activated
  BY <1>1, NewMenus
<1>3. MenuTypeOK'
  BY <1>1, <1>2 DEF MenuInv, MenuTypeOK
<1>4. \A m \in Menus \ carried' : Trusted(m)'
  BY <1>1, <1>2 DEF Trusted
<1>5. QED
  BY <1>2, <1>3, <1>4 DEF MenuInv

LEMMA MenuInvInit == AMenu!Init => MenuInv
<1>1. SUFFICES ASSUME AMenu!Init PROVE MenuInv
  OBVIOUS
<1>2. /\ menus = [menu |-> [m \in Menus |-> AMenu!NewMenu], focus |-> AMenu!Nowhere]
      /\ want = [m \in Menus |-> "closed"] /\ attached = TRUE /\ careful = TRUE
  BY <1>1 DEF AMenu!Init
<1>3. /\ IsScreen(menus) /\ menus.focus = AMenu!Nowhere
      /\ \A m \in Menus : /\ MenuTrue(menus.menu[m]) /\ Closed(menus.menu[m])
                             /\ AsWished(menus.menu[m], "closed") /\ ~menus.menu[m].activated
  BY <1>2, NewMenus
<1>4. MenuTypeOK
  BY <1>2, <1>3 DEF MenuTypeOK
<1>5. \A m \in Menus \ carried : Trusted(m)
  BY <1>2, <1>3 DEF Trusted
<1>6. QED
  BY <1>3, <1>4, <1>5 DEF MenuInv

LEMMA MenuInvStep == MenuInv /\ [AMenu!Next]_(AMenu!vars) => MenuInv'
<1>1. SUFFICES ASSUME MenuInv, [AMenu!Next]_(AMenu!vars) PROVE MenuInv'
  OBVIOUS
<1>2. ASSUME NEW target \in AMenu!Targets, AMenu!MouseDown(target) PROVE MenuInv'
  BY <1>1, <1>2, MouseDownKeeps
<1>3. ASSUME NEW target \in AMenu!Targets, AMenu!MouseUp(target) PROVE MenuInv'
  BY <1>1, <1>3, MouseUpKeeps
<1>4. ASSUME NEW place \in AMenu!Places, AMenu!Tab(place) PROVE MenuInv'
  BY <1>1, <1>4, TabKeeps
<1>5. ASSUME NEW m \in Menus, NEW key \in {"down", "escape", "enter"}, AMenu!KeyDown(m, key)
      PROVE  MenuInv'
  BY <1>1, <1>5, KeyDownKeeps
<1>6. CASE AMenu!WindowBlur
  BY <1>1, <1>6, WindowBlurKeeps
<1>7. CASE AMenu!WindowFocus
  BY <1>1, <1>7, WindowFocusKeeps
<1>8. ASSUME NEW m \in Menus, AMenu!MenuAnimationEnds(m) PROVE MenuInv'
  BY <1>1, <1>8, AnimationEndKeeps
<1>9. ASSUME NEW m \in Menus, AMenu!StatusChanges(m) PROVE MenuInv'
  BY <1>1, <1>9, StatusChangeKeeps
<1>10. CASE AMenu!ContentGoes
  BY <1>1, <1>10, ContentGoesKeeps
<1>11. CASE AMenu!ContentComes
  BY <1>1, <1>11, ContentComesKeeps
<1>12. CASE AMenu!RowsAreNew
  BY <1>1, <1>12, RowsAreNewKeeps
<1>13. CASE UNCHANGED AMenu!vars
  BY <1>1, <1>13
     DEF AMenu!vars, MenuInv, MenuTypeOK, Trusted
<1>14. QED
  BY <1>1, <1>2, <1>3, <1>4, <1>5, <1>6, <1>7, <1>8, <1>9, <1>10, <1>11, <1>12, <1>13
     DEF AMenu!Next

LEMMA MenuInvListens == MenuInv => ListensWhileOpen
<1>1. SUFFICES ASSUME MenuInv PROVE ListensWhileOpen
  OBVIOUS
<1>2. ASSUME NEW m \in Menus \ carried
      PROVE  LiesTrue(menus.menu[m]) /\ menus.menu[m].active \in BOOLEAN
               /\ menus.menu[m].el.shown \in BOOLEAN
  BY <1>1 DEF MenuInv, Trusted, MenuTrue, MenuTypeOK, IsScreen, IsMenu, OneMenu, MenuAnimations
<1>3. AMenu!OpenMenuListens
  BY <1>2 DEF AMenu!OpenMenuListens, AMenu!Lies, AMenu!IsAnimating, LiesTrue
<1>4. AMenu!ClosedMenuIsSilent
  BY <1>2 DEF AMenu!ClosedMenuIsSilent, AMenu!AtRest, AMenu!Lies, AMenu!IsAnimating, LiesTrue
<1>5. QED
  BY <1>3, <1>4 DEF ListensWhileOpen, AMenu!ListensWhileOpen

LEMMA MenuInvWish == MenuInv => LastWishDecides
<1>1. SUFFICES ASSUME MenuInv, AMenu!AtRest, careful, NEW m \in Menus \ carried
               PROVE  AMenu!Lies(m) <=> want[m] = "open"
  BY DEF LastWishDecides, AMenu!LastWishDecides
<1>2. AsWished(menus.menu[m], want[m])
  BY <1>1 DEF MenuInv, Trusted
<1>3. menus.menu[m].el.anim = "none"
  BY <1>1 DEF AMenu!AtRest, AMenu!IsAnimating
<1>4. QED
  BY <1>2, <1>3 DEF AsWished, AMenu!Lies, AMenu!IsAnimating

(* dropdown.js bind.intent, unbind.intent: whatever the mouse, the keyboard, the   *)
(* focus and the page do, on any number of menus, a menu that lies open listens to *)
(* the document by its present module alone, and at rest a closed one does not.    *)
THEOREM MenusListen == AMenu!Spec => []ListensWhileOpen
<1>1. MenuInv /\ UNCHANGED AMenu!vars => MenuInv'
  BY MenuInvStep
<1>2. QED
  BY MenuInvInit, MenuInvStep, MenuInvListens, PTL DEF AMenu!Spec

(* dropdown.js event: what opens and closes a menu never leaves it, at rest, other *)
(* than its user wished last, if he waited for each animation to end.              *)
THEOREM LastWishesDecide == AMenu!Spec => []LastWishDecides
<1>1. QED
  BY MenuInvInit, MenuInvStep, MenuInvWish, PTL DEF AMenu!Spec

=============================================================================
