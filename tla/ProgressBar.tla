----------------------------- MODULE ProgressBar -----------------------------
(***************************************************************************)
(* The progress bar of the server page (progress/server-provisioning-phase *)
(* .ts) over Semantic UI's progress (modules/progress.js).  The page polls *)
(* the server while an action is in progress and shows the bar only then,  *)
(* and only while it has no error to show; the element of the bar is the   *)
(* same each time it comes back, with the classes and the data it had.     *)
(*                                                                         *)
(* The module of the bar lives from "attached" to "detached"; what it has  *)
(* left to do at the end of an animation outlives it.                      *)
(***************************************************************************)
EXTENDS Naturals, Sequences

CONSTANT MaxVisits   \* bound: times an action is requested

ProgressAssumption == MaxVisits \in Nat

VARIABLES
  now,       \* the server, as it is in the management database
  server,    \* the server, as the page knows it
  hasError,  \* does the page show an error instead?
  bar,       \* the element of the bar and its module
  visits     \* actions requested so far

vars == <<now, server, hasError, bar, visits>>

None == "None"

(***************************************************************************)
(* TenantServerManager reports the phases of an action in this order.      *)
(***************************************************************************)
Building == <<"Storage", "Security", "Instance", "Network", "Monitoring",
              "Configuration", "Ingress">>

Course == [Provision   |-> Building,
           Reconfigure |-> Building,
           Deprovision |-> <<"Ingress", "Monitoring", "Network", "Instance", "Security",
                             "Storage">>]

Idle == [action |-> None, phase |-> None]

-----------------------------------------------------------------------------
(* server-provisioning-phase.ts: actionPercentComplete.                    *)
PercentOf ==
  [None |-> 0, Storage |-> 20, Security |-> 30, Instance |-> 40, Network |-> 50,
   Monitoring |-> 60, Configuration |-> 80, Ingress |-> 100]

Unset == 999   \* module.percent, data("percent"): undefined

\* The element: its width (and attribute data-percent; "Unset" before the
\* first), what jQuery has read from that attribute, and its classes.  The
\* module: is there one, its percent, whether its interval runs.  "ending" is
\* what the bar listens with for the end of its animation: the callback of
\* this module, and those of modules that are gone.
NewBar ==
  [width |-> Unset, data |-> Unset, active |-> FALSE, success |-> FALSE,
   module |-> FALSE, percent |-> Unset, ticking |-> FALSE,
   ending |-> {}]

-----------------------------------------------------------------------------
(* modules/progress.js.                                                    *)

(* set.state(), with the percent of the module that calls it.              *)
SetState(b, percent) ==
  IF percent = 100 THEN [b EXCEPT !.success = TRUE, !.active = FALSE]
  ELSE IF percent \in 1 .. 99 THEN [b EXCEPT !.active = TRUE, !.success = FALSE]
  ELSE [b EXCEPT !.active = FALSE]

SetPercent(b, percent) ==
  SetState([b EXCEPT !.width = percent, !.percent = percent,
                     !.ticking = TRUE, !.ending = @ \cup {"own"}],
           percent)

(* $module.data("percent"): jQuery reads the attribute until it has a      *)
(* value, and remembers that value for good.                               *)
ReadPercent(b) == IF b.data # Unset THEN b.data ELSE b.width

(* initialize(): a percentage other than 0 in the data of the element is   *)
(* set first.                                                              *)
Initialize(b) ==
  LET remembered == [b EXCEPT !.data = ReadPercent(b), !.module = TRUE]
  IN IF ReadPercent(b) \in {0, Unset} THEN remembered
     ELSE SetPercent(remembered, ReadPercent(b))

(* destroy(): the classes stay, and so do the listeners.                   *)
Destroyed(b) ==
  [b EXCEPT !.module = FALSE, !.percent = Unset, !.ticking = FALSE,
            !.ending = IF @ = {} THEN {} ELSE {"gone"}]

StopTicking(b) == SetState([b EXCEPT !.ticking = FALSE], b.percent)

Outlived(b) == SetState(b, Unset)

-----------------------------------------------------------------------------
(* server-provisioning-phase.ts on the server page.                        *)

\* servers/detail.html: if.bind="server.action != 'None'" in "!hasError".
Wanted(s, failed) == s.action # None /\ ~failed

Attached(b, s) == SetPercent(Initialize(b), PercentOf[s.phase])

(* load() updates the bar before the binding has told it of the new server,*)
(* so the first of two updates is of the old one.                          *)
(* Faulty variant: the other way round.                                    *)
RefreshedLate(b, old, new) ==
  SetPercent(SetPercent(b, PercentOf[new.phase]), PercentOf[old.phase])

Refreshed(b, old, new) ==
  SetPercent(SetPercent(b, PercentOf[old.phase]), PercentOf[new.phase])

(* The page shows server s, or an error: the bar follows.                  *)
Show(s, failed) ==
  /\ server' = s /\ hasError' = failed
  /\ bar' = IF ~Wanted(s, failed)
            THEN IF bar.module THEN Destroyed(bar) ELSE bar
            ELSE IF bar.module THEN Refreshed(bar, server, s) ELSE Attached(bar, s)

Init ==
  /\ now = Idle /\ server = Idle
  /\ hasError = FALSE
  /\ bar = NewBar
  /\ visits = 0

(* The server: an action is requested, goes through its phases, and ends - *)
(* or fails, in any of them.  (The end of a deprovisioning takes the page  *)
(* away, and the bar with it: what goes on then is a failed one.)          *)
Requested ==
  /\ now.action = None /\ visits < MaxVisits
  /\ \E action \in DOMAIN Course : now' = [now EXCEPT !.action = action]
  /\ visits' = visits + 1
  /\ UNCHANGED <<server, hasError, bar>>

Advances ==
  /\ now.action # None
  /\ LET course == Course[now.action]
     IN IF now.phase = None THEN now' = [now EXCEPT !.phase = Head(course)]
        ELSE \E i \in 1 .. Len(course) - 1 :
               now.phase = course[i] /\ now' = [now EXCEPT !.phase = course[i + 1]]
  /\ UNCHANGED <<server, hasError, bar, visits>>

EndsOrFails ==
  /\ now.action # None
  /\ now' = Idle
  /\ UNCHANGED <<server, hasError, bar, visits>>

(* load(): it takes the last error away, and ends with the server as it is *)
(* now, or with an error.                                                  *)
LoadStarts ==
  /\ hasError
  /\ Show(server, FALSE)
  /\ UNCHANGED <<now, visits>>

Loaded ==
  /\ ~hasError
  /\ Show(now, FALSE)
  /\ UNCHANGED <<now, visits>>

LoadFails ==
  /\ ~hasError
  /\ Show(server, TRUE)
  /\ UNCHANGED <<now, visits>>

(* The end of the animation, or the fail-safe timer: all that listen at    *)
(* that time are called, the eldest first.                                 *)
AnimationEnds ==
  /\ bar.ending # {}
  /\ LET elder == IF "gone" \in bar.ending THEN Outlived(bar) ELSE bar
         own   == IF "own" \in bar.ending THEN StopTicking(elder) ELSE elder
     IN bar' = [own EXCEPT !.ending = {}]
  /\ UNCHANGED <<now, server, hasError, visits>>

(* The interval of the module.                                             *)
Tick ==
  /\ bar.ticking
  /\ bar' = SetState(bar, bar.percent)
  /\ UNCHANGED <<now, server, hasError, visits>>

Next ==
  \/ Requested \/ Advances \/ EndsOrFails
  \/ LoadStarts \/ Loaded \/ LoadFails
  \/ AnimationEnds \/ Tick

Spec == Init /\ [][Next]_vars

-----------------------------------------------------------------------------
(* A bar on the page is as wide as the phase of the server the page knows  *)
(* says, however the two updates and the data of the element disagree.     *)
ShowsThePhase == bar.module => bar.width = PercentOf[server.phase]

(* At rest the bar on the page pulses if, and only if, it is neither empty *)
(* nor full: the callback of a module that is gone takes the class away    *)
(* only from a bar that is about to set it again.                          *)
PulsesWhileUnderWay ==
  bar.module /\ bar.ending = {} => (bar.active <=> bar.width \in 1 .. 99)

(* A bar part of the way never shows success.                              *)
NotGreenHalfWay == bar.module /\ bar.width \in 1 .. 99 => ~bar.success

(* What the bar says of the server is true: its width, its pulse, its green. *)
BarIsTrue == ShowsThePhase /\ PulsesWhileUnderWay /\ NotGreenHalfWay

=============================================================================
