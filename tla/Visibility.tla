----------------------------- MODULE Visibility -----------------------------
(***************************************************************************)
(* Two elements of one page whose visibility Semantic UI follows (behaviors*)
(* /visibility.js): plain ones with callbacks, one that is fixed to the top*)
(* when it is passed, images that load when they come on screen.  The page *)
(* scrolls and is resized, the elements change their size; the second      *)
(* stands below the first.                                                 *)
(*                                                                         *)
(* The modules share one publisher of scrolling: the module that was set up*)
(* last.  Frames and timers fire in any order.                             *)
(***************************************************************************)
EXTENDS Naturals, FiniteSets

CONSTANTS
  Pages,      \* [kind, throttle]: the kinds of the two elements; is scrolling throttled?
  MaxScroll,  \* bound: how far the page scrolls
  Screens,    \* heights the window may have
  MaxTurns    \* bound: how often anything but scrolling disturbs the modules

VARIABLES
  layout,     \* the page: [kind, throttle], and what can be measured
  followers,  \* the modules
  publisher,  \* the module that hears the page scroll
  frames,     \* what waits for the next frame
  timers,     \* module.timer, and the timers whose handle was overwritten
  images,     \* what the images' callbacks share
  turns       \* how often the modules were disturbed

visibilityVars == <<layout, followers, publisher, frames, timers, images, turns>>

Modules   == {1, 2}
Nobody    == 0
Sizes     == {1, 2}
Reversible == {"passing", "topVisible", "bottomVisible", "topPassed", "bottomPassed"}
Conditions == Reversible \cup {"onScreen", "offScreen"}

VisibilityAssumption ==
  Pages \subseteq [kind : [Modules -> {"plain", "fixed", "image"}], throttle : BOOLEAN]

Once(m)     == layout.kind[m] = "image"
Observes(m) == layout.kind[m] = "plain"

\* The conditions that have a callback; what occurs without is not looked at.
Watched(m) ==
  CASE layout.kind[m] = "plain" -> Reversible
    [] layout.kind[m] = "fixed" -> {"topPassed"}
    [] layout.kind[m] = "image" -> {"onScreen"}

Refreshing(m) == [what |-> "refresh", of |-> m]
Publication == [what |-> "publish"]
NoTimer     == [what |-> "nothing"]
Tasks       == {Publication} \cup {Refreshing(m) : m \in Modules}

\* save.position, of an element that is not fixed.  Above the second stand the
\* first, unless it is fixed, and the first one's placeholder while that is
\* displayed: a clone, with the size the first had when it was set up.
Measured(m) ==
  LET first == followers[1]
      above == (IF first.fixed THEN 0 ELSE layout.size[1])
               + (IF first.placeholder THEN first.room ELSE 0)
  IN  [top |-> IF m = 1 THEN 1 ELSE 1 + above, size |-> layout.size[m],
       screen |-> layout.screen]

\* setup: "occurred" and "reversed" are cache.occurred, of the callbacks and of
\* their reverse ones; "told" is what the callbacks called so far amount to;
\* "missed" is whether scrolling went by unheard: history, for the properties.
NewFollower(seen) ==
  [alive |-> TRUE, disabled |-> FALSE, seen |-> seen,
   occurred |-> {}, reversed |-> {}, told |-> {},
   fixed |-> FALSE, placeholder |-> FALSE, room |-> seen.size,
   image |-> "waiting", missed |-> FALSE]

-----------------------------------------------------------------------------
(* A check of one element.                                                 *)

\* save.elementCalculations.
Holding(scroll, seen) ==
  LET bottom       == seen.top + seen.size
      topPassed    == scroll >= seen.top
      bottomPassed == scroll >= bottom
      topVisible   == scroll + seen.screen >= seen.top /\ ~bottomPassed
  IN  {c \in Conditions :
         CASE c = "topPassed"     -> topPassed
           [] c = "bottomPassed"  -> bottomPassed
           [] c = "topVisible"    -> topVisible
           [] c = "bottomVisible" -> scroll + seen.screen >= bottom /\ ~topPassed
           [] c = "passing"       -> topPassed /\ ~bottomPassed
           [] c = "onScreen"      -> topVisible
           [] c = "offScreen"     -> ~topVisible}

(* Faulty variant: a reverse callback that has occurred never occurs again.*)
ReverseOnce(f, m, holding) ==
  LET over == (Reversible \ holding) \cap f.occurred
  IN  [f EXCEPT !.told = @ \ (over \ f.reversed), !.reversed = @ \cup over,
                !.placeholder = @ /\ "topPassed" \notin over \ f.reversed,
                !.fixed       = @ /\ "topPassed" \notin over \ f.reversed]

\* passingReverse ... bottomPassedReverse, and setup.fixed's onTopPassedReverse.
Reverse(f, m, holding) ==
  LET over   == (Reversible \ holding) \cap f.occurred
      called == over \ f.reversed
  IN  [f EXCEPT !.told = @ \ called,
                !.reversed = (@ \cup over) \ (IF Once(m) THEN {} ELSE holding),
                !.placeholder = @ /\ "topPassed" \notin called,
                !.fixed       = @ /\ "topPassed" \notin called]

\* onScreen ... bottomPassed, setup.fixed's onTopPassed and setup.image's
\* onOnScreen.  A module that was destroyed has no placeholder to show.
Forward(f, m, holding) ==
  LET called == holding \ f.occurred
  IN  [f EXCEPT !.told = @ \cup called,
                !.occurred = (IF Once(m) THEN @ ELSE {}) \cup holding,
                !.placeholder = @ \/ (/\ layout.kind[m] = "fixed" /\ "topPassed" \in called
                                      /\ f.alive),
                !.fixed       = @ \/ (layout.kind[m] = "fixed" /\ "topPassed" \in called),
                !.image = IF layout.kind[m] = "image" /\ "onScreen" \in called
                          THEN "loading" ELSE @]

\* checkVisibility: the reverse callbacks first.
CheckVisibility(f, m, scroll) ==
  IF f.disabled THEN [f EXCEPT !.missed = TRUE]
  ELSE LET holding == Holding(scroll, f.seen) \cap Watched(m)
       IN  [Forward(Reverse(f, m, holding), m, holding) EXCEPT !.missed = FALSE]

\* resetFixed: the placeholder is not hidden.
ResetFixed(f) == [f EXCEPT !.fixed = FALSE, !.occurred = {}, !.reversed = {}]

\* refresh: the element is measured where it stands unfixed.
Refresh(f, m) ==
  LET back == IF layout.kind[m] = "fixed" THEN ResetFixed(f) ELSE f
  IN  CheckVisibility([back EXCEPT !.seen = Measured(m)], m, layout.scroll)

-----------------------------------------------------------------------------
(* What happens.                                                           *)

\* Elements of size 1, one below the other; when the first is fixed at once its
\* placeholder takes its place.
AtFirst(m) == [top |-> m, size |-> 1, screen |-> layout.screen]

VisibilityInit ==
  /\ \E page \in Pages, scroll \in 0..MaxScroll, screen \in Screens :
       layout = [kind |-> page.kind, throttle |-> page.throttle, scroll |-> scroll,
                 screen |-> screen, size |-> [m \in Modules |-> 1]]
  /\ followers = [m \in Modules |-> CheckVisibility(NewFollower(AtFirst(m)), m, layout.scroll)]
  /\ publisher = 2
  /\ frames = {}
  /\ timers = [m \in Modules |-> [own |-> NoTimer, loose |-> {}]]
  /\ images = [loaded |-> 0, all |-> FALSE]
  /\ turns = 0

\* event.scroll of the publisher: its timer makes way, whatever it was for.
Scroll ==
  /\ \E s \in 0..MaxScroll \ {layout.scroll} : layout' = [layout EXCEPT !.scroll = s]
  /\ IF publisher = Nobody
     THEN /\ followers' = [m \in Modules |-> [followers[m] EXCEPT !.missed = TRUE]]
          /\ UNCHANGED <<frames, timers>>
     ELSE /\ IF layout.throttle
             THEN /\ timers' = [timers EXCEPT ![publisher].own = Publication]
                  /\ UNCHANGED frames
             ELSE frames' = frames \cup {Publication} /\ UNCHANGED timers
          /\ UNCHANGED followers
  /\ UNCHANGED <<publisher, images, turns>>

\* event.resize of every module.
Resize ==
  /\ turns < MaxTurns /\ turns' = turns + 1
  /\ \E h \in Screens \ {layout.screen} : layout' = [layout EXCEPT !.screen = h]
  /\ frames' = frames \cup {Refreshing(m) : m \in {k \in Modules : followers[k].alive}}
  /\ UNCHANGED <<followers, publisher, timers, images>>

\* The content of an element changes, with its size; event.changed overwrites
\* the timer without clearing it.
Change ==
  \E m \in Modules :
    /\ turns < MaxTurns /\ turns' = turns + 1
    /\ \E n \in Sizes \ {layout.size[m]} : layout' = [layout EXCEPT !.size[m] = n]
    /\ timers' =
         IF followers[m].alive /\ Observes(m)
         THEN [timers EXCEPT ![m] = [own   |-> Refreshing(m),
                                     loose |-> @.loose \cup ({@.own} \ {NoTimer})]]
         ELSE timers
    /\ UNCHANGED <<followers, publisher, frames, images>>

\* What a frame or a timer does: scrollchange for all who listen, or refresh -
\* also of a module that was destroyed.
Done(what) ==
  IF what = Publication
  THEN [m \in Modules |-> IF followers[m].alive
                          THEN CheckVisibility(followers[m], m, layout.scroll)
                          ELSE followers[m]]
  ELSE [followers EXCEPT ![what.of] = Refresh(@, what.of)]

Frame(what) ==
  /\ what \in frames
  /\ frames' = frames \ {what}
  /\ followers' = Done(what)
  /\ UNCHANGED <<layout, publisher, timers, images, turns>>

Timer(m, what) ==
  /\ timers[m].own = what
  /\ followers' = Done(what)
  /\ timers' = [timers EXCEPT ![m].own = NoTimer]
  /\ UNCHANGED <<layout, publisher, frames, images, turns>>

LooseTimer(m, what) ==
  /\ what \in timers[m].loose
  /\ followers' = Done(what)
  /\ timers' = [timers EXCEPT ![m].loose = @ \ {what}]
  /\ UNCHANGED <<layout, publisher, frames, images, turns>>

\* precache has loaded the image of an element, or failed to; it fades in.
ImageLoads(m) ==
  /\ followers[m].image = "loading"
  /\ followers' = [followers EXCEPT ![m].image = "fading"]
  /\ UNCHANGED <<layout, publisher, frames, timers, images, turns>>

\* The callback of set.image, when the image has faded in.
ImageShows(m) ==
  /\ followers[m].image = "fading"
  /\ followers' = [followers EXCEPT ![m].image = "shown"]
  /\ images' = [loaded |-> images.loaded + 1,
                all    |-> images.all \/ images.loaded + 1 = Cardinality(Modules)]
  /\ UNCHANGED <<layout, publisher, frames, timers, turns>>

\* disableCallbacks and enableCallbacks.
Switch ==
  /\ turns < MaxTurns /\ turns' = turns + 1
  /\ \E m \in Modules :
       followers[m].alive /\ followers' = [followers EXCEPT ![m].disabled = ~@]
  /\ UNCHANGED <<layout, publisher, frames, timers, images>>

\* destroy: of the modules' handlers for scrolling only its own could go.
Destroy ==
  \E m \in Modules :
    /\ turns < MaxTurns /\ turns' = turns + 1
    /\ followers[m].alive
    /\ followers' = [followers EXCEPT ![m] =
         [(IF layout.kind[m] = "fixed" THEN [ResetFixed(@) EXCEPT !.placeholder = FALSE] ELSE @)
            EXCEPT !.alive = FALSE]]
    /\ publisher' = IF publisher = m THEN Nobody ELSE publisher
    /\ UNCHANGED <<layout, frames, timers, images>>

\* initialize, of an element that has no module: bind.events takes the place
\* of the publisher.  (Images, which count those of one call, once only.)  The
\* page waits until its former module has nothing left to do, and sees to it
\* that the element is not fixed: the last refresh of a module that was
\* destroyed may fix it, and nobody would undo that.
Initialize ==
  \E m \in Modules :
    /\ turns < MaxTurns /\ turns' = turns + 1
    /\ ~followers[m].alive /\ layout.kind[m] # "image" /\ ~followers[m].fixed
    /\ Refreshing(m) \notin frames \cup {timers[m].own} \cup timers[m].loose
    /\ followers' = [followers EXCEPT ![m] =
                       CheckVisibility(NewFollower(Measured(m)), m, layout.scroll)]
    /\ publisher' = m
    /\ UNCHANGED <<layout, frames, timers, images>>

VisibilityNext ==
  \/ Scroll \/ Resize \/ Change \/ Switch \/ Destroy \/ Initialize
  \/ \E what \in Tasks : Frame(what) \/ \E m \in Modules : Timer(m, what) \/ LooseTimer(m, what)
  \/ \E m \in Modules : ImageLoads(m) \/ ImageShows(m)

VisibilitySpec == VisibilityInit /\ [][VisibilityNext]_visibilityVars

-----------------------------------------------------------------------------
(* Correctness.                                                            *)

\* Nothing is under way that would check this element, and nothing went by.
Settled(m) ==
  LET f == followers[m]
  IN  /\ f.alive /\ ~f.missed
      /\ frames \cap {Publication, Refreshing(m)} = {}
      /\ \A k \in Modules :
           {timers[k].own} \cup timers[k].loose \subseteq
             {NoTimer} \cup {Refreshing(j) : j \in Modules \ {m}}

(* What the callbacks of a plain element said last is how it stands, as it *)
(* was last measured, after any scrolling, resizing, growing, disabling.   *)
CallbacksAreTrue ==
  \A m \in Modules :
    layout.kind[m] = "plain" /\ Settled(m) =>
      followers[m].told = Holding(layout.scroll, followers[m].seen) \cap Reversible

(* The measures a plain element goes by are those of the present window,   *)
(* and of its own present size - unless scrolling is throttled: the timer  *)
(* of the publisher's next scroll takes that of its own refresh away.  Its *)
(* place is not followed: a neighbour that grows, or the placeholder that  *)
(* one leaves beside itself when it is refreshed, moves it unmeasured.     *)
MeasuresAreCurrent ==
  \A m \in Modules :
    layout.kind[m] = "plain" /\ Settled(m) =>
      /\ followers[m].seen.screen = layout.screen
      /\ ~layout.throttle => followers[m].seen.size = layout.size[m]

(* An element of type fixed is fixed exactly while its top, as it was last *)
(* measured, is passed, and then its placeholder is there in its place.    *)
FixedWhilePassed ==
  \A m \in Modules :
    layout.kind[m] = "fixed" /\ Settled(m) =>
      /\ followers[m].fixed <=> layout.scroll >= followers[m].seen.top
      /\ followers[m].fixed => followers[m].placeholder

(* All images are said to be loaded only when each of them shows, however  *)
(* often they came on screen and left it.                                  *)
AllLoadedMeansAll ==
  images.all => \A m \in Modules : followers[m].image = "shown"

(* What an element shows, and what the page was told of it, is how it      *)
(* stands on the screen, by measures that are current as far as said.      *)
FollowedTruly ==
  CallbacksAreTrue /\ MeasuresAreCurrent /\ FixedWhilePassed /\ AllLoadedMeansAll

=============================================================================
