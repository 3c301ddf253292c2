----------------------------- MODULE Transition -----------------------------
(***************************************************************************)
(* The animation of one element by Semantic UI's transition (modules/      *)
(* transition.js), which shows and hides every dialog, dimmer and menu of  *)
(* the console.  Each call makes a module of its own; the element keeps    *)
(* the last one as its instance and listens for the end of the animation   *)
(* on behalf of the one that started it.                                   *)
(*                                                                         *)
(* A module is abstracted to the callback it runs on completion.  Callbacks*)
(* reach into other elements, so the caller runs them: where the library   *)
(* calls one, the operators below say which.                               *)
(***************************************************************************)
EXTENDS Sequences

\* The callback of a module that has none.
NoCallback == [what |-> "nothing"]

\* "anim" is the animation under way, by its class; "shown" is whether the
\* element is displayed at rest; "queue" holds the animations that wait for
\* the end of this one.
NewElement ==
  [anim |-> "none", shown |-> FALSE, queue |-> <<>>,
   instance |-> NoCallback, handler |-> NoCallback]

IsAnimating(el)      == el.anim # "none"
IsOccurring(el, dir) == el.anim = dir

\* An element that animates is visible, whichever way it goes.
IsDisplayed(el) == el.shown \/ IsAnimating(el)

(* animate() without a queue: the same animation again starts nothing (but *)
(* its module becomes the instance); the opposite one first completes the  *)
(* instance, the callback of which runs then.                              *)
Interrupts(el, dir) == IsAnimating(el) /\ ~IsOccurring(el, dir)

Repeat(el, done) == [el EXCEPT !.instance = done]

Start(el, dir, done) ==
  [el EXCEPT !.anim = dir, !.instance = done, !.handler = done]

(* animate() with a queue: the same animation again starts nothing, and the*)
(* opposite one waits for the end of this.  (The instance is asked nothing *)
(* then.)                                                                  *)
Enqueue(el, dir, done) ==
  IF IsOccurring(el, dir) THEN el
  ELSE [el EXCEPT !.queue = Append(@, [dir |-> dir, done |-> done])]

\* complete(), up to the callback: of the handler when the animation ends, of
\* the instance when it is interrupted.
Complete(el) ==
  [el EXCEPT !.anim = "none", !.shown = (el.anim = "in"), !.handler = NoCallback]
=============================================================================
