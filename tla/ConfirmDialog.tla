---------------------------- MODULE ConfirmDialog ----------------------------
(***************************************************************************)
(* The confirmation dialogs of the console (dialogs/confirm.ts) and what   *)
(* Semantic UI makes of them: each is a modal (modules/modal.js), all of   *)
(* them lie in one dimmer that covers the page (modules/dimmer.js), and    *)
(* opening and closing are animations.  A click may come at any moment of  *)
(* an animation, and a page that is left leaves its modal in the dimmer.   *)
(*                                                                         *)
(* JavaScript runs a click, a key or the end of an animation to its end    *)
(* before the next, with every callback it leads to: each is one action,   *)
(* computed on the whole of the user interface, the record "ui".           *)
(***************************************************************************)
EXTENDS Naturals, FiniteSets, Transition

CONSTANTS
  Pages,     \* the pages opened one after the other, each with its dialog
  MaxAsks    \* bound: questions asked

DialogAssumption == MaxAsks \in Nat

VARIABLES
  ui,        \* the modals and the dimmer
  promise,   \* per page: the promise of ConfirmDialog
  open,      \* the page that is open
  left,      \* the pages that were left
  asks,      \* questions asked so far
  hurried,   \* has the user interfered with an animation?
  dismissed  \* pages whose question was closed without an answer

vars == <<ui, promise, open, left, asks, hurried, dismissed>>

None == "none"

\* A modal: its element, its class "active", the flag ignoreRepeatedEvents,
\* and the handlers it has put on the dimmer (clickaway) and the document.
NewModal ==
  [el |-> NewElement, active |-> FALSE, ignore |-> FALSE,
   clickaway |-> FALSE, keyboard |-> FALSE]

\* The dimmer: its element, its class "active" and that of the body, "dimmed".
NewDimmer == [el |-> NewElement, active |-> FALSE, dimmed |-> FALSE]

-----------------------------------------------------------------------------
(* modules/dimmer.js.                                                      *)

\* The callbacks of the dimmer's animations.  Hiding it also takes away the
\* click handler of the modal that asked for it.
DimmerShown     == [what |-> "shown"]
DimmerHidden(p) == [what |-> "hidden", for |-> p]

RunDimmerCallback(u, done) ==
  CASE done.what = "nothing" -> u
    [] done.what = "shown"   -> [u EXCEPT !.dimmer.active = TRUE]
    [] done.what = "hidden"  -> [u EXCEPT !.dimmer.active = FALSE,
                                          !.modal[done.for].clickaway = FALSE]

DimmerCompletes(u, done) ==
  RunDimmerCallback([u EXCEPT !.dimmer.el = Complete(@)], done)

\* The start of either animation decides whether the body counts as dimmed.
AnimateDimmer(u, dir, done) ==
  LET el == u.dimmer.el
      v  == IF Interrupts(el, dir) THEN DimmerCompletes(u, el.instance) ELSE u
  IN  IF IsOccurring(el, dir)
      THEN [u EXCEPT !.dimmer.el = Repeat(@, done)]
      ELSE [v EXCEPT !.dimmer.el = Start(@, dir, done),
                     !.dimmer.dimmed = (dir = "in")]

\* show() and hide() of the dimmer, with the guards of the modal's
\* showDimmer() and hideDimmer() before them.
ShowDimmer(u) ==
  LET d == u.dimmer
  IN  IF /\ IsAnimating(d.el) \/ ~d.active
         /\ IsAnimating(d.el) \/ ~d.dimmed
      THEN AnimateDimmer(u, "in", DimmerShown) ELSE u

HideDimmer(u, p) ==
  LET d == u.dimmer
  IN  IF /\ IsAnimating(d.el) \/ d.active
         /\ IsAnimating(d.el) \/ d.dimmed
      THEN AnimateDimmer(u, "out", DimmerHidden(p)) ELSE u

-----------------------------------------------------------------------------
(* modules/modal.js.                                                       *)

\* The callbacks of a modal's animations.  What follows a hiding is nothing,
\* the end of ignoreRepeatedEvents, or the showing of the modal of page p.
ModalShown     == [what |-> "shown"]
ModalHidden(t) == [what |-> "hidden", then |-> t]
ThenNothing    == [do |-> "nothing"]
ThenUnignore   == [do |-> "unignore"]
ThenShow(p)    == [do |-> "show", page |-> p]

OthersActive(u, p) == \E q \in Pages \ {p} : u.modal[q].active

IsVisible(m) == m.active \/ IsAnimating(m.el)

RECURSIVE ShowModal(_, _)

(* Faulty variant: a modal that has opened does not listen for keys.       *)
RunModalCallbackUnlistening(u, p, done) ==
  CASE done.what = "nothing" -> u
    [] done.what = "shown" -> [u EXCEPT !.modal[p].active = TRUE]
    [] done.what = "hidden" ->
         CASE done.then.do = "nothing"  -> u
           [] done.then.do = "unignore" -> [u EXCEPT !.modal[p].ignore = FALSE]
           [] done.then.do = "show"     -> ShowModal(u, done.then.page)

RunModalCallback(u, p, done) ==
  CASE done.what = "nothing" -> u
    [] done.what = "shown" -> [u EXCEPT !.modal[p].keyboard = TRUE,
                                        !.modal[p].active = TRUE]
    [] done.what = "hidden" ->
         CASE done.then.do = "nothing"  -> u
           [] done.then.do = "unignore" -> [u EXCEPT !.modal[p].ignore = FALSE]
           [] done.then.do = "show"     -> ShowModal(u, done.then.page)

ModalCompletes(u, p, done) ==
  RunModalCallback([u EXCEPT !.modal[p].el = Complete(@)], p, done)

\* What the start of a hiding does: the dimmer goes with the last modal, and
\* the key handlers of all modals go, as they share one event namespace.
ModalHides(u, p, keepDimmed) ==
  LET v == IF ~OthersActive(u, p) /\ ~keepDimmed THEN HideDimmer(u, p) ELSE u
  IN  [v EXCEPT !.modal = [q \in Pages |-> [@[q] EXCEPT !.keyboard = FALSE]]]

AnimateModal(u, p, dir, done) ==
  LET el == u.modal[p].el
      v  == IF Interrupts(el, dir) THEN ModalCompletes(u, p, el.instance) ELSE u
  IN  IF IsOccurring(el, dir)
      THEN [u EXCEPT !.modal[p].el = Repeat(@, done)]
      ELSE [v EXCEPT !.modal[p].el = Start(@, dir, done)]

HideModalKept(u, p, then, keepDimmed) ==
  IF ~IsVisible(u.modal[p]) THEN u
  ELSE ModalHides(AnimateModal(u, p, "out", ModalHidden(then)), p, keepDimmed)

\* hideModal(): not "active" any more, and then the animation.
HideModal(u, p, then, keepDimmed) ==
  LET m == u.modal[p]
      v == AnimateModal([u EXCEPT !.modal[p].active = FALSE], p, "out",
                        ModalHidden(then))
  IN  IF ~IsVisible(m) THEN u
      ELSE IF IsOccurring(m.el, "out") THEN v
      ELSE ModalHides(v, p, keepDimmed)

\* hideOthers() and hideAll(): the modals that are active or animating.
HideEach(u, ps, then, keepDimmed) ==
  LET F[qs \in SUBSET ps] ==
        IF qs = {} THEN u
        ELSE LET q == CHOOSE q \in qs : TRUE
             IN  HideModal(F[qs \ {q}], q, then, keepDimmed)
  IN  F[ps]

VisibleModals(u) == {q \in Pages : IsVisible(u.modal[q])}

\* showModal(): not if it is "active" already.
ShowModal(u, p) ==
  LET v == [ShowDimmer(u) EXCEPT !.modal[p].clickaway = TRUE]
  IN  IF ~(IsAnimating(u.modal[p].el) \/ ~u.modal[p].active) THEN u
      ELSE IF OthersActive(v, p)
      THEN HideEach(v, VisibleModals(v) \ {p}, ThenShow(p), TRUE)
      ELSE AnimateModal(v, p, "in", ModalShown)

\* event.click on the dimmer: every modal that listens, one after the other.
HideAll(u, p) ==
  HideEach(HideDimmer(u, p), VisibleModals(u), ThenNothing, FALSE)

ClickedAway(u) ==
  LET F[qs \in SUBSET Pages] ==
        IF qs = {} THEN u
        ELSE LET q == CHOOSE q \in qs : TRUE
                 v == F[qs \ {q}]
             IN  IF v.modal[q].clickaway /\ v.modal[q].active
                 THEN HideAll([v EXCEPT !.modal[q].clickaway = FALSE], q)
                 ELSE v
  IN  F[Pages]

\* event.keyboard with the escape key: every modal that listens.
Escaped(u) == HideEach(u, {q \in Pages : u.modal[q].keyboard}, ThenNothing, FALSE)

-----------------------------------------------------------------------------
Init ==
  /\ ui = [modal |-> [p \in Pages |-> NewModal], dimmer |-> NewDimmer]
  /\ promise = [p \in Pages |-> "none"]
  /\ open \in Pages
  /\ left = {}
  /\ asks = 0
  /\ hurried = FALSE
  /\ dismissed = {}

Displayed(p) == IsDisplayed(ui.modal[p].el) /\ IsDisplayed(ui.dimmer.el)

AtRest ==
  ~IsAnimating(ui.dimmer.el) /\ \A p \in Pages : ~IsAnimating(ui.modal[p].el)

\* The user does not wait for an animation to end.
Hurry == hurried' = (hurried \/ ~AtRest)

\* Questions that lose their dialog without an answer.
Dismiss(ps) == dismissed' = dismissed \cup {p \in ps : promise[p] = "pending"}

\* ConfirmDialog.show(): a question that still waits is not asked again.
Ask(p) ==
  /\ p = open
  /\ ~IsDisplayed(ui.dimmer.el)
  /\ asks < MaxAsks
  /\ asks' = asks + 1
  /\ promise' = [promise EXCEPT ![p] = "pending"]
  /\ ui' = IF promise[p] = "none" THEN ShowModal(ui, p) ELSE ui
  /\ Hurry
  /\ UNCHANGED <<open, left, dismissed>>

\* The Yes and the No button: the promise is settled, and the modal hides.
Press(p) ==
  /\ Displayed(p)
  /\ ~ui.modal[p].ignore
  /\ promise' = [promise EXCEPT ![p] = "none"]
  /\ ui' = HideModal([ui EXCEPT !.modal[p].ignore = TRUE], p, ThenUnignore, FALSE)
  /\ Hurry
  /\ UNCHANGED <<open, left, asks, dismissed>>

\* The close icon.
Close(p) ==
  /\ Displayed(p)
  /\ ui' = HideModal(ui, p, ThenNothing, FALSE)
  /\ Dismiss({p})
  /\ Hurry
  /\ UNCHANGED <<promise, open, left, asks>>

\* A click on the dimmer, beside the modal.
ClickAway ==
  /\ IsDisplayed(ui.dimmer.el)
  /\ ui' = ClickedAway(ui)
  /\ Dismiss({p \in Pages : ui.modal[p].active})
  /\ Hurry
  /\ UNCHANGED <<promise, open, left, asks>>

Escape ==
  /\ \E p \in Pages : ui.modal[p].keyboard
  /\ ui' = Escaped(ui)
  /\ Dismiss({p \in Pages : ui.modal[p].keyboard})
  /\ Hurry
  /\ UNCHANGED <<promise, open, left, asks>>

\* The router opens another page; the modal of this one stays where it is.
Leave ==
  /\ \E p \in Pages \ (left \cup {open}) : open' = p
  /\ left' = left \cup {open}
  /\ UNCHANGED <<ui, promise, asks, hurried, dismissed>>

ModalAnimationEnds(p) ==
  /\ IsAnimating(ui.modal[p].el)
  /\ ui' = ModalCompletes(ui, p, ui.modal[p].el.handler)
  /\ UNCHANGED <<promise, open, left, asks, hurried, dismissed>>

DimmerAnimationEnds ==
  /\ IsAnimating(ui.dimmer.el)
  /\ ui' = DimmerCompletes(ui, ui.dimmer.el.handler)
  /\ UNCHANGED <<promise, open, left, asks, hurried, dismissed>>

User ==
  \/ \E p \in Pages : Ask(p) \/ Press(p) \/ Close(p)
  \/ ClickAway
  \/ Escape
  \/ Leave

Animations == DimmerAnimationEnds \/ \E p \in Pages : ModalAnimationEnds(p)

Next == User \/ Animations

\* Animations end, if not by the browser's event then by the fail-safe timer.
Fairness ==
  /\ WF_vars(DimmerAnimationEnds)
  /\ \A p \in Pages : WF_vars(ModalAnimationEnds(p))

Spec == Init /\ [][Next]_vars /\ Fairness

-----------------------------------------------------------------------------
Lies(p) == AtRest /\ ui.modal[p].el.shown

\* A dialog that lies open belongs to a question that still waits for its
\* answer, and it is the only one: however clicks have crossed the animations
\* of two pages' dialogs, none comes back for a question that was answered.
ShownMeansAsked ==
  \A p \in Pages : Lies(p) =>
    promise[p] = "pending" /\ \A q \in Pages : Lies(q) => q = p

\* A dialog that lies open lies on the dimmer and can be closed: by a click
\* beside it and by the escape key, the handlers of which come and go with
\* animations.
ShownListens ==
  \A p \in Pages : Lies(p) =>
    /\ ui.dimmer.el.shown
    /\ ui.modal[p].active /\ ui.modal[p].clickaway /\ ui.modal[p].keyboard

\* Every question of a user who waits for animations comes to lie before him
\* or is answered or dismissed.
QuestionAppears ==
  \A p \in Pages :
    promise[p] = "pending"
      ~> (Lies(p) \/ promise[p] = "none" \/ p \in dismissed \/ hurried)

\* What lies before the user is a question that waits, and one he can answer.
ShownCanBeAnswered == ShownMeansAsked /\ ShownListens

=============================================================================
