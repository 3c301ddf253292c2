-------------------------------- MODULE Popup --------------------------------
(***************************************************************************)
(* The popups of Semantic UI (modules/popup.js) of the elements of a page: *)
(* each shows when its element is pointed at, clicked or touched, and goes *)
(* when it is left, or by a click or touch elsewhere.  A popup is created  *)
(* when it shows for the first time and, unless it is preserved, removed   *)
(* when it is hidden.  What it says is in the settings, or in the title of *)
(* its element, which is taken off while the popup shows.                  *)
(*                                                                         *)
(* An event runs to its end before the next.  Where the popup is placed is *)
(* PopupPosition's; here it only has a place, or has none.                 *)
(***************************************************************************)
EXTENDS FiniteSets, Transition

CONSTANTS
  Elements,       \* the elements that have a popup
  PopupSettings   \* the settings that are tried

PopupAssumption ==
  PopupSettings \subseteq
    [on : {"click", "hover"}, content : {"title", "settings"}, preserve : BOOLEAN,
     hoverable : BOOLEAN, exclusive : BOOLEAN]

VARIABLES
  settings,       \* of all the popups
  popups,         \* of each element, its popup and module
  pointer         \* what the mouse is over

popupVars == <<settings, popups, pointer>>

Nowhere      == [over |-> "nothing"]
Over(a)      == [over |-> "element", of |-> a]
OverPopup(a) == [over |-> "popup", of |-> a]
Pointers     == {Nowhere} \cup {Over(a) : a \in Elements} \cup {OverPopup(a) : a \in Elements}

Opened(a) == [what |-> "opened", of |-> a]
Gone(a)   == [what |-> "gone", of |-> a]

\* "el" is the popup and "exists" whether it was created; "closers" are the
\* listeners that close it, on the document: for "click" and for "touch";
\* "cached" is whether the title was saved.
NewPopup ==
  [el |-> NewElement, exists |-> settings.preserve, alive |-> TRUE,
   showTimer |-> FALSE, hideTimer |-> FALSE, touched |-> FALSE, closers |-> {},
   title |-> settings.content = "title", cached |-> FALSE]

-----------------------------------------------------------------------------
(* One popup.                                                              *)

\* is.visible: the class that the animation leaves - a popup that appears is
\* still hidden by it, one that goes is still visible.
Visible(p, a) == p[a].exists /\ p[a].el.shown
Animating(p, a) == p[a].exists /\ IsAnimating(p[a].el)

\* reset: a popup that is not preserved is removed, with its animation.
RemovePopup(p, a) ==
  IF settings.preserve
  THEN [p EXCEPT ![a].el.shown = FALSE]
  ELSE [p EXCEPT ![a].el = NewElement, ![a].exists = FALSE]

UnbindClose(p, a) == [p EXCEPT ![a].closers = {}]

\* save.conditions and restore.conditions.
SaveTitle(p, a)    == [p EXCEPT ![a].cached = p[a].title, ![a].title = FALSE]
RestoreTitle(p, a) == [p EXCEPT ![a].title = @ \/ p[a].cached]

(* Faulty variant: a popup of touch waits for no touch.                    *)
BindCloseOfMouse(p, a) ==
  [p EXCEPT ![a].closers = @ \cup (IF settings.on = "click" THEN {"click"} ELSE {})]

\* bind.close (the listener for scrolling never hides: the page is not in it).
BindClose(p, a) ==
  [p EXCEPT ![a].closers =
     @ \cup (IF settings.on = "click" THEN {"click"} ELSE {})
       \cup (IF settings.on = "hover" /\ p[a].touched THEN {"touch"} ELSE {})]

\* What an animation runs on completion.
Callback(p, done) ==
  CASE done.what = "opened" -> BindClose(p, done.of)
    [] done.what = "gone"   -> RemovePopup(p, done.of)
    [] OTHER                -> p

\* transition, without a queue: the opposite animation is completed first.
Animate(p, a, dir, done) ==
  LET el == p[a].el
  IN  IF IsOccurring(el, dir) THEN [p EXCEPT ![a].el = Repeat(el, done)]
      ELSE LET ended == IF Interrupts(el, dir)
                        THEN Callback([p EXCEPT ![a].el = Complete(el)], el.instance)
                        ELSE p
           IN  [ended EXCEPT ![a].el = Start(@, dir, done)]

Hide(p, a) ==
  IF Visible(p, a) \/ Animating(p, a)
  THEN Animate(RestoreTitle(UnbindClose(p, a), a), a, "out", Gone(a))
  ELSE p

\* hideAll: those that are visible, not those that appear.
HideAll(p, a) ==
  [b \in Elements |-> IF b # a /\ settings.exclusive /\ Visible(p, b) THEN Hide(p, b)[b] ELSE p[b]]

\* show, with the popup created, when there is something to say, and placed;
\* without a place it is removed.
Show(p, a, hasPlace) ==
  LET says    == settings.content = "settings" \/ p[a].title
      created == [p EXCEPT ![a].exists = TRUE]
  IN  IF Visible(p, a) \/ ~(p[a].exists \/ says) THEN p
      ELSE IF hasPlace
           THEN Animate(HideAll(SaveTitle(created, a), a), a, "in", Opened(a))
           ELSE RemovePopup(created, a)

\* hideGracefully of every popup that listens for it.
CloseAll(p, kind) ==
  [b \in Elements |-> IF kind \in p[b].closers THEN Hide(p, b)[b] ELSE p[b]]

\* event.start and event.end.  (Once touched, the element shows nothing to a mouse.)
StartEvent(p, a) == [p EXCEPT ![a].hideTimer = FALSE, ![a].showTimer = @ \/ ~p[a].touched]

EndEvent(p, a) == [p EXCEPT ![a].showTimer = FALSE, ![a].hideTimer = TRUE]

\* destroy: a preserved popup stays as it is.
Destroy(p, a) ==
  [UnbindClose(IF settings.preserve THEN p ELSE RemovePopup(p, a), a)
     EXCEPT ![a].alive = FALSE, ![a].showTimer = FALSE, ![a].hideTimer = FALSE]

-----------------------------------------------------------------------------
(* What happens.                                                           *)

PopupInit ==
  /\ settings \in PopupSettings
  /\ popups = [a \in Elements |-> NewPopup]
  /\ pointer = Nowhere

\* The mouse comes over an element or, when it reacts, over a popup.
Entered(p, target) ==
  IF settings.on # "hover" \/ target = Nowhere THEN p
  ELSE IF target.over = "element" \/ settings.hoverable THEN StartEvent(p, target.of) ELSE p

Left(p, target) ==
  IF settings.on # "hover" \/ target = Nowhere THEN p
  ELSE IF target.over = "element" \/ settings.hoverable THEN EndEvent(p, target.of) ELSE p

Point ==
  /\ \E target \in Pointers \ {pointer} :
       /\ target.over = "element" => popups[target.of].alive
       /\ target.over = "popup" =>
            popups[target.of].exists /\ IsDisplayed(popups[target.of].el)
       /\ popups' = Entered(Left(popups, pointer), target)
       /\ pointer' = target
  /\ UNCHANGED settings

\* A popup that is removed under the mouse sends no event.
StaysUnder(p) ==
  IF \/ pointer.over = "popup" /\ ~p[pointer.of].exists
     \/ pointer.over = "element" /\ ~p[pointer.of].alive
  THEN Nowhere ELSE pointer

Becomes(p) == popups' = p /\ pointer' = StaysUnder(p) /\ UNCHANGED settings

\* toggle, and what else the click closes.
Toggle(p, a, hasPlace) ==
  CloseAll(IF Visible(p, a) THEN Hide(p, a) ELSE Show(UnbindClose(p, a), a, hasPlace), "click")

Click ==
  /\ settings.on = "click"
  /\ \E a \in Elements, hasPlace \in BOOLEAN :
       popups[a].alive /\ Becomes(Toggle(popups, a, hasPlace))

ClickAway == \E a \in Elements : popups[a].closers # {} /\ Becomes(CloseAll(popups, "click"))

\* touchstart of an element, then of the document.
Touch ==
  /\ settings.on = "hover"
  /\ \E a \in Elements, hasPlace \in BOOLEAN :
       /\ popups[a].alive
       /\ Becomes(CloseAll(Show([popups EXCEPT ![a].touched = TRUE], a, hasPlace), "touch"))

TouchAway == \E a \in Elements : popups[a].closers # {} /\ Becomes(CloseAll(popups, "touch"))

ShowTimer(a) ==
  /\ popups[a].showTimer
  /\ \E hasPlace \in BOOLEAN :
       Becomes(Show([popups EXCEPT ![a].showTimer = FALSE], a, hasPlace))

HideTimer(a) ==
  /\ popups[a].hideTimer
  /\ Becomes(Hide([popups EXCEPT ![a].hideTimer = FALSE], a))

\* The animation of a popup ends.
AnimationEnds(a) ==
  /\ Animating(popups, a)
  /\ Becomes(Callback([popups EXCEPT ![a].el = Complete(@)], popups[a].el.handler))

\* The window changes its size, and an open popup has no place any more.
Resize == \E a \in Elements : popups[a].alive /\ Visible(popups, a) /\ Becomes(RemovePopup(popups, a))

\* The element leaves the page.
Remove == \E a \in Elements : popups[a].alive /\ Becomes(Destroy(popups, a))

PopupNext ==
  \/ Point \/ Click \/ ClickAway \/ Touch \/ TouchAway \/ Resize \/ Remove
  \/ \E a \in Elements : ShowTimer(a) \/ HideTimer(a) \/ AnimationEnds(a)

PopupSpec == PopupInit /\ [][PopupNext]_popupVars

-----------------------------------------------------------------------------
(* Correctness.                                                            *)

(* An open popup can be closed: by a click elsewhere when clicks show it;  *)
(* by leaving its element, by its timer, or by a touch elsewhere otherwise *)
(* - though every hiding takes all of its listeners, also of a popup that  *)
(* is about to open.  (One that reacts to the mouse itself may vanish under*)
(* it, unheard, while it is to be shown again.)                            *)
OpenPopupCanBeClosed ==
  \A a \in Elements :
    popups[a].alive /\ Visible(popups, a) /\ ~Animating(popups, a) =>
      IF settings.on = "click" THEN "click" \in popups[a].closers
      ELSE \/ settings.hoverable
           \/ pointer = Over(a)
           \/ popups[a].hideTimer
           \/ "touch" \in popups[a].closers

(* An element that left the page leaves no popup behind, whatever timers   *)
(* and animations were under way.                                          *)
NoPopupWithoutElement ==
  ~settings.preserve => \A a \in Elements : ~popups[a].alive => ~popups[a].exists

(* A popup goes when it should: it hears what closes it while its element  *)
(* is there, and goes with its element.                                    *)
PopupCanBeClosed == OpenPopupCanBeClosed /\ NoPopupWithoutElement

=============================================================================
