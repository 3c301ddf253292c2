------------------------------ MODULE Checkbox ------------------------------
(***************************************************************************)
(* Two checkboxes or radio buttons of one name (modules/checkbox.js).  The *)
(* library hides each input and shows its state by classes of its own; it  *)
(* hears clicks on the label and keys on the input.  The browser goes on   *)
(* changing inputs by itself: arrow keys, the space bar when nobody        *)
(* prevents it, the reset of a form.                                       *)
(***************************************************************************)
EXTENDS Naturals, FiniteSets

CONSTANT BoxGroups   \* [radio, apart, uncheckable, fireOnInit, refused, initially]

VARIABLES
  group,    \* the settings; "apart" puts the two inputs into forms of their own
  boxes,    \* each input, what the library shows of it and told of it
  cursor,   \* the input that has the focus
  space,    \* the input on which the space bar is held down
  byItself  \* has the browser changed an input by itself? - history

boxVars == <<group, boxes, cursor, space, byItself>>

Boxes    == {1, 2}
NoBox    == 0
Calls    == {"check", "uncheck", "toggle", "indeterminate", "determinate", "enable", "disable"}

\* A page does not refuse what it has checked itself.
BoxAssumption ==
  \A g \in BoxGroups :
    /\ g \in [radio : BOOLEAN, apart : BOOLEAN, uncheckable : BOOLEAN, fireOnInit : BOOLEAN,
              refused : SUBSET Boxes, initially : {"nothing", "checked", "mixed"}]
    /\ g.initially = "checked" => 1 \notin g.refused

SameForm(a, b) == a = b \/ ~group.apart

\* The browser checks an input: of radios in one form one is checked.
Checks(s, b) ==
  [c \in Boxes |-> IF c = b THEN [s[c] EXCEPT !.checked = TRUE]
                   ELSE IF group.radio /\ SameForm(b, c) THEN [s[c] EXCEPT !.checked = FALSE]
                   ELSE s[c]]

-----------------------------------------------------------------------------
(* The module.                                                             *)

(* Faulty variant: those in other forms only.                              *)
UncheckOthersElsewhere(s, b) ==
  [c \in Boxes |-> IF c # b /\ group.apart THEN [s[c] EXCEPT !.shown = FALSE] ELSE s[c]]

\* uncheckOthers: whatever form they are in.
UncheckOthers(s, b) ==
  [c \in Boxes |-> IF c # b THEN [s[c] EXCEPT !.shown = FALSE] ELSE s[c]]

\* set.checked.
SetChecked(s, b) ==
  LET marked == [s EXCEPT ![b].shown = TRUE, ![b].shownMixed = FALSE]
      alone  == IF group.radio THEN UncheckOthers(marked, b) ELSE marked
  IN  IF ~s[b].mixed /\ s[b].checked THEN alone
      ELSE Checks([alone EXCEPT ![b].mixed = FALSE], b)

\* set.unchecked.
SetUnchecked(s, b) ==
  [s EXCEPT ![b].shown = FALSE, ![b].shownMixed = FALSE, ![b].checked = FALSE, ![b].mixed = FALSE]

SetIndeterminate(s, b) == [s EXCEPT ![b].shownMixed = TRUE, ![b].mixed = TRUE]
SetDeterminate(s, b)   == [s EXCEPT ![b].shownMixed = FALSE, ![b].mixed = FALSE]

\* should.forceCallbacks and should.ignoreCallbacks.
Forced(initial)  == initial /\ group.fireOnInit
Ignored(initial) == initial /\ ~group.fireOnInit

\* should.allow...; "refused" are those of which beforeChecked returns false.
AllowCheck(s, b, initial) ==
  (s[b].mixed \/ ~s[b].checked \/ Forced(initial)) /\ b \notin group.refused
AllowUncheck(s, b, initial)       == s[b].mixed \/ s[b].checked \/ Forced(initial)
AllowIndeterminate(s, b, initial) == ~s[b].mixed \/ Forced(initial)
AllowDeterminate(s, b, initial)   == s[b].mixed \/ Forced(initial)

CanChange(s, b) == ~s[b].disabled
CanUncheck      == group.uncheckable

Told(s, b, what, initial) == IF Ignored(initial) THEN s ELSE [s EXCEPT ![b].told = what]

Check(s, b, initial) ==
  IF AllowCheck(s, b, initial) THEN Told(SetChecked(s, b), b, "checked", initial) ELSE s

Uncheck(s, b, initial) ==
  IF AllowUncheck(s, b, initial) THEN Told(SetUnchecked(s, b), b, "unchecked", initial) ELSE s

\* indeterminate and determinate, which return when it is allowed.
Indeterminate(s, b, initial) ==
  IF AllowIndeterminate(s, b, initial) THEN s ELSE SetIndeterminate(s, b)
Determinate(s, b, initial) ==
  IF AllowDeterminate(s, b, initial) THEN s ELSE SetDeterminate(s, b)

Toggle(s, b) ==
  CASE ~CanChange(s, b)                                  -> s
    [] CanChange(s, b) /\ (s[b].mixed \/ ~s[b].checked)  -> Check(s, b, FALSE)
    [] OTHER -> IF CanUncheck THEN Uncheck(s, b, FALSE) ELSE s

\* enable and disable.
SetDisabled(s, b, disabled) == [s EXCEPT ![b].disabled = disabled]

\* setup, of an input as the page has it.
SetUpBox(s, b) ==
  CASE s[b].mixed                     -> Indeterminate(s, b, TRUE)
    [] ~s[b].mixed /\ s[b].checked    -> Check(s, b, TRUE)
    [] ~s[b].mixed /\ ~s[b].checked   -> Uncheck(s, b, TRUE)

-----------------------------------------------------------------------------
(* What happens.                                                           *)

\* A page with inputs: nothing checked, the first, or the first in between.
BoxInit ==
  /\ group \in BoxGroups
  /\ LET plain == [checked |-> FALSE, mixed |-> FALSE, disabled |-> FALSE,
                   shown |-> FALSE, shownMixed |-> FALSE, told |-> "nothing", shortcut |-> FALSE]
         page == [b \in Boxes |-> [plain EXCEPT !.checked = b = 1 /\ group.initially = "checked",
                                                !.mixed   = b = 1 /\ group.initially = "mixed"]]
     IN  boxes = SetUpBox(SetUpBox(page, 1), 2)
  /\ cursor = NoBox /\ space = NoBox /\ byItself = FALSE

\* A click on the label: event.click.
ClickLabel ==
  /\ \E b \in Boxes : boxes' = Toggle(boxes, b) /\ cursor' = b
  /\ UNCHANGED <<group, space, byItself>>

Tab ==
  /\ \E b \in Boxes \cup {NoBox} : b # cursor /\ cursor' = b
  /\ UNCHANGED <<group, boxes, space, byItself>>

\* event.keydown of the space bar, which repeats while it is held down.
PressSpace ==
  /\ cursor # NoBox /\ space \in {NoBox, cursor}
  /\ boxes' = [Toggle(boxes, cursor) EXCEPT ![cursor].shortcut = TRUE]
  /\ space' = cursor
  /\ UNCHANGED <<group, cursor, byItself>>

PressEnterKey ==
  /\ cursor # NoBox
  /\ boxes' = [Toggle(boxes, cursor) EXCEPT ![cursor].shortcut = TRUE]
  /\ UNCHANGED <<group, cursor, space, byItself>>

\* Another key, also while the space bar is down, or with it.
PressOther ==
  /\ cursor # NoBox
  /\ boxes' = [boxes EXCEPT ![cursor].shortcut = FALSE]
  /\ UNCHANGED <<group, cursor, space, byItself>>

PressEscape ==
  /\ cursor # NoBox
  /\ boxes' = [boxes EXCEPT ![cursor].shortcut = TRUE]
  /\ cursor' = NoBox
  /\ UNCHANGED <<group, space, byItself>>

\* The browser toggles the input on which the space bar was pressed, unless
\* event.keyup prevents it.
ReleaseSpace ==
  /\ space # NoBox /\ space' = NoBox
  /\ LET b == space
         native == cursor = b /\ ~boxes[b].shortcut /\ ~boxes[b].disabled
     IN  /\ boxes' = CASE ~native                         -> boxes
                       [] native /\ ~boxes[b].checked     -> Checks([boxes EXCEPT ![b].mixed = FALSE], b)
                       [] OTHER -> [boxes EXCEPT ![b].checked = group.radio, ![b].mixed = FALSE]
         /\ byItself' = (byItself \/ native)
  /\ UNCHANGED <<group, cursor>>

\* An arrow key on a radio checks another one of its form; the click that the
\* browser reports has the input as its target, and event.click leaves it.
PressArrow ==
  /\ cursor # NoBox /\ group.radio /\ ~group.apart
  /\ \E b \in Boxes \ {cursor} :
       /\ ~boxes[b].disabled
       /\ boxes' = [Checks(boxes, b) EXCEPT ![cursor].shortcut = FALSE]
       /\ cursor' = b
  /\ byItself' = TRUE
  /\ UNCHANGED <<group, space>>

\* The form of an input is reset.
ResetForm ==
  /\ \E b \in Boxes :
       boxes' = [c \in Boxes |-> IF SameForm(b, c)
                   THEN [boxes[c] EXCEPT !.checked = c = 1 /\ group.initially = "checked"]
                   ELSE boxes[c]]
  /\ byItself' = TRUE
  /\ UNCHANGED <<group, cursor, space>>

Call ==
  /\ \E b \in Boxes, what \in Calls :
       boxes' = CASE what = "check"         -> Check(boxes, b, FALSE)
                  [] what = "uncheck"       -> Uncheck(boxes, b, FALSE)
                  [] what = "toggle"        -> Toggle(boxes, b)
                  [] what = "indeterminate" -> Indeterminate(boxes, b, FALSE)
                  [] what = "determinate"   -> Determinate(boxes, b, FALSE)
                  [] what = "enable"        -> SetDisabled(boxes, b, FALSE)
                  [] what = "disable"       -> SetDisabled(boxes, b, TRUE)
  /\ UNCHANGED <<group, cursor, space, byItself>>

BoxNext ==
  \/ ClickLabel \/ Tab \/ PressSpace \/ PressEnterKey \/ PressOther \/ PressEscape
  \/ ReleaseSpace \/ PressArrow \/ ResetForm \/ Call

BoxSpec == BoxInit /\ [][BoxNext]_boxVars

-----------------------------------------------------------------------------
(* Correctness.                                                            *)

(* What is shown of an input is what it is: after any clicks, keys and     *)
(* calls, as long as the browser changed none by itself, radios of one name*)
(* are in one form, and none was checked on the page already - those show  *)
(* it only when their callbacks are fired on the initial load.             *)
ShownAsItIs ==
  ~byItself /\ ~(group.radio /\ group.apart) /\ (group.initially = "checked" => group.fireOnInit) =>
    \A b \in Boxes : boxes[b].shown = boxes[b].checked

(* What a page was told last of a checkbox is true ("onChecked",           *)
(* "onUnchecked"); of a radio it hears only that it was checked.           *)
ToldIsTrue ==
  ~byItself /\ ~group.radio =>
    \A b \in Boxes : boxes[b].told # "nothing" => (boxes[b].told = "checked") = boxes[b].checked

(* What a checkbox shows and what it told the page is what its input is.   *)
BoxesAreTrue == ShownAsItIs /\ ToldIsTrue

=============================================================================
