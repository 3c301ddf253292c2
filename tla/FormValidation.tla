--------------------------- MODULE FormValidation ---------------------------
(***************************************************************************)
(* A form of Semantic UI that validates its fields (behaviors/form.js),    *)
(* some of: a text field that must have a value, one that must repeat it   *)
(* and depends on it, and a choice - a checkbox, or the hidden input of a  *)
(* dropdown - that must be made. Fields are validated when the form is     *)
(* submitted, when one is left, and, by one timer for all of them, after a *)
(* change.                                                                 *)
(*                                                                         *)
(* An event runs to its end before the next. The page handles a valid      *)
(* submission by itself (onSuccess stops the browser's), so the form       *)
(* stays.                                                                  *)
(***************************************************************************)
EXTENDS Naturals, FiniteSets

CONSTANTS
  Words,       \* what a user may type in a text field
  Setups,      \* forms: [fields, choice, on, inline]
  MaxProgram   \* bound: how often the page sets a value or sets up the form anew

VARIABLES
  setup,       \* this form's fields, the kind of its choice, its settings
  form,        \* the form and its module
  focus,       \* the field that has the focus
  outdated,    \* fields whose error may be outdated: history, for a property
  submitted,   \* was the form ever submitted? history, for a property
  programs     \* how often the page interfered

vars == <<setup, form, focus, outdated, submitted, programs>>

Texts   == {"name", "repeat"}
Fields  == Texts \cup {"choice"}
Present == setup.fields
NoField == "nothing"
Blank   == ""
Chosen  == "chosen"

FormAssumption ==
  Setups \subseteq [fields : SUBSET Fields, choice : {"checkbox", "dropdown"},
                    on : {"submit", "blur", "change"}, inline : BOOLEAN]

\* The hidden input of a dropdown never has the focus; it has only changes.
Focusable   == Present \cap (IF setup.choice = "checkbox" THEN Fields ELSE Texts)
ValuesOf(f) == {Blank} \cup (IF f \in Texts THEN Words ELSE {Chosen})

-----------------------------------------------------------------------------
(* Validation of a field.                                                  *)

\* validate.field up to its effects, with the rules empty, match and checked;
\* a field that depends on an empty one, or is not there, is not validated.
IsValid(v, f) ==
  IF f \notin Present THEN TRUE
  ELSE IF f = "repeat" THEN v.values["name"] = Blank \/ v.values["repeat"] = v.values["name"]
  ELSE v.values[f] # Blank

AddPrompt(v, f) ==
  [v EXCEPT !.error = @ \cup {f},
            !.prompt[f] = IF setup.inline /\ @ = "none" THEN "appearing" ELSE @]

RemovePrompt(v, f) ==
  [v EXCEPT !.error = @ \ {f},
            !.prompt[f] = CASE @ = "shown"     -> "going"
                            [] @ = "appearing" -> "appearing to go"
                            [] OTHER           -> @]

ValidateField(v, f) == IF IsValid(v, f) THEN RemovePrompt(v, f) ELSE AddPrompt(v, f)

ValidateAll(v) ==
  ValidateField(ValidateField(ValidateField(v, "name"), "repeat"), "choice")

-----------------------------------------------------------------------------
(* The handlers of a field.                                                *)

(* Faulty variant: only the setting decides, not the error.                *)
FieldBlurBySetting(v, f) ==
  IF setup.on \in {"blur", "change"} THEN ValidateField(v, f) ELSE v

\* event.field.blur.
FieldBlur(v, f) ==
  IF f \in v.error \/ setup.on \in {"blur", "change"} THEN ValidateField(v, f) ELSE v

\* event.field.change: the timer of one field takes the place of another's.
FieldChange(v, f) ==
  IF setup.on = "change" \/ f \in v.error THEN [v EXCEPT !.timer = f] ELSE v

\* The change event of a checkbox or of a dropdown's input follows its value.
ChangeTo(v, f, w) ==
  IF v.values[f] = w THEN v ELSE FieldChange([v EXCEPT !.values[f] = w], f)

\* validate.form, once more by the browser while Enter is down: returns at once.
ValidateForm(v) ==
  IF v.held THEN v
  ELSE [ValidateAll(v) EXCEPT
          !.class = IF \A f \in Fields : IsValid(v, f) THEN "success" ELSE "error"]

\* event.field.keydown, for Enter in a text field.
KeyDown(v, f) ==
  IF v.held THEN v ELSE [ValidateForm(v) EXCEPT !.held = TRUE, !.keyup = @ \cup {f}]

KeyUp(v, f) == [v EXCEPT !.held = FALSE, !.keyup = @ \ {f}]

ForgetError(v, f) ==
  IF f \in v.error THEN [v EXCEPT !.error = @ \ {f}, !.prompt[f] = "none"] ELSE v

\* clear and reset, of one field: the error first, then the value - of a
\* dropdown, with its change event.
FieldTo(v, f, w) ==
  IF f \notin Present THEN v
  ELSE IF f = "choice" /\ setup.choice = "dropdown"
  THEN ChangeTo(ForgetError(v, f), f, w)
  ELSE [ForgetError(v, f) EXCEPT !.values[f] = w]

AllTo(v, values) ==
  FieldTo(FieldTo(FieldTo(v, "name", values["name"]), "repeat", values["repeat"]),
          "choice", values["choice"])

Clear(v) == AllTo(v, [f \in Fields |-> Blank])

\* A dropdown goes back to its own default, of when it was set up; the page sets
\* the form up anew, not the dropdown.
Reset(v) ==
  AllTo(v, [v.defaults EXCEPT !["choice"] = IF setup.choice = "dropdown" THEN Blank ELSE @])

\* initialize, of a form that has a module: the old one loses its handlers,
\* never its timer, and what the form holds is what it resets to.
SetUp(v) ==
  [v EXCEPT !.defaults = v.values, !.timer = NoField, !.held = FALSE, !.keyup = {},
            !.old = @ \cup ({v.timer} \ {NoField})]

-----------------------------------------------------------------------------
(* What happens.                                                           *)

Init ==
  /\ setup \in Setups
  /\ form = [values |-> [f \in Fields |-> Blank], defaults |-> [f \in Fields |-> Blank],
             error |-> {}, prompt |-> [f \in Fields |-> "none"], class |-> "none",
             timer |-> NoField, old |-> {}, held |-> FALSE, keyup |-> {}]
  /\ focus = NoField
  /\ outdated = {} /\ submitted = FALSE /\ programs = 0

\* Fields whose error is judged again are up to date; one that depends on a
\* changed one is not.
Follows(f) == IF f = "name" THEN {"repeat"} ELSE {}

Focus ==
  /\ focus = NoField
  /\ \E f \in Focusable : focus' = f
  /\ UNCHANGED <<setup, form, outdated, submitted, programs>>

\* By Tab, a click elsewhere, or Escape, which blurs the field.
Leave ==
  /\ focus # NoField
  /\ form' = FieldBlur(form, focus)
  /\ focus' = NoField
  /\ outdated' = outdated \ {focus}
  /\ UNCHANGED <<setup, submitted, programs>>

\* The user types, or ticks the checkbox.
Enter ==
  /\ focus # NoField
  /\ \E w \in ValuesOf(focus) \ {form.values[focus]} :
       form' = FieldChange([form EXCEPT !.values[focus] = w], focus)
  /\ outdated' = outdated \cup Follows(focus)
  /\ UNCHANGED <<setup, focus, submitted, programs>>

\* The user picks an item of the dropdown.
Pick ==
  /\ "choice" \in Present \ Focusable /\ focus = NoField
  /\ form' = ChangeTo(form, "choice", Chosen)
  /\ form' # form
  /\ UNCHANGED <<setup, focus, outdated, submitted, programs>>

PressEnter ==
  /\ focus \in Texts
  /\ form' = KeyDown(form, focus)
  /\ submitted' = TRUE
  /\ outdated' = IF form.held THEN outdated ELSE {}
  /\ UNCHANGED <<setup, focus, programs>>

\* A key is released in a field; released elsewhere, nobody listens.
ReleaseKey ==
  /\ focus \in form.keyup
  /\ form' = KeyUp(form, focus)
  /\ UNCHANGED <<setup, focus, outdated, submitted, programs>>

ClickSubmit ==
  /\ focus = NoField
  /\ form' = ValidateForm(form)
  /\ submitted' = TRUE
  /\ outdated' = IF form.held THEN outdated ELSE {}
  /\ UNCHANGED <<setup, focus, programs>>

ClickClear ==
  /\ focus = NoField
  /\ form' = Clear(form)
  /\ UNCHANGED <<setup, focus, outdated, submitted, programs>>

ClickReset ==
  /\ focus = NoField
  /\ form' = Reset(form)
  /\ UNCHANGED <<setup, focus, outdated, submitted, programs>>

\* set.values by the page: a text field's value changes without any event.
SetValue ==
  /\ programs < MaxProgram
  /\ \E f \in Present : \E w \in ValuesOf(f) \ {form.values[f]} :
       /\ form' = IF f \in Texts THEN [form EXCEPT !.values[f] = w] ELSE ChangeTo(form, f, w)
       /\ outdated' = outdated \cup {f} \cup Follows(f)
  /\ programs' = programs + 1
  /\ UNCHANGED <<setup, focus, submitted>>

SetUpAnew ==
  /\ programs < MaxProgram
  /\ form' = SetUp(form)
  /\ programs' = programs + 1
  /\ UNCHANGED <<setup, focus, outdated, submitted>>

Timer ==
  /\ form.timer # NoField
  /\ form' = [ValidateField(form, form.timer) EXCEPT !.timer = NoField]
  /\ outdated' = outdated \ {form.timer}
  /\ UNCHANGED <<setup, focus, submitted, programs>>

OldTimer ==
  \E f \in form.old :
    /\ form' = [ValidateField(form, f) EXCEPT !.old = @ \ {f}]
    /\ outdated' = outdated \ {f}
    /\ UNCHANGED <<setup, focus, submitted, programs>>

\* The animation of a prompt ends; one that went is removed.
PromptMoves(f) ==
  /\ form.prompt[f] \in {"appearing", "appearing to go", "going"}
  /\ form' = [form EXCEPT !.prompt[f] = CASE @ = "appearing"       -> "shown"
                                          [] @ = "appearing to go" -> "going"
                                          [] @ = "going"           -> "none"]
  /\ UNCHANGED <<setup, focus, outdated, submitted, programs>>

Next ==
  \/ Focus \/ Leave \/ Enter \/ Pick \/ PressEnter \/ ReleaseKey
  \/ ClickSubmit \/ ClickClear \/ ClickReset
  \/ SetValue \/ SetUpAnew
  \/ Timer \/ OldTimer
  \/ \E f \in Fields : PromptMoves(f)

Spec == Init /\ [][Next]_vars

-----------------------------------------------------------------------------
(* Correctness.                                                            *)

(* A text field that the user has left shows an error only when it has one *)
(* - whatever timers ran, were replaced, or outlived their module - unless *)
(* the page set its value or the field it depends on was changed (the      *)
(* library sends no event then, and revalidates neither).                  *)
LeftErrorIsTrue ==
  \A f \in Texts \ ({focus} \cup outdated) : f \in form.error => ~IsValid(form, f)

(* A prompt stands only in a field with an error; any other one is on its  *)
(* way out (validation, clear and reset, in the midst of its animation).   *)
PromptMeansError ==
  \A f \in Fields : form.prompt[f] \in {"appearing", "shown"} => f \in form.error

(* A form that is to be validated on submission complains of nothing before*)
(* it, whatever is typed, left, cleared, or set by the page.               *)
QuietBeforeSubmit == setup.on = "submit" /\ ~submitted => form.error = {}

(* What the form says of its fields, by colour and by prompt, is true.     *)
ErrorsAreTrue == LeftErrorIsTrue /\ PromptMeansError /\ QuietBeforeSubmit

=============================================================================
