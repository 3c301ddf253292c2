---------------------------- MODULE ContentParts ----------------------------
(***************************************************************************)
(* Parts of what a page is filled with, side by side and independent of    *)
(* each other: a form, two checkboxes or radio buttons, elements whose     *)
(* visibility is followed.                                                 *)
(***************************************************************************)
EXTENDS Integers

CONSTANTS
  Words, Setups, MaxProgram,            \* of FormValidation
  BoxGroups,                            \* of Checkbox
  Pages, MaxScroll, Screens, MaxTurns   \* of Visibility

VARIABLES
  setup, form, focus, outdated, submitted, programs,
  group, boxes, cursor, space, byItself,
  layout, followers, publisher, frames, timers, images, turns

AForm  == INSTANCE FormValidation
ABox   == INSTANCE Checkbox
ASight == INSTANCE Visibility

ASSUME ContentAssumption ==
  /\ AForm!FormAssumption
  /\ ABox!BoxAssumption
  /\ ASight!VisibilityAssumption

FormVars  == <<setup, form, focus, outdated, submitted, programs>>
BoxVars   == <<group, boxes, cursor, space, byItself>>
SightVars == <<layout, followers, publisher, frames, timers, images, turns>>

-----------------------------------------------------------------------------
(* The properties of each part.                                            *)

\* form.js event.field, add.prompt: a form shows the errors there are, where they are.
ErrorsAreTrue == AForm!ErrorsAreTrue

\* checkbox.js set, uncheck: class and callbacks follow the input.
BoxesAreTrue == ABox!BoxesAreTrue

\* visibility.js: class, callbacks and images follow the screen.
FollowedTruly == ASight!FollowedTruly

=============================================================================
