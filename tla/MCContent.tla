------------------------------ MODULE MCContent ------------------------------
(***************************************************************************)
(* What a page is filled with: a form, fields with rules, two checkboxes or*)
(* radio buttons, elements whose visibility is followed, and a selection   *)
(* dropdown.  Each behaviour uses one of them; the others rest as they are *)
(* set up.                                                                 *)
(***************************************************************************)
EXTENDS ContentParts

CONSTANT Parts   \* what may be used

VARIABLES
  part,   \* what is used
  wanted, card, picked, rules, asked, threw,
  kind, d, left

MCSetups ==
  {[fields |-> {"name", "choice"}, choice |-> "dropdown", on |-> "submit", inline |-> TRUE],
   [fields |-> {"name", "choice"}, choice |-> "checkbox", on |-> "change", inline |-> TRUE],
   [fields |-> {"name", "repeat"}, choice |-> "dropdown", on |-> "blur", inline |-> FALSE],
   [fields |-> {"name", "repeat", "choice"}, choice |-> "dropdown", on |-> "change", inline |-> FALSE]}

MCUnionPay == [starts |-> {<<6, 2>>, <<8, 8>>}, lengths |-> {3}]
MCWanted   == {{}, {MCUnionPay}, {[starts |-> {<<4>>}, lengths |-> {2, 3}]}}

MCGroups ==
  {g \in [radio : BOOLEAN, apart : BOOLEAN, uncheckable : BOOLEAN, fireOnInit : BOOLEAN,
          refused : {{}, {2}}, initially : {"nothing", "checked", "mixed"}] :
     g.uncheckable = ~g.radio /\ (g.apart => g.radio)}

MCPages ==
  [kind : {<<"fixed", "plain">>}, throttle : BOOLEAN]
    \cup [kind : {<<"image", "image">>, <<"plain", "fixed">>}, throttle : {FALSE}]

ARule  == INSTANCE FormRules WITH
            UnionPay <- MCUnionPay, Wanted <- MCWanted, RuleNames <- {"empty", "email", "url"},
            MaxTyped <- 3, MaxPicked <- 3, MaxRules <- 3
AList  == INSTANCE SelectionDropdown WITH Letters <- <<"a", "a", "b">>, Limit <- 2, MaxQueued <- 0

ASSUME MCContentAssumption == AList!DropdownAssumption

RuleVars  == <<wanted, card, picked, rules, asked, threw>>
ListVars  == <<kind, d, left>>

vars == <<part, FormVars, RuleVars, BoxVars, SightVars, ListVars>>

-----------------------------------------------------------------------------

\* What rests is in one of its initial states.
Rests(ps, P) == part \notin ps => P

Init ==
  /\ part \in Parts
  /\ Rests({"form"}, setup = CHOOSE s \in MCSetups : TRUE)
  /\ AForm!Init
  /\ Rests({"card"}, wanted = {})
  /\ ARule!RulesInit
  /\ Rests({"box"}, group = CHOOSE g \in MCGroups : TRUE)
  /\ ABox!BoxInit
  /\ Rests({"sight"}, layout = [kind |-> <<"plain", "fixed">>, throttle |-> FALSE, scroll |-> 0,
                                screen |-> 1, size |-> [m \in ASight!Modules |-> 1]])
  /\ ASight!VisibilityInit
  /\ Rests({"list"}, kind = [multiple |-> FALSE, max |-> 0, default |-> AList!NoItem])
  /\ AList!Init

\* All that is not a step of this part stays as it is.
Others(p) ==
  /\ p # "form" => UNCHANGED FormVars
  /\ p \notin {"card", "rules"} => UNCHANGED RuleVars
  /\ p # "box" => UNCHANGED BoxVars
  /\ p # "sight" => UNCHANGED SightVars
  /\ p # "list" => UNCHANGED ListVars

Next ==
  /\ UNCHANGED part
  /\ Others(part)
  /\ \/ part = "form" /\ AForm!Next
     \/ part = "card" /\ ARule!TypeCharacter
     \/ part = "rules" /\ (ARule!Pick \/ ARule!EditRules)
     \/ part = "box" /\ ABox!BoxNext
     \/ part = "sight" /\ ASight!VisibilityNext
     \/ part = "list" /\ AList!Next

Spec == Init /\ [][Next]_vars

-----------------------------------------------------------------------------
(* The properties of the rules and the list; ContentParts has the others.  *)

\* form.js rules.creditCard, minCount, exactCount, maxCount: rules say what is so.
RulesSayTrue == ARule!RulesSayTrue
\* form.js remove.rule: what else the field has stays; most calls end in an error.
RuleEditsAreLocal == ARule!RuleEditsAreLocal

\* dropdown.js set.selected, remove.selected: value, list, labels and text agree.
ChoiceAgrees == AList!ChoiceAgrees
\* dropdown.js forceSelection: what is forced on who leaves answers what he typed.
ForcedChoiceAnswers == AList!ForcedChoiceAnswers
=============================================================================
