------------------------------ MODULE FormRules ------------------------------
(***************************************************************************)
(* The rules of a form's fields (behaviors/form.js): a card number checked *)
(* while it is typed, the number of values picked from a list, and the     *)
(* rules of a field while scripts add and remove some.                     *)
(***************************************************************************)
EXTENDS Naturals, SequencesExt

CONSTANTS
  UnionPay,    \* a kind of card: [starts, lengths]
  Wanted,      \* the sets of kinds a page may ask for; {} asks for any card
  RuleNames,   \* the rules a field may have
  MaxTyped,    \* bound: characters of a card number
  MaxPicked,   \* bound: values picked
  MaxRules     \* bound: rules of a field

VARIABLES
  wanted,   \* the kinds of card the page asks for
  card,     \* the characters typed
  picked,   \* how many values are picked
  rules,    \* the names of the field's rules
  asked,    \* the names remove.rule was last called with, {} after add.field - history
  threw     \* did that call end in an error? history, for a property

rulesVars == <<wanted, card, picked, rules, asked, threw>>

Digits == 0..9
Dash   == 10

-----------------------------------------------------------------------------
(* rules.creditCard.                                                       *)

OfKind(n, kind) == Len(n) \in kind.lengths /\ \E p \in kind.starts : IsPrefix(p, n)

(* Faulty variant: a doubled digit keeps only its last digit.              *)
ProducedLast(multiple, d) == IF multiple = 0 THEN d ELSE (2 * d) % 10

\* producedValue.
Produced(multiple, d) ==
  CASE multiple = 0              -> d
    [] multiple = 1 /\ 2 * d < 10 -> 2 * d
    [] OTHER                     -> 2 * d - 9

LuhnSum(n) ==
  FoldLeft(LAMBDA sum, i : sum + Produced((Len(n) - i) % 2, n[i]), 0, [i \in 1..Len(n) |-> i])

\* creditCard, of the characters without their dashes.
Accepts(kinds, n) ==
  /\ kinds = {} \/ \E kind \in kinds : OfKind(n, kind)
  /\ OfKind(n, UnionPay) \/ (LuhnSum(n) % 10 = 0 /\ LuhnSum(n) > 0)

CreditCard(kinds, typed) ==
  typed # <<>> /\ Accepts(kinds, SelectSeq(typed, LAMBDA c : c # Dash))

-----------------------------------------------------------------------------
(* rules.minCount, exactCount and maxCount, of so many values between      *)
(* commas; nothing picked is one empty value.                              *)

Pieces(n) == IF n = 0 THEN 1 ELSE n

MinCount(n, min) ==
  \/ min = 0
  \/ min = 1 /\ n # 0
  \/ min > 1 /\ Pieces(n) >= min

ExactCount(n, exact) ==
  \/ exact = 0 /\ n = 0
  \/ exact = 1 /\ n # 0 /\ Pieces(n) = 1
  \/ exact > 1 /\ Pieces(n) = exact

MaxCount(n, max) == max > 0 /\ Pieces(n) <= max

-----------------------------------------------------------------------------
(* remove.rule walks over the places the field's rules had, while it       *)
(* shortens them: a place behind the shortened list holds nothing, whose   *)
(* type cannot be read.  The error ends the walk, and the call.            *)

(* Faulty variant: all the rules from this one on are cut off.            *)
SplicedRest(names, i) == SubSeq(names, 1, i - 1)

Spliced(names, i) == RemoveAt(names, i)

Walked(gone, walk, i) ==
  CASE walk.threw               -> walk
    [] i > Len(walk.left)       -> [walk EXCEPT !.threw = TRUE]
    [] walk.left[i] \in gone    -> [walk EXCEPT !.left = Spliced(@, i)]
    [] OTHER                    -> walk

Removed(names, gone) ==
  FoldLeft(LAMBDA walk, i : Walked(gone, walk, i), [left |-> names, threw |-> FALSE],
           [i \in 1..Len(names) |-> i])

-----------------------------------------------------------------------------
(* What happens.                                                           *)

RulesInit ==
  /\ wanted \in Wanted /\ card = <<>> /\ picked = 0 /\ rules = <<>>
  /\ asked = {} /\ threw = FALSE

TypeCharacter ==
  /\ Len(card) < MaxTyped
  /\ \E c \in Digits \cup {Dash} : card' = Append(card, c)
  /\ UNCHANGED <<wanted, picked, rules, asked, threw>>

Pick ==
  /\ picked' \in {picked - 1, picked + 1} \cap (0..MaxPicked)
  /\ UNCHANGED <<wanted, card, rules, asked, threw>>

\* add.field, add.rule: they replace what the field had.
AddField ==
  /\ \E names \in SeqOf(RuleNames, MaxRules) : rules' = names
  /\ asked' = {} /\ threw' = FALSE
  /\ UNCHANGED <<wanted, card, picked>>

RemoveRule ==
  /\ \E gone \in SUBSET RuleNames \ {{}} :
       LET walk == Removed(rules, gone)
       IN  rules' = walk.left /\ threw' = walk.threw /\ asked' = gone
  /\ UNCHANGED <<wanted, card, picked>>

\* remove.field.
RemoveField ==
  rules' = <<>> /\ asked' = {} /\ threw' = FALSE /\ UNCHANGED <<wanted, card, picked>>

EditRules == AddField \/ RemoveRule \/ RemoveField
RulesNext == TypeCharacter \/ Pick \/ EditRules
RulesSpec == RulesInit /\ [][RulesNext]_rulesVars

-----------------------------------------------------------------------------
(* Correctness.                                                            *)

Mistyped(n) ==
  {m \in {[n EXCEPT ![i] = d] : i \in DOMAIN n, d \in Digits} : m # n}
    \cup {s \in {[n EXCEPT ![i] = n[i + 1], ![i + 1] = n[i]] : i \in 1..(Len(n) - 1)} :
            s # n /\ \A i \in DOMAIN n : {n[i], s[i]} # {0, 9}}

(* A card number that is accepted is refused with any one digit wrong, or  *)
(* with any two neighbours swapped unless they are 0 and 9: the check      *)
(* digit's purpose.  A number that is then a UnionPay one is not checked.  *)
MistypedIsRefused ==
  LET n == SelectSeq(card, LAMBDA c : c # Dash)
  IN  n # <<>> /\ ~OfKind(n, UnionPay) /\ CreditCard(wanted, card) =>
        \A m \in Mistyped(n) : OfKind(m, UnionPay) \/ ~CreditCard(wanted, m)

(* The three rules agree on how many values are picked, nothing picked     *)
(* included, for every count but one: at most none is refused even of a    *)
(* field with nothing picked, which is at least and exactly none.          *)
CountsAgree ==
  \A n \in 0..MaxPicked :
    /\ MinCount(picked, n) = (picked >= n)
    /\ ExactCount(picked, n) = (picked = n)
    /\ MaxCount(picked, n) = (n > 0 /\ picked <= n)

(* What the rules say of a card number and of a choice of several is true. *)
RulesSayTrue == MistypedIsRefused /\ CountsAgree

(* remove.rule removes no rule it was not asked to, in whatever order the  *)
(* field has them, although the list shrinks under its walk; and a rule    *)
(* that the field has once is gone when it alone is asked for.  (Asked for *)
(* several, it passes over the one after each it finds.)                   *)
OthersKept == asked' # {} =>
  SelectSeq(rules', LAMBDA r : r \notin asked') = SelectSeq(rules, LAMBDA r : r \notin asked')

OneIsGone ==
  \A r \in RuleNames :
    asked' = {r} /\ Cardinality({i \in DOMAIN rules : rules[i] = r}) = 1 =>
      \A i \in DOMAIN rules' : rules'[i] # r

(* It ends in an error exactly when a rule it is asked to remove stood     *)
(* before the last one: what it has removed by then is gone all the same.  *)
ThrowsUnlessLast ==
  threw' = \E i \in 1..(Len(rules) - 1) : rules[i] \in asked'

RuleEditsAreLocal == [][OthersKept /\ OneIsGone /\ ThrowsUnlessLast]_<<rules, asked, threw>>

=============================================================================
