--------------------------- MODULE ContentProofs ---------------------------
(***************************************************************************)
(* Theorems about parts of what a page is filled with, each by itself:     *)
(* checkboxes, a form, elements whose visibility is followed.              *)
(***************************************************************************)
EXTENDS ContentParts, FiniteSetTheorems, TLAPS

-----------------------------------------------------------------------------
(* Checkboxes and radio buttons.                                           *)

Groups ==
  [radio : BOOLEAN, apart : BOOLEAN, uncheckable : BOOLEAN, fireOnInit : BOOLEAN,
   refused : SUBSET ABox!Boxes, initially : {"nothing", "checked", "mixed"}]

OneBox ==
  [checked : BOOLEAN, mixed : BOOLEAN, disabled : BOOLEAN, shown : BOOLEAN,
   shownMixed : BOOLEAN, told : {"nothing", "checked", "unchecked"}, shortcut : BOOLEAN]

BoxPairs == [ABox!Boxes -> OneBox]

BoxTypeOK ==
  /\ group \in Groups
  /\ boxes \in BoxPairs
  /\ cursor \in ABox!Boxes \cup {ABox!NoBox} /\ space \in ABox!Boxes \cup {ABox!NoBox}
  /\ byItself \in BOOLEAN

(* What is shown and told of the inputs, as it is while the browser changes *)
(* none by itself.                                                         *)
ShownIs(s) ==
  ~(group.radio /\ group.apart) /\ (group.initially = "checked" => group.fireOnInit) =>
    \A b \in ABox!Boxes : s[b].shown = s[b].checked

ToldIs(s) ==
  ~group.radio =>
    \A b \in ABox!Boxes :
      /\ s[b].told = "checked" => s[b].checked = TRUE
      /\ s[b].told = "unchecked" => s[b].checked = FALSE

IsTrue(s) == ShownIs(s) /\ ToldIs(s)

BoxInv == BoxTypeOK /\ (byItself \/ IsTrue(boxes))

LEMMA BoxInvTrue == BoxInv => BoxesAreTrue
<1>1. SUFFICES ASSUME BoxInv PROVE BoxesAreTrue
  OBVIOUS
<1>2. ABox!ShownAsItIs
  BY <1>1 DEF BoxInv, IsTrue, ShownIs, ABox!ShownAsItIs
<1>3. ABox!ToldIsTrue
  <2>1. \A b \in ABox!Boxes : boxes[b].told \in {"nothing", "checked", "unchecked"}
    BY <1>1 DEF BoxInv, BoxTypeOK, BoxPairs, OneBox
  <2>2. QED
    BY <2>1, <1>1 DEF BoxInv, IsTrue, ToldIs, ABox!ToldIsTrue
<1>4. QED
  BY <1>2, <1>3 DEF BoxesAreTrue, ABox!BoxesAreTrue

(* What the browser does to the input b, and to the other one.             *)
IsChecks(s, b, r) ==
  /\ r \in BoxPairs
  /\ r[b] = [s[b] EXCEPT !.checked = TRUE]
  /\ \A c \in ABox!Boxes \ {b} :
       r[c] = IF group.radio /\ ABox!SameForm(b, c) THEN [s[c] EXCEPT !.checked = FALSE]
              ELSE s[c]

LEMMA ChecksTyped ==
    ASSUME group \in Groups, NEW s \in BoxPairs, NEW b \in ABox!Boxes
    PROVE  IsChecks(s, b, ABox!Checks(s, b))
BY DEF IsChecks, ABox!Checks, BoxPairs, OneBox

LEMMA UncheckOthersTyped ==
    ASSUME NEW s \in BoxPairs, NEW b \in ABox!Boxes
    PROVE  /\ ABox!UncheckOthers(s, b) \in BoxPairs
           /\ ABox!UncheckOthers(s, b)[b] = s[b]
           /\ \A c \in ABox!Boxes \ {b} :
                ABox!UncheckOthers(s, b)[c] = [s[c] EXCEPT !.shown = FALSE]
BY DEF ABox!UncheckOthers, BoxPairs, OneBox

(* What set.checked does to the input b, and to the other one.             *)
IsSetChecked(s, b, r) ==
  /\ r \in BoxPairs
  /\ r[b].shown = TRUE /\ r[b].checked = TRUE /\ r[b].told = s[b].told
  /\ \A c \in ABox!Boxes \ {b} :
       /\ r[c].told = s[c].told
       /\ ~group.radio => r[c] = s[c]
       /\ group.radio => r[c].shown = FALSE
       /\ IF s[b].mixed \/ ~s[b].checked
          THEN group.radio /\ ~group.apart => r[c].checked = FALSE
          ELSE r[c].checked = s[c].checked

LEMMA SetCheckedFacts ==
    ASSUME group \in Groups, NEW s \in BoxPairs, NEW b \in ABox!Boxes,
           NEW r, r = ABox!SetChecked(s, b)
    PROVE  IsSetChecked(s, b, r)
<1> DEFINE marked == [s EXCEPT ![b].shown = TRUE, ![b].shownMixed = FALSE]
           alone  == IF group.radio THEN ABox!UncheckOthers(marked, b) ELSE marked
           clear  == [alone EXCEPT ![b].mixed = FALSE]
<1>1. /\ marked \in BoxPairs
      /\ marked[b] = [s[b] EXCEPT !.shown = TRUE, !.shownMixed = FALSE]
      /\ \A c \in ABox!Boxes \ {b} : marked[c] = s[c]
  BY DEF BoxPairs, OneBox
<1> HIDE DEF marked
<1>2. /\ alone \in BoxPairs /\ alone[b] = marked[b]
      /\ \A c \in ABox!Boxes \ {b} :
           alone[c] = IF group.radio THEN [s[c] EXCEPT !.shown = FALSE] ELSE s[c]
  <2>1. CASE group.radio
    BY <2>1, <1>1, UncheckOthersTyped
  <2>2. CASE ~group.radio
    BY <2>2, <1>1
  <2>3. QED
    BY <2>1, <2>2
<1> HIDE DEF alone
<1>3. /\ clear \in BoxPairs
      /\ clear[b] = [alone[b] EXCEPT !.mixed = FALSE]
      /\ \A c \in ABox!Boxes \ {b} : clear[c] = alone[c]
  BY <1>2 DEF BoxPairs, OneBox
<1>4. r = IF ~s[b].mixed /\ s[b].checked THEN alone ELSE ABox!Checks(clear, b)
  BY DEF ABox!SetChecked, marked, alone
<1> HIDE DEF clear
<1>5. CASE ~s[b].mixed /\ s[b].checked
  <2>1. r = alone
    BY <1>4, <1>5
  <2>2. s[b].checked = TRUE /\ ~(s[b].mixed \/ ~s[b].checked)
    BY <1>5 DEF BoxPairs, OneBox
  <2>3. \A c \in ABox!Boxes : s[c] \in OneBox /\ marked[c] \in OneBox /\ alone[c] \in OneBox
    BY <1>1, <1>2 DEF BoxPairs
  <2>4. r \in BoxPairs /\ r[b].shown = TRUE /\ r[b].checked = TRUE /\ r[b].told = s[b].told
    BY <2>1, <2>2, <2>3, <1>1, <1>2 DEF OneBox
  <2>5. ASSUME NEW c \in ABox!Boxes \ {b}
        PROVE  /\ r[c].told = s[c].told
               /\ ~group.radio => r[c] = s[c]
               /\ group.radio => r[c].shown = FALSE
               /\ r[c].checked = s[c].checked
    <3>1. CASE group.radio
      <4>1. r[c] = [s[c] EXCEPT !.shown = FALSE] /\ s[c] \in OneBox
        BY <3>1, <2>1, <2>3, <1>2
      <4>2. QED
        BY <3>1, <4>1 DEF OneBox
    <3>2. CASE ~group.radio
      BY <3>2, <2>1, <1>2
    <3>3. QED
      BY <3>1, <3>2
  <2>6. QED
    BY <2>2, <2>4, <2>5 DEF IsSetChecked
<1>6. CASE ~(~s[b].mixed /\ s[b].checked)
  <2>1. r = ABox!Checks(clear, b)
    BY <1>4, <1>6
  <2>2. IsChecks(clear, b, r)
    BY <2>1, <1>3, ChecksTyped
  <2>3. \A c \in ABox!Boxes :
          s[c] \in OneBox /\ marked[c] \in OneBox /\ alone[c] \in OneBox /\ clear[c] \in OneBox
    BY <1>1, <1>2, <1>3 DEF BoxPairs
  <2>4. r \in BoxPairs /\ r[b].shown = TRUE /\ r[b].checked = TRUE /\ r[b].told = s[b].told
    BY <2>2, <2>3, <1>1, <1>2, <1>3 DEF IsChecks, OneBox
  <2>5. ASSUME NEW c \in ABox!Boxes \ {b}
        PROVE  /\ r[c].told = s[c].told
               /\ ~group.radio => r[c] = s[c]
               /\ group.radio => r[c].shown = FALSE
               /\ group.radio /\ ~group.apart => r[c].checked = FALSE
    <3>1. clear[c] = IF group.radio THEN [s[c] EXCEPT !.shown = FALSE] ELSE s[c]
      BY <1>2, <1>3
    <3>2. r[c] = IF group.radio /\ ABox!SameForm(b, c) THEN [clear[c] EXCEPT !.checked = FALSE]
                 ELSE clear[c]
      BY <2>2 DEF IsChecks
    <3>3. CASE group.radio
      BY <3>1, <3>2, <3>3, <2>3 DEF ABox!SameForm, OneBox
    <3>4. CASE ~group.radio
      BY <3>1, <3>2, <3>4
    <3>5. QED
      BY <3>3, <3>4
  <2>6. s[b].mixed \/ ~s[b].checked
    BY <1>6
  <2>7. QED
    BY <2>4, <2>5, <2>6 DEF IsSetChecked
<1>7. QED
  BY <1>5, <1>6

(* Calls, clicks and keys that change an input do what they say of it.     *)
LEMMA CheckKeeps ==
    ASSUME group \in Groups, NEW s \in BoxPairs, NEW b \in ABox!Boxes,
           NEW r, r = ABox!Check(s, b, FALSE)
    PROVE  r \in BoxPairs /\ (IsTrue(s) => IsTrue(r))
<1>1. PICK set : set = ABox!SetChecked(s, b)
  OBVIOUS
<1>2. r = IF (s[b].mixed \/ ~s[b].checked) /\ b \notin group.refused
          THEN [set EXCEPT ![b].told = "checked"] ELSE s
  BY <1>1 DEF ABox!Check, ABox!AllowCheck, ABox!Forced, ABox!Told, ABox!Ignored
<1>3. CASE ~((s[b].mixed \/ ~s[b].checked) /\ b \notin group.refused)
  BY <1>2, <1>3
<1>4. CASE (s[b].mixed \/ ~s[b].checked) /\ b \notin group.refused
  <2>1. IsSetChecked(s, b, set)
    BY <1>1, SetCheckedFacts
  <2>2. r = [set EXCEPT ![b].told = "checked"] /\ set \in BoxPairs
    BY <1>2, <1>4, <2>1 DEF IsSetChecked
  <2>3. /\ r \in BoxPairs
        /\ r[b].shown = set[b].shown /\ r[b].checked = set[b].checked
        /\ r[b].told = "checked"
        /\ \A c \in ABox!Boxes \ {b} : r[c] = set[c]
    BY <2>2 DEF BoxPairs, OneBox
  <2>4. /\ r[b].shown = TRUE /\ r[b].checked = TRUE
        /\ \A c \in ABox!Boxes \ {b} :
             /\ ~group.radio => r[c] = s[c]
             /\ group.radio => r[c].shown = FALSE
             /\ group.radio /\ ~group.apart => r[c].checked = FALSE
    BY <1>4, <2>1, <2>3 DEF IsSetChecked
  <2>5. IsTrue(s) => ShownIs(r)
    BY <2>4 DEF IsTrue, ShownIs, Groups
  <2>6. IsTrue(s) => ToldIs(r)
    BY <2>3, <2>4 DEF IsTrue, ToldIs, Groups
  <2>7. QED
    BY <2>3, <2>5, <2>6 DEF IsTrue
<1>5. QED
  BY <1>3, <1>4

IsSetUnchecked(s, b, what, r) ==
  /\ r \in BoxPairs
  /\ r[b].shown = FALSE /\ r[b].checked = FALSE /\ r[b].told = what
  /\ \A c \in ABox!Boxes \ {b} : r[c] = s[c]

LEMMA SetUncheckedFacts ==
    ASSUME NEW s \in BoxPairs, NEW b \in ABox!Boxes
    PROVE  IsSetUnchecked(s, b, "unchecked", [ABox!SetUnchecked(s, b) EXCEPT ![b].told = "unchecked"])
<1>1. PICK u : u = ABox!SetUnchecked(s, b)
  OBVIOUS
<1> DEFINE x == [s[b] EXCEPT !.shown = FALSE, !.shownMixed = FALSE, !.checked = FALSE,
                             !.mixed = FALSE]
<1>2. s[b] \in OneBox /\ x \in OneBox /\ x.shown = FALSE /\ x.checked = FALSE
  BY DEF BoxPairs, OneBox
<1>3. u = [s EXCEPT ![b] = x]
  BY <1>1 DEF ABox!SetUnchecked, BoxPairs
<1> HIDE DEF x
<1>4. /\ u \in BoxPairs
      /\ u[b].shown = FALSE /\ u[b].checked = FALSE
      /\ \A c \in ABox!Boxes \ {b} : u[c] = s[c]
  BY <1>2, <1>3 DEF BoxPairs
<1>5. PICK r : r = [u EXCEPT ![b].told = "unchecked"]
  OBVIOUS
<1>6. /\ r \in BoxPairs
      /\ r[b].shown = u[b].shown /\ r[b].checked = u[b].checked /\ r[b].told = "unchecked"
      /\ \A c \in ABox!Boxes \ {b} : r[c] = u[c]
  BY <1>4, <1>5 DEF BoxPairs, OneBox
<1>7. IsSetUnchecked(s, b, "unchecked", r)
  BY <1>4, <1>6 DEF IsSetUnchecked
<1>8. QED
  BY <1>1, <1>5, <1>7

LEMMA UncheckKeeps ==
    ASSUME group \in Groups, NEW s \in BoxPairs, NEW b \in ABox!Boxes,
           NEW initial \in BOOLEAN, initial => ~s[b].mixed /\ ~s[b].checked,
           NEW r, r = ABox!Uncheck(s, b, initial)
    PROVE  /\ r \in BoxPairs /\ (IsTrue(s) => IsTrue(r))
           /\ \A c \in ABox!Boxes \ {b} : r[c] = s[c]
<1>1. CASE ~ABox!AllowUncheck(s, b, initial)
  BY <1>1 DEF ABox!Uncheck
<1>2. CASE ABox!AllowUncheck(s, b, initial)
  <2>1. ~ABox!Ignored(initial)
    BY <1>2 DEF ABox!AllowUncheck, ABox!Forced, ABox!Ignored
  <2>2. r = [ABox!SetUnchecked(s, b) EXCEPT ![b].told = "unchecked"]
    BY <1>2, <2>1 DEF ABox!Uncheck, ABox!Told
  <2>3. /\ r \in BoxPairs
        /\ r[b].shown = FALSE /\ r[b].checked = FALSE /\ r[b].told = "unchecked"
        /\ \A c \in ABox!Boxes \ {b} : r[c] = s[c]
    <3>1. IsSetUnchecked(s, b, "unchecked", r)
      BY <2>2, SetUncheckedFacts
    <3>2. QED
      BY <3>1 DEF IsSetUnchecked
  <2>4. IsTrue(s) => ShownIs(r)
    BY <2>3 DEF IsTrue, ShownIs
  <2>5. IsTrue(s) => ToldIs(r)
    BY <2>3 DEF IsTrue, ToldIs
  <2>6. QED
    BY <2>3, <2>4, <2>5 DEF IsTrue
<1>3. QED
  BY <1>1, <1>2

(* Indeterminate, determinate, disabled, the shortcut: none is about what  *)
(* an input is shown as.                                                   *)
AreAlike(s, r) ==
  \A c \in ABox!Boxes :
    r[c].shown = s[c].shown /\ r[c].checked = s[c].checked /\ r[c].told = s[c].told

LEMMA AlikeKeeps ==
    ASSUME NEW s \in BoxPairs, NEW r \in BoxPairs, AreAlike(s, r)
    PROVE  IsTrue(s) => IsTrue(r)
BY DEF AreAlike, IsTrue, ShownIs, ToldIs

LEMMA IndeterminateAlike ==
    ASSUME NEW s \in BoxPairs, NEW b \in ABox!Boxes, NEW initial \in BOOLEAN,
           NEW r, r = ABox!Indeterminate(s, b, initial)
    PROVE  r \in BoxPairs /\ AreAlike(s, r)
BY DEF ABox!Indeterminate, ABox!SetIndeterminate, BoxPairs, OneBox, AreAlike

LEMMA DeterminateAlike ==
    ASSUME NEW s \in BoxPairs, NEW b \in ABox!Boxes, NEW initial \in BOOLEAN,
           NEW r, r = ABox!Determinate(s, b, initial)
    PROVE  r \in BoxPairs /\ AreAlike(s, r)
BY DEF ABox!Determinate, ABox!SetDeterminate, BoxPairs, OneBox, AreAlike

LEMMA DisabledAlike ==
    ASSUME NEW s \in BoxPairs, NEW b \in ABox!Boxes, NEW on \in BOOLEAN,
           NEW r, r = ABox!SetDisabled(s, b, on)
    PROVE  r \in BoxPairs /\ AreAlike(s, r)
BY DEF ABox!SetDisabled, BoxPairs, OneBox, AreAlike

LEMMA ShortcutAlike ==
    ASSUME NEW s \in BoxPairs, NEW b \in ABox!Boxes, NEW on \in BOOLEAN,
           NEW r, r = [s EXCEPT ![b].shortcut = on]
    PROVE  r \in BoxPairs /\ AreAlike(s, r)
BY DEF BoxPairs, OneBox, AreAlike

LEMMA ToggleKeeps ==
    ASSUME group \in Groups, NEW s \in BoxPairs, NEW b \in ABox!Boxes,
           NEW r, r = ABox!Toggle(s, b)
    PROVE  r \in BoxPairs /\ (IsTrue(s) => IsTrue(r))
<1>1. r \in {s, ABox!Check(s, b, FALSE), ABox!Uncheck(s, b, FALSE)}
  BY DEF ABox!Toggle
<1>2. QED
  BY <1>1, CheckKeeps, UncheckKeeps

(* A page as it is set up: what is shown is what the page has, or, of what *)
(* it has checked, nothing unless its callbacks are fired.                 *)
LEMMA SetUpOther ==
    ASSUME group \in Groups, NEW s \in BoxPairs, NEW b \in ABox!Boxes,
           s[b].mixed \/ ~s[b].checked, NEW r, r = ABox!SetUpBox(s, b)
    PROVE  /\ r \in BoxPairs /\ (IsTrue(s) => IsTrue(r))
           /\ \A c \in ABox!Boxes \ {b} : r[c].checked = s[c].checked
<1>1. CASE s[b].mixed
  <2>1. r = ABox!Indeterminate(s, b, TRUE)
    BY <1>1 DEF ABox!SetUpBox
  <2>2. r \in BoxPairs /\ AreAlike(s, r)
    BY <2>1, IndeterminateAlike
  <2>3. IsTrue(s) => IsTrue(r)
    BY <2>2, AlikeKeeps
  <2>4. QED
    BY <2>2, <2>3 DEF AreAlike
<1>2. CASE ~s[b].mixed
  <2>1. r = ABox!Uncheck(s, b, TRUE)
    BY <1>2 DEF ABox!SetUpBox
  <2>2. /\ r \in BoxPairs /\ (IsTrue(s) => IsTrue(r))
        /\ \A c \in ABox!Boxes \ {b} : r[c] = s[c]
    BY <2>1, <1>2, UncheckKeeps
  <2>3. QED
    BY <2>2
<1>3. QED
  BY <1>1, <1>2

LEMMA SetUpChecked ==
    ASSUME group \in Groups, group.initially = "checked" => 1 \notin group.refused,
           NEW s \in BoxPairs, group.initially = "checked",
           s[1].checked = TRUE, s[1].mixed = FALSE, s[1].told = "nothing",
           s[2].checked = FALSE, s[2].mixed = FALSE, s[2].shown = FALSE, s[2].told = "nothing",
           NEW r, r = ABox!SetUpBox(s, 1)
    PROVE  r \in BoxPairs /\ IsTrue(r) /\ r[2].checked = FALSE
<1>1. 1 \in ABox!Boxes /\ 2 \in ABox!Boxes \ {1} /\ \A c \in ABox!Boxes : c \in {1, 2}
  BY DEF ABox!Boxes
<1>2. r = ABox!Check(s, 1, TRUE)
  BY DEF ABox!SetUpBox
<1>3. CASE ~group.fireOnInit
  <2>1. r = s
    BY <1>2, <1>3 DEF ABox!Check, ABox!AllowCheck, ABox!Forced
  <2>2. ShownIs(r)
    BY <1>3 DEF ShownIs
  <2>3. ToldIs(r)
    BY <2>1, <1>1 DEF ToldIs
  <2>4. QED
    BY <2>1, <2>2, <2>3 DEF IsTrue
<1>4. CASE group.fireOnInit
  <2>1. PICK set : set = ABox!SetChecked(s, 1)
    OBVIOUS
  <2>2. r = [set EXCEPT ![1].told = "checked"]
    BY <1>2, <1>4, <2>1 DEF ABox!Check, ABox!AllowCheck, ABox!Forced, ABox!Told, ABox!Ignored
  <2>3. IsSetChecked(s, 1, set)
    BY <1>1, <2>1, SetCheckedFacts
  <2>4. set \in BoxPairs
    BY <2>3 DEF IsSetChecked
  <2>5. /\ r \in BoxPairs
        /\ r[1].shown = set[1].shown /\ r[1].checked = set[1].checked
        /\ r[1].told = "checked"
        /\ r[2] = set[2]
    BY <1>1, <2>2, <2>4 DEF BoxPairs, OneBox
  <2>6. /\ r[1].shown = TRUE /\ r[1].checked = TRUE
        /\ r[2].told = s[2].told
        /\ ~group.radio => r[2] = s[2]
        /\ group.radio => r[2].shown = FALSE
        /\ r[2].checked = s[2].checked
    <3>1. ~(s[1].mixed \/ ~s[1].checked)
      OBVIOUS
    <3>2. QED
      BY <1>1, <2>3, <2>5, <3>1 DEF IsSetChecked
  <2>7. r[2].shown = FALSE
    BY <2>6 DEF Groups
  <2>8. ShownIs(r)
    BY <1>1, <2>6, <2>7 DEF ShownIs
  <2>9. ToldIs(r)
    BY <1>1, <2>5, <2>6 DEF ToldIs
  <2>10. QED
    BY <2>5, <2>6, <2>8, <2>9 DEF IsTrue
<1>5. QED
  BY <1>3, <1>4

LEMMA BoxInvInit == ABox!BoxInit => BoxInv
<1> SUFFICES ASSUME ABox!BoxInit PROVE BoxInv
  OBVIOUS
<1>1. group \in Groups /\ (group.initially = "checked" => 1 \notin group.refused)
  BY ContentAssumption DEF ABox!BoxInit, ABox!BoxAssumption, Groups
<1>2. PICK page : /\ page \in BoxPairs
                  /\ \A b \in ABox!Boxes :
                       /\ page[b].checked = (b = 1 /\ group.initially = "checked")
                       /\ page[b].mixed = (b = 1 /\ group.initially = "mixed")
                       /\ page[b].told = "nothing" /\ page[b].shown = FALSE
                  /\ boxes = ABox!SetUpBox(ABox!SetUpBox(page, 1), 2)
  <2> DEFINE plain == [checked |-> FALSE, mixed |-> FALSE, disabled |-> FALSE,
                       shown |-> FALSE, shownMixed |-> FALSE, told |-> "nothing",
                       shortcut |-> FALSE]
             start == [b \in ABox!Boxes |->
                         [plain EXCEPT !.checked = b = 1 /\ group.initially = "checked",
                                       !.mixed   = b = 1 /\ group.initially = "mixed"]]
  <2>1. boxes = ABox!SetUpBox(ABox!SetUpBox(start, 1), 2)
    BY DEF ABox!BoxInit
  <2>2. plain \in OneBox /\ plain.told = "nothing" /\ plain.shown = FALSE
    BY DEF OneBox
  <2> HIDE DEF plain
  <2>3. \A b \in ABox!Boxes :
          /\ start[b] \in OneBox
          /\ start[b].checked = (b = 1 /\ group.initially = "checked")
          /\ start[b].mixed = (b = 1 /\ group.initially = "mixed")
          /\ start[b].told = "nothing" /\ start[b].shown = FALSE
    BY <2>2 DEF OneBox
  <2>4. start \in BoxPairs
    BY <2>3 DEF BoxPairs
  <2> HIDE DEF start
  <2>5. QED
    BY <2>1, <2>3, <2>4
<1>3. 1 \in ABox!Boxes /\ 2 \in ABox!Boxes /\ \A c \in ABox!Boxes : c \in {1, 2}
  BY DEF ABox!Boxes
<1>4. PICK first : first = ABox!SetUpBox(page, 1)
  OBVIOUS
<1>5. boxes = ABox!SetUpBox(first, 2)
  BY <1>2, <1>4
<1>6. first \in BoxPairs /\ IsTrue(first) /\ (first[2].mixed \/ ~first[2].checked)
  <2>1. CASE group.initially = "checked"
    <3>1. /\ page[1].checked = TRUE /\ page[1].mixed = FALSE
          /\ page[1].told = "nothing"
          /\ page[2].checked = FALSE /\ page[2].mixed = FALSE
          /\ page[2].told = "nothing" /\ page[2].shown = FALSE
      <4>1. group.initially = "checked" /\ group.initially # "mixed" /\ 2 # 1
        BY <2>1
      <4>2. (1 = 1 /\ group.initially = "checked") = TRUE /\ (1 = 1 /\ group.initially = "mixed") = FALSE
        BY <4>1
      <4>3. (2 = 1 /\ group.initially = "checked") = FALSE /\ (2 = 1 /\ group.initially = "mixed") = FALSE
        OBVIOUS
      <4>4. page[1].checked = (1 = 1 /\ group.initially = "checked") /\ page[1].mixed = (1 = 1 /\ group.initially = "mixed")
        BY <1>2, <1>3
      <4>5. page[2].checked = (2 = 1 /\ group.initially = "checked") /\ page[2].mixed = (2 = 1 /\ group.initially = "mixed")
        BY <1>2, <1>3
      <4>6. QED
        BY <1>2, <1>3, <4>2, <4>3, <4>4, <4>5
    <3>2. first \in BoxPairs /\ IsTrue(first) /\ first[2].checked = FALSE
      BY <1>1, <1>2, <1>4, <2>1, <3>1, SetUpChecked
    <3>3. QED
      BY <3>2
  <2>2. CASE group.initially # "checked"
    <3>1. (page[1].mixed \/ ~page[1].checked) /\ page[2].checked = FALSE
      BY <1>2, <1>3, <2>2
    <3>2. IsTrue(page)
      BY <1>2, <1>3, <2>2 DEF IsTrue, ShownIs, ToldIs
    <3>3. first \in BoxPairs /\ IsTrue(first) /\ first[2].checked = page[2].checked
      BY <1>1, <1>2, <1>3, <1>4, <3>1, <3>2, SetUpOther
    <3>4. QED
      BY <3>1, <3>3
  <2>3. QED
    BY <2>1, <2>2
<1>7. boxes \in BoxPairs /\ IsTrue(boxes)
  BY <1>1, <1>3, <1>5, <1>6, SetUpOther
<1>8. QED
  BY <1>1, <1>7 DEF ABox!BoxInit, BoxInv, BoxTypeOK, ABox!NoBox

-----------------------------------------------------------------------------
(* Each step of the checkboxes keeps the invariant.                        *)

\* A step that toggles an input, and may note the shortcut.
LEMMA ToggleStep ==
    ASSUME BoxInv, NEW b \in ABox!Boxes,
           \/ boxes' = ABox!Toggle(boxes, b)
           \/ boxes' = [ABox!Toggle(boxes, b) EXCEPT ![b].shortcut = TRUE],
           group' = group, byItself' = byItself,
           cursor' \in ABox!Boxes \cup {ABox!NoBox}, space' \in ABox!Boxes \cup {ABox!NoBox}
    PROVE  BoxInv'
<1>1. PICK r : r = ABox!Toggle(boxes, b)
  OBVIOUS
<1>2. group \in Groups /\ boxes \in BoxPairs /\ byItself \in BOOLEAN
        /\ (byItself \/ IsTrue(boxes))
  BY DEF BoxInv, BoxTypeOK
<1>3. r \in BoxPairs /\ (IsTrue(boxes) => IsTrue(r))
  BY <1>1, <1>2, ToggleKeeps
<1>4. boxes' \in BoxPairs /\ (IsTrue(r) => IsTrue(boxes'))
  BY <1>1, <1>3, ShortcutAlike, AlikeKeeps
<1>5. BoxTypeOK'
  BY <1>2, <1>4 DEF BoxTypeOK
<1>6. IsTrue(boxes') => IsTrue(boxes)'
  BY DEF IsTrue, ShownIs, ToldIs
<1>7. QED
  BY <1>2, <1>3, <1>4, <1>5, <1>6 DEF BoxInv

LEMMA CallStep ==
    ASSUME BoxInv, ABox!Call
    PROVE  BoxInv'
<1>1. group \in Groups /\ boxes \in BoxPairs /\ (byItself \/ IsTrue(boxes))
  BY DEF BoxInv, BoxTypeOK
<1>2. PICK b \in ABox!Boxes, what \in ABox!Calls :
        boxes' = CASE what = "check"         -> ABox!Check(boxes, b, FALSE)
                   [] what = "uncheck"       -> ABox!Uncheck(boxes, b, FALSE)
                   [] what = "toggle"        -> ABox!Toggle(boxes, b)
                   [] what = "indeterminate" -> ABox!Indeterminate(boxes, b, FALSE)
                   [] what = "determinate"   -> ABox!Determinate(boxes, b, FALSE)
                   [] what = "enable"        -> ABox!SetDisabled(boxes, b, FALSE)
                   [] what = "disable"       -> ABox!SetDisabled(boxes, b, TRUE)
  BY DEF ABox!Call
<1>3. boxes' \in {ABox!Check(boxes, b, FALSE), ABox!Uncheck(boxes, b, FALSE),
                  ABox!Toggle(boxes, b),
                  ABox!Indeterminate(boxes, b, FALSE), ABox!Determinate(boxes, b, FALSE),
                  ABox!SetDisabled(boxes, b, FALSE), ABox!SetDisabled(boxes, b, TRUE)}
  BY <1>2 DEF ABox!Calls
<1>4. boxes' \in BoxPairs /\ (IsTrue(boxes) => IsTrue(boxes'))
  <2>1. CASE boxes' = ABox!Check(boxes, b, FALSE)
    BY <1>1, <2>1, CheckKeeps
  <2>2. CASE boxes' = ABox!Uncheck(boxes, b, FALSE)
    BY <1>1, <2>2, UncheckKeeps
  <2>3. CASE boxes' = ABox!Toggle(boxes, b)
    BY <1>1, <2>3, ToggleKeeps
  <2>4. CASE boxes' = ABox!Indeterminate(boxes, b, FALSE)
    BY <1>1, <2>4, IndeterminateAlike, AlikeKeeps
  <2>5. CASE boxes' = ABox!Determinate(boxes, b, FALSE)
    BY <1>1, <2>5, DeterminateAlike, AlikeKeeps
  <2>6. CASE \E on \in BOOLEAN : boxes' = ABox!SetDisabled(boxes, b, on)
    BY <1>1, <2>6, DisabledAlike, AlikeKeeps
  <2>7. QED
    BY <1>3, <2>1, <2>2, <2>3, <2>4, <2>5, <2>6
<1>5. group' = group /\ cursor' = cursor /\ space' = space /\ byItself' = byItself
  BY DEF ABox!Call
<1>6. BoxTypeOK'
  BY <1>4, <1>5 DEF BoxInv, BoxTypeOK
<1>7. IsTrue(boxes') => IsTrue(boxes)'
  BY <1>5 DEF IsTrue, ShownIs, ToldIs
<1>8. QED
  BY <1>1, <1>4, <1>5, <1>6, <1>7 DEF BoxInv

\* A key that changes nothing but the shortcut.
LEMMA ShortcutStep ==
    ASSUME BoxInv, NEW b \in ABox!Boxes, NEW on \in BOOLEAN,
           boxes' = [boxes EXCEPT ![b].shortcut = on],
           group' = group, byItself' = byItself, space' = space,
           cursor' \in ABox!Boxes \cup {ABox!NoBox}
    PROVE  BoxInv'
<1>1. boxes \in BoxPairs /\ (byItself \/ IsTrue(boxes))
  BY DEF BoxInv, BoxTypeOK
<1>2. boxes' \in BoxPairs /\ (IsTrue(boxes) => IsTrue(boxes'))
  <2>1. PICK r : r = [boxes EXCEPT ![b].shortcut = on]
    OBVIOUS
  <2>2. r \in BoxPairs /\ AreAlike(boxes, r)
    BY <1>1, <2>1, ShortcutAlike
  <2>3. IsTrue(boxes) => IsTrue(r)
    BY <1>1, <2>2, AlikeKeeps
  <2>4. QED
    BY <2>1, <2>2, <2>3
<1>3. BoxTypeOK'
  BY <1>2 DEF BoxInv, BoxTypeOK
<1>4. IsTrue(boxes') => IsTrue(boxes)'
  BY DEF IsTrue, ShownIs, ToldIs
<1>5. QED
  BY <1>1, <1>2, <1>3, <1>4 DEF BoxInv

LEMMA ReleaseSpaceStep ==
    ASSUME BoxInv, ABox!ReleaseSpace
    PROVE  BoxInv'
<1>1. /\ group \in Groups /\ boxes \in BoxPairs /\ byItself \in BOOLEAN
      /\ space \in ABox!Boxes /\ space' = ABox!NoBox
      /\ group' = group /\ cursor' = cursor
  BY DEF BoxInv, BoxTypeOK, ABox!ReleaseSpace
<1> DEFINE native == cursor = space /\ ~boxes[space].shortcut /\ ~boxes[space].disabled
           clear  == [boxes EXCEPT ![space].mixed = FALSE]
<1>2. /\ boxes' = CASE ~native                           -> boxes
                    [] native /\ ~boxes[space].checked   -> ABox!Checks(clear, space)
                    [] OTHER -> [boxes EXCEPT ![space].checked = group.radio,
                                              ![space].mixed = FALSE]
      /\ byItself' = (byItself \/ native)
  BY DEF ABox!ReleaseSpace
<1>3. CASE ~native
  <2>1. boxes' = boxes
    BY <1>2, <1>3
  <2>2. byItself' = byItself
    BY <1>1, <1>2, <1>3
  <2>3. QED
    BY <1>1, <2>1, <2>2 DEF BoxInv, BoxTypeOK, IsTrue, ShownIs, ToldIs
<1>4. CASE native
  <2>1. clear \in BoxPairs
    BY <1>1 DEF BoxPairs, OneBox
  <2>2. ABox!Checks(clear, space) \in BoxPairs
    BY <1>1, <2>1, ChecksTyped DEF IsChecks
  <2>3. [boxes EXCEPT ![space].checked = group.radio, ![space].mixed = FALSE] \in BoxPairs
    BY <1>1 DEF BoxPairs, OneBox, Groups
  <2>4. boxes' \in BoxPairs /\ byItself' = TRUE
    BY <1>2, <1>4, <2>2, <2>3
  <2>5. QED
    BY <1>1, <2>4 DEF BoxInv, BoxTypeOK
<1>5. QED
  BY <1>3, <1>4

LEMMA PressArrowStep ==
    ASSUME BoxInv, ABox!PressArrow
    PROVE  BoxInv'
<1>1. /\ group \in Groups /\ boxes \in BoxPairs /\ cursor \in ABox!Boxes
      /\ group' = group /\ space' = space /\ byItself' = TRUE
  BY DEF BoxInv, BoxTypeOK, ABox!PressArrow
<1>2. PICK b \in ABox!Boxes :
        boxes' = [ABox!Checks(boxes, b) EXCEPT ![cursor].shortcut = FALSE] /\ cursor' = b
  BY DEF ABox!PressArrow
<1>3. PICK r : r = ABox!Checks(boxes, b)
  OBVIOUS
<1>4. r \in BoxPairs
  BY <1>1, <1>3, ChecksTyped DEF IsChecks
<1>5. boxes' \in BoxPairs
  BY <1>1, <1>2, <1>3, <1>4, ShortcutAlike
<1>6. QED
  BY <1>1, <1>2, <1>5 DEF BoxInv, BoxTypeOK

LEMMA ResetFormStep ==
    ASSUME BoxInv, ABox!ResetForm
    PROVE  BoxInv'
<1>1. boxes \in BoxPairs /\ byItself' = TRUE
      /\ group' = group /\ cursor' = cursor /\ space' = space
  BY DEF BoxInv, BoxTypeOK, ABox!ResetForm
<1>2. boxes' \in BoxPairs
  <2>1. PICK b \in ABox!Boxes :
          boxes' = [c \in ABox!Boxes |->
                      IF ABox!SameForm(b, c)
                      THEN [boxes[c] EXCEPT !.checked = c = 1 /\ group.initially = "checked"]
                      ELSE boxes[c]]
    BY DEF ABox!ResetForm
  <2>2. ASSUME NEW c \in ABox!Boxes, NEW on \in BOOLEAN
        PROVE  boxes[c] \in OneBox /\ [boxes[c] EXCEPT !.checked = on] \in OneBox
    BY <1>1 DEF BoxPairs, OneBox
  <2>3. \A c \in ABox!Boxes : (c = 1 /\ group.initially = "checked") \in BOOLEAN
    OBVIOUS
  <2>4. QED
    BY <2>1, <2>2, <2>3 DEF BoxPairs
<1>3. QED
  BY <1>1, <1>2 DEF BoxInv, BoxTypeOK

LEMMA BoxInvStep == BoxInv /\ [ABox!BoxNext]_(ABox!boxVars) => BoxInv'
<1>1. SUFFICES ASSUME BoxInv, [ABox!BoxNext]_(ABox!boxVars) PROVE BoxInv'
  OBVIOUS
<1> USE DEF BoxInv, BoxTypeOK
<1>2. CASE ABox!ClickLabel
  BY <1>1, <1>2, ToggleStep DEF ABox!ClickLabel
<1>3. CASE ABox!Tab
  BY <1>1, <1>3 DEF ABox!Tab, IsTrue, ShownIs, ToldIs
<1>4. CASE ABox!PressSpace
  BY <1>1, <1>4, ToggleStep DEF ABox!PressSpace
<1>5. CASE ABox!PressEnterKey
  BY <1>1, <1>5, ToggleStep DEF ABox!PressEnterKey
<1>6. CASE ABox!PressOther
  BY <1>1, <1>6, ShortcutStep DEF ABox!PressOther
<1>7. CASE ABox!PressEscape
  BY <1>1, <1>7, ShortcutStep DEF ABox!PressEscape
<1>8. CASE ABox!ReleaseSpace
  BY <1>1, <1>8, ReleaseSpaceStep
<1>9. CASE ABox!PressArrow
  BY <1>1, <1>9, PressArrowStep
<1>10. CASE ABox!ResetForm
  BY <1>1, <1>10, ResetFormStep
<1>11. CASE ABox!Call
  BY <1>1, <1>11, CallStep
<1>12. CASE UNCHANGED ABox!boxVars
  BY <1>1, <1>12 DEF ABox!boxVars, IsTrue, ShownIs, ToldIs
<1>13. QED
  BY <1>1, <1>2, <1>3, <1>4, <1>5, <1>6, <1>7, <1>8, <1>9, <1>10, <1>11, <1>12
     DEF ABox!BoxNext

(* checkbox.js set, uncheck: of inputs that the browser changed none of by itself, *)
(* whatever is clicked, pressed and called, the class is the input, and so is what *)
(* the page was told last.                                                         *)
THEOREM CheckboxesAreTrue == ABox!BoxSpec => []BoxesAreTrue
<1>1. QED
  BY BoxInvInit, BoxInvStep, BoxInvTrue, PTL DEF ABox!BoxSpec

-----------------------------------------------------------------------------
(* A form that validates its fields.                                       *)

FormSetups ==
  [fields : SUBSET AForm!Fields, choice : {"checkbox", "dropdown"},
   on : {"submit", "blur", "change"}, inline : BOOLEAN]

FieldValues == {AForm!Blank, AForm!Chosen} \cup Words
Prompts     == {"none", "appearing", "shown", "appearing to go", "going"}

OneForm ==
  [values : [AForm!Fields -> FieldValues], defaults : [AForm!Fields -> FieldValues],
   error : SUBSET AForm!Fields, prompt : [AForm!Fields -> Prompts],
   class : {"none", "success", "error"},
   timer : AForm!Fields \cup {AForm!NoField}, old : SUBSET AForm!Fields,
   held : BOOLEAN, keyup : SUBSET AForm!Fields]

(* A form whose errors are of fields it has, and whose prompts are of      *)
(* errors.                                                                 *)
IsSound(v) ==
  /\ v \in OneForm
  /\ v.error \subseteq AForm!Present
  /\ \A f \in AForm!Fields : v.prompt[f] \in {"appearing", "shown"} => f \in v.error

\* Neither an error, nor a timer that could bring one.
IsQuiet(v) == v.error = {} /\ v.timer = AForm!NoField /\ v.old = {}

(* The errors of these fields are true.                                    *)
AreJudged(v, fs) == \A f \in fs : f \in v.error => ~AForm!IsValid(v, f)

FormInv ==
  /\ setup \in FormSetups
  /\ IsSound(form)
  /\ focus \in AForm!Fields \cup {AForm!NoField}
  /\ setup.on = "submit" /\ ~submitted => IsQuiet(form)
  /\ AreJudged(form, AForm!Texts \ ({focus} \cup outdated))

LEMMA FormInvTrue == FormInv => ErrorsAreTrue
BY DEF FormInv, IsSound, IsQuiet, AreJudged, ErrorsAreTrue, AForm!ErrorsAreTrue,
       AForm!LeftErrorIsTrue, AForm!PromptMeansError, AForm!QuietBeforeSubmit

-----------------------------------------------------------------------------
(* What the operators of a form change.                                    *)

LEMMA FieldNames ==
  /\ AForm!Fields = {"name", "repeat", "choice"} /\ AForm!Texts = {"name", "repeat"}
  /\ AForm!NoField \notin AForm!Fields
BY DEF AForm!Fields, AForm!Texts, AForm!NoField

\* All but the errors, the prompts and the class.
SameButErrors(v, w) ==
  /\ w.values = v.values /\ w.timer = v.timer /\ w.old = v.old

LEMMA ValidityIsOfValues ==
    ASSUME NEW v, NEW w, w.values = v.values, NEW f
    PROVE  AForm!IsValid(w, f) <=> AForm!IsValid(v, f)
BY DEF AForm!IsValid

\* The validity of a text depends on no other field than those it follows.
LEMMA ValidityFollows ==
    ASSUME NEW v, NEW w, NEW f \in AForm!Fields,
           \A g \in AForm!Fields \ {f} : w.values[g] = v.values[g],
           NEW g \in AForm!Texts \ ({f} \cup AForm!Follows(f))
    PROVE  AForm!IsValid(w, g) <=> AForm!IsValid(v, g)
BY FieldNames DEF AForm!IsValid, AForm!Follows

Marked(v, e, f, p) == [v EXCEPT !.error = e, !.prompt[f] = p]

LEMMA FormMarked ==
    ASSUME NEW v \in OneForm, NEW e \in SUBSET AForm!Fields, NEW f \in AForm!Fields,
           NEW p \in Prompts, NEW w, w = Marked(v, e, f, p)
    PROVE  /\ w \in OneForm /\ SameButErrors(v, w) /\ w.error = e
           /\ w.prompt[f] = p
           /\ \A g \in AForm!Fields : g # f => w.prompt[g] = v.prompt[g]
<1>1. PICK q : q = [v.prompt EXCEPT ![f] = p]
  OBVIOUS
<1>2. v.prompt \in [AForm!Fields -> Prompts]
  BY DEF OneForm
<1>3. /\ q \in [AForm!Fields -> Prompts] /\ q[f] = p
      /\ \A g \in AForm!Fields : g # f => q[g] = v.prompt[g]
  BY <1>1, <1>2
<1>4. w = [v EXCEPT !.error = e, !.prompt = q]
  BY <1>1 DEF OneForm, Marked
<1>5. /\ w \in OneForm /\ w.error = e /\ w.prompt = q
  BY <1>3, <1>4 DEF OneForm
<1>6. SameButErrors(v, w)
  BY <1>4 DEF OneForm, SameButErrors
<1>7. QED
  BY <1>3, <1>5, <1>6

LEMMA AddPromptSound ==
    ASSUME setup \in FormSetups, NEW v, IsSound(v), NEW f \in AForm!Fields,
           f \in AForm!Present, NEW w, w = AForm!AddPrompt(v, f)
    PROVE  IsSound(w) /\ SameButErrors(v, w) /\ w.error = v.error \cup {f}
<1> DEFINE p == IF setup.inline /\ v.prompt[f] = "none" THEN "appearing" ELSE v.prompt[f]
<1>1. v \in OneForm
  BY DEF IsSound
<1>2. PICK e : e = v.error \cup {f}
  OBVIOUS
<1>3. w = Marked(v, e, f, p)
  BY <1>2 DEF AForm!AddPrompt, Marked
<1>4. p \in Prompts
  BY <1>1 DEF OneForm, Prompts
<1> HIDE DEF p
<1>5. e \in SUBSET AForm!Fields
  BY <1>1, <1>2 DEF OneForm
<1>6. /\ w \in OneForm /\ SameButErrors(v, w) /\ w.error = e
      /\ w.prompt[f] = p
      /\ \A g \in AForm!Fields : g # f => w.prompt[g] = v.prompt[g]
  BY <1>1, <1>3, <1>4, <1>5, FormMarked
<1>7. QED
  BY <1>6, <1>2 DEF IsSound

LEMMA RemovePromptSound ==
    ASSUME NEW v, IsSound(v), NEW f \in AForm!Fields, NEW w, w = AForm!RemovePrompt(v, f)
    PROVE  IsSound(w) /\ SameButErrors(v, w) /\ w.error = v.error \ {f}
<1> DEFINE p == CASE v.prompt[f] = "shown"     -> "going"
                  [] v.prompt[f] = "appearing" -> "appearing to go"
                  [] OTHER                     -> v.prompt[f]
<1>1. v \in OneForm
  BY DEF IsSound
<1>2. PICK e : e = v.error \ {f}
  OBVIOUS
<1>3. w = Marked(v, e, f, p)
  BY <1>2 DEF AForm!RemovePrompt, Marked
<1>4. p \in Prompts /\ p \notin {"appearing", "shown"}
  BY <1>1 DEF OneForm, Prompts
<1> HIDE DEF p
<1>5. e \in SUBSET AForm!Fields
  BY <1>1, <1>2 DEF OneForm
<1>6. /\ w \in OneForm /\ SameButErrors(v, w) /\ w.error = e
      /\ w.prompt[f] = p
      /\ \A g \in AForm!Fields : g # f => w.prompt[g] = v.prompt[g]
  BY <1>1, <1>3, <1>4, <1>5, FormMarked
<1>7. QED
  BY <1>4, <1>6, <1>2 DEF IsSound

\* A field is validated: its error is true, the others stay.
IsValidated(v, f, w) ==
  /\ IsSound(w) /\ SameButErrors(v, w)
  /\ w.error \subseteq v.error \cup {f}
  /\ v.error \subseteq w.error \cup {f}
  /\ f \in w.error <=> ~AForm!IsValid(w, f)

LEMMA ValidateFieldFacts ==
    ASSUME setup \in FormSetups, NEW v, IsSound(v), NEW f \in AForm!Fields
    PROVE  IsValidated(v, f, AForm!ValidateField(v, f))
<1>1. PICK w : w = AForm!ValidateField(v, f)
  OBVIOUS
<1>2. CASE AForm!IsValid(v, f)
  <2>1. w = AForm!RemovePrompt(v, f)
    BY <1>1, <1>2 DEF AForm!ValidateField
  <2>2. IsSound(w) /\ SameButErrors(v, w) /\ w.error = v.error \ {f}
    BY <2>1, RemovePromptSound
  <2>3. AForm!IsValid(w, f)
    BY <1>2, <2>2, ValidityIsOfValues DEF SameButErrors
  <2>4. QED
    BY <1>1, <2>2, <2>3 DEF IsValidated
<1>3. CASE ~AForm!IsValid(v, f)
  <2>1. w = AForm!AddPrompt(v, f)
    BY <1>1, <1>3 DEF AForm!ValidateField
  <2>2. f \in AForm!Present
    BY <1>3 DEF AForm!IsValid
  <2>3. IsSound(w) /\ SameButErrors(v, w) /\ w.error = v.error \cup {f}
    BY <2>1, <2>2, AddPromptSound
  <2>4. ~AForm!IsValid(w, f)
    BY <1>3, <2>3, ValidityIsOfValues DEF SameButErrors
  <2>5. QED
    BY <1>1, <2>3, <2>4 DEF IsValidated
<1>4. QED
  BY <1>2, <1>3

LEMMA ValidateAllFacts ==
    ASSUME setup \in FormSetups, NEW v, IsSound(v), NEW w, w = AForm!ValidateAll(v)
    PROVE  IsSound(w) /\ SameButErrors(v, w) /\ AreJudged(w, AForm!Fields)
<1>1. PICK x : x = AForm!ValidateField(v, "name")
  OBVIOUS
<1>2. PICK y : y = AForm!ValidateField(x, "repeat")
  OBVIOUS
<1>3. w = AForm!ValidateField(y, "choice")
  BY <1>1, <1>2 DEF AForm!ValidateAll
<1>4. IsValidated(v, "name", x)
  BY <1>1, FieldNames, ValidateFieldFacts
<1>5. IsValidated(x, "repeat", y)
  BY <1>2, <1>4, FieldNames, ValidateFieldFacts DEF IsValidated
<1>6. IsValidated(y, "choice", w)
  BY <1>3, <1>5, FieldNames, ValidateFieldFacts DEF IsValidated
<1>7. SameButErrors(v, w) /\ w.values = x.values /\ w.values = y.values
  BY <1>4, <1>5, <1>6 DEF IsValidated, SameButErrors
<1>8. /\ "name" \in w.error => ~AForm!IsValid(x, "name")
      /\ "repeat" \in w.error => ~AForm!IsValid(y, "repeat")
      /\ "choice" \in w.error => ~AForm!IsValid(w, "choice")
  BY <1>4, <1>5, <1>6 DEF IsValidated
<1>9. AreJudged(w, AForm!Fields)
  BY <1>7, <1>8, FieldNames, ValidityIsOfValues DEF AreJudged
<1>10. QED
  BY <1>6, <1>7, <1>9 DEF IsValidated

\* A field has a new value: no error comes or goes, and none can come of a
\* timer while only a submission validates.
IsChanged(v, f, w) ==
  /\ IsSound(w)
  /\ w.error = v.error
  /\ \A g \in AForm!Fields \ {f} : w.values[g] = v.values[g]
  /\ setup.on = "submit" /\ IsQuiet(v) => IsQuiet(w)

LEMMA ValueSet ==
    ASSUME NEW v, IsSound(v), NEW f \in AForm!Fields, NEW x \in FieldValues,
           NEW w, w = [v EXCEPT !.values[f] = x]
    PROVE  IsChanged(v, f, w)
<1>1. v \in OneForm
  BY DEF IsSound
<1>2. PICK q : q = [v.values EXCEPT ![f] = x]
  OBVIOUS
<1>3. /\ q \in [AForm!Fields -> FieldValues]
      /\ \A g \in AForm!Fields \ {f} : q[g] = v.values[g]
  BY <1>1, <1>2 DEF OneForm
<1>4. w = [v EXCEPT !.values = q]
  BY <1>1, <1>2 DEF OneForm
<1>5. /\ w \in OneForm /\ w.values = q
      /\ w.error = v.error /\ w.prompt = v.prompt /\ w.timer = v.timer /\ w.old = v.old
  BY <1>1, <1>3, <1>4 DEF OneForm
<1>6. QED
  BY <1>3, <1>5 DEF IsChanged, IsSound, IsQuiet

LEMMA FieldChangeFacts ==
    ASSUME setup \in FormSetups, NEW v, IsSound(v), NEW f \in AForm!Fields,
           NEW w, w = AForm!FieldChange(v, f)
    PROVE  /\ IsSound(w) /\ w.error = v.error /\ w.values = v.values
           /\ setup.on = "submit" /\ IsQuiet(v) => IsQuiet(w)
<1>1. v \in OneForm
  BY DEF IsSound
<1>2. CASE ~(setup.on = "change" \/ f \in v.error)
  BY <1>2 DEF AForm!FieldChange
<1>3. CASE setup.on = "change" \/ f \in v.error
  <2>1. w = [v EXCEPT !.timer = f]
    BY <1>3 DEF AForm!FieldChange
  <2>2. /\ w \in OneForm
        /\ w.error = v.error /\ w.prompt = v.prompt /\ w.values = v.values
    BY <1>1, <2>1 DEF OneForm
  <2>3. ~(setup.on = "submit" /\ IsQuiet(v))
    BY <1>3 DEF IsQuiet
  <2>4. QED
    BY <2>2, <2>3 DEF IsSound
<1>4. QED
  BY <1>2, <1>3

LEMMA ChangeToFacts ==
    ASSUME setup \in FormSetups, NEW v, IsSound(v), NEW f \in AForm!Fields,
           NEW x \in FieldValues, NEW w, w = AForm!ChangeTo(v, f, x)
    PROVE  IsChanged(v, f, w)
<1>1. CASE v.values[f] = x
  BY <1>1 DEF AForm!ChangeTo, IsChanged
<1>2. CASE v.values[f] # x
  <2>1. PICK u : u = [v EXCEPT !.values[f] = x]
    OBVIOUS
  <2>2. w = AForm!FieldChange(u, f)
    BY <1>2, <2>1 DEF AForm!ChangeTo
  <2>3. IsChanged(v, f, u)
    BY <2>1, ValueSet
  <2>4. /\ IsSound(w) /\ w.error = u.error /\ w.values = u.values
        /\ setup.on = "submit" /\ IsQuiet(u) => IsQuiet(w)
    BY <2>2, <2>3, FieldChangeFacts DEF IsChanged
  <2>5. QED
    BY <2>3, <2>4 DEF IsChanged
<1>3. QED
  BY <1>1, <1>2

\* A field is cleared or reset: its error goes, no other one comes.
IsFreed(v, f, w) ==
  /\ IsSound(w)
  /\ w.error \subseteq v.error \ {f}
  /\ setup.on = "submit" /\ IsQuiet(v) => IsQuiet(w)

LEMMA ForgetErrorFacts ==
    ASSUME NEW v, IsSound(v), NEW f \in AForm!Fields, NEW w, w = AForm!ForgetError(v, f)
    PROVE  IsFreed(v, f, w)
<1>1. v \in OneForm
  BY DEF IsSound
<1>2. CASE f \notin v.error
  BY <1>2 DEF AForm!ForgetError, IsFreed
<1>3. CASE f \in v.error
  <2>1. PICK e : e = v.error \ {f}
    OBVIOUS
  <2>2. PICK p \in Prompts : p = "none"
    BY DEF Prompts
  <2>3. w = Marked(v, e, f, p)
    BY <1>3, <2>1, <2>2 DEF AForm!ForgetError, Marked
  <2>4. e \in SUBSET AForm!Fields
    BY <1>1, <2>1 DEF OneForm
  <2>5. /\ w \in OneForm /\ SameButErrors(v, w) /\ w.error = e
        /\ w.prompt[f] = p
        /\ \A g \in AForm!Fields : g # f => w.prompt[g] = v.prompt[g]
    BY <1>1, <2>3, <2>4, FormMarked
  <2>6. ~IsQuiet(v)
    BY <1>3 DEF IsQuiet
  <2>7. QED
    BY <2>1, <2>2, <2>5, <2>6 DEF IsFreed, IsSound
<1>4. QED
  BY <1>2, <1>3

LEMMA FieldToFacts ==
    ASSUME setup \in FormSetups, NEW v, IsSound(v), NEW f \in AForm!Fields,
           NEW x \in FieldValues, NEW w, w = AForm!FieldTo(v, f, x)
    PROVE  IsFreed(v, f, w)
<1>1. CASE f \notin AForm!Present
  BY <1>1 DEF AForm!FieldTo, IsFreed, IsSound
<1>2. CASE f \in AForm!Present
  <2>1. PICK u : u = AForm!ForgetError(v, f)
    OBVIOUS
  <2>2. IsFreed(v, f, u)
    BY <2>1, ForgetErrorFacts
  <2>3. \/ w = AForm!ChangeTo(u, f, x)
        \/ w = [u EXCEPT !.values[f] = x]
    BY <1>2, <2>1 DEF AForm!FieldTo
  <2>4. IsChanged(u, f, w)
    BY <2>2, <2>3, ChangeToFacts, ValueSet DEF IsFreed
  <2>5. QED
    BY <2>2, <2>4 DEF IsFreed, IsChanged
<1>3. QED
  BY <1>1, <1>2

LEMMA AllToFacts ==
    ASSUME setup \in FormSetups, NEW v, IsSound(v),
           NEW values \in [AForm!Fields -> FieldValues], NEW w, w = AForm!AllTo(v, values)
    PROVE  /\ IsSound(w) /\ w.error = {}
           /\ setup.on = "submit" /\ IsQuiet(v) => IsQuiet(w)
<1>1. PICK x : x = AForm!FieldTo(v, "name", values["name"])
  OBVIOUS
<1>2. PICK y : y = AForm!FieldTo(x, "repeat", values["repeat"])
  OBVIOUS
<1>3. w = AForm!FieldTo(y, "choice", values["choice"])
  BY <1>1, <1>2 DEF AForm!AllTo
<1>4. /\ "name" \in AForm!Fields /\ values["name"] \in FieldValues
      /\ "repeat" \in AForm!Fields /\ values["repeat"] \in FieldValues
      /\ "choice" \in AForm!Fields /\ values["choice"] \in FieldValues
  BY FieldNames
<1>5. IsFreed(v, "name", x) /\ IsSound(x)
  <2>1. IsFreed(v, "name", x)
    BY <1>1, <1>4, FieldToFacts
  <2>2. QED
    BY <2>1 DEF IsFreed
<1>6. IsFreed(x, "repeat", y) /\ IsSound(y)
  <2>1. IsFreed(x, "repeat", y)
    BY <1>2, <1>4, <1>5, FieldToFacts
  <2>2. QED
    BY <2>1 DEF IsFreed
<1>7. IsFreed(y, "choice", w)
  BY <1>3, <1>4, <1>6, FieldToFacts
<1>8. v.error \subseteq AForm!Fields
  BY DEF IsSound, OneForm
<1>9. w.error = {}
  BY <1>5, <1>6, <1>7, <1>8, FieldNames DEF IsFreed
<1>10. QED
  BY <1>5, <1>6, <1>7, <1>9 DEF IsFreed

-----------------------------------------------------------------------------
(* Each step of the form keeps the invariant.                              *)

LEMMA FormInvParts ==
    ASSUME FormInv
    PROVE  /\ setup \in FormSetups /\ IsSound(form) /\ form \in OneForm
           /\ focus \in AForm!Fields \cup {AForm!NoField}
           /\ setup.on = "submit" /\ ~submitted => IsQuiet(form)
           /\ AreJudged(form, AForm!Texts \ ({focus} \cup outdated))
BY DEF FormInv, IsSound

(* What is left to show of a step.                                         *)
LEMMA FormInvFrom ==
    ASSUME FormInv, setup' = setup, NEW w, form' = w, IsSound(w),
           focus' \in AForm!Fields \cup {AForm!NoField},
           setup.on = "submit" /\ ~submitted' => IsQuiet(w),
           AreJudged(w, AForm!Texts \ ({focus'} \cup outdated'))
    PROVE  FormInv'
BY DEF FormInv, IsSound, IsQuiet, AreJudged, AForm!IsValid, AForm!Present

LEMMA FocusStep ==
    ASSUME FormInv, AForm!Focus
    PROVE  FormInv'
<1>1. /\ form' = form /\ setup' = setup /\ submitted' = submitted /\ outdated' = outdated
      /\ focus = AForm!NoField /\ focus' \in AForm!Fields
  BY FieldNames DEF AForm!Focus, AForm!Focusable
<1>2. AreJudged(form, AForm!Texts \ ({focus'} \cup outdated'))
  BY <1>1, FieldNames, FormInvParts DEF AreJudged
<1>3. QED
  BY <1>1, <1>2, FormInvParts, FormInvFrom

\* A step that validates one field, which is then up to date.
LEMMA ValidatedJudged ==
    ASSUME NEW f \in AForm!Fields, NEW w, IsValidated(form, f, w),
           AreJudged(form, AForm!Texts \ ({focus} \cup outdated)),
           NEW gs \in SUBSET ((AForm!Texts \ ({focus} \cup outdated)) \cup {f})
    PROVE  AreJudged(w, gs)
<1>1. w.values = form.values
  BY DEF IsValidated, SameButErrors
<1>2. \A g \in gs : AForm!IsValid(w, g) <=> AForm!IsValid(form, g)
  BY <1>1, ValidityIsOfValues
<1>3. QED
  BY <1>2 DEF AreJudged, IsValidated

LEMMA LeaveStep ==
    ASSUME FormInv, AForm!Leave
    PROVE  FormInv'
<1>1. /\ setup' = setup /\ submitted' = submitted /\ outdated' = outdated \ {focus}
      /\ focus \in AForm!Fields /\ focus' = AForm!NoField
      /\ form' = AForm!FieldBlur(form, focus)
  BY FormInvParts DEF AForm!Leave
<1>2. CASE focus \in form.error \/ setup.on \in {"blur", "change"}
  <2>1. PICK w : w = AForm!ValidateField(form, focus)
    OBVIOUS
  <2>2. form' = w
    BY <1>1, <1>2, <2>1 DEF AForm!FieldBlur
  <2>3. IsValidated(form, focus, w)
    BY <1>1, <2>1, FormInvParts, ValidateFieldFacts
  <2>4. PICK gs : gs = AForm!Texts \ ({focus'} \cup outdated')
    OBVIOUS
  <2>5. gs \in SUBSET ((AForm!Texts \ ({focus} \cup outdated)) \cup {focus})
    BY <1>1, <2>4
  <2>6. AreJudged(w, gs)
    BY <1>1, <2>3, <2>5, FormInvParts, ValidatedJudged
  <2>7. ~(setup.on = "submit" /\ ~submitted')
    BY <1>1, <1>2, FormInvParts DEF IsQuiet
  <2>8. QED
    BY <1>1, <2>2, <2>3, <2>4, <2>6, <2>7, FormInvFrom DEF IsValidated
<1>3. CASE ~(focus \in form.error \/ setup.on \in {"blur", "change"})
  <2>1. form' = form
    BY <1>1, <1>3 DEF AForm!FieldBlur
  <2>2. AreJudged(form, AForm!Texts \ ({focus'} \cup outdated'))
    BY <1>1, <1>3, FormInvParts DEF AreJudged
  <2>3. QED
    BY <1>1, <2>1, <2>2, FormInvParts, FormInvFrom
<1>4. QED
  BY <1>2, <1>3

(* A step after which a field may have another value, and what follows it  *)
(* may be outdated.                                                        *)
LEMMA ChangedStep ==
    ASSUME FormInv, setup' = setup, submitted' = submitted, focus' = focus,
           NEW f \in AForm!Fields, NEW w, IsChanged(form, f, w), form' = w,
           outdated \cup (AForm!Follows(f) \ {focus}) \subseteq outdated',
           f \in AForm!Texts => f = focus \/ f \in outdated'
    PROVE  FormInv'
<1>1. PICK gs : gs = AForm!Texts \ ({focus'} \cup outdated')
  OBVIOUS
<1>2. gs \subseteq AForm!Texts \ ({f} \cup AForm!Follows(f))
  BY <1>1
<1>3. \A g \in gs : AForm!IsValid(w, g) <=> AForm!IsValid(form, g)
  BY <1>2, ValidityFollows DEF IsChanged
<1>4. AreJudged(w, gs)
  BY <1>1, <1>3, FormInvParts DEF AreJudged, IsChanged
<1>5. setup.on = "submit" /\ ~submitted' => IsQuiet(w)
  BY FormInvParts DEF IsChanged
<1>6. QED
  BY <1>1, <1>4, <1>5, FormInvParts, FormInvFrom DEF IsChanged

LEMMA EnterStep ==
    ASSUME FormInv, AForm!Enter
    PROVE  FormInv'
<1>1. /\ setup' = setup /\ submitted' = submitted /\ focus' = focus
      /\ outdated' = outdated \cup AForm!Follows(focus)
      /\ focus \in AForm!Fields
  BY FormInvParts DEF AForm!Enter
<1>2. PICK x \in AForm!ValuesOf(focus) \ {form.values[focus]} :
        form' = AForm!FieldChange([form EXCEPT !.values[focus] = x], focus)
  BY DEF AForm!Enter
<1>3. x \in FieldValues
  BY DEF AForm!ValuesOf, FieldValues
<1>4. PICK u : u = [form EXCEPT !.values[focus] = x]
  OBVIOUS
<1>5. IsChanged(form, focus, u)
  BY <1>1, <1>3, <1>4, FormInvParts, ValueSet
<1>6. PICK w : w = AForm!FieldChange(u, focus)
  OBVIOUS
<1>7. /\ IsSound(w) /\ w.error = u.error /\ w.values = u.values
      /\ setup.on = "submit" /\ IsQuiet(u) => IsQuiet(w)
  BY <1>1, <1>5, <1>6, FormInvParts, FieldChangeFacts DEF IsChanged
<1>8. IsChanged(form, focus, w)
  BY <1>5, <1>7 DEF IsChanged
<1>9. form' = w
  BY <1>2, <1>4, <1>6
<1>10. QED
  BY <1>1, <1>8, <1>9, ChangedStep

LEMMA PickStep ==
    ASSUME FormInv, AForm!Pick
    PROVE  FormInv'
<1>1. /\ setup' = setup /\ submitted' = submitted /\ focus' = focus /\ outdated' = outdated
      /\ form' = AForm!ChangeTo(form, "choice", AForm!Chosen)
  BY DEF AForm!Pick
<1>2. /\ "choice" \in AForm!Fields /\ "choice" \notin AForm!Texts
      /\ AForm!Follows("choice") = {} /\ AForm!Chosen \in FieldValues
  BY FieldNames DEF AForm!Follows, FieldValues
<1>3. PICK w : w = AForm!ChangeTo(form, "choice", AForm!Chosen)
  OBVIOUS
<1>4. IsChanged(form, "choice", w)
  BY <1>2, <1>3, FormInvParts, ChangeToFacts
<1>5. form' = w
  BY <1>1, <1>3
<1>6. QED
  BY <1>1, <1>2, <1>4, <1>5, ChangedStep

LEMMA SetValueStep ==
    ASSUME FormInv, AForm!SetValue
    PROVE  FormInv'
<1>1. /\ setup' = setup /\ submitted' = submitted /\ focus' = focus
  BY DEF AForm!SetValue
<1>2. PICK f \in AForm!Present : \E x \in AForm!ValuesOf(f) \ {form.values[f]} :
        /\ form' = IF f \in AForm!Texts THEN [form EXCEPT !.values[f] = x]
                   ELSE AForm!ChangeTo(form, f, x)
        /\ outdated' = outdated \cup {f} \cup AForm!Follows(f)
  BY DEF AForm!SetValue
<1>3. PICK x \in AForm!ValuesOf(f) :
        /\ form' = IF f \in AForm!Texts THEN [form EXCEPT !.values[f] = x]
                   ELSE AForm!ChangeTo(form, f, x)
        /\ outdated' = outdated \cup {f} \cup AForm!Follows(f)
  BY <1>2
<1>4. x \in FieldValues
  BY DEF AForm!ValuesOf, FieldValues
<1>5. f \in AForm!Fields
  BY FormInvParts DEF FormSetups, AForm!Present
<1>6. PICK w : w = form'
  OBVIOUS
<1>7. IsChanged(form, f, w)
  <2>1. CASE f \in AForm!Texts
    <3>1. w = [form EXCEPT !.values[f] = x]
      BY <1>3, <1>6, <2>1
    <3>2. QED
      BY <1>4, <1>5, <3>1, FormInvParts, ValueSet
  <2>2. CASE f \notin AForm!Texts
    <3>1. w = AForm!ChangeTo(form, f, x)
      BY <1>3, <1>6, <2>2
    <3>2. QED
      BY <1>4, <1>5, <3>1, FormInvParts, ChangeToFacts
  <2>3. QED
    BY <2>1, <2>2
<1>8. QED
  BY <1>1, <1>3, <1>5, <1>6, <1>7, ChangedStep

\* Submission judges every field.
LEMMA ValidateFormFacts ==
    ASSUME setup \in FormSetups, NEW v, IsSound(v), ~v.held, NEW w, w = AForm!ValidateForm(v)
    PROVE  IsSound(w) /\ AreJudged(w, AForm!Fields)
<1>1. PICK u : u = AForm!ValidateAll(v)
  OBVIOUS
<1>2. PICK c \in {"success", "error"} : w = [u EXCEPT !.class = c]
  BY <1>1 DEF AForm!ValidateForm
<1>3. IsSound(u) /\ AreJudged(u, AForm!Fields)
  BY <1>1, ValidateAllFacts
<1>4. u \in OneForm
  BY <1>3 DEF IsSound
<1>5. w \in OneForm /\ w.error = u.error /\ w.values = u.values /\ w.prompt = u.prompt
  BY <1>2, <1>4 DEF OneForm
<1>6. \A f \in AForm!Fields : AForm!IsValid(w, f) <=> AForm!IsValid(u, f)
  BY <1>5, ValidityIsOfValues
<1>7. QED
  BY <1>3, <1>5, <1>6 DEF IsSound, AreJudged

\* Keys that are held, timers that are forgotten, and what a form resets to are
\* no matter of errors.
LEMMA SameErrors ==
    ASSUME NEW v, IsSound(v), NEW w \in OneForm,
           w.error = v.error, w.prompt = v.prompt, w.values = v.values
    PROVE  /\ IsSound(w)
           /\ \A fs : AreJudged(v, fs) => AreJudged(w, fs)
<1>1. IsSound(w)
  BY DEF IsSound
<1>2. \A f : AForm!IsValid(w, f) <=> AForm!IsValid(v, f)
  BY ValidityIsOfValues
<1>3. QED
  BY <1>1, <1>2 DEF AreJudged

LEMMA SubmitStep ==
    ASSUME FormInv, setup' = setup, submitted' = TRUE, focus' = focus,
           NEW w, form' = w, IsSound(w),
           IF form.held
           THEN /\ outdated' = outdated
                /\ AreJudged(w, AForm!Texts \ ({focus} \cup outdated))
           ELSE AreJudged(w, AForm!Fields)
    PROVE  FormInv'
<1>1. AreJudged(w, AForm!Texts \ ({focus'} \cup outdated'))
  BY FieldNames DEF AreJudged
<1>2. QED
  BY <1>1, FormInvParts, FormInvFrom

LEMMA PressEnterStep ==
    ASSUME FormInv, AForm!PressEnter
    PROVE  FormInv'
<1>1. /\ setup' = setup /\ submitted' = TRUE /\ focus' = focus /\ focus \in AForm!Fields
      /\ form' = AForm!KeyDown(form, focus)
      /\ outdated' = IF form.held THEN outdated ELSE {}
  BY FieldNames DEF AForm!PressEnter
<1>2. CASE form.held
  <2>1. form' = form
    BY <1>1, <1>2 DEF AForm!KeyDown
  <2>2. QED
    BY <1>1, <1>2, <2>1, FormInvParts, SubmitStep
<1>3. CASE ~form.held
  <2>1. PICK u : u = AForm!ValidateForm(form)
    OBVIOUS
  <2>2. IsSound(u) /\ AreJudged(u, AForm!Fields)
    BY <1>3, <2>1, FormInvParts, ValidateFormFacts
  <2>3. u \in OneForm
    BY <2>2 DEF IsSound
  <2>4. PICK w : w = [u EXCEPT !.held = TRUE, !.keyup = u.keyup \cup {focus}]
    OBVIOUS
  <2>5. form' = w
    BY <1>1, <1>3, <2>1, <2>4 DEF AForm!KeyDown
  <2>6. u.keyup \cup {focus} \in SUBSET AForm!Fields
    BY <1>1, <2>3 DEF OneForm
  <2>7. w \in OneForm /\ w.error = u.error /\ w.prompt = u.prompt /\ w.values = u.values
    BY <2>3, <2>4, <2>6 DEF OneForm
  <2>8. IsSound(w) /\ AreJudged(w, AForm!Fields)
    BY <2>2, <2>7, SameErrors
  <2>9. QED
    BY <1>1, <1>3, <2>5, <2>8, SubmitStep
<1>4. QED
  BY <1>2, <1>3

LEMMA ClickSubmitStep ==
    ASSUME FormInv, AForm!ClickSubmit
    PROVE  FormInv'
<1>1. /\ setup' = setup /\ submitted' = TRUE /\ focus' = focus
      /\ form' = AForm!ValidateForm(form)
      /\ outdated' = IF form.held THEN outdated ELSE {}
  BY DEF AForm!ClickSubmit
<1>2. CASE form.held
  <2>1. form' = form
    BY <1>1, <1>2 DEF AForm!ValidateForm
  <2>2. QED
    BY <1>1, <1>2, <2>1, FormInvParts, SubmitStep
<1>3. CASE ~form.held
  <2>1. PICK w : w = AForm!ValidateForm(form)
    OBVIOUS
  <2>2. IsSound(w) /\ AreJudged(w, AForm!Fields)
    BY <1>3, <2>1, FormInvParts, ValidateFormFacts
  <2>3. QED
    BY <1>1, <1>3, <2>1, <2>2, SubmitStep
<1>4. QED
  BY <1>2, <1>3

\* A step that leaves the errors, the prompts and the values as they are.
LEMMA QuietStep ==
    ASSUME FormInv, setup' = setup, submitted' = submitted, focus' = focus, outdated' = outdated,
           NEW w \in OneForm, form' = w,
           w.error = form.error, w.prompt = form.prompt, w.values = form.values,
           IsQuiet(form) => IsQuiet(w)
    PROVE  FormInv'
<1>1. IsSound(w) /\ AreJudged(w, AForm!Texts \ ({focus'} \cup outdated'))
  BY FormInvParts, SameErrors
<1>2. QED
  BY <1>1, FormInvParts, FormInvFrom

LEMMA ReleaseKeyStep ==
    ASSUME FormInv, AForm!ReleaseKey
    PROVE  FormInv'
<1>1. /\ setup' = setup /\ submitted' = submitted /\ focus' = focus /\ outdated' = outdated
      /\ form' = [form EXCEPT !.held = FALSE, !.keyup = form.keyup \ {focus}]
  BY DEF AForm!ReleaseKey, AForm!KeyUp
<1>2. PICK w : w = form'
  OBVIOUS
<1>3. form.keyup \ {focus} \in SUBSET AForm!Fields
  BY FormInvParts DEF OneForm
<1>4. /\ w \in OneForm
      /\ w.error = form.error /\ w.prompt = form.prompt /\ w.values = form.values
      /\ w.timer = form.timer /\ w.old = form.old
  BY <1>1, <1>2, <1>3, FormInvParts DEF OneForm
<1>5. IsQuiet(form) => IsQuiet(w)
  BY <1>4 DEF IsQuiet
<1>6. QED
  BY <1>1, <1>2, <1>4, <1>5, QuietStep

LEMMA SetUpAnewStep ==
    ASSUME FormInv, AForm!SetUpAnew
    PROVE  FormInv'
<1>1. /\ setup' = setup /\ submitted' = submitted /\ focus' = focus /\ outdated' = outdated
      /\ form' = AForm!SetUp(form)
  BY DEF AForm!SetUpAnew
<1>2. PICK w : w = form'
  OBVIOUS
<1>3. PICK old : old = form.old \cup ({form.timer} \ {AForm!NoField})
  OBVIOUS
<1>4. old \in SUBSET AForm!Fields
  BY <1>3, FormInvParts DEF OneForm
<1>5. w = [form EXCEPT !.defaults = form.values, !.timer = AForm!NoField, !.held = FALSE,
                       !.keyup = {}, !.old = old]
  BY <1>1, <1>2, <1>3 DEF AForm!SetUp
<1>6. /\ w \in OneForm
      /\ w.error = form.error /\ w.prompt = form.prompt /\ w.values = form.values
      /\ w.timer = AForm!NoField /\ w.old = old
  BY <1>4, <1>5, FormInvParts DEF OneForm
<1>7. IsQuiet(form) => IsQuiet(w)
  BY <1>3, <1>6 DEF IsQuiet
<1>8. QED
  BY <1>1, <1>2, <1>6, <1>7, QuietStep

LEMMA ClickClearStep ==
    ASSUME FormInv, AForm!ClickClear \/ AForm!ClickReset
    PROVE  FormInv'
<1>1. /\ setup' = setup /\ submitted' = submitted /\ focus' = focus /\ outdated' = outdated
  BY DEF AForm!ClickClear, AForm!ClickReset
<1>2. PICK values \in [AForm!Fields -> FieldValues] : form' = AForm!AllTo(form, values)
  <2>1. [f \in AForm!Fields |-> AForm!Blank] \in [AForm!Fields -> FieldValues]
    BY DEF FieldValues
  <2>2. form.defaults \in [AForm!Fields -> FieldValues]
    BY FormInvParts DEF OneForm
  <2>3. PICK own : own = [form.defaults EXCEPT !["choice"] =
                            IF setup.choice = "dropdown" THEN AForm!Blank ELSE @]
    OBVIOUS
  <2>4. own \in [AForm!Fields -> FieldValues]
    BY <2>2, <2>3 DEF FieldValues
  <2>5. QED
    BY <2>1, <2>3, <2>4 DEF AForm!ClickClear, AForm!ClickReset, AForm!Clear, AForm!Reset
<1>3. PICK w : w = AForm!AllTo(form, values)
  OBVIOUS
<1>4. /\ IsSound(w) /\ w.error = {}
      /\ setup.on = "submit" /\ IsQuiet(form) => IsQuiet(w)
  BY <1>3, FormInvParts, AllToFacts
<1>5. AreJudged(w, AForm!Texts \ ({focus'} \cup outdated'))
  BY <1>4 DEF AreJudged
<1>6. QED
  BY <1>1, <1>2, <1>3, <1>4, <1>5, FormInvParts, FormInvFrom

(* A timer of a module that is there, or that is gone, goes off.           *)
LEMMA AnyTimerStep ==
    ASSUME FormInv, setup' = setup, submitted' = submitted, focus' = focus,
           NEW f \in AForm!Fields, outdated' = outdated \ {f}, ~IsQuiet(form),
           NEW u, u = AForm!ValidateField(form, f),
           NEW w \in OneForm, form' = w,
           w.error = u.error, w.prompt = u.prompt, w.values = u.values
    PROVE  FormInv'
<1>1. IsValidated(form, f, u)
  BY FormInvParts, ValidateFieldFacts
<1>2. PICK gs : gs = AForm!Texts \ ({focus'} \cup outdated')
  OBVIOUS
<1>3. gs \in SUBSET ((AForm!Texts \ ({focus} \cup outdated)) \cup {f})
  BY <1>2
<1>4. AreJudged(u, gs)
  BY <1>1, <1>3, FormInvParts, ValidatedJudged
<1>5. IsSound(w) /\ AreJudged(w, gs)
  BY <1>1, <1>4, SameErrors DEF IsValidated
<1>6. ~(setup.on = "submit" /\ ~submitted')
  BY FormInvParts
<1>7. QED
  BY <1>2, <1>5, <1>6, FormInvParts, FormInvFrom

LEMMA TimerStep ==
    ASSUME FormInv, AForm!Timer
    PROVE  FormInv'
<1>1. /\ setup' = setup /\ submitted' = submitted /\ focus' = focus
      /\ form.timer # AForm!NoField /\ outdated' = outdated \ {form.timer}
  BY DEF AForm!Timer
<1>2. form.timer \in AForm!Fields /\ ~IsQuiet(form)
  BY <1>1, FormInvParts DEF OneForm, IsQuiet
<1>3. PICK u : u = AForm!ValidateField(form, form.timer)
  OBVIOUS
<1>4. u \in OneForm
  BY <1>2, <1>3, FormInvParts, ValidateFieldFacts DEF IsValidated, IsSound
<1>5. PICK w : w = [u EXCEPT !.timer = AForm!NoField]
  OBVIOUS
<1>6. form' = w
  BY <1>3, <1>5 DEF AForm!Timer
<1>7. w \in OneForm /\ w.error = u.error /\ w.prompt = u.prompt /\ w.values = u.values
  BY <1>4, <1>5 DEF OneForm
<1>8. QED
  BY <1>1, <1>2, <1>3, <1>6, <1>7, AnyTimerStep

LEMMA OldTimerStep ==
    ASSUME FormInv, AForm!OldTimer
    PROVE  FormInv'
<1>1. PICK f \in form.old :
        /\ form' = [AForm!ValidateField(form, f) EXCEPT !.old = @ \ {f}]
        /\ outdated' = outdated \ {f}
        /\ setup' = setup /\ submitted' = submitted /\ focus' = focus
  BY DEF AForm!OldTimer
<1>2. f \in AForm!Fields /\ ~IsQuiet(form)
  BY FormInvParts DEF OneForm, IsQuiet
<1>3. PICK u : u = AForm!ValidateField(form, f)
  OBVIOUS
<1>4. u \in OneForm
  BY <1>2, <1>3, FormInvParts, ValidateFieldFacts DEF IsValidated, IsSound
<1>5. PICK w : w = [u EXCEPT !.old = u.old \ {f}]
  OBVIOUS
<1>6. form' = w
  BY <1>1, <1>3, <1>5
<1>7. u.old \ {f} \in SUBSET AForm!Fields
  BY <1>4 DEF OneForm
<1>8. w \in OneForm /\ w.error = u.error /\ w.prompt = u.prompt /\ w.values = u.values
  BY <1>4, <1>5, <1>7 DEF OneForm
<1>9. QED
  BY <1>1, <1>2, <1>3, <1>6, <1>8, AnyTimerStep

LEMMA PromptMovesStep ==
    ASSUME FormInv, NEW f \in AForm!Fields, AForm!PromptMoves(f)
    PROVE  FormInv'
<1> DEFINE p == CASE form.prompt[f] = "appearing"       -> "shown"
                  [] form.prompt[f] = "appearing to go" -> "going"
                  [] form.prompt[f] = "going"           -> "none"
<1>1. /\ setup' = setup /\ submitted' = submitted /\ focus' = focus /\ outdated' = outdated
      /\ form.prompt[f] \in {"appearing", "appearing to go", "going"}
  BY DEF AForm!PromptMoves
<1>2. PICK e : e = form.error
  OBVIOUS
<1>3. form' = Marked(form, e, f, p)
  <2>1. form' = [form EXCEPT !.prompt[f] = p]
    BY DEF AForm!PromptMoves
  <2>2. QED
    BY <1>2, <2>1, FormInvParts DEF Marked, OneForm
<1>4. /\ p \in Prompts
      /\ p \in {"appearing", "shown"} => form.prompt[f] = "appearing"
  BY <1>1 DEF Prompts
<1> HIDE DEF p
<1>5. PICK w : w = Marked(form, e, f, p)
  OBVIOUS
<1>6. e \in SUBSET AForm!Fields
  BY <1>2, FormInvParts DEF OneForm
<1>7. /\ w \in OneForm /\ SameButErrors(form, w) /\ w.error = e
      /\ w.prompt[f] = p
      /\ \A g \in AForm!Fields : g # f => w.prompt[g] = form.prompt[g]
  BY <1>4, <1>5, <1>6, FormInvParts, FormMarked
<1>8. IsSound(w)
  BY <1>2, <1>4, <1>7, FormInvParts DEF IsSound
<1>9. AreJudged(w, AForm!Texts \ ({focus'} \cup outdated'))
  <2>1. \A g : AForm!IsValid(w, g) <=> AForm!IsValid(form, g)
    BY <1>7, ValidityIsOfValues DEF SameButErrors
  <2>2. QED
    BY <1>1, <1>2, <1>7, <2>1, FormInvParts DEF AreJudged
<1>10. IsQuiet(form) => IsQuiet(w)
  BY <1>2, <1>7 DEF IsQuiet, SameButErrors
<1>11. QED
  BY <1>1, <1>3, <1>5, <1>8, <1>9, <1>10, FormInvParts, FormInvFrom

LEMMA FormInvInit == AForm!Init => FormInv
<1>1. SUFFICES ASSUME AForm!Init PROVE FormInv
  OBVIOUS
<1>2. setup \in FormSetups
  BY <1>1, ContentAssumption DEF AForm!Init, AForm!FormAssumption, FormSetups
<1>3. form \in OneForm
  <2>1. /\ [f \in AForm!Fields |-> AForm!Blank] \in [AForm!Fields -> FieldValues]
        /\ [f \in AForm!Fields |-> "none"] \in [AForm!Fields -> Prompts]
    BY DEF FieldValues, Prompts
  <2>2. QED
    BY <1>1, <2>1 DEF AForm!Init, OneForm
<1>4. /\ form.error = {} /\ form.timer = AForm!NoField /\ form.old = {}
      /\ \A f \in AForm!Fields : form.prompt[f] = "none"
  BY <1>1 DEF AForm!Init
<1>5. QED
  BY <1>1, <1>2, <1>3, <1>4 DEF AForm!Init, FormInv, IsSound, IsQuiet, AreJudged

LEMMA FormInvStep == FormInv /\ [AForm!Next]_(AForm!vars) => FormInv'
<1>1. SUFFICES ASSUME FormInv, [AForm!Next]_(AForm!vars) PROVE FormInv'
  OBVIOUS
<1>2. CASE AForm!Focus
  BY <1>1, <1>2, FocusStep
<1>3. CASE AForm!Leave
  BY <1>1, <1>3, LeaveStep
<1>4. CASE AForm!Enter
  BY <1>1, <1>4, EnterStep
<1>5. CASE AForm!Pick
  BY <1>1, <1>5, PickStep
<1>6. CASE AForm!PressEnter
  BY <1>1, <1>6, PressEnterStep
<1>7. CASE AForm!ReleaseKey
  BY <1>1, <1>7, ReleaseKeyStep
<1>8. CASE AForm!ClickSubmit
  BY <1>1, <1>8, ClickSubmitStep
<1>9. CASE AForm!ClickClear \/ AForm!ClickReset
  BY <1>1, <1>9, ClickClearStep
<1>10. CASE AForm!SetValue
  BY <1>1, <1>10, SetValueStep
<1>11. CASE AForm!SetUpAnew
  BY <1>1, <1>11, SetUpAnewStep
<1>12. CASE AForm!Timer
  BY <1>1, <1>12, TimerStep
<1>13. CASE AForm!OldTimer
  BY <1>1, <1>13, OldTimerStep
<1>14. ASSUME NEW f \in AForm!Fields, AForm!PromptMoves(f) PROVE FormInv'
  BY <1>1, <1>14, PromptMovesStep
<1>15. CASE UNCHANGED AForm!vars
  BY <1>1, <1>15 DEF AForm!vars, FormInv, IsSound, IsQuiet, AreJudged, AForm!IsValid, AForm!Present
<1>16. QED
  BY <1>1, <1>2, <1>3, <1>4, <1>5, <1>6, <1>7, <1>8, <1>9, <1>10, <1>11, <1>12, <1>13, <1>14,
     <1>15
     DEF AForm!Next

(* form.js event.field, add.prompt, remove.prompt: whatever is typed, left, cleared*)
(* and submitted, whichever timers run or outlive their module, a text that the    *)
(* user has left shows no error it has not, a prompt stands for an error, and a    *)
(* form to be validated on submission complains of nothing before it.              *)
THEOREM FormErrorsAreTrue == AForm!Spec => []ErrorsAreTrue
<1>1. QED
  BY FormInvInit, FormInvStep, FormInvTrue, PTL DEF AForm!Spec

-----------------------------------------------------------------------------
(* Elements whose visibility is followed.                                  *)

ElementKinds == {"plain", "fixed", "image"}

Layouts ==
  [kind : [ASight!Modules -> ElementKinds], throttle : BOOLEAN, scroll : 0 .. MaxScroll,
   screen : Screens, size : [ASight!Modules -> ASight!Sizes]]

Measures == [top : Nat, size : ASight!Sizes, screen : Screens]

Followers ==
  [alive : BOOLEAN, disabled : BOOLEAN, seen : Measures,
   occurred : SUBSET ASight!Conditions, reversed : SUBSET ASight!Conditions,
   told : SUBSET ASight!Conditions, fixed : BOOLEAN, placeholder : BOOLEAN,
   room : ASight!Sizes, image : {"waiting", "loading", "fading", "shown"}, missed : BOOLEAN]

TimerPairs ==
  [own : ASight!Tasks \cup {ASight!NoTimer}, loose : SUBSET ASight!Tasks]

SightTypeOK ==
  /\ layout \in Layouts
  /\ followers \in [ASight!Modules -> Followers]
  /\ publisher \in ASight!Modules \cup {ASight!Nobody}
  /\ timers \in [ASight!Modules -> TimerPairs]
  /\ images \in [loaded : Nat, all : BOOLEAN]

(* What a module holds, by the kind of its element: a plain one has told   *)
(* the page what occurred, and a reverse callback has only been called of  *)
(* what is over; a fixed one is fixed as long as its top is passed, with   *)
(* its placeholder unless it was destroyed; an image that came on screen   *)
(* never waits again.                                                      *)
IsFollower(f, kind) ==
  /\ kind = "plain" => /\ f.told = f.occurred /\ f.occurred \subseteq ASight!Reversible
                       /\ f.occurred \cap f.reversed = {}
  /\ kind = "fixed" => /\ f.occurred \subseteq {"topPassed"}
                       /\ f.fixed <=> "topPassed" \in f.occurred
                       /\ f.fixed /\ f.alive => f.placeholder
                       /\ "topPassed" \in f.occurred => "topPassed" \notin f.reversed
  /\ kind = "image" => (f.image # "waiting" => "onScreen" \in f.occurred)
  /\ kind # "image" => f.image = "waiting"

(* What occurred is what holds, of the element as it was measured.         *)
IsUpToDate(f, kind, scroll) ==
  /\ kind = "plain" => f.occurred = ASight!Holding(scroll, f.seen) \cap ASight!Reversible
  /\ kind = "fixed" => ("topPassed" \in f.occurred <=> scroll >= f.seen.top)

IsPublished ==
  /\ ASight!Publication \notin frames
  /\ \A k \in ASight!Modules :
       timers[k].own # ASight!Publication /\ ASight!Publication \notin timers[k].loose

AllFollow ==
  \A m \in ASight!Modules : IsFollower(followers[m], layout.kind[m])

AllUpToDate ==
  IsPublished =>
    \A m \in ASight!Modules :
      followers[m].alive /\ ~followers[m].missed =>
        IsUpToDate(followers[m], layout.kind[m], layout.scroll)

ImagesCounted ==
  /\ images.all => \A m \in ASight!Modules : followers[m].image = "shown"
  /\ images.loaded = 1 => \E m \in ASight!Modules : followers[m].image = "shown"

SightInv == SightTypeOK /\ AllFollow /\ AllUpToDate /\ ImagesCounted

(* The refresh of an element that waits for a frame, or for a timer.       *)
Framed(m) == ASight!Refreshing(m) \in frames

Timed(m) ==
  \E k \in ASight!Modules :
    timers[k].own = ASight!Refreshing(m) \/ ASight!Refreshing(m) \in timers[k].loose

(* What a plain element goes by is how it is, or it will be refreshed; a   *)
(* timer of its refresh is safe only where scrolling sets none.            *)
IsMeasured(m) ==
  /\ followers[m].seen.screen = layout.screen \/ Framed(m)
  /\ layout.throttle \/ followers[m].seen.size = layout.size[m] \/ Timed(m)

AllMeasured ==
  \A m \in ASight!Modules :
    followers[m].alive /\ layout.kind[m] = "plain" => IsMeasured(m)

LEMMA TasksDiffer ==
  /\ ASight!NoTimer # ASight!Publication
  /\ \A m : ASight!Refreshing(m) # ASight!Publication /\ ASight!Refreshing(m).of = m
  /\ \A t \in ASight!Tasks \ {ASight!Publication} :
       \E m \in ASight!Modules : t = ASight!Refreshing(m)
BY DEF ASight!NoTimer, ASight!Publication, ASight!Refreshing, ASight!Tasks

LEMMA TopPassedHolds ==
    ASSUME NEW scroll, NEW seen
    PROVE  /\ "topPassed" \in ASight!Holding(scroll, seen) <=> scroll >= seen.top
           /\ ASight!Holding(scroll, seen) \subseteq ASight!Conditions
BY DEF ASight!Holding, ASight!Conditions, ASight!Reversible

LEMMA SightInvTrue == SightInv /\ AllMeasured => FollowedTruly
<1>1. SUFFICES ASSUME SightInv, AllMeasured PROVE FollowedTruly
  OBVIOUS
<1>2. ASSUME NEW m \in ASight!Modules, ASight!Settled(m)
      PROVE  IsUpToDate(followers[m], layout.kind[m], layout.scroll)
  <2>1. /\ followers[m].alive /\ ~followers[m].missed
        /\ ASight!Publication \notin frames
        /\ \A k \in ASight!Modules :
             {timers[k].own} \cup timers[k].loose \subseteq
               {ASight!NoTimer} \cup {ASight!Refreshing(j) : j \in ASight!Modules \ {m}}
    BY <1>2 DEF ASight!Settled
  <2>2. IsPublished
    BY <2>1, TasksDiffer DEF IsPublished
  <2>3. QED
    BY <1>1, <2>1, <2>2 DEF SightInv, AllUpToDate
<1>3. ASight!CallbacksAreTrue
  BY <1>1, <1>2 DEF SightInv, AllFollow, IsFollower, IsUpToDate, ASight!CallbacksAreTrue
<1>4. ASight!FixedWhilePassed
  <2>1. ASSUME NEW m \in ASight!Modules, ASight!Settled(m)
        PROVE  followers[m].alive
    BY <2>1 DEF ASight!Settled
  <2>2. QED
    BY <1>1, <1>2, <2>1 DEF SightInv, AllFollow, IsFollower, IsUpToDate, ASight!FixedWhilePassed
<1>5. ASight!AllLoadedMeansAll
  BY <1>1 DEF SightInv, ImagesCounted, ASight!AllLoadedMeansAll
<1>6. ASight!MeasuresAreCurrent
  <2>1. ASSUME NEW m \in ASight!Modules, ASight!Settled(m)
        PROVE  followers[m].alive /\ ~Framed(m) /\ ~Timed(m)
    <3>1. /\ followers[m].alive /\ ASight!Refreshing(m) \notin frames
          /\ \A k \in ASight!Modules :
               {timers[k].own} \cup timers[k].loose \subseteq
                 {ASight!NoTimer} \cup {ASight!Refreshing(j) : j \in ASight!Modules \ {m}}
      BY <2>1 DEF ASight!Settled
    <3>2. /\ ASight!Refreshing(m) # ASight!NoTimer
          /\ \A j \in ASight!Modules \ {m} : ASight!Refreshing(m) # ASight!Refreshing(j)
      BY DEF ASight!Refreshing, ASight!NoTimer
    <3>3. ASight!Refreshing(m) \notin
            {ASight!NoTimer} \cup {ASight!Refreshing(j) : j \in ASight!Modules \ {m}}
      BY <3>2
    <3>4. QED
      BY <3>1, <3>3 DEF Framed, Timed
  <2>2. QED
    BY <1>1, <2>1 DEF AllMeasured, IsMeasured, ASight!MeasuresAreCurrent
<1>7. QED
  BY <1>3, <1>4, <1>5, <1>6 DEF FollowedTruly, ASight!FollowedTruly

-----------------------------------------------------------------------------
(* A check of one element.                                                 *)

(* What a check, and what a refresh of an element leaves of its module.    *)
IsChecked(f, r, seen, kind, scroll) ==
  /\ r \in Followers /\ IsFollower(r, kind)
  /\ r.alive = f.alive /\ r.seen = seen
  /\ r.missed \/ IsUpToDate(r, kind, scroll)
  /\ f.image = "shown" => r.image = "shown"

LEMMA ReverseFacts ==
    ASSUME NEW f \in Followers, NEW m, NEW h, NEW r, r = ASight!Reverse(f, m, h)
    PROVE  /\ r \in Followers
           /\ r.told = f.told \ (((ASight!Reversible \ h) \cap f.occurred) \ f.reversed)
           /\ r.occurred = f.occurred
           /\ r.reversed = (f.reversed \cup ((ASight!Reversible \ h) \cap f.occurred))
                              \ (IF ASight!Once(m) THEN {} ELSE h)
           /\ r.fixed <=> f.fixed /\ "topPassed" \notin
                            ((ASight!Reversible \ h) \cap f.occurred) \ f.reversed
           /\ r.placeholder <=> f.placeholder /\ "topPassed" \notin
                            ((ASight!Reversible \ h) \cap f.occurred) \ f.reversed
           /\ r.alive = f.alive /\ r.seen = f.seen /\ r.image = f.image
BY DEF ASight!Reverse, Followers

IsForward(f, m, h, r) ==
  /\ r \in Followers
  /\ r.told = f.told \cup (h \ f.occurred)
  /\ r.occurred = IF ASight!Once(m) THEN f.occurred \cup h ELSE h
  /\ r.reversed = f.reversed
  /\ r.fixed <=> f.fixed \/ (layout.kind[m] = "fixed" /\ "topPassed" \in h \ f.occurred)
  /\ r.placeholder <=>
       \/ f.placeholder
       \/ layout.kind[m] = "fixed" /\ "topPassed" \in h \ f.occurred /\ f.alive
  /\ r.alive = f.alive /\ r.seen = f.seen
  /\ r.image = IF layout.kind[m] = "image" /\ "onScreen" \in h \ f.occurred
               THEN "loading" ELSE f.image

LEMMA ForwardFacts ==
    ASSUME NEW f \in Followers, NEW m, NEW h \in SUBSET ASight!Conditions,
           NEW r, r = ASight!Forward(f, m, h)
    PROVE  IsForward(f, m, h, r)
BY DEF IsForward, ASight!Forward, Followers

(* The module of an element is asked of what holds: h.                     *)
LEMMA CheckPlain ==
    ASSUME NEW f \in Followers, NEW m, layout.kind[m] = "plain", IsFollower(f, "plain"),
           NEW h \in SUBSET ASight!Reversible,
           NEW u, u = ASight!Reverse(f, m, h), NEW r, r = ASight!Forward(u, m, h)
    PROVE  IsFollower(r, "plain") /\ r.occurred = h
<1>1. /\ f.told = f.occurred /\ f.occurred \subseteq ASight!Reversible
      /\ f.occurred \cap f.reversed = {} /\ f.image = "waiting"
  BY DEF IsFollower
<1>2. ~ASight!Once(m) /\ h \in SUBSET ASight!Conditions
  BY DEF ASight!Once, ASight!Conditions
<1>3. /\ u \in Followers
      /\ u.told = f.told \ (((ASight!Reversible \ h) \cap f.occurred) \ f.reversed)
      /\ u.occurred = f.occurred
      /\ u.reversed = (f.reversed \cup ((ASight!Reversible \ h) \cap f.occurred)) \ h
      /\ u.image = f.image
  BY <1>2, ReverseFacts
<1>4. /\ r.told = u.told \cup (h \ u.occurred) /\ r.occurred = h
      /\ r.reversed = u.reversed /\ r.image = u.image
  <2>1. IsForward(u, m, h, r)
    BY <1>2, <1>3, ForwardFacts
  <2>2. QED
    BY <1>2, <2>1 DEF IsForward
<1>5. r.told = h
  BY <1>1, <1>3, <1>4
<1>6. r.occurred = h /\ r.occurred \cap r.reversed = {}
  BY <1>3, <1>4
<1>7. QED
  BY <1>1, <1>3, <1>4, <1>5, <1>6 DEF IsFollower

LEMMA CheckFixed ==
    ASSUME NEW f \in Followers, NEW m, layout.kind[m] = "fixed", IsFollower(f, "fixed"),
           NEW h \in SUBSET {"topPassed"},
           NEW u, u = ASight!Reverse(f, m, h), NEW r, r = ASight!Forward(u, m, h)
    PROVE  IsFollower(r, "fixed") /\ r.occurred = h
<1>1. /\ f.occurred \subseteq {"topPassed"}
      /\ f.fixed <=> "topPassed" \in f.occurred
      /\ f.fixed /\ f.alive => f.placeholder
      /\ "topPassed" \in f.occurred => "topPassed" \notin f.reversed
      /\ f.image = "waiting"
  BY DEF IsFollower
<1>2. /\ ~ASight!Once(m) /\ h \in SUBSET ASight!Conditions
      /\ "topPassed" \in ASight!Reversible
  BY DEF ASight!Once, ASight!Conditions, ASight!Reversible
<1>3. /\ u \in Followers
      /\ u.occurred = f.occurred
      /\ u.reversed = (f.reversed \cup ((ASight!Reversible \ h) \cap f.occurred)) \ h
      /\ u.fixed <=> f.fixed /\ "topPassed" \notin
                       ((ASight!Reversible \ h) \cap f.occurred) \ f.reversed
      /\ u.placeholder <=> f.placeholder /\ "topPassed" \notin
                       ((ASight!Reversible \ h) \cap f.occurred) \ f.reversed
      /\ u.image = f.image /\ u.alive = f.alive
  BY <1>2, ReverseFacts
<1>4. /\ r.occurred = h /\ r.reversed = u.reversed /\ r.image = u.image
      /\ r.fixed <=> u.fixed \/ "topPassed" \in h \ u.occurred
      /\ r.placeholder <=> u.placeholder \/ ("topPassed" \in h \ u.occurred /\ u.alive)
      /\ r.alive = u.alive
  <2>1. IsForward(u, m, h, r)
    BY <1>2, <1>3, ForwardFacts
  <2>2. QED
    BY <1>2, <2>1 DEF IsForward
<1>5. r.fixed <=> "topPassed" \in h
  BY <1>1, <1>2, <1>3, <1>4
<1>6. "topPassed" \in r.occurred => "topPassed" \notin r.reversed
  BY <1>3, <1>4
<1>7. r.fixed /\ r.alive => r.placeholder
  BY <1>1, <1>3, <1>4
<1>8. QED
  BY <1>1, <1>3, <1>4, <1>5, <1>6, <1>7 DEF IsFollower

LEMMA CheckImage ==
    ASSUME NEW f \in Followers, NEW m, layout.kind[m] = "image", IsFollower(f, "image"),
           NEW h \in SUBSET ASight!Conditions,
           NEW u, u = ASight!Reverse(f, m, h), NEW r, r = ASight!Forward(u, m, h)
    PROVE  IsFollower(r, "image") /\ (f.image = "shown" => r.image = "shown")
<1>1. f.image # "waiting" => "onScreen" \in f.occurred
  BY DEF IsFollower
<1>2. ASight!Once(m)
  BY DEF ASight!Once
<1>3. u \in Followers /\ u.occurred = f.occurred /\ u.image = f.image
  BY ReverseFacts
<1>4. /\ r.occurred = u.occurred \cup h
      /\ r.image = IF "onScreen" \in h \ u.occurred THEN "loading" ELSE u.image
  <2>1. IsForward(u, m, h, r)
    BY <1>3, ForwardFacts
  <2>2. QED
    BY <1>2, <2>1 DEF IsForward
<1>5. QED
  BY <1>1, <1>3, <1>4 DEF IsFollower

LEMMA CheckFacts ==
    ASSUME layout \in Layouts, NEW f \in Followers, NEW m \in ASight!Modules,
           IsFollower(f, layout.kind[m]), NEW scroll
    PROVE  IsChecked(f, ASight!CheckVisibility(f, m, scroll), f.seen, layout.kind[m], scroll)
<1>1. PICK w : w = ASight!CheckVisibility(f, m, scroll)
  OBVIOUS
<1>2. CASE f.disabled
  <2>1. w = [f EXCEPT !.missed = TRUE]
    BY <1>1, <1>2 DEF ASight!CheckVisibility
  <2>2. /\ w \in Followers /\ w.missed = TRUE /\ w.alive = f.alive
        /\ w.told = f.told /\ w.occurred = f.occurred /\ w.reversed = f.reversed
        /\ w.fixed = f.fixed /\ w.image = f.image /\ w.seen = f.seen
        /\ w.placeholder = f.placeholder
    BY <2>1 DEF Followers
  <2>3. IsFollower(w, layout.kind[m])
    BY <2>2 DEF IsFollower
  <2>4. QED
    BY <1>1, <2>2, <2>3 DEF IsChecked
<1>3. CASE ~f.disabled
  <2>1. PICK h : h = ASight!Holding(scroll, f.seen) \cap ASight!Watched(m)
    OBVIOUS
  <2>2. PICK u : u = ASight!Reverse(f, m, h)
    OBVIOUS
  <2>3. PICK r : r = ASight!Forward(u, m, h)
    OBVIOUS
  <2>4. w = [r EXCEPT !.missed = FALSE]
    BY <1>1, <1>3, <2>1, <2>2, <2>3 DEF ASight!CheckVisibility
  <2>5. h \in SUBSET ASight!Conditions
    BY <2>1, TopPassedHolds
  <2>6. u \in Followers /\ u.alive = f.alive /\ u.seen = f.seen
    BY <2>2, ReverseFacts
  <2>7. r \in Followers /\ r.alive = f.alive /\ r.seen = f.seen
    <3>1. IsForward(u, m, h, r)
      BY <2>3, <2>5, <2>6, ForwardFacts
    <3>2. QED
      BY <2>6, <3>1 DEF IsForward
  <2>8. /\ w \in Followers /\ w.alive = f.alive /\ w.seen = f.seen
        /\ w.told = r.told /\ w.occurred = r.occurred /\ w.reversed = r.reversed
        /\ w.fixed = r.fixed /\ w.image = r.image /\ w.placeholder = r.placeholder
    BY <2>4, <2>7 DEF Followers
  <2>9. /\ IsFollower(r, layout.kind[m]) /\ IsUpToDate(w, layout.kind[m], scroll)
        /\ f.image = "shown" => r.image = "shown"
    <3>1. CASE layout.kind[m] = "plain"
      <4>1. h = ASight!Holding(scroll, f.seen) \cap ASight!Reversible
        BY <2>1, <3>1 DEF ASight!Watched
      <4>2. h \in SUBSET ASight!Reversible
        BY <4>1
      <4>3. IsFollower(r, "plain") /\ r.occurred = h
        BY <2>2, <2>3, <3>1, <4>2, CheckPlain
      <4>4. QED
        BY <2>8, <3>1, <4>1, <4>3 DEF IsFollower, IsUpToDate
    <3>2. CASE layout.kind[m] = "fixed"
      <4>1. h = ASight!Holding(scroll, f.seen) \cap {"topPassed"}
        BY <2>1, <3>2 DEF ASight!Watched
      <4>2. h \in SUBSET {"topPassed"}
        BY <4>1
      <4>3. IsFollower(r, "fixed") /\ r.occurred = h
        BY <2>2, <2>3, <3>2, <4>2, CheckFixed
      <4>4. "topPassed" \in w.occurred <=> scroll >= w.seen.top
        BY <2>8, <4>1, <4>3, TopPassedHolds
      <4>5. QED
        BY <3>2, <4>3, <4>4 DEF IsFollower, IsUpToDate
    <3>3. CASE layout.kind[m] = "image"
      <4>1. IsFollower(r, "image") /\ (f.image = "shown" => r.image = "shown")
        BY <2>2, <2>3, <2>5, <3>3, CheckImage
      <4>2. QED
        BY <3>3, <4>1 DEF IsUpToDate
    <3>4. layout.kind[m] \in ElementKinds
      BY DEF Layouts
    <3>5. QED
      BY <3>1, <3>2, <3>3, <3>4 DEF ElementKinds, IsFollower
  <2>10. IsFollower(w, layout.kind[m])
    BY <2>7, <2>8, <2>9 DEF IsFollower
  <2>11. QED
    BY <1>1, <2>8, <2>9, <2>10 DEF IsChecked
<1>4. QED
  BY <1>2, <1>3

LEMMA MeasuredTyped ==
    ASSUME layout \in Layouts, followers \in [ASight!Modules -> Followers],
           NEW m \in ASight!Modules
    PROVE  /\ ASight!Measured(m) \in Measures
           /\ ASight!Measured(m).size = layout.size[m]
           /\ ASight!Measured(m).screen = layout.screen
<1>1. /\ layout.size[1] \in ASight!Sizes /\ layout.size[m] \in ASight!Sizes
      /\ layout.screen \in Screens
  BY DEF Layouts, ASight!Modules
<1>2. followers[1].room \in ASight!Sizes
  BY DEF Followers, ASight!Modules
<1>3. PICK above \in Nat :
        above = (IF followers[1].fixed THEN 0 ELSE layout.size[1])
                + (IF followers[1].placeholder THEN followers[1].room ELSE 0)
  BY <1>1, <1>2 DEF ASight!Sizes
<1>4. PICK top \in Nat : top = IF m = 1 THEN 1 ELSE 1 + above
  BY <1>3
<1>5. ASight!Measured(m) = [top |-> top, size |-> layout.size[m], screen |-> layout.screen]
  BY <1>3, <1>4 DEF ASight!Measured
<1>6. QED
  BY <1>1, <1>5 DEF Measures

LEMMA NewFollowerFacts ==
    ASSUME NEW seen \in Measures, NEW kind
    PROVE  /\ ASight!NewFollower(seen) \in Followers
           /\ ASight!NewFollower(seen).seen = seen
           /\ ASight!NewFollower(seen).alive = TRUE
           /\ IsFollower(ASight!NewFollower(seen), kind)
<1>1. seen.size \in ASight!Sizes
  BY DEF Measures
<1>2. PICK f : f = ASight!NewFollower(seen)
  OBVIOUS
<1>3. f = [alive |-> TRUE, disabled |-> FALSE, seen |-> seen,
           occurred |-> {}, reversed |-> {}, told |-> {},
           fixed |-> FALSE, placeholder |-> FALSE, room |-> seen.size,
           image |-> "waiting", missed |-> FALSE]
  BY <1>2 DEF ASight!NewFollower
<1>4. f \in Followers /\ f.seen = seen /\ f.alive = TRUE
  BY <1>1, <1>3 DEF Followers
<1>5. IsFollower(f, kind)
  BY <1>3 DEF IsFollower
<1>6. QED
  BY <1>2, <1>4, <1>5

LEMMA RefreshFacts ==
    ASSUME layout \in Layouts, followers \in [ASight!Modules -> Followers],
           NEW f \in Followers, NEW m \in ASight!Modules, IsFollower(f, layout.kind[m])
    PROVE  IsChecked(f, ASight!Refresh(f, m), ASight!Measured(m), layout.kind[m], layout.scroll)
<1>1. PICK s \in Measures : s = ASight!Measured(m)
  BY MeasuredTyped
<1>2. PICK back : back = IF layout.kind[m] = "fixed" THEN ASight!ResetFixed(f) ELSE f
  OBVIOUS
<1>3. /\ back \in Followers /\ IsFollower(back, layout.kind[m])
      /\ back.alive = f.alive /\ back.image = f.image
  <2>1. CASE layout.kind[m] = "fixed"
    <3>1. back = [f EXCEPT !.fixed = FALSE, !.occurred = {}, !.reversed = {}]
      BY <1>2, <2>1 DEF ASight!ResetFixed
    <3>2. /\ back \in Followers /\ back.alive = f.alive /\ back.image = f.image
          /\ back.fixed = FALSE /\ back.occurred = {} /\ back.reversed = {}
      BY <3>1 DEF Followers
    <3>3. QED
      BY <2>1, <3>2 DEF IsFollower
  <2>2. CASE layout.kind[m] # "fixed"
    BY <1>2, <2>2
  <2>3. QED
    BY <2>1, <2>2
<1>4. PICK seen : seen = [back EXCEPT !.seen = s]
  OBVIOUS
<1>5. /\ seen \in Followers /\ seen.alive = back.alive /\ seen.image = back.image
      /\ seen.placeholder = back.placeholder /\ seen.seen = s
      /\ seen.told = back.told /\ seen.occurred = back.occurred
      /\ seen.reversed = back.reversed /\ seen.fixed = back.fixed
  BY <1>3, <1>4 DEF Followers
<1>6. IsFollower(seen, layout.kind[m])
  BY <1>3, <1>5 DEF IsFollower
<1>7. PICK w : w = ASight!CheckVisibility(seen, m, layout.scroll)
  OBVIOUS
<1>8. ASight!Refresh(f, m) = w
  BY <1>1, <1>2, <1>4, <1>7 DEF ASight!Refresh
<1>9. IsChecked(seen, w, s, layout.kind[m], layout.scroll)
  BY <1>5, <1>6, <1>7, CheckFacts
<1>10. QED
  BY <1>1, <1>3, <1>5, <1>8, <1>9 DEF IsChecked

-----------------------------------------------------------------------------
(* Each step of the page keeps the invariant.                              *)

LEMMA SightInvParts ==
    ASSUME SightInv, NEW m \in ASight!Modules
    PROVE  /\ layout \in Layouts /\ followers \in [ASight!Modules -> Followers]
           /\ timers \in [ASight!Modules -> TimerPairs]
           /\ images \in [loaded : Nat, all : BOOLEAN]
           /\ publisher \in ASight!Modules \cup {ASight!Nobody}
           /\ followers[m] \in Followers /\ IsFollower(followers[m], layout.kind[m])
           /\ IsPublished /\ followers[m].alive /\ ~followers[m].missed =>
                IsUpToDate(followers[m], layout.kind[m], layout.scroll)
BY DEF SightInv, SightTypeOK, AllFollow, AllUpToDate

(* A step that checks some of the modules and leaves the others.           *)
LEMMA CheckedStep ==
    ASSUME SightInv, layout' = layout, publisher' = publisher, images' = images,
           NEW fs \in [ASight!Modules -> Followers], followers' = fs,
           timers' \in [ASight!Modules -> TimerPairs],
           \A m \in ASight!Modules :
             \/ fs[m] = followers[m] /\ (followers[m].alive => (IsPublished' => IsPublished))
             \/ \E seen : IsChecked(followers[m], fs[m], seen, layout.kind[m], layout.scroll)
    PROVE  SightInv'
<1>1. SightTypeOK'
  BY DEF SightInv, SightTypeOK
<1>2. AllFollow'
  BY SightInvParts DEF AllFollow, IsChecked
<1>3. AllUpToDate'
  BY SightInvParts DEF AllUpToDate, IsChecked
<1>4. \A m \in ASight!Modules : followers[m].image = "shown" => fs[m].image = "shown"
  BY DEF IsChecked
<1>5. ImagesCounted'
  BY <1>4 DEF SightInv, ImagesCounted
<1>6. QED
  BY <1>1, <1>2, <1>3, <1>5 DEF SightInv

LEMMA DoneStep ==
    ASSUME SightInv, NEW what \in ASight!Tasks, followers' = ASight!Done(what),
           layout' = layout, publisher' = publisher, images' = images,
           timers' \in [ASight!Modules -> TimerPairs],
           what # ASight!Publication => (IsPublished' => IsPublished)
    PROVE  SightInv'
<1>1. CASE what = ASight!Publication
  <2>1. PICK fs : fs = [m \in ASight!Modules |->
                          IF followers[m].alive
                          THEN ASight!CheckVisibility(followers[m], m, layout.scroll)
                          ELSE followers[m]]
    OBVIOUS
  <2>2. followers' = fs
    BY <1>1, <2>1 DEF ASight!Done
  <2>3. ASSUME NEW m \in ASight!Modules
        PROVE  /\ fs[m] \in Followers
               /\ \/ fs[m] = followers[m] /\ ~followers[m].alive
                  \/ \E seen :
                       IsChecked(followers[m], fs[m], seen, layout.kind[m], layout.scroll)
    <3>1. CASE followers[m].alive
      <4>1. fs[m] = ASight!CheckVisibility(followers[m], m, layout.scroll)
        BY <2>1, <3>1
      <4>2. IsChecked(followers[m], fs[m], followers[m].seen, layout.kind[m], layout.scroll)
        BY <4>1, SightInvParts, CheckFacts
      <4>3. QED
        BY <4>2 DEF IsChecked
    <3>2. CASE ~followers[m].alive
      BY <2>1, <3>2, SightInvParts
    <3>3. QED
      BY <3>1, <3>2
  <2>4. fs \in [ASight!Modules -> Followers]
    BY <2>1, <2>3
  <2>5. QED
    BY <2>2, <2>3, <2>4, CheckedStep
<1>2. CASE what # ASight!Publication
  <2>1. PICK m \in ASight!Modules : what = ASight!Refreshing(m)
    BY <1>2, TasksDiffer
  <2>2. PICK r : r = ASight!Refresh(followers[m], m)
    OBVIOUS
  <2>3. PICK fs : fs = [followers EXCEPT ![m] = r]
    OBVIOUS
  <2>4. followers' = fs
    BY <1>2, <2>1, <2>2, <2>3, TasksDiffer DEF ASight!Done
  <2>5. IsChecked(followers[m], r, ASight!Measured(m), layout.kind[m], layout.scroll)
    BY <2>2, SightInvParts, RefreshFacts
  <2>6. /\ fs \in [ASight!Modules -> Followers] /\ fs[m] = r
        /\ \A k \in ASight!Modules \ {m} : fs[k] = followers[k]
    BY <2>3, <2>5, SightInvParts DEF IsChecked
  <2>7. QED
    BY <1>2, <2>4, <2>5, <2>6, CheckedStep
<1>3. QED
  BY <1>1, <1>2

LEMMA FrameStep ==
    ASSUME SightInv, NEW what \in ASight!Tasks, ASight!Frame(what)
    PROVE  SightInv'
<1>1. /\ frames' = frames \ {what} /\ followers' = ASight!Done(what)
      /\ layout' = layout /\ publisher' = publisher /\ timers' = timers /\ images' = images
  BY DEF ASight!Frame
<1>2. what # ASight!Publication => (IsPublished' => IsPublished)
  BY <1>1 DEF IsPublished
<1>3. timers' \in [ASight!Modules -> TimerPairs]
  BY <1>1 DEF SightInv, SightTypeOK
<1>4. QED
  BY <1>1, <1>2, <1>3, DoneStep

(* A timer that has fired is forgotten, and no other.                      *)
LEMMA TimerPairPicked ==
    ASSUME SightInv, NEW what \in ASight!Tasks, NEW m \in ASight!Modules,
           ASight!Timer(m, what) \/ ASight!LooseTimer(m, what)
    PROVE  \E pair \in TimerPairs :
             /\ timers' = [timers EXCEPT ![m] = pair]
             /\ timers[m].own \in {pair.own, what}
             /\ timers[m].loose \subseteq pair.loose \cup {what}
<1>1. /\ timers[m] \in TimerPairs /\ timers[m].own \in ASight!Tasks \cup {ASight!NoTimer}
      /\ timers[m].loose \in SUBSET ASight!Tasks
  BY DEF SightInv, SightTypeOK, TimerPairs
<1>2. CASE ASight!Timer(m, what)
  <2>1. PICK pair : pair = [timers[m] EXCEPT !.own = ASight!NoTimer]
    OBVIOUS
  <2>2. pair \in TimerPairs /\ pair.loose = timers[m].loose
    BY <1>1, <2>1 DEF TimerPairs
  <2>3. timers' = [timers EXCEPT ![m] = pair] /\ timers[m].own = what
    BY <1>2, <2>1 DEF ASight!Timer
  <2>4. QED
    BY <2>2, <2>3
<1>3. CASE ASight!LooseTimer(m, what)
  <2>1. PICK loose \in SUBSET ASight!Tasks : loose = timers[m].loose \ {what}
    BY <1>1
  <2>2. PICK pair : pair = [timers[m] EXCEPT !.loose = loose]
    OBVIOUS
  <2>3. pair \in TimerPairs /\ pair.own = timers[m].own /\ pair.loose = loose
    BY <1>1, <2>2 DEF TimerPairs
  <2>4. timers' = [timers EXCEPT ![m] = pair]
    BY <1>3, <2>1, <2>2 DEF ASight!LooseTimer
  <2>5. QED
    BY <2>1, <2>3, <2>4
<1>4. QED
  BY <1>2, <1>3

LEMMA AnyTimerOfModuleStep ==
    ASSUME SightInv, NEW what \in ASight!Tasks, NEW m \in ASight!Modules,
           ASight!Timer(m, what) \/ ASight!LooseTimer(m, what)
    PROVE  SightInv'
<1>1. /\ followers' = ASight!Done(what) /\ frames' = frames
      /\ layout' = layout /\ publisher' = publisher /\ images' = images
  BY DEF ASight!Timer, ASight!LooseTimer
<1>2. PICK pair \in TimerPairs :
        /\ timers' = [timers EXCEPT ![m] = pair]
        /\ timers[m].own \in {pair.own, what}
        /\ timers[m].loose \subseteq pair.loose \cup {what}
  BY TimerPairPicked
<1>3. /\ timers' \in [ASight!Modules -> TimerPairs]
      /\ timers'[m] = pair
      /\ \A k \in ASight!Modules \ {m} : timers'[k] = timers[k]
  BY <1>2 DEF SightInv, SightTypeOK
<1>4. what # ASight!Publication => (IsPublished' => IsPublished)
  BY <1>1, <1>2, <1>3 DEF IsPublished
<1>5. QED
  BY <1>1, <1>3, <1>4, DoneStep

(* A step that leaves the modules as they are, and forgets no scrolling.   *)
LEMMA ElsewhereStep ==
    ASSUME SightInv, followers' = followers, publisher' = publisher, images' = images,
           layout' \in Layouts, layout'.kind = layout.kind,
           timers' \in [ASight!Modules -> TimerPairs],
           IsPublished' => IsPublished /\ layout'.scroll = layout.scroll
    PROVE  SightInv'
<1>1. SightTypeOK'
  BY DEF SightInv, SightTypeOK
<1>2. AllFollow'
  BY DEF SightInv, AllFollow
<1>3. AllUpToDate'
  BY DEF SightInv, AllUpToDate
<1>4. ImagesCounted'
  BY DEF SightInv, ImagesCounted
<1>5. QED
  BY <1>1, <1>2, <1>3, <1>4 DEF SightInv

LEMMA ScrollStep ==
    ASSUME SightInv, ASight!Scroll
    PROVE  SightInv'
<1>1. PICK s \in 0 .. MaxScroll : layout' = [layout EXCEPT !.scroll = s]
  BY DEF ASight!Scroll
<1>2. layout' \in Layouts /\ layout'.kind = layout.kind
  BY <1>1 DEF SightInv, SightTypeOK, Layouts
<1>3. publisher' = publisher /\ images' = images
  BY DEF ASight!Scroll
<1>4. CASE publisher = ASight!Nobody
  <2>1. PICK fs : fs = [m \in ASight!Modules |-> [followers[m] EXCEPT !.missed = TRUE]]
    OBVIOUS
  <2>2. followers' = fs /\ timers' = timers
    BY <1>4, <2>1 DEF ASight!Scroll
  <2>3. ASSUME NEW m \in ASight!Modules
        PROVE  /\ fs[m] \in Followers /\ fs[m].missed = TRUE
               /\ fs[m].image = followers[m].image
               /\ IsFollower(fs[m], layout.kind[m])
    <3>1. PICK f \in Followers : f = followers[m]
      BY SightInvParts
    <3>2. PICK g : g = [f EXCEPT !.missed = TRUE]
      OBVIOUS
    <3>3. fs[m] = g
      BY <2>1, <3>1, <3>2
    <3>4. /\ g \in Followers /\ g.missed = TRUE /\ g.told = f.told
          /\ g.occurred = f.occurred /\ g.reversed = f.reversed
          /\ g.fixed = f.fixed /\ g.image = f.image /\ g.alive = f.alive
          /\ g.placeholder = f.placeholder
      BY <3>2 DEF Followers
    <3>5. IsFollower(f, layout.kind[m])
      BY <3>1, SightInvParts
    <3>6. IsFollower(g, layout.kind[m])
      BY <3>4, <3>5 DEF IsFollower
    <3>7. QED
      BY <3>1, <3>3, <3>4, <3>6
  <2>4. fs \in [ASight!Modules -> Followers]
    BY <2>1, <2>3
  <2>5. SightTypeOK'
    BY <1>2, <1>3, <2>2, <2>4 DEF SightInv, SightTypeOK
  <2>6. AllFollow'
    BY <1>2, <2>2, <2>3 DEF AllFollow
  <2>7. AllUpToDate'
    BY <2>2, <2>3 DEF AllUpToDate
  <2>8. ImagesCounted'
    BY <1>3, <2>2, <2>3 DEF SightInv, ImagesCounted
  <2>9. QED
    BY <2>5, <2>6, <2>7, <2>8 DEF SightInv
<1>5. CASE publisher # ASight!Nobody
  <2>1. publisher \in ASight!Modules /\ followers' = followers
    BY <1>5 DEF ASight!Scroll, SightInv, SightTypeOK
  <2>2. timers' \in [ASight!Modules -> TimerPairs] /\ ~IsPublished'
    <3>1. CASE layout.throttle
      <4>1. PICK pair : pair = [timers[publisher] EXCEPT !.own = ASight!Publication]
        OBVIOUS
      <4>2. timers[publisher] \in TimerPairs
        BY <2>1, SightInvParts
      <4>3. pair \in TimerPairs /\ pair.own = ASight!Publication
        BY <4>1, <4>2 DEF TimerPairs, ASight!Tasks
      <4>4. timers' = [timers EXCEPT ![publisher] = pair]
        BY <1>5, <3>1, <4>1 DEF ASight!Scroll
      <4>5. timers' \in [ASight!Modules -> TimerPairs] /\ timers'[publisher] = pair
        BY <2>1, <4>3, <4>4 DEF SightInv, SightTypeOK
      <4>6. QED
        BY <2>1, <4>3, <4>5 DEF IsPublished
    <3>2. CASE ~layout.throttle
      <4>1. frames' = frames \cup {ASight!Publication} /\ timers' = timers
        BY <1>5, <3>2 DEF ASight!Scroll
      <4>2. QED
        BY <4>1 DEF IsPublished, SightInv, SightTypeOK
    <3>3. QED
      BY <3>1, <3>2
  <2>3. QED
    BY <1>2, <1>3, <2>1, <2>2, ElsewhereStep
<1>6. QED
  BY <1>4, <1>5

LEMMA ResizeStep ==
    ASSUME SightInv, ASight!Resize
    PROVE  SightInv'
<1>1. PICK h \in Screens : layout' = [layout EXCEPT !.screen = h]
  BY DEF ASight!Resize
<1>2. layout' \in Layouts /\ layout'.kind = layout.kind /\ layout'.scroll = layout.scroll
  BY <1>1 DEF SightInv, SightTypeOK, Layouts
<1>3. followers' = followers /\ publisher' = publisher /\ images' = images /\ timers' = timers
  BY DEF ASight!Resize
<1>4. frames \subseteq frames'
  BY DEF ASight!Resize
<1>5. IsPublished' => IsPublished
  BY <1>3, <1>4 DEF IsPublished
<1>6. timers' \in [ASight!Modules -> TimerPairs]
  BY <1>3 DEF SightInv, SightTypeOK
<1>7. QED
  BY <1>2, <1>3, <1>5, <1>6, ElsewhereStep

LEMMA ChangeStep ==
    ASSUME SightInv, ASight!Change
    PROVE  SightInv'
<1>1. PICK m \in ASight!Modules :
        /\ \E n \in ASight!Sizes \ {layout.size[m]} : layout' = [layout EXCEPT !.size[m] = n]
        /\ timers' =
             IF followers[m].alive /\ ASight!Observes(m)
             THEN [timers EXCEPT ![m] =
                    [own   |-> ASight!Refreshing(m),
                     loose |-> @.loose \cup ({@.own} \ {ASight!NoTimer})]]
             ELSE timers
  BY DEF ASight!Change
<1>2. PICK n \in ASight!Sizes : layout' = [layout EXCEPT !.size[m] = n]
  BY <1>1
<1>3. layout' \in Layouts /\ layout'.kind = layout.kind /\ layout'.scroll = layout.scroll
  BY <1>2 DEF SightInv, SightTypeOK, Layouts
<1>4. followers' = followers /\ publisher' = publisher /\ images' = images /\ frames' = frames
  BY DEF ASight!Change
<1>5. timers' \in [ASight!Modules -> TimerPairs] /\ (IsPublished' => IsPublished)
  <2>1. CASE followers[m].alive /\ ASight!Observes(m)
    <3>1. timers[m] \in TimerPairs
      BY SightInvParts
    <3>2. timers[m].own \in ASight!Tasks \cup {ASight!NoTimer}
      BY <3>1 DEF TimerPairs
    <3>3. timers[m].loose \in SUBSET ASight!Tasks
      BY <3>1 DEF TimerPairs
    <3>4. PICK loose : loose = timers[m].loose \cup ({timers[m].own} \ {ASight!NoTimer})
      OBVIOUS
    <3>5. loose \in SUBSET ASight!Tasks
      BY <3>2, <3>3, <3>4
    <3>6. PICK pair : pair = [own |-> ASight!Refreshing(m), loose |-> loose]
      OBVIOUS
    <3>7. ASight!Refreshing(m) \in ASight!Tasks
      BY DEF ASight!Tasks
    <3>8. pair \in TimerPairs /\ pair.loose = loose
      BY <3>5, <3>6, <3>7 DEF TimerPairs
    <3>9. timers' = [timers EXCEPT ![m] = pair]
      BY <1>1, <2>1, <3>4, <3>6
    <3>10. /\ timers' \in [ASight!Modules -> TimerPairs] /\ timers'[m] = pair
           /\ \A k \in ASight!Modules \ {m} : timers'[k] = timers[k]
      BY <3>8, <3>9 DEF SightInv, SightTypeOK
    <3>11. IsPublished' => IsPublished
      BY <1>4, <3>4, <3>8, <3>10, TasksDiffer DEF IsPublished
    <3>12. QED
      BY <3>10, <3>11
  <2>2. CASE ~(followers[m].alive /\ ASight!Observes(m))
    <3>1. timers' = timers
      BY <1>1, <2>2
    <3>2. QED
      BY <1>4, <3>1 DEF IsPublished, SightInv, SightTypeOK
  <2>3. QED
    BY <2>1, <2>2
<1>6. QED
  BY <1>3, <1>4, <1>5, ElsewhereStep

(* A step of one module that scrolling is not waited for by.               *)
LEMMA ModuleStep ==
    ASSUME SightInv, layout' = layout, frames' = frames, timers' = timers,
           publisher' \in ASight!Modules \cup {ASight!Nobody},
           NEW m \in ASight!Modules, NEW r \in Followers,
           followers' = [followers EXCEPT ![m] = r], IsFollower(r, layout.kind[m]),
           \/ ~r.alive \/ r.missed \/ IsUpToDate(r, layout.kind[m], layout.scroll)
           \/ /\ followers[m].alive /\ ~followers[m].missed
              /\ r.occurred = followers[m].occurred /\ r.seen = followers[m].seen,
           images' \in [loaded : Nat, all : BOOLEAN], ImagesCounted'
    PROVE  SightInv'
<1>1. /\ followers' \in [ASight!Modules -> Followers] /\ followers'[m] = r
      /\ \A k \in ASight!Modules \ {m} : followers'[k] = followers[k]
  BY SightInvParts
<1>2. SightTypeOK'
  BY <1>1 DEF SightInv, SightTypeOK
<1>3. AllFollow'
  BY <1>1, SightInvParts DEF AllFollow
<1>4. IsPublished' => IsPublished
  BY DEF IsPublished
<1>5. ASSUME IsPublished, r.alive, ~r.missed
      PROVE  IsUpToDate(r, layout.kind[m], layout.scroll)
  BY <1>5, SightInvParts DEF IsUpToDate
<1>6. AllUpToDate'
  BY <1>1, <1>4, <1>5, SightInvParts DEF AllUpToDate
<1>7. QED
  BY <1>2, <1>3, <1>6 DEF SightInv

LEMMA ImagesKept ==
    ASSUME SightInv, images' = images, NEW m \in ASight!Modules, NEW r \in Followers,
           followers' = [followers EXCEPT ![m] = r],
           followers[m].image = "shown" => r.image = "shown"
    PROVE  ImagesCounted' /\ images' \in [loaded : Nat, all : BOOLEAN]
<1>1. /\ followers'[m] = r
      /\ \A k \in ASight!Modules \ {m} : followers'[k] = followers[k]
  BY SightInvParts
<1>2. QED
  BY <1>1 DEF SightInv, SightTypeOK, ImagesCounted

LEMMA SwitchStep ==
    ASSUME SightInv, ASight!Switch
    PROVE  SightInv'
<1>1. PICK m \in ASight!Modules : followers' = [followers EXCEPT ![m].disabled = ~@]
  BY DEF ASight!Switch
<1>2. /\ layout' = layout /\ frames' = frames /\ timers' = timers
      /\ images' = images /\ publisher' = publisher
  BY DEF ASight!Switch
<1>3. PICK f \in Followers : f = followers[m] /\ IsFollower(f, layout.kind[m])
  BY SightInvParts
<1>4. PICK d \in BOOLEAN : d = ~f.disabled
  BY <1>3 DEF Followers
<1>5. PICK r : r = [f EXCEPT !.disabled = d]
  OBVIOUS
<1>6. followers' = [followers EXCEPT ![m] = r]
  BY <1>1, <1>3, <1>4, <1>5
<1>7. /\ r \in Followers /\ r.told = f.told /\ r.occurred = f.occurred
      /\ r.reversed = f.reversed /\ r.fixed = f.fixed /\ r.image = f.image
      /\ r.alive = f.alive /\ r.missed = f.missed /\ r.seen = f.seen
      /\ r.placeholder = f.placeholder
  BY <1>5 DEF Followers
<1>8. IsFollower(r, layout.kind[m])
  BY <1>3, <1>7 DEF IsFollower
<1>9. ImagesCounted' /\ images' \in [loaded : Nat, all : BOOLEAN]
  BY <1>2, <1>3, <1>6, <1>7, ImagesKept
<1>10. publisher' \in ASight!Modules \cup {ASight!Nobody}
  BY <1>2, SightInvParts
<1>11. \/ ~r.alive \/ r.missed
       \/ /\ followers[m].alive /\ ~followers[m].missed
          /\ r.occurred = followers[m].occurred /\ r.seen = followers[m].seen
  BY <1>3, <1>7
<1>12. QED
  BY <1>2, <1>6, <1>7, <1>8, <1>9, <1>10, <1>11, ModuleStep

LEMMA DestroyStep ==
    ASSUME SightInv, ASight!Destroy
    PROVE  SightInv'
<1>1. PICK m \in ASight!Modules :
        /\ followers' = [followers EXCEPT ![m] =
             [(IF layout.kind[m] = "fixed"
               THEN [ASight!ResetFixed(@) EXCEPT !.placeholder = FALSE] ELSE @)
                EXCEPT !.alive = FALSE]]
        /\ publisher' = IF publisher = m THEN ASight!Nobody ELSE publisher
  BY DEF ASight!Destroy
<1>2. layout' = layout /\ frames' = frames /\ timers' = timers /\ images' = images
  BY DEF ASight!Destroy
<1>3. PICK f \in Followers : f = followers[m] /\ IsFollower(f, layout.kind[m])
  BY SightInvParts
<1>4. PICK g : g = IF layout.kind[m] = "fixed"
                   THEN [ASight!ResetFixed(f) EXCEPT !.placeholder = FALSE] ELSE f
  OBVIOUS
<1>5. PICK r : r = [g EXCEPT !.alive = FALSE]
  OBVIOUS
<1>6. followers' = [followers EXCEPT ![m] = r]
  BY <1>1, <1>3, <1>4, <1>5
<1>7. g \in Followers /\ IsFollower(g, layout.kind[m]) /\ g.image = f.image
  <2>1. CASE layout.kind[m] = "fixed"
    <3>1. PICK back : back = ASight!ResetFixed(f)
      OBVIOUS
    <3>2. /\ back \in Followers /\ back.image = f.image
          /\ back.fixed = FALSE /\ back.occurred = {} /\ back.reversed = {}
      BY <3>1 DEF ASight!ResetFixed, Followers
    <3>3. g = [back EXCEPT !.placeholder = FALSE]
      BY <1>4, <2>1, <3>1
    <3>4. /\ g \in Followers /\ g.image = f.image
          /\ g.fixed = FALSE /\ g.occurred = {} /\ g.reversed = {}
      BY <3>2, <3>3 DEF Followers
    <3>5. IsFollower(g, layout.kind[m])
      BY <1>3, <2>1, <3>4 DEF IsFollower
    <3>6. QED
      BY <3>4, <3>5
  <2>2. CASE layout.kind[m] # "fixed"
    BY <1>3, <1>4, <2>2
  <2>3. QED
    BY <2>1, <2>2
<1>8. /\ r \in Followers /\ r.told = g.told /\ r.occurred = g.occurred
      /\ r.reversed = g.reversed /\ r.fixed = g.fixed /\ r.image = g.image
      /\ ~r.alive
  BY <1>5, <1>7 DEF Followers
<1>9. IsFollower(r, layout.kind[m])
  BY <1>7, <1>8 DEF IsFollower
<1>10. ImagesCounted' /\ images' \in [loaded : Nat, all : BOOLEAN]
  BY <1>2, <1>3, <1>6, <1>7, <1>8, ImagesKept
<1>11. publisher' \in ASight!Modules \cup {ASight!Nobody}
  BY <1>1, SightInvParts
<1>12. QED
  BY <1>2, <1>6, <1>8, <1>9, <1>10, <1>11, ModuleStep

LEMMA InitializeStep ==
    ASSUME SightInv, ASight!Initialize
    PROVE  SightInv'
<1>1. PICK m \in ASight!Modules :
        /\ layout.kind[m] # "image"
        /\ followers' = [followers EXCEPT ![m] =
             ASight!CheckVisibility(ASight!NewFollower(ASight!Measured(m)), m, layout.scroll)]
        /\ publisher' = m
  BY DEF ASight!Initialize
<1>2. layout' = layout /\ frames' = frames /\ timers' = timers /\ images' = images
  BY DEF ASight!Initialize
<1>3. layout \in Layouts
  BY SightInvParts
<1>4. PICK f \in Followers : /\ f = ASight!NewFollower(ASight!Measured(m))
                             /\ IsFollower(f, layout.kind[m])
  BY <1>3, SightInvParts, MeasuredTyped, NewFollowerFacts
<1>5. PICK r : r = ASight!CheckVisibility(f, m, layout.scroll)
  OBVIOUS
<1>6. followers' = [followers EXCEPT ![m] = r]
  BY <1>1, <1>4, <1>5
<1>7. IsChecked(f, r, f.seen, layout.kind[m], layout.scroll)
  BY <1>3, <1>4, <1>5, CheckFacts
<1>8. /\ r \in Followers /\ IsFollower(r, layout.kind[m])
      /\ r.missed \/ IsUpToDate(r, layout.kind[m], layout.scroll)
  BY <1>7 DEF IsChecked
<1>9. followers[m].image = "waiting"
  BY <1>1, SightInvParts DEF IsFollower
<1>10. ImagesCounted' /\ images' \in [loaded : Nat, all : BOOLEAN]
  BY <1>2, <1>6, <1>8, <1>9, ImagesKept
<1>11. QED
  BY <1>1, <1>2, <1>6, <1>8, <1>10, ModuleStep

(* An image that has come on screen gets on.                               *)
LEMMA ImageAdvances ==
    ASSUME SightInv, NEW m \in ASight!Modules, NEW image \in {"fading", "shown"},
           followers[m].image # "waiting",
           NEW r, r = [followers[m] EXCEPT !.image = image]
    PROVE  /\ r \in Followers /\ r.image = image /\ IsFollower(r, layout.kind[m])
           /\ r.alive = followers[m].alive /\ r.missed = followers[m].missed
           /\ r.occurred = followers[m].occurred /\ r.seen = followers[m].seen
<1>1. PICK f \in Followers : f = followers[m] /\ IsFollower(f, layout.kind[m])
  BY SightInvParts
<1>2. /\ r \in Followers /\ r.told = f.told /\ r.occurred = f.occurred
      /\ r.reversed = f.reversed /\ r.fixed = f.fixed /\ r.image = image
      /\ r.alive = f.alive /\ r.missed = f.missed /\ r.seen = f.seen
      /\ r.placeholder = f.placeholder
  BY <1>1 DEF Followers
<1>3. IsFollower(r, layout.kind[m])
  BY <1>1, <1>2 DEF IsFollower
<1>4. QED
  BY <1>1, <1>2, <1>3

LEMMA ImageLoadsStep ==
    ASSUME SightInv, NEW m \in ASight!Modules, ASight!ImageLoads(m)
    PROVE  SightInv'
<1>1. PICK r : r = [followers[m] EXCEPT !.image = "fading"]
  OBVIOUS
<1>2. /\ followers' = [followers EXCEPT ![m] = r] /\ followers[m].image = "loading"
      /\ layout' = layout /\ frames' = frames /\ timers' = timers
      /\ images' = images /\ publisher' = publisher
  BY <1>1 DEF ASight!ImageLoads
<1>3. /\ r \in Followers /\ r.image = "fading" /\ IsFollower(r, layout.kind[m])
      /\ r.alive = followers[m].alive /\ r.missed = followers[m].missed
      /\ r.occurred = followers[m].occurred /\ r.seen = followers[m].seen
  BY <1>1, <1>2, ImageAdvances
<1>4. ImagesCounted' /\ images' \in [loaded : Nat, all : BOOLEAN]
  BY <1>2, <1>3, ImagesKept
<1>5. publisher' \in ASight!Modules \cup {ASight!Nobody}
  BY <1>2, SightInvParts
<1>6. \/ ~r.alive \/ r.missed
      \/ /\ followers[m].alive /\ ~followers[m].missed
         /\ r.occurred = followers[m].occurred /\ r.seen = followers[m].seen
  BY <1>3
<1>7. QED
  BY <1>2, <1>3, <1>4, <1>5, <1>6, ModuleStep

LEMMA TwoModules == ASight!Cardinality(ASight!Modules) = 2
<1>1. IsFiniteSet({}) /\ Cardinality({}) = 0
  BY FS_EmptySet
<1>2. IsFiniteSet({1}) /\ Cardinality({1}) = 1
  <2>1. {1} = {} \cup {1} /\ 1 \notin {}
    OBVIOUS
  <2>2. QED
    BY <1>1, <2>1, FS_AddElement
<1>3. Cardinality({1} \cup {2}) = 2
  BY <1>2, FS_AddElement
<1>4. ASight!Modules = {1} \cup {2}
  BY DEF ASight!Modules
<1>5. ASight!Cardinality({1} \cup {2}) = Cardinality({1} \cup {2})
  BY DEF ASight!Cardinality, Cardinality
<1>6. QED
  BY <1>3, <1>4, <1>5

LEMMA ImageShowsStep ==
    ASSUME SightInv, NEW m \in ASight!Modules, ASight!ImageShows(m)
    PROVE  SightInv'
<1>1. PICK r : r = [followers[m] EXCEPT !.image = "shown"]
  OBVIOUS
<1>2. /\ followers' = [followers EXCEPT ![m] = r] /\ followers[m].image = "fading"
      /\ layout' = layout /\ frames' = frames /\ timers' = timers /\ publisher' = publisher
      /\ images' = [loaded |-> images.loaded + 1,
                    all    |-> images.all \/ images.loaded + 1 = ASight!Cardinality(ASight!Modules)]
  BY <1>1 DEF ASight!ImageShows
<1>3. /\ r \in Followers /\ r.image = "shown" /\ IsFollower(r, layout.kind[m])
      /\ r.alive = followers[m].alive /\ r.missed = followers[m].missed
      /\ r.occurred = followers[m].occurred /\ r.seen = followers[m].seen
  BY <1>1, <1>2, ImageAdvances
<1>4. /\ followers'[m] = r
      /\ \A k \in ASight!Modules \ {m} : followers'[k] = followers[k]
  BY <1>2, SightInvParts
<1>5. images.loaded \in Nat /\ images.all \in BOOLEAN
  BY SightInvParts
<1>6. /\ images'.loaded = images.loaded + 1
      /\ images'.all <=> images.all \/ images.loaded + 1 = 2
      /\ images' \in [loaded : Nat, all : BOOLEAN]
  <2>1. PICK all \in BOOLEAN :
          all <=> images.all \/ images.loaded + 1 = ASight!Cardinality(ASight!Modules)
    OBVIOUS
  <2>2. images' = [loaded |-> images.loaded + 1, all |-> all]
    BY <1>2, <1>5, <2>1
  <2>3. /\ images'.loaded = images.loaded + 1 /\ images'.all = all
        /\ images' \in [loaded : Nat, all : BOOLEAN]
    BY <1>5, <2>2
  <2>4. QED
    BY <2>1, <2>3, TwoModules
<1>7. images.loaded = 1 => \E k \in ASight!Modules \ {m} : followers[k].image = "shown"
  BY <1>2 DEF SightInv, ImagesCounted
<1>8. \A k \in ASight!Modules \ {m}, j \in ASight!Modules : j \in {m, k}
  BY DEF ASight!Modules
<1>9. images'.all => \A k \in ASight!Modules : followers'[k].image = "shown"
  <2>1. CASE images.all
    BY <1>3, <1>4, <2>1 DEF SightInv, ImagesCounted
  <2>2. CASE images.loaded = 1
    BY <1>3, <1>4, <1>7, <1>8, <2>2
  <2>3. QED
    BY <1>5, <1>6, <2>1, <2>2
<1>10. ImagesCounted'
  BY <1>3, <1>4, <1>9 DEF ImagesCounted
<1>11. publisher' \in ASight!Modules \cup {ASight!Nobody}
  BY <1>2, SightInvParts
<1>12. \/ ~r.alive \/ r.missed
       \/ /\ followers[m].alive /\ ~followers[m].missed
          /\ r.occurred = followers[m].occurred /\ r.seen = followers[m].seen
  BY <1>3
<1>13. QED
  BY <1>2, <1>3, <1>6, <1>10, <1>11, <1>12, ModuleStep

LEMMA SightInvInit == ASight!VisibilityInit => SightInv
<1>1. SUFFICES ASSUME ASight!VisibilityInit PROVE SightInv
  OBVIOUS
<1>2. PICK page \in Pages, s \in 0 .. MaxScroll, h \in Screens :
        layout = [kind |-> page.kind, throttle |-> page.throttle, scroll |-> s,
                  screen |-> h, size |-> [m \in ASight!Modules |-> 1]]
  BY <1>1 DEF ASight!VisibilityInit
<1>3. page \in [kind : [ASight!Modules -> ElementKinds], throttle : BOOLEAN]
  BY ContentAssumption DEF ASight!VisibilityAssumption, ElementKinds
<1>4. layout \in Layouts
  BY <1>2, <1>3 DEF Layouts, ASight!Sizes
<1>5. /\ followers = [m \in ASight!Modules |->
           ASight!CheckVisibility(ASight!NewFollower(ASight!AtFirst(m)), m, layout.scroll)]
      /\ publisher = 2
      /\ timers = [m \in ASight!Modules |-> [own |-> ASight!NoTimer, loose |-> {}]]
      /\ images = [loaded |-> 0, all |-> FALSE]
  BY <1>1 DEF ASight!VisibilityInit
<1>6. ASSUME NEW m \in ASight!Modules
      PROVE  /\ followers[m] \in Followers /\ IsFollower(followers[m], layout.kind[m])
             /\ followers[m].missed \/ IsUpToDate(followers[m], layout.kind[m], layout.scroll)
  <2>1. PICK f \in Followers : /\ f = ASight!NewFollower(ASight!AtFirst(m))
                               /\ IsFollower(f, layout.kind[m])
    <3>1. ASight!AtFirst(m) \in Measures
      BY <1>4 DEF ASight!AtFirst, Measures, Layouts, ASight!Sizes, ASight!Modules
    <3>2. QED
      BY <3>1, NewFollowerFacts
  <2>2. PICK r : r = ASight!CheckVisibility(f, m, layout.scroll)
    OBVIOUS
  <2>3. followers[m] = r
    BY <1>5, <2>1, <2>2
  <2>4. IsChecked(f, r, f.seen, layout.kind[m], layout.scroll)
    BY <1>4, <2>1, <2>2, CheckFacts
  <2>5. QED
    BY <2>3, <2>4 DEF IsChecked
<1>7. followers \in [ASight!Modules -> Followers]
  BY <1>5, <1>6
<1>8. timers \in [ASight!Modules -> TimerPairs]
  BY <1>5 DEF TimerPairs
<1>9. SightTypeOK
  BY <1>4, <1>5, <1>7, <1>8 DEF SightTypeOK, ASight!Modules
<1>10. AllFollow
  BY <1>6 DEF AllFollow
<1>11. AllUpToDate
  BY <1>6 DEF AllUpToDate
<1>12. ImagesCounted
  BY <1>5 DEF ImagesCounted
<1>13. QED
  BY <1>9, <1>10, <1>11, <1>12 DEF SightInv

LEMMA SightInvStep ==
  SightInv /\ [ASight!VisibilityNext]_(ASight!visibilityVars) => SightInv'
<1>1. SUFFICES ASSUME SightInv, [ASight!VisibilityNext]_(ASight!visibilityVars)
               PROVE  SightInv'
  OBVIOUS
<1>2. CASE ASight!Scroll
  BY <1>1, <1>2, ScrollStep
<1>3. CASE ASight!Resize
  BY <1>1, <1>3, ResizeStep
<1>4. CASE ASight!Change
  BY <1>1, <1>4, ChangeStep
<1>5. CASE ASight!Switch
  BY <1>1, <1>5, SwitchStep
<1>6. CASE ASight!Destroy
  BY <1>1, <1>6, DestroyStep
<1>7. CASE ASight!Initialize
  BY <1>1, <1>7, InitializeStep
<1>8. ASSUME NEW what \in ASight!Tasks, ASight!Frame(what)
      PROVE  SightInv'
  BY <1>1, <1>8, FrameStep
<1>9. ASSUME NEW what \in ASight!Tasks, NEW m \in ASight!Modules,
             ASight!Timer(m, what) \/ ASight!LooseTimer(m, what)
      PROVE  SightInv'
  BY <1>1, <1>9, AnyTimerOfModuleStep
<1>10. ASSUME NEW m \in ASight!Modules, ASight!ImageLoads(m) \/ ASight!ImageShows(m)
       PROVE  SightInv'
  BY <1>1, <1>10, ImageLoadsStep, ImageShowsStep
<1>11. CASE UNCHANGED ASight!visibilityVars
  <2>1. UNCHANGED <<layout, followers, publisher, frames, timers, images>>
    BY <1>11 DEF ASight!visibilityVars
  <2>2. IsPublished' <=> IsPublished
    BY <2>1 DEF IsPublished
  <2>3. QED
    BY <1>1, <2>1, <2>2
       DEF SightInv, SightTypeOK, AllFollow, AllUpToDate, ImagesCounted
<1>12. QED
  BY <1>1, <1>2, <1>3, <1>4, <1>5, <1>6, <1>7, <1>8, <1>9, <1>10, <1>11
     DEF ASight!VisibilityNext

-----------------------------------------------------------------------------
(* What the elements are measured by stays current.                        *)

(* An element that is measured anew, or whose measures stay.               *)
MeasuredAnew(m) ==
  followers'[m].seen.screen = layout'.screen /\ followers'[m].seen.size = layout'.size[m]

MeasuredStill(m) ==
  /\ followers[m].alive /\ followers'[m].seen = followers[m].seen
  /\ Framed(m)' \/ (layout'.screen = layout.screen /\ ~Framed(m))
  /\ \/ layout'.throttle \/ Timed(m)'
     \/ layout'.size[m] = layout.size[m] /\ ~Timed(m)

LEMMA MeasuredKept ==
    ASSUME AllMeasured, layout'.kind = layout.kind, layout'.throttle = layout.throttle,
           \A m \in ASight!Modules :
             followers'[m].alive => MeasuredAnew(m) \/ MeasuredStill(m)
    PROVE  AllMeasured'
BY DEF AllMeasured, IsMeasured, MeasuredAnew, MeasuredStill

LEMMA AllMeasuredInit == ASight!VisibilityInit => AllMeasured
<1>1. SUFFICES ASSUME ASight!VisibilityInit PROVE AllMeasured
  OBVIOUS
<1>2. SightInv
  BY <1>1, SightInvInit
<1>3. /\ followers = [m \in ASight!Modules |->
           ASight!CheckVisibility(ASight!NewFollower(ASight!AtFirst(m)), m, layout.scroll)]
      /\ layout.size = [m \in ASight!Modules |-> 1]
  BY <1>1 DEF ASight!VisibilityInit
<1>4. ASSUME NEW m \in ASight!Modules
      PROVE  followers[m].seen.screen = layout.screen /\ followers[m].seen.size = 1
  <2>1. PICK s : s = ASight!AtFirst(m)
    OBVIOUS
  <2>2. layout \in Layouts
    BY <1>2, SightInvParts
  <2>3. s \in Measures /\ s.screen = layout.screen /\ s.size = 1
    BY <2>1, <2>2 DEF ASight!AtFirst, Measures, Layouts, ASight!Sizes, ASight!Modules
  <2>4. PICK f \in Followers : /\ f = ASight!NewFollower(s) /\ f.seen = s
                               /\ IsFollower(f, layout.kind[m])
    BY <2>3, NewFollowerFacts
  <2>5. PICK r : r = ASight!CheckVisibility(f, m, layout.scroll)
    OBVIOUS
  <2>6. followers[m] = r
    BY <1>3, <2>1, <2>4, <2>5
  <2>7. IsChecked(f, r, s, layout.kind[m], layout.scroll)
    BY <2>2, <2>4, <2>5, CheckFacts
  <2>8. QED
    BY <2>3, <2>6, <2>7 DEF IsChecked
<1>5. QED
  BY <1>3, <1>4 DEF AllMeasured, IsMeasured

(* What a frame or a timer does to a module.                               *)
LEMMA DoneMeasures ==
    ASSUME SightInv, NEW what \in ASight!Tasks, followers' = ASight!Done(what),
           layout' = layout, NEW m \in ASight!Modules, followers'[m].alive
    PROVE  /\ followers[m].alive
           /\ \/ followers'[m].seen = followers[m].seen /\ what # ASight!Refreshing(m)
              \/ MeasuredAnew(m)
<1>1. CASE what = ASight!Publication
  <2>1. followers'[m] = IF followers[m].alive
                        THEN ASight!CheckVisibility(followers[m], m, layout.scroll)
                        ELSE followers[m]
    BY <1>1 DEF ASight!Done
  <2>2. CASE followers[m].alive
    <3>1. PICK r : r = ASight!CheckVisibility(followers[m], m, layout.scroll)
      OBVIOUS
    <3>2. IsChecked(followers[m], r, followers[m].seen, layout.kind[m], layout.scroll)
      BY <3>1, SightInvParts, CheckFacts
    <3>3. followers'[m] = r
      BY <2>1, <2>2, <3>1
    <3>4. what # ASight!Refreshing(m)
      BY <1>1, TasksDiffer
    <3>5. QED
      BY <2>2, <3>2, <3>3, <3>4 DEF IsChecked
  <2>3. QED
    BY <2>1, <2>2
<1>2. CASE what # ASight!Publication
  <2>1. PICK k \in ASight!Modules : what = ASight!Refreshing(k)
    BY <1>2, TasksDiffer
  <2>2. PICK r : r = ASight!Refresh(followers[k], k)
    OBVIOUS
  <2>3. followers' = [followers EXCEPT ![k] = r]
    BY <1>2, <2>1, <2>2, TasksDiffer DEF ASight!Done
  <2>4. IsChecked(followers[k], r, ASight!Measured(k), layout.kind[k], layout.scroll)
    BY <2>2, SightInvParts, RefreshFacts
  <2>5. /\ followers'[k] = r
        /\ m # k => followers'[m] = followers[m]
    BY <2>3, SightInvParts
  <2>6. CASE m = k
    <3>1. /\ ASight!Measured(m).size = layout.size[m]
          /\ ASight!Measured(m).screen = layout.screen
      BY SightInvParts, MeasuredTyped
    <3>2. r.alive = followers[m].alive /\ r.seen = ASight!Measured(m)
      BY <2>4, <2>6 DEF IsChecked
    <3>3. QED
      BY <2>5, <2>6, <3>1, <3>2 DEF MeasuredAnew
  <2>7. CASE m # k
    <3>1. what # ASight!Refreshing(m)
      BY <2>1, <2>7, TasksDiffer
    <3>2. QED
      BY <2>5, <2>7, <3>1
  <2>8. QED
    BY <2>6, <2>7
<1>3. QED
  BY <1>1, <1>2

LEMMA TaskMeasures ==
    ASSUME SightInv, AllMeasured, NEW what \in ASight!Tasks, followers' = ASight!Done(what),
           layout' = layout,
           \A m \in ASight!Modules : what # ASight!Refreshing(m) =>
             (Framed(m) => Framed(m)') /\ (Timed(m) => Timed(m)')
    PROVE  AllMeasured'
<1>1. ASSUME NEW m \in ASight!Modules, followers'[m].alive
      PROVE  MeasuredAnew(m) \/ MeasuredStill(m)
  <2>1. /\ followers[m].alive
        /\ \/ followers'[m].seen = followers[m].seen /\ what # ASight!Refreshing(m)
           \/ MeasuredAnew(m)
    BY <1>1, DoneMeasures
  <2>2. CASE followers'[m].seen = followers[m].seen /\ what # ASight!Refreshing(m)
    BY <2>1, <2>2 DEF MeasuredStill
  <2>3. QED
    BY <2>1, <2>2
<1>2. QED
  BY <1>1, MeasuredKept

(* A frame, a timer: what they did not do still waits.                     *)
LEMMA FrameMeasures ==
    ASSUME SightInv, AllMeasured, NEW what \in ASight!Tasks, ASight!Frame(what)
    PROVE  AllMeasured'
<1>1. /\ frames' = frames \ {what} /\ followers' = ASight!Done(what)
      /\ layout' = layout /\ timers' = timers
  BY DEF ASight!Frame
<1>2. \A m \in ASight!Modules : what # ASight!Refreshing(m) =>
        (Framed(m) => Framed(m)') /\ (Timed(m) => Timed(m)')
  BY <1>1 DEF Framed, Timed
<1>3. QED
  BY <1>1, <1>2, TaskMeasures

LEMMA AnyTimerMeasures ==
    ASSUME SightInv, AllMeasured, NEW what \in ASight!Tasks, NEW k \in ASight!Modules,
           ASight!Timer(k, what) \/ ASight!LooseTimer(k, what)
    PROVE  AllMeasured'
<1>1. /\ followers' = ASight!Done(what) /\ layout' = layout /\ frames' = frames
  BY DEF ASight!Timer, ASight!LooseTimer
<1>2. PICK pair \in TimerPairs :
        /\ timers' = [timers EXCEPT ![k] = pair]
        /\ timers[k].own \in {pair.own, what}
        /\ timers[k].loose \subseteq pair.loose \cup {what}
  BY TimerPairPicked
<1>3. /\ timers'[k] = pair
      /\ \A j \in ASight!Modules \ {k} : timers'[j] = timers[j]
  BY <1>2, SightInvParts
<1>4. ASSUME NEW m \in ASight!Modules, what # ASight!Refreshing(m), Timed(m)
      PROVE  Timed(m)'
  <2>1. PICK j \in ASight!Modules : \/ timers[j].own = ASight!Refreshing(m)
                                    \/ ASight!Refreshing(m) \in timers[j].loose
    BY <1>4 DEF Timed
  <2>2. \/ timers'[j].own = ASight!Refreshing(m)
        \/ ASight!Refreshing(m) \in timers'[j].loose
    BY <1>2, <1>3, <1>4, <2>1
  <2>3. QED
    BY <2>2 DEF Timed
<1>5. \A m \in ASight!Modules : Framed(m) => Framed(m)'
  BY <1>1 DEF Framed
<1>6. QED
  BY <1>1, <1>4, <1>5, TaskMeasures

(* A step that leaves the window and the sizes, and measures no element.   *)
LEMMA UnmeasuredStep ==
    ASSUME AllMeasured, layout'.kind = layout.kind, layout'.throttle = layout.throttle,
           layout'.screen = layout.screen, layout'.size = layout.size, frames \subseteq frames',
           layout.throttle \/ timers' = timers,
           \A m \in ASight!Modules : followers'[m].alive =>
             followers[m].alive /\ followers'[m].seen = followers[m].seen
    PROVE  AllMeasured'
<1>1. ASSUME NEW m \in ASight!Modules, followers'[m].alive
      PROVE  MeasuredStill(m)
  BY <1>1 DEF MeasuredStill, Framed, Timed
<1>2. QED
  BY <1>1, MeasuredKept

LEMMA ScrollMeasures ==
    ASSUME SightInv, AllMeasured, ASight!Scroll
    PROVE  AllMeasured'
<1>1. PICK s \in 0 .. MaxScroll : layout' = [layout EXCEPT !.scroll = s]
  BY DEF ASight!Scroll
<1>2. /\ layout'.kind = layout.kind /\ layout'.throttle = layout.throttle
      /\ layout'.screen = layout.screen /\ layout'.size = layout.size
  BY <1>1 DEF SightInv, SightTypeOK, Layouts
<1>3. frames \subseteq frames' /\ (layout.throttle \/ timers' = timers)
  BY DEF ASight!Scroll
<1>4. ASSUME NEW m \in ASight!Modules
      PROVE  followers'[m].alive = followers[m].alive /\ followers'[m].seen = followers[m].seen
  <2>1. CASE publisher = ASight!Nobody
    <3>1. PICK f \in Followers : f = followers[m]
      BY SightInvParts
    <3>2. PICK g : g = [f EXCEPT !.missed = TRUE]
      OBVIOUS
    <3>3. g.alive = f.alive /\ g.seen = f.seen
      BY <3>2 DEF Followers
    <3>4. followers'[m] = g
      BY <2>1, <3>1, <3>2 DEF ASight!Scroll
    <3>5. QED
      BY <3>1, <3>3, <3>4
  <2>2. CASE publisher # ASight!Nobody
    BY <2>2 DEF ASight!Scroll
  <2>3. QED
    BY <2>1, <2>2
<1>5. QED
  BY <1>2, <1>3, <1>4, UnmeasuredStep

LEMMA ResizeMeasures ==
    ASSUME SightInv, AllMeasured, ASight!Resize
    PROVE  AllMeasured'
<1>1. PICK h \in Screens : layout' = [layout EXCEPT !.screen = h]
  BY DEF ASight!Resize
<1>2. /\ layout'.kind = layout.kind /\ layout'.throttle = layout.throttle
      /\ layout'.size = layout.size
  BY <1>1 DEF SightInv, SightTypeOK, Layouts
<1>3. /\ followers' = followers /\ timers' = timers
      /\ \A m \in ASight!Modules : followers[m].alive => ASight!Refreshing(m) \in frames'
  BY DEF ASight!Resize
<1>4. ASSUME NEW m \in ASight!Modules, followers'[m].alive
      PROVE  MeasuredStill(m)
  BY <1>2, <1>3, <1>4 DEF MeasuredStill, Framed, Timed
<1>5. QED
  BY <1>2, <1>4, MeasuredKept

LEMMA ChangeMeasures ==
    ASSUME SightInv, AllMeasured, ASight!Change
    PROVE  AllMeasured'
<1>1. PICK m \in ASight!Modules :
        /\ \E n \in ASight!Sizes \ {layout.size[m]} : layout' = [layout EXCEPT !.size[m] = n]
        /\ timers' =
             IF followers[m].alive /\ ASight!Observes(m)
             THEN [timers EXCEPT ![m] =
                    [own   |-> ASight!Refreshing(m),
                     loose |-> @.loose \cup ({@.own} \ {ASight!NoTimer})]]
             ELSE timers
  BY DEF ASight!Change
<1>2. PICK n \in ASight!Sizes : layout' = [layout EXCEPT !.size[m] = n]
  BY <1>1
<1>3. /\ layout'.kind = layout.kind /\ layout'.throttle = layout.throttle
      /\ layout'.screen = layout.screen
      /\ \A k \in ASight!Modules \ {m} : layout'.size[k] = layout.size[k]
  BY <1>2 DEF SightInv, SightTypeOK, Layouts
<1>4. followers' = followers /\ frames' = frames
  BY DEF ASight!Change
<1>5. ASSUME NEW k \in ASight!Modules, followers[k].alive, layout.kind[k] = "plain"
      PROVE  (k # m /\ (Timed(k) => Timed(k)')) \/ Timed(k)'
  <2>1. CASE followers[m].alive /\ ASight!Observes(m)
    <3>1. PICK loose : loose = timers[m].loose \cup ({timers[m].own} \ {ASight!NoTimer})
      OBVIOUS
    <3>2. PICK pair : pair = [own |-> ASight!Refreshing(m), loose |-> loose]
      OBVIOUS
    <3>3. timers' = [timers EXCEPT ![m] = pair]
      BY <1>1, <2>1, <3>1, <3>2
    <3>4. /\ timers'[m] = pair /\ pair.own = ASight!Refreshing(m) /\ pair.loose = loose
          /\ \A j \in ASight!Modules \ {m} : timers'[j] = timers[j]
      BY <3>2, <3>3, SightInvParts
    <3>5. CASE k = m
      BY <3>4, <3>5 DEF Timed
    <3>6. CASE k # m
      <4>1. ASight!Refreshing(k) # ASight!NoTimer
        BY DEF ASight!Refreshing, ASight!NoTimer
      <4>2. Timed(k) => Timed(k)'
        BY <3>1, <3>4, <4>1 DEF Timed
      <4>3. QED
        BY <3>6, <4>2
    <3>7. QED
      BY <3>5, <3>6
  <2>2. CASE ~(followers[m].alive /\ ASight!Observes(m))
    <3>1. k # m
      BY <1>5, <2>2 DEF ASight!Observes
    <3>2. timers' = timers
      BY <1>1, <2>2
    <3>3. QED
      BY <3>1, <3>2 DEF Timed
  <2>3. QED
    BY <2>1, <2>2
<1>6. \A k \in ASight!Modules : Framed(k)' <=> Framed(k)
  BY <1>4 DEF Framed
<1>7. QED
  BY <1>3, <1>4, <1>5, <1>6 DEF AllMeasured, IsMeasured

(* Steps of one module that do not measure its element.                    *)
LEMMA ModuleMeasures ==
    ASSUME SightInv, AllMeasured, NEW m \in ASight!Modules,
           \/ ASight!ImageLoads(m) \/ ASight!ImageShows(m) \/ ASight!Switch \/ ASight!Destroy
    PROVE  AllMeasured'
<1>1. layout' = layout /\ frames' = frames /\ timers' = timers
  BY DEF ASight!ImageLoads, ASight!ImageShows, ASight!Switch, ASight!Destroy
<1>2. ASSUME NEW k \in ASight!Modules, followers'[k].alive
      PROVE  followers[k].alive /\ followers'[k].seen = followers[k].seen
  <2>1. PICK f \in Followers : f = followers[k]
    BY SightInvParts
  <2>2. ASSUME ASight!ImageLoads(m) \/ ASight!ImageShows(m)
        PROVE  followers'[k].alive = f.alive /\ followers'[k].seen = f.seen
    <3>1. PICK image : followers' = [followers EXCEPT ![m].image = image]
      BY <2>2 DEF ASight!ImageLoads, ASight!ImageShows
    <3>2. PICK r : r = [f EXCEPT !.image = image]
      OBVIOUS
    <3>3. r.alive = f.alive /\ r.seen = f.seen
      BY <3>2 DEF Followers
    <3>4. followers'[k] \in {f, r}
      BY <2>1, <3>1, <3>2, SightInvParts
    <3>5. QED
      BY <3>3, <3>4
  <2>3. CASE ASight!Switch
    <3>1. PICK j \in ASight!Modules : followers' = [followers EXCEPT ![j].disabled = ~@]
      BY <2>3 DEF ASight!Switch
    <3>2. PICK r : r = [f EXCEPT !.disabled = ~@]
      OBVIOUS
    <3>3. r.alive = f.alive /\ r.seen = f.seen
      BY <3>2 DEF Followers
    <3>4. followers'[k] \in {f, r}
      BY <2>1, <3>1, <3>2, SightInvParts
    <3>5. QED
      BY <2>1, <3>3, <3>4, <1>2
  <2>4. CASE ASight!Destroy
    <3>1. PICK j \in ASight!Modules :
            followers' = [followers EXCEPT ![j] =
              [(IF layout.kind[j] = "fixed"
                THEN [ASight!ResetFixed(@) EXCEPT !.placeholder = FALSE] ELSE @)
                 EXCEPT !.alive = FALSE]]
      BY <2>4 DEF ASight!Destroy
    <3>2. PICK g : g = IF layout.kind[j] = "fixed"
                       THEN [ASight!ResetFixed(followers[j]) EXCEPT !.placeholder = FALSE]
                       ELSE followers[j]
      OBVIOUS
    <3>3. PICK r : r = [g EXCEPT !.alive = FALSE]
      OBVIOUS
    <3>4. followers' = [followers EXCEPT ![j] = r]
      BY <3>1, <3>2, <3>3
    <3>5. followers[j] \in Followers
      BY SightInvParts
    <3>6. PICK back : back = ASight!ResetFixed(followers[j])
      OBVIOUS
    <3>7. back \in Followers
      BY <3>5, <3>6 DEF ASight!ResetFixed, Followers
    <3>8. g \in Followers
      BY <3>2, <3>5, <3>6, <3>7 DEF Followers
    <3>9. ~r.alive
      BY <3>3, <3>8 DEF Followers
    <3>10. k # j
      BY <1>2, <3>4, <3>9, SightInvParts
    <3>11. QED
      BY <2>1, <3>4, <3>10, <1>2, SightInvParts
  <2>5. QED
    BY <1>2, <2>1, <2>2, <2>3, <2>4
<1>3. QED
  BY <1>1, <1>2, UnmeasuredStep

LEMMA InitializeMeasures ==
    ASSUME SightInv, AllMeasured, ASight!Initialize
    PROVE  AllMeasured'
<1>1. PICK m \in ASight!Modules :
        followers' = [followers EXCEPT ![m] =
          ASight!CheckVisibility(ASight!NewFollower(ASight!Measured(m)), m, layout.scroll)]
  BY DEF ASight!Initialize
<1>2. layout' = layout /\ frames' = frames /\ timers' = timers
  BY DEF ASight!Initialize
<1>3. /\ ASight!Measured(m) \in Measures
      /\ ASight!Measured(m).size = layout.size[m]
      /\ ASight!Measured(m).screen = layout.screen
  BY SightInvParts, MeasuredTyped
<1>4. PICK f \in Followers : /\ f = ASight!NewFollower(ASight!Measured(m))
                             /\ f.seen = ASight!Measured(m)
                             /\ IsFollower(f, layout.kind[m])
  BY <1>3, NewFollowerFacts
<1>5. PICK r : r = ASight!CheckVisibility(f, m, layout.scroll)
  OBVIOUS
<1>6. IsChecked(f, r, f.seen, layout.kind[m], layout.scroll)
  BY <1>4, <1>5, SightInvParts, CheckFacts
<1>7. /\ followers'[m] = r
      /\ \A k \in ASight!Modules \ {m} : followers'[k] = followers[k]
  BY <1>1, <1>4, <1>5, SightInvParts
<1>8. MeasuredAnew(m)
  BY <1>2, <1>3, <1>4, <1>6, <1>7 DEF MeasuredAnew, IsChecked
<1>9. ASSUME NEW k \in ASight!Modules \ {m}, followers'[k].alive
      PROVE  MeasuredStill(k)
  BY <1>2, <1>7, <1>9 DEF MeasuredStill, Framed, Timed
<1>10. QED
  BY <1>2, <1>8, <1>9, MeasuredKept

LEMMA AllMeasuredStep ==
  SightInv /\ AllMeasured /\ [ASight!VisibilityNext]_(ASight!visibilityVars) => AllMeasured'
<1>1. SUFFICES ASSUME SightInv, AllMeasured, [ASight!VisibilityNext]_(ASight!visibilityVars)
               PROVE  AllMeasured'
  OBVIOUS
<1>2. CASE ASight!Scroll
  BY <1>1, <1>2, ScrollMeasures
<1>3. CASE ASight!Resize
  BY <1>1, <1>3, ResizeMeasures
<1>4. CASE ASight!Change
  BY <1>1, <1>4, ChangeMeasures
<1>5. CASE ASight!Switch \/ ASight!Destroy
  <2>1. 1 \in ASight!Modules
    BY DEF ASight!Modules
  <2>2. QED
    BY <1>1, <1>5, <2>1, ModuleMeasures
<1>6. CASE ASight!Initialize
  BY <1>1, <1>6, InitializeMeasures
<1>7. ASSUME NEW what \in ASight!Tasks, ASight!Frame(what)
      PROVE  AllMeasured'
  BY <1>1, <1>7, FrameMeasures
<1>8. ASSUME NEW what \in ASight!Tasks, NEW m \in ASight!Modules,
             ASight!Timer(m, what) \/ ASight!LooseTimer(m, what)
      PROVE  AllMeasured'
  BY <1>1, <1>8, AnyTimerMeasures
<1>9. ASSUME NEW m \in ASight!Modules, ASight!ImageLoads(m) \/ ASight!ImageShows(m)
      PROVE  AllMeasured'
  BY <1>1, <1>9, ModuleMeasures
<1>10. CASE UNCHANGED ASight!visibilityVars
  <2>1. UNCHANGED <<layout, followers, frames, timers>>
    BY <1>10 DEF ASight!visibilityVars
  <2>2. QED
    BY <1>1, <2>1, UnmeasuredStep
<1>11. QED
  BY <1>1, <1>2, <1>3, <1>4, <1>5, <1>6, <1>7, <1>8, <1>9, <1>10 DEF ASight!VisibilityNext

(* visibility.js checkVisibility, refresh, destroy, initialize, event.changed: in  *)
(* whatever order frames and timers fire, modules come, go and are disabled, and   *)
(* elements grow, a settled module has told the page how its element stood when it *)
(* was measured - in the window as it is, and with its own size unless scrolling   *)
(* is throttled -, a fixed element is fixed, with its placeholder, while its       *)
(* measured top is passed, and all images are said to be loaded only when each of  *)
(* them shows.                                                                     *)
THEOREM ScreenIsFollowed == ASight!VisibilitySpec => []FollowedTruly
<1>1. QED
  BY SightInvInit, SightInvStep, AllMeasuredInit, AllMeasuredStep, SightInvTrue, PTL
     DEF ASight!VisibilitySpec

=============================================================================
