-------------------------- MODULE SelectionDropdown --------------------------
(***************************************************************************)
(* A selection dropdown of Semantic UI that is searched by typing (modules/*)
(* dropdown.js over a hidden input, with its default settings): of one     *)
(* choice, or of several, with a limit or without, each with a label.      *)
(* What is chosen is kept four times - in the input, as active items of    *)
(* the list, as labels, as the text - and the list offers what the typed   *)
(* text leaves of the rest.                                                *)
(*                                                                         *)
(* An event runs to its end before the next; clicks are presses that are   *)
(* released in place, at once.  The delimiter of the input is abstracted   *)
(* from: its value is a sequence (no value of an item contains a comma).   *)
(***************************************************************************)
EXTENDS Naturals, FiniteSets, SequencesExt, FiniteSetsExt, Transition

CONSTANTS
  Letters,    \* per item, in the order of the list: what its text begins with
  Limit,      \* maxSelections, when there is one
  MaxQueued   \* bound: animations queued when the user acts

DropdownAssumption == Limit \in Nat \ {0} /\ MaxQueued \in Nat

VARIABLES
  kind,      \* of this dropdown: [multiple, max, default]; max 0 is no limit
  d,         \* the dropdown
  left       \* did the user leave it, and has not come back since?

vars == <<kind, d, left>>

Items     == DOMAIN Letters
NoItem    == 0
Unmatched == "?"   \* what no item begins with
Queries   == {"", Unmatched} \cup Range(Letters)

Shown         == [what |-> "shown"]
Hidden(clears) == [what |-> "hidden", clears |-> clears]

\* "el" is the list and "open" the class "active"; "timer" is module.timer;
\* "on" are the labels with the class "active", by their item; "focus" is where
\* the focus is: in the search input, in the list, or elsewhere.
NewDropdown ==
  [el |-> NewElement, open |-> FALSE, listens |-> FALSE, focus |-> "none",
   refocus |-> FALSE, query |-> "", timer |-> FALSE, message |-> "none",
   filtered |-> {}, active |-> {}, selected |-> {},
   values |-> <<>>, labels |-> <<>>, on |-> {}, text |-> NoItem]

-----------------------------------------------------------------------------
(* What the list offers.                                                   *)

AtLimit(v)     == kind.max > 0 /\ Len(v.values) >= kind.max
AllFiltered(v) == v.filtered = Items
Lowest(s)      == IF s = {} THEN {} ELSE {Min(s)}
Highest(s)     == IF s = {} THEN {} ELSE {Max(s)}

\* remove.filteredItem.
FilteredItem(v) ==
  IF AtLimit(v) THEN v
  ELSE [v EXCEPT !.filtered = IF kind.multiple THEN @ \cap v.active ELSE {}]

FilterItems(v) ==
  LET results == IF v.query = "" THEN Items ELSE {i \in Items : Letters[i] = v.query}
  IN  [FilteredItem(v) EXCEPT !.filtered = @ \cup (Items \ results)]

FilterActive(v) ==
  IF kind.multiple THEN [v EXCEPT !.filtered = @ \cup v.active] ELSE v

(* Faulty variant: the first item of all.                                  *)
FirstOfAll(v) == [v EXCEPT !.selected = Lowest(Items)]

FirstUnfiltered(v) == [v EXCEPT !.selected = Lowest(Items \ v.filtered)]

\* select.nextAvailable: the next item that is offered, or the one before.
NextAvailable(v, i) ==
  LET next == Lowest({j \in Items \ v.filtered : j > i})
      prev == Highest({j \in Items \ v.filtered : j < i})
  IN  [v EXCEPT !.selected = @ \cup (IF next # {} THEN next ELSE prev)]

-----------------------------------------------------------------------------
(* Showing and hiding.                                                     *)

StartList(v, dir, done) ==
  [v EXCEPT !.el = Start(@, dir, done), !.open = (dir = "in"),
            !.listens = @ /\ dir = "in"]

Animate(v, dir, done) ==
  IF IsAnimating(v.el) THEN [v EXCEPT !.el = Enqueue(@, dir, done)]
  ELSE StartList(v, dir, done)

Show(v) ==
  LET w == IF AtLimit(v) \/ AllFiltered(v) THEN v ELSE [v EXCEPT !.message = "none"]
  IN  IF v.open THEN v
      ELSE IF AllFiltered(w) /\ w.message = "none" THEN w
      ELSE IF w.el.shown /\ ~IsAnimating(w.el) THEN w
      ELSE Animate(w, "in", Shown)

Hide(v, clears) ==
  IF v.open /\ IsDisplayed(v.el) THEN Animate(v, "out", Hidden(clears)) ELSE v

HideAndClear(v) ==
  LET w == [v EXCEPT !.query = ""]
  IN  IF AtLimit(w) THEN w ELSE Hide(w, TRUE)

\* The callback of an animation that ends.
Callback(v, done) ==
  CASE done.what = "shown"  -> [v EXCEPT !.listens = TRUE]
    [] done.what = "hidden" ->
         LET w == [v EXCEPT !.focus = IF @ = "list" THEN "none" ELSE @]
         IN  IF done.clears THEN FilteredItem(w) ELSE w

\* filter(): after a text was typed, and each time the search gets the focus.
Filter(v) ==
  IF AtLimit(v) THEN v
  ELSE LET w == FilterActive(FilterItems(v))
           x == IF v.query # "" \/ w.active = {} THEN FirstUnfiltered(w) ELSE w
           y == [x EXCEPT !.message = IF AllFiltered(x) THEN "noResults" ELSE "none"]
       IN  IF y.focus = "search" THEN Show(y) ELSE y

-----------------------------------------------------------------------------
(* Choosing.                                                               *)

\* check.maxSelections.
CheckMax(v) ==
  IF kind.max = 0 THEN v
  ELSE IF AtLimit(v) THEN [v EXCEPT !.filtered = Items, !.message = "max"]
  ELSE FilterItems([v EXCEPT !.message = "none"])

AddValue(v, i) ==
  CheckMax([v EXCEPT !.values = IF Contains(@, i) THEN @ ELSE Append(@, i)])

AddLabel(v, i) == [v EXCEPT !.labels = IF Contains(@, i) THEN @ ELSE Append(@, i)]

\* remove.selected, with its label.
(* Faulty variant: the label stays.                                        *)
RemoveSelectedOnly(v, i) ==
  LET w == CheckMax([v EXCEPT !.values = SelectSeq(@, LAMBDA j : j # i)])
  IN  [w EXCEPT !.filtered = @ \ {i}, !.active = @ \ {i}, !.selected = @ \ {i}]

RemoveSelected(v, i) ==
  LET others(s) == SelectSeq(s, LAMBDA j : j # i)
      w == CheckMax([v EXCEPT !.values = others(@)])
  IN  [w EXCEPT !.labels = others(@), !.on = @ \ {i}, !.filtered = @ \ {i},
                !.active = @ \ {i}, !.selected = @ \ {i}]

RemoveLabels(v, is) ==
  FoldLeft(LAMBDA w, i : RemoveSelected([w EXCEPT !.message = "none"], i),
           v, SelectSeq(v.labels, LAMBDA i : i \in is))

\* set.selected, of one item.
SetSelected(v, i) ==
  IF ~kind.multiple
  THEN [v EXCEPT !.text = i, !.values = <<i>>, !.active = {i}, !.selected = {i}]
  ELSE LET w == [v EXCEPT !.selected = {}]
           x == AddLabel(AddValue(w, i), i)
       IN  IF i \notin v.active
           THEN NextAvailable(FilterActive([x EXCEPT !.active = @ \cup {i}]), i)
           ELSE IF i \notin v.filtered THEN RemoveSelected(w, i) ELSE w

\* action.activate: a list with something left to choose stays open.
Activate(v, i) ==
  LET w == SetSelected(v, i)
  IN  IF kind.multiple /\ ~(AllFiltered(w) /\ w.message = "none") THEN w
      ELSE HideAndClear(w)

\* event.item.click; the search gets the focus, but is not told so.
ClickOn(v, i, refocus) ==
  Activate([v EXCEPT !.query = "", !.focus = IF refocus THEN "search" ELSE @], i)

Clear(v) ==
  LET w == IF kind.multiple THEN RemoveLabels(v, Range(v.labels))
           ELSE [v EXCEPT !.active = {}, !.selected = {}]
  IN  [w EXCEPT !.text = NoItem, !.values = <<>>]

\* restore.defaults: the value is there before its item is selected.
RestoreDefaults(v) ==
  LET w == Clear(v)
  IN  IF kind.default = NoItem THEN [w EXCEPT !.active = {}, !.selected = {}]
      ELSE SetSelected([w EXCEPT !.values = <<kind.default>>], kind.default)

\* forceSelection: what is selected or active in the list, filtered or not.
ForceSelection(v) ==
  LET choice == IF v.selected # {} THEN v.selected ELSE v.active
  IN  IF kind.multiple \/ choice = {} THEN [v EXCEPT !.query = ""]
      ELSE ClickOn(v, Min(choice), FALSE)

-----------------------------------------------------------------------------
(* The focus and the mouse.                                                *)

\* event.search.focus, also for a click in the search.
SearchFocus(v) == Filter([v EXCEPT !.on = IF kind.multiple THEN {} ELSE @])

FocusSearch(v) ==
  IF v.focus = "search" THEN v ELSE SearchFocus([v EXCEPT !.focus = "search"])

\* event.search.blur: nothing, if the mouse was pressed on the dropdown.
SearchBlur(v) ==
  IF v.refocus THEN [v EXCEPT !.refocus = FALSE] ELSE Hide(ForceSelection(v), FALSE)

Press(v, place) == [v EXCEPT !.refocus = FALSE, !.focus = place]

\* event.test.hide: a click beside an open list.
ClickBeside(v) == IF v.listens THEN Hide(v, FALSE) ELSE v

Init ==
  /\ kind \in [multiple : BOOLEAN, max : {0, Limit}, default : {NoItem, Min(Items)}]
  /\ ~kind.multiple => kind.max = 0
  /\ d = IF kind.default = NoItem THEN NewDropdown
         ELSE SetSelected([NewDropdown EXCEPT !.values = <<kind.default>>], kind.default)
  /\ left = FALSE

MayAct == Len(d.el.queue) <= MaxQueued

\* The user does something in the dropdown.
Use(v) ==
  /\ MayAct
  /\ d' = v
  /\ left' = FALSE
  /\ UNCHANGED kind

TabTo       == d.focus = "none" /\ Use(FocusSearch(d))
ClickSearch == Use(SearchFocus(FocusSearch([d EXCEPT !.refocus = FALSE])))
WindowReturns == d.focus = "search" /\ Use(SearchFocus([d EXCEPT !.refocus = FALSE]))

ClickIcon ==
  Use(LET v == Press(d, "none") IN IF v.open THEN Hide(v, FALSE) ELSE Show(v))

ClickText   == ~kind.multiple /\ Use(FocusSearch(Press(d, "none")))
ClickModule ==
  Use(LET v == Press(d, "none") IN IF kind.multiple THEN FocusSearch(v) ELSE v)

ClickItem(i) ==
  /\ IsDisplayed(d.el) /\ i \notin d.filtered
  /\ Use(ClickOn(Press(d, "list"), i, TRUE))

ClickMessage ==
  IsDisplayed(d.el) /\ d.message # "none" /\ Use(Press(d, "list"))

\* A selection of text by the mouse that ends beside the dropdown: some browsers
\* see a click there.
DragOut ==
  /\ MayAct
  /\ LET v == FocusSearch([d EXCEPT !.refocus = TRUE])
     IN  d' \in {v, ClickBeside(v)}
  /\ left' = FALSE
  /\ UNCHANGED kind

\* The user goes elsewhere, by the Tab key or by a click.
Leave(byClick) ==
  /\ MayAct /\ (d.focus # "none" \/ byClick)
  /\ LET v == IF d.focus = "search" THEN SearchBlur([d EXCEPT !.focus = "none"])
              ELSE [d EXCEPT !.focus = "none"]
     IN  d' = IF byClick THEN ClickBeside(v) ELSE v
  /\ left' = (d.focus = "search" \/ (byClick /\ ~IsAnimating(d.el)))
  /\ UNCHANGED kind

Type(text) ==
  /\ d.focus = "search" /\ text # d.query
  /\ Use([d EXCEPT !.query = text, !.timer = TRUE])

-----------------------------------------------------------------------------
(* The labels.                                                             *)

LabelAt(v, ps) == {v.labels[p] : p \in ps \cap DOMAIN v.labels}
PlacesOn(v)    == {p \in DOMAIN v.labels : v.labels[p] \in v.on}

\* event.label.click: alone, or with a key that adds it or a range.
LabelRange(v, p) ==
  LET after  == {q \in PlacesOn(v) : q > p}
      before == {q \in PlacesOn(v) : q < p}
  IN  IF after # {} THEN p .. Min(after) - 1
      ELSE IF before # {} THEN Max(before) + 1 .. p ELSE 1 .. p

ClickLabel(p, with) ==
  /\ p \in DOMAIN d.labels
  /\ LET v == Press(d, "none")
         l == d.labels[p]
     IN  Use([v EXCEPT !.on = CASE with = "nothing" -> {l}
                                [] with = "ctrl"    -> SymDiff(@, {l})
                                [] with = "shift"   -> @ \cup LabelAt(v, LabelRange(v, p))])

\* event.remove.click, and then the click of the label, which is gone.
ClickRemove(p) ==
  /\ p \in DOMAIN d.labels
  /\ LET v == Press(d, "none")
         l == d.labels[p]
     IN  Use([RemoveLabels(v, IF l \in v.on THEN v.on ELSE {l}) EXCEPT !.on = {}])

\* event.document.keydown: the labels that are active hear every key that is
\* pressed on the page; the search tells of the first that its caret is at the
\* start.
LabelKey(v, key, caretAtStart) ==
  LET on    == PlacesOn(v)
      count == Len(v.labels)
      last  == on # {} /\ Min(on) = count
      first == on = {1}
      inSearch == v.focus = "search"
  IN  IF on = {} /\ ~inSearch THEN v ELSE
      CASE key = "left" ->
             IF on = {} THEN [v EXCEPT !.on = IF caretAtStart THEN LabelAt(v, {count}) ELSE {}]
             ELSE [v EXCEPT !.on = IF first THEN @ ELSE LabelAt(v, {p - 1 : p \in on})]
        [] key = "right" ->
             IF on = {} THEN v
             ELSE IF last THEN (IF inSearch THEN [v EXCEPT !.on = {}]
                                ELSE FocusSearch([v EXCEPT !.on = {}]))
             ELSE [v EXCEPT !.on = LabelAt(v, {p + 1 : p \in on})]
        [] key \in {"delete", "backspace"} ->
             IF on # {}
             THEN LET w == IF last /\ ~inSearch THEN FocusSearch(v) ELSE v
                      x == [w EXCEPT !.on = @ \cup LabelAt(v, {Max(on) + 1})]
                  IN  RemoveLabels(x, LabelAt(v, on))
             ELSE IF caretAtStart /\ key = "backspace"
                  THEN RemoveLabels(v, LabelAt(v, {count})) ELSE v
        [] OTHER -> [v EXCEPT !.on = {}]

-----------------------------------------------------------------------------
(* The keyboard: event.keydown.                                            *)

\* set.selectedItem, when a choice of one follows the arrows.
Follow(v, i) ==
  IF kind.multiple THEN v
  ELSE SetSelected([v EXCEPT !.query = IF @ = "" THEN "" ELSE Letters[i]], i)

ListKey(v, key) ==
  LET offered == Items \ v.filtered
      chosen  == v.selected \cap offered
      current == Lowest(IF chosen # {} THEN chosen ELSE v.active)
      below   == IF current = {} THEN {Min(Items)}
                 ELSE Lowest({i \in offered : i > Min(current)})
      above   == (IF current = {} THEN {Min(Items)}
                  ELSE Highest({i \in offered : i < Min(current)}))
                   \cap (offered \cup current)
      to(next, unselected) ==
        IF next = {} THEN v
        ELSE Follow([v EXCEPT !.selected = (@ \ unselected) \cup next], Min(next))
  IN  CASE ~v.el.shown /\ key = "down" -> Show(v)
        [] ~v.el.shown /\ key # "down" -> v
        [] v.el.shown /\ key = "enter" ->
             IF current \cap offered = {} THEN v ELSE ClickOn(v, Min(current), TRUE)
        [] v.el.shown /\ key = "up"     -> to(above, current)
        [] v.el.shown /\ key = "down"   -> to(below, Items)
        [] v.el.shown /\ key = "escape" -> Hide(v, FALSE)
        [] OTHER -> v

Keys == {"enter", "up", "down", "escape", "left", "right", "delete", "backspace"}

\* A key is pressed: in the dropdown, or elsewhere on the page.
KeyDown(key) ==
  \E caretAtStart \in BOOLEAN :
    /\ caretAtStart => d.focus = "search"
    /\ d.focus = "search" /\ d.query = "" => caretAtStart
    /\ kind.multiple \/ d.focus # "none"
    /\ LET v == IF d.focus # "none" THEN ListKey(d, key) ELSE d
       IN  Use(IF kind.multiple THEN LabelKey(v, key, caretAtStart) ELSE v)

-----------------------------------------------------------------------------
(* The page, the timer and the animation.                                  *)
Program ==
  /\ \/ d' = Clear(d)
     \/ d' = RestoreDefaults(d)
     \/ \E i \in Items : d' = SetSelected(Clear(d), i)   \* set.exactly
  /\ MayAct
  /\ UNCHANGED <<kind, left>>

SearchTimer ==
  /\ d.timer
  /\ d' = Filter([d EXCEPT !.timer = FALSE])
  /\ UNCHANGED <<kind, left>>

AnimationEnds ==
  /\ IsAnimating(d.el)
  /\ LET rest == [d EXCEPT !.el = [Complete(@) EXCEPT !.queue = <<>>, !.instance = NoCallback]]
     IN  d' = FoldLeft(LAMBDA v, next : Animate(v, next.dir, next.done),
                       Callback(rest, d.el.handler), d.el.queue)
  /\ UNCHANGED <<kind, left>>

Next ==
  \/ TabTo \/ ClickSearch \/ WindowReturns \/ DragOut
  \/ ClickIcon \/ ClickText \/ ClickModule \/ ClickMessage
  \/ \E i \in Items : ClickItem(i)
  \/ \E byClick \in BOOLEAN : Leave(byClick)
  \/ \E text \in Queries : Type(text)
  \/ \E p \in DOMAIN d.labels :
       ClickRemove(p) \/ \E with \in {"nothing", "ctrl", "shift"} : ClickLabel(p, with)
  \/ \E key \in Keys : KeyDown(key)
  \/ Program
  \/ SearchTimer
  \/ AnimationEnds

Spec == Init /\ [][Next]_vars

-----------------------------------------------------------------------------
\* What is chosen is the same wherever it is kept: the value of the input, the
\* active items, and the labels in the order of the choice, or the text.
ChosenAgree ==
  /\ Range(d.values) = d.active /\ IsInjective(d.values)
  /\ IF kind.multiple THEN d.labels = d.values
     ELSE d.values = (IF d.text = NoItem THEN <<>> ELSE <<d.text>>)

\* The limit holds, though the list is filtered, hidden and restored in between.
LimitKept == kind.max > 0 => Len(d.values) <= kind.max

\* A list of several choices does not offer what is chosen already.
ChosenNotOffered == kind.multiple => d.active \subseteq d.filtered

\* However the user types, clicks, moves labels and leaves, and whatever the page
\* sets, clears or restores: the four records of what is chosen agree, nothing
\* chosen is offered again, and no more is chosen than maxSelections allows.
ChoiceAgrees == ChosenAgree /\ ChosenNotOffered /\ LimitKept

\* "force a choice on blur" (modules/dropdown.js:3657): what who leaves a dropdown
\* of one choice, after its list has answered what he typed, has chosen begins
\* with that, or is what he had before.
ForcedChoiceAnswers ==
  [][d.focus = "search" /\ left' /\ ~d.timer /\ d'.values # d.values
       => d.query \in {"", Letters[d'.values[1]]}]_vars

=============================================================================
