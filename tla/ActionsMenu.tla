----------------------------- MODULE ActionsMenu -----------------------------
(***************************************************************************)
(* The menus of actions on servers and databases (menus/actions/server.ts, *)
(* database.ts): each is a dropdown of Semantic UI (modules/dropdown.js)   *)
(* with the settings it comes with.  The mouse, the keyboard and the focus *)
(* open and close them, each opening and closing is an animation that      *)
(* others queue behind, and the page takes its menus off and puts them     *)
(* back, or new ones, as its content comes and goes.                       *)
(*                                                                         *)
(* An event runs to its end before the next, with every callback it leads  *)
(* to: each is one action, computed on the record "ui".                    *)
(***************************************************************************)
EXTENDS Naturals, Sequences, Transition

CONSTANTS
  Menus,       \* menus, one per row of a list
  Pages,       \* the menus a page may have: all of a list, the one of a detail page
  MaxAttach,   \* bound: how often the page puts its menus back
  MaxQueued    \* bound: animations queued when the user acts

MenuAssumption == MaxAttach \in Nat /\ MaxQueued \in Nat

VARIABLES
  page,      \* what the menus of this page are about, and those it has
  ui,        \* the menus and the focus
  attached,  \* is the content of the page, with its menus, in the document?
  pressed,   \* where the mouse button is held down
  away,      \* has the browser's window lost the focus?
  want,      \* per menu: what the user last asked of it, "open" or "closed"
  carried,   \* menus that were taken off while open or animating
  careful    \* has the user waited for animations, kept off drags, and not left
             \* an open menu by the Tab key?

vars == <<page, ui, attached, pressed, away, want, carried, careful>>

\* A menu: the element that animates and the class "active"; the modules of
\* which a click handler is on the document; the number of its present module
\* and the flags of that one.
NewMenu ==
  [el |-> NewElement, active |-> FALSE, listens |-> {}, module |-> 1,
   activated |-> FALSE, pageLostFocus |-> FALSE, disabled |-> FALSE]

Nowhere    == <<"page", "page">>
Unpressed  == <<"none", "none">>
Removed    == <<"none", "removed">>  \* pressed on what is no more there
Button(m)  == <<"button", m>>
Inside(m)  == <<"menu", m>>    \* the menu itself, a separator, a disabled item
Item(m)    == <<"item", m>>
Places     == {Nowhere} \cup {Button(m) : m \in Menus} \cup {Inside(m) : m \in Menus}
Targets    == Places \cup {Item(m) : m \in Menus}

-----------------------------------------------------------------------------
(* dropdown.js: showing and hiding of a menu w, by its module "by".        *)

Shown(by)  == [what |-> "shown", by |-> by]
Hidden(by) == [what |-> "hidden", by |-> by]

\* The animation starts: the menu is "active" from now on, or not any more, and
\* then the module stops listening to the document.
StartMenu(w, dir, done) ==
  [w EXCEPT !.el = Start(@, dir, done),
            !.active = (dir = "in"),
            !.listens = IF dir = "out" THEN @ \ {done.by} ELSE @]

AnimateMenu(w, dir, done) ==
  IF IsAnimating(w.el) THEN [w EXCEPT !.el = Enqueue(@, dir, done)] ELSE StartMenu(w, dir, done)

\* (hideOthers() looks among the menus its own call was made on: there are none.)
ShowMenu(w, by) ==
  IF ~w.disabled /\ ~w.active /\ (~w.el.shown \/ IsAnimating(w.el))
  THEN AnimateMenu(w, "in", Shown(by)) ELSE w

HideMenu(w, by) ==
  IF w.active /\ (w.el.shown \/ IsAnimating(w.el))
  THEN AnimateMenu(w, "out", Hidden(by)) ELSE w

Toggle(w) == IF w.active THEN HideMenu(w, w.module) ELSE ShowMenu(w, w.module)

(* Faulty variant: a menu that has opened does not listen to the document. *)
RunMenuCallbackDeaf(u, m, done) ==
  CASE done.what = "shown"  -> u
    [] done.what = "hidden" -> [u EXCEPT !.focus = IF @ = Inside(m) THEN Nowhere ELSE @]

\* The end of an animation: a menu that is open listens to clicks on the
\* document, and one that is hidden gives up the focus.
RunMenuCallback(u, m, done) ==
  CASE done.what = "shown"  -> [u EXCEPT !.menu[m].listens = @ \cup {done.by}]
    [] done.what = "hidden" -> [u EXCEPT !.focus = IF @ = Inside(m) THEN Nowhere ELSE @]

\* The queue, when the animation before it has ended. All that waits in it is
\* the opposite of that: the first starts, and the rest, which is the same as
\* that one, is dropped.
RunQueued(w, queue) ==
  IF queue = <<>> THEN w ELSE AnimateMenu(w, Head(queue).dir, Head(queue).done)

MenuCompletes(u, m) ==
  LET el   == u.menu[m].el
      rest == [Complete(el) EXCEPT !.queue = <<>>, !.instance = NoCallback]
      v    == RunMenuCallback([u EXCEPT !.menu[m].el = rest], m, el.handler)
  IN  [v EXCEPT !.menu[m] = RunQueued(@, el.queue)]

\* event.test.hide: a click on the document reaches every module that listens,
\* in the order of their handlers, and the first hides the menu.
ClickDocument(w) ==
  IF w.listens = {} THEN w
  ELSE HideMenu(w, CHOOSE oldest \in w.listens : \A by \in w.listens : oldest <= by)

-----------------------------------------------------------------------------
(* dropdown.js: the focus.                                                 *)

(* Faulty variant: the menu hides even if the mouse is held down on it.    *)
BlurredHiding(w) ==
  LET v == [w EXCEPT !.pageLostFocus = FALSE] IN HideMenu(v, v.module)

\* event.blur of the button that has the focus: the menu hides, unless the
\* mouse is held down on it.
Blurred(w) ==
  LET v == [w EXCEPT !.pageLostFocus = FALSE]
  IN  IF v.activated THEN v ELSE HideMenu(v, v.module)

\* event.focus of the button: the menu shows, unless the mouse is held down on
\* it or the focus comes back with the window.
Focused(w) ==
  IF w.activated \/ w.el.shown \/ w.pageLostFocus THEN w ELSE ShowMenu(w, w.module)

Blur(u) ==
  [u EXCEPT !.menu = [m \in Menus |-> IF u.focus = Button(m) THEN Blurred(@[m]) ELSE @[m]]]

Focus(u, place) ==
  [menu  |-> [m \in Menus |-> IF place = Button(m) THEN Focused(u.menu[m]) ELSE u.menu[m]],
   focus |-> place]

MoveFocus(u, place) == IF u.focus = place THEN u ELSE Focus(Blur(u), place)

-----------------------------------------------------------------------------
Init ==
  /\ page \in [about : {"server", "database"}, rows : Pages]
  /\ ui = [menu |-> [m \in Menus |-> NewMenu], focus |-> Nowhere]
  /\ attached = TRUE
  /\ pressed = Unpressed
  /\ away = FALSE
  /\ want = [m \in Menus |-> "closed"]
  /\ carried = {}
  /\ careful = TRUE

IsOpen(m)     == ui.menu[m].active
Displayed(m)  == attached /\ IsDisplayed(ui.menu[m].el)
Lies(m)       == ui.menu[m].el.shown /\ ~IsAnimating(ui.menu[m].el)
AtRest        == \A m \in Menus : ~IsAnimating(ui.menu[m].el)

\* What the user can point at: a menu that is displayed, and a button that is
\* not disabled (the style sheet takes the pointer from one that is).
Pointable(target) ==
  \/ target = Nowhere
  \/ \E m \in page.rows :
       /\ attached /\ ~ui.menu[m].disabled
       /\ target = Button(m) \/ (Displayed(m) /\ target \in {Inside(m), Item(m)})

Within(m) == {Button(m), Inside(m), Item(m)}

\* The user asks for the menus "open" to be open and for "closed" to be closed.
\* He is not careful to ask for another state of a menu during its animation;
\* what one who is not careful wants is not followed further.
Asks(open, closed, care) ==
  LET asked == {m \in open : want[m] = "closed"} \cup {m \in closed : want[m] = "open"}
  IN  /\ careful' = (careful /\ care /\ \A m \in asked : ~IsAnimating(ui.menu[m].el))
      /\ want' = [m \in Menus |-> IF ~careful' THEN "closed"
                                  ELSE IF m \in open THEN "open"
                                  ELSE IF m \in closed THEN "closed" ELSE want[m]]

UserMayAct ==
  ~away /\ \A m \in Menus : Len(ui.menu[m].el.queue) < MaxQueued

\* The mouse goes down: it takes the focus along, and a menu in which it does
\* knows ("activated") that the change of focus is the mouse's.
MouseDown(target) ==
  /\ UserMayAct
  /\ pressed = Unpressed /\ Pointable(target)
  /\ pressed' = target
  /\ LET v == [ui EXCEPT !.menu = [m \in Menus |->
                 IF target \in Within(m) THEN [@[m] EXCEPT !.activated = TRUE] ELSE @[m]]]
         place == IF target[1] = "item" THEN Inside(target[2]) ELSE target
     IN  ui' = MoveFocus(v, place)
  /\ Asks({}, {m \in Menus : ui.focus = Button(m) /\ target \notin Within(m)}, TRUE)
  /\ UNCHANGED <<page, attached, away, carried>>

\* The click that follows when the mouse goes up where it went down: the button
\* toggles its menu, an item hides it, and the document hears of a click that is
\* not in the menu.
Clicked(w, m, target) ==
  CASE target = Button(m)       -> Toggle(w)
    [] target = Item(m)         -> HideMenu(w, w.module)
    [] target = Inside(m)       -> w
    [] target \notin Within(m)  -> ClickDocument(w)

Click(u, target) ==
  [u EXCEPT !.menu = [m \in Menus |-> Clicked(@[m], m, target)]]

MouseUp(target) ==
  /\ UserMayAct
  /\ pressed # Unpressed /\ Pointable(target)
  /\ pressed' = Unpressed
  /\ LET v == [ui EXCEPT !.menu = [m \in Menus |->
                 IF target \in Within(m) THEN [@[m] EXCEPT !.activated = FALSE] ELSE @[m]]]
     IN  ui' = IF target = pressed THEN Click(v, target) ELSE v
  /\ LET opens == {m \in Menus : target = Button(m) /\ target = pressed
                                   /\ want[m] = "closed" /\ ~ui.menu[m].disabled}
     IN  Asks(opens, IF target = pressed THEN Menus \ (opens \cup {m \in Menus : target = Inside(m)})
                     ELSE {}, pressed \in {target, Removed})
  /\ UNCHANGED <<page, attached, away, carried>>

\* The Tab key takes the focus to another button or out of the menus.
Tab(place) ==
  /\ UserMayAct /\ pressed = Unpressed
  /\ place = Nowhere \/ (attached /\ \E m \in page.rows : place = Button(m))
  /\ place # ui.focus
  /\ ui' = MoveFocus(ui, place)
  /\ Asks({m \in Menus : place = Button(m) /\ ~ui.menu[m].disabled
                           /\ ~ui.menu[m].activated /\ ~ui.menu[m].pageLostFocus},
          {m \in Menus : ui.focus \in Within(m) /\ place # Button(m)},
          \A m \in Menus : ui.focus = Inside(m) => ~IsOpen(m))
  /\ UNCHANGED <<page, attached, pressed, away, carried>>

\* event.keydown in the menu that has the focus: the down arrow shows it; the
\* escape key hides it, and so does the enter key on an item that can be chosen.
KeyDown(m, key) ==
  /\ UserMayAct /\ pressed = Unpressed
  /\ attached /\ ui.focus \in Within(m)
  /\ LET shown == ui.menu[m].el.shown
         by    == ui.menu[m].module
     IN  \/ key = "down" /\ ~shown /\ ui' = [ui EXCEPT !.menu[m] = ShowMenu(@, by)]
              /\ Asks(IF ui.menu[m].disabled THEN {} ELSE {m}, {}, TRUE)
         \/ key \in {"escape", "enter"} /\ shown /\ ui' = [ui EXCEPT !.menu[m] = HideMenu(@, by)]
              /\ Asks({}, {m}, TRUE)
  /\ UNCHANGED <<page, attached, pressed, away, carried>>

\* The window loses the focus: so does the button, but it stays the element of
\* the document that has it.
WindowBlur ==
  /\ ~away
  /\ away' = TRUE
  /\ ui' = [ui EXCEPT !.menu = [m \in Menus |->
              IF ui.focus = Button(m) THEN [@[m] EXCEPT !.pageLostFocus = TRUE] ELSE @[m]]]
  /\ UNCHANGED <<page, attached, pressed, want, carried, careful>>

WindowFocus ==
  /\ away
  /\ away' = FALSE
  /\ ui' = Focus(ui, ui.focus)
  /\ Asks({m \in Menus : ui.focus = Button(m) /\ ~ui.menu[m].disabled
             /\ ~ui.menu[m].activated /\ ~ui.menu[m].pageLostFocus}, {}, TRUE)
  /\ UNCHANGED <<page, attached, pressed, carried>>

MenuAnimationEnds(m) ==
  /\ IsAnimating(ui.menu[m].el)
  /\ ui' = MenuCompletes(ui, m)
  /\ UNCHANGED <<page, attached, pressed, away, want, carried, careful>>

-----------------------------------------------------------------------------
(* The page.                                                               *)

\* A server that is not ready disables the menu of its page.
StatusChanges(m) ==
  /\ page.rows = {m}
  /\ ui' = [ui EXCEPT !.menu[m].disabled = ~@]
  /\ UNCHANGED <<page, attached, pressed, away, want, carried, careful>>

\* "destroy" takes the module of a menu off the document and off its element.
Destroyed(w) == [w EXCEPT !.listens = @ \ {w.module}]

Destroy(u) == [u EXCEPT !.menu = [m \in Menus |-> Destroyed(@[m])]]

\* What the mouse was pressed on goes with its menu.
Interrupted == IF \E m \in Menus : pressed \in Within(m) THEN Removed ELSE pressed

\* An error or a form takes the place of the content: detached().  Some browsers
\* tell a button that it loses the focus with its element, some do not.
ContentGoes ==
  /\ attached
  /\ attached' = FALSE
  /\ \E v \in {Blur(ui), ui} :
       ui' = LET w == [v EXCEPT !.focus = Nowhere]
             IN  IF page.about = "server" THEN Destroy(w) ELSE w
  /\ carried' = carried \cup {m \in Menus : IsOpen(m) \/ IsAnimating(ui.menu[m].el)}
  /\ pressed' = Interrupted
  /\ UNCHANGED <<page, away, want, careful>>

\* attached(): a new module on the old element, in place of the one before.
Renewed(w) == [w EXCEPT !.module = @ + 1, !.activated = FALSE, !.pageLostFocus = FALSE]

ContentComes ==
  /\ ~attached
  /\ attached' = TRUE
  /\ \A m \in Menus : ui.menu[m].module <= MaxAttach
  /\ ui' = [Destroy(ui) EXCEPT !.menu = [m \in Menus |-> Renewed(@[m])]]
  /\ UNCHANGED <<page, pressed, away, want, carried, careful>>

\* The list is loaded again: its rows, with their menus, are new.
RowsAreNew ==
  /\ attached /\ page.rows = Menus
  /\ ui' = [menu |-> [m \in Menus |-> NewMenu], focus |-> Nowhere]
  /\ want' = [m \in Menus |-> "closed"]
  /\ carried' = {}
  /\ pressed' = Interrupted
  /\ UNCHANGED <<page, attached, away, careful>>

-----------------------------------------------------------------------------
Next ==
  \/ \E target \in Targets : MouseDown(target) \/ MouseUp(target)
  \/ \E place \in Places : Tab(place)
  \/ \E m \in Menus : \E key \in {"down", "escape", "enter"} : KeyDown(m, key)
  \/ WindowBlur
  \/ WindowFocus
  \/ \E m \in Menus : MenuAnimationEnds(m) \/ StatusChanges(m)
  \/ ContentGoes
  \/ ContentComes
  \/ RowsAreNew

Spec == Init /\ [][Next]_vars

-----------------------------------------------------------------------------
\* A menu that lies open can be closed by a click beside it, whatever sequence
\* of clicks, keys, losses of focus and animations opened it: its present module
\* listens to the document.  (Not so if the page took the menu off while it was
\* open and put it back: the new module knows nothing of it.)
OpenMenuListens ==
  \A m \in Menus \ carried :
    attached /\ Lies(m) => ui.menu[m].active /\ ui.menu[m].listens = {ui.menu[m].module}

\* A closed menu has left nothing on the document, and no module listens twice
\* or for a menu of which it is not the module.
ClosedMenuIsSilent ==
  \A m \in Menus \ carried :
    AtRest /\ ~Lies(m) => ~ui.menu[m].active /\ ui.menu[m].listens = {}

\* At rest, a menu is as the user last asked, if he did not ask during its
\* animation: opening, closing and the focus do not undo each other.
LastWishDecides ==
  AtRest /\ attached /\ careful =>
    \A m \in Menus \ carried : Lies(m) <=> want[m] = "open"

\* So clicks on the page close what is open, and reach nothing that is not.
ListensWhileOpen == OpenMenuListens /\ ClosedMenuIsSilent

=============================================================================
