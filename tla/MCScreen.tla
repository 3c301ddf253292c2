------------------------------ MODULE MCScreen ------------------------------
(***************************************************************************)
(* What comes and goes on a page: dialogs, menus of actions, a progress    *)
(* bar, a search box, popups and the placing of one, sidebars, a sticky    *)
(* rail. Each behaviour uses one of them; the others rest as they are set  *)
(* up.                                                                     *)
(***************************************************************************)
EXTENDS PageParts

CONSTANTS
  Parts,                    \* what may be used
  tenantPage, serverPage,   \* the pages, each with its dialog
  upper, lower              \* two elements, with a menu or a popup

VARIABLES
  part,   \* what is used
  ui, promise, open, left, asks, hurried, dismissed

MCMenuPages == {{upper, lower}, {upper}}

MCPopupSettings ==
  [on : {"click", "hover"}, content : {"title", "settings"}, preserve : {FALSE},
   hoverable : {FALSE}, exclusive : {TRUE}]
    \cup [on : {"click", "hover"}, content : {"settings"}, preserve : {TRUE},
          hoverable : {TRUE}, exclusive : {FALSE}]

MCLastResorts == {"nothing", "the last one", "bottom left"}

MCSidebars ==
  [direction : {"left", "top"}, transition : {"auto", "overlay", "push"}, exclusive : BOOLEAN,
   mobile : BOOLEAN]

MCRails ==
  [size : {2}, offset : {0, 1}, bottomOffset : {0, 3}, pushing : BOOLEAN, observes : {TRUE}]
    \cup [size : {2, 5}, offset : {0}, bottomOffset : {0}, pushing : {FALSE}, observes : {FALSE}]

ADialog == INSTANCE ConfirmDialog WITH Pages <- {tenantPage, serverPage}, MaxAsks <- 4

ASSUME MCScreenAssumption == ADialog!DialogAssumption

DialogVars == <<ui, promise, open, left, asks, hurried, dismissed>>

vars == <<part, DialogVars, MenuVars, BarVars, SearchVars,
          PopupVars, PlaceVars, SidebarVars, RailVars>>

-----------------------------------------------------------------------------

\* What rests is in one of its initial states.
Rests(p, P) == part # p => P

Init ==
  /\ part \in Parts
  /\ Rests("dialog", open = tenantPage)
  /\ ADialog!Init
  /\ Rests("menu", rows = [about |-> "server", rows |-> {upper, lower}])
  /\ AMenu!Init
  /\ ABar!Init
  /\ ASearch!Init
  /\ Rests("popup", settings = CHOOSE s \in MCPopupSettings : TRUE)
  /\ APopup!PopupInit
  /\ Rests("place", page = [start |-> "top left", prefer |-> "opposite", writing |-> "ltr",
                            lastResort |-> "nothing", fits |-> {}])
  /\ APlace!PlacingInit
  /\ Rests("sidebar", options = [exclusive |-> FALSE, mobile |-> FALSE])
  /\ ASidebar!SidebarInit
  /\ Rests("sidebar", \A a \in ASidebar!Sidebars :
                         sidebars[a].transition = "auto" /\ sidebars[a].direction = "top")
  /\ Rests("rail", column = [size |-> 2, offset |-> 0, bottomOffset |-> 0, pushing |-> FALSE,
                             observes |-> TRUE, height |-> 5, window |-> 3, scrolled |-> 0])
  /\ ARail!StickyInit

\* All that is not a step of this part stays as it is.
Others(p) ==
  /\ p # "dialog" => UNCHANGED DialogVars
  /\ p # "menu" => UNCHANGED MenuVars
  /\ p # "bar" => UNCHANGED BarVars
  /\ p # "search" => UNCHANGED SearchVars
  /\ p # "popup" => UNCHANGED PopupVars
  /\ p # "place" => UNCHANGED PlaceVars
  /\ p # "sidebar" => UNCHANGED SidebarVars
  /\ p # "rail" => UNCHANGED RailVars

Next ==
  /\ UNCHANGED part
  /\ Others(part)
  /\ \/ part = "dialog" /\ ADialog!Next
     \/ part = "menu" /\ AMenu!Next
     \/ part = "bar" /\ ABar!Next
     \/ part = "search" /\ ASearch!Next
     \/ part = "popup" /\ APopup!PopupNext
     \/ part = "place" /\ APlace!PlacingNext
     \/ part = "sidebar" /\ ASidebar!SidebarNext
     \/ part = "rail" /\ ARail!StickyNext

\* Only the dialog promises that something happens.
Spec == Init /\ [][Next]_vars /\ ADialog!Fairness

-----------------------------------------------------------------------------
(* The properties of the dialog; PageParts has the others.                 *)

\* modal.js show, hide: a dialog that lies open waits for its answer and hears it.
ShownCanBeAnswered == ADialog!ShownCanBeAnswered
\* confirm.ts show: a question that was asked is seen, or settled.
QuestionAppears == ADialog!QuestionAppears

=============================================================================
