------------------------------ MODULE PageParts ------------------------------
(***************************************************************************)
(* Parts that come and go on a page, side by side and independent of each  *)
(* other: menus of actions, a progress bar, a search box, popups and the   *)
(* placing of one, sidebars, a sticky rail.                                *)
(***************************************************************************)
EXTENDS Integers

CONSTANTS
  Menus, MenuPages, MaxAttach, MaxMenuQueued,          \* of ActionsMenu
  MaxVisits,                                           \* of ProgressBar
  Terms, MaxQueries,                                   \* of SearchBox
  Elements, PopupSettings,                             \* of Popup
  Preferences, Writings, LastResorts, MaxSearchDepth,  \* of PopupPosition
  SidebarSettings, MaxQueued,                          \* of Sidebar
  Rails, ColumnStart, ColumnSizes, Windows,
  MaxScrolled, MaxChanges                              \* of Sticky

VARIABLES
  rows, menus, attached, pressed, away, want, carried, careful,
  now, server, hasError, bar, visits,
  box, held,
  settings, popups, pointer,
  page, search,
  sidebars, options, pusher, queue, moving,
  column, rail, awaited, changes

AMenu    == INSTANCE ActionsMenu WITH
              Pages <- MenuPages, MaxQueued <- MaxMenuQueued, page <- rows, ui <- menus
ABar     == INSTANCE ProgressBar
ASearch  == INSTANCE SearchBox
APopup   == INSTANCE Popup
APlace   == INSTANCE PopupPosition
ASidebar == INSTANCE Sidebar
ARail    == INSTANCE Sticky

ASSUME PartsAssumption ==
  /\ AMenu!MenuAssumption
  /\ ABar!ProgressAssumption
  /\ ASearch!SearchAssumption
  /\ APopup!PopupAssumption
  /\ ARail!StickyAssumption

MenuVars    == <<rows, menus, attached, pressed, away, want, carried, careful>>
BarVars     == <<now, server, hasError, bar, visits>>
SearchVars  == <<box, held>>
PopupVars   == <<settings, popups, pointer>>
PlaceVars   == <<page, search>>
SidebarVars == <<sidebars, options, pusher, queue, moving>>
RailVars    == <<column, rail, awaited, changes>>

-----------------------------------------------------------------------------
(* The properties of each part.                                            *)

\* dropdown.js bind.intent: an open menu hears clicks elsewhere, a closed one not.
ListensWhileOpen == AMenu!ListensWhileOpen

\* dropdown.js event: at rest a menu is as its user last wished.
LastWishDecides == AMenu!LastWishDecides

\* progress.js set.state: width, pulse and colour are those of the phase.
BarIsTrue == ABar!BarIsTrue

\* search.js parse.response: an answer belongs to the text it was asked for.
AnswersAreTheirs == ASearch!AnswersAreTheirs

\* popup.js bind.close, destroy: an open popup hears what closes it.
PopupCanBeClosed == APopup!PopupCanBeClosed

\* popup.js set.position: a popup is refused only when it fits nowhere.
WhatFitsIsFound == APlace!WhatFitsIsFound

\* sidebar.js hide, pullPage: closed sidebars leave the page as it was.
ClosedFreesPage == ASidebar!ClosedFreesPage

\* sticky.js stick: a rail that fits is in its column and on the screen.
StaysInItsPlace == ARail!StaysInItsPlace

=============================================================================
