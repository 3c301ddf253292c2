SPECIFICATION Spec
CONSTANTS
  Parts = {"dialog", "menu", "bar", "search", "popup", "place", "sidebar", "rail"}
  tenantPage = tenantPage
  serverPage = serverPage
  upper = upper
  lower = lower
  Menus = {upper, lower}
  MenuPages <- MCMenuPages
  MaxAttach = 1
  MaxMenuQueued = 2
  MaxVisits = 2
  Terms = {"a", "b"}
  MaxQueries = 2
  Elements = {upper, lower}
  PopupSettings <- MCPopupSettings
  Preferences = {"opposite", "adjacent"}
  Writings = {"ltr", "rtl"}
  LastResorts <- MCLastResorts
  MaxSearchDepth = 15
  SidebarSettings <- MCSidebars
  MaxQueued = 2
  Rails <- MCRails
  ColumnStart = 2
  ColumnSizes = {5, 9}
  Windows = {3, 4}
  MaxScrolled = 9
  MaxChanges = 1
INVARIANTS
  ShownCanBeAnswered
  ListensWhileOpen
  LastWishDecides
  BarIsTrue
  AnswersAreTheirs
  PopupCanBeClosed
  WhatFitsIsFound
  ClosedFreesPage
  StaysInItsPlace
PROPERTIES
  QuestionAppears
CHECK_DEADLOCK FALSE
