---------------------------- MODULE PopupPosition ----------------------------
(***************************************************************************)
(* How a popup of Semantic UI looks for a place around its target          *)
(* (modules/popup.js, set.position): it tries a position, and when it does *)
(* not fit on the page the next one, for so many attempts.  Which positions*)
(* fit is the page's; it does not change during the search.                *)
(***************************************************************************)
EXTENDS Naturals

CONSTANTS
  Preferences,     \* of the settings: which position is tried next
  Writings,        \* of the page: "ltr", "rtl"
  LastResorts,     \* of the settings: positions, "the last one" or "nothing"
  MaxSearchDepth

VARIABLES
  page,      \* [start, prefer, writing, lastResort, fits]
  search     \* [depth, position, tried, verdict]

placing == <<page, search>>

Positions ==
  {"top left", "top center", "top right", "bottom left", "bottom center",
   "bottom right", "left center", "right center"}

NoPosition == "nothing"   \* no next position: the search starts again

Opposite ==
  [p \in Positions |->
     CASE p = "top left"    -> "bottom left"   [] p = "bottom left"   -> "top left"
       [] p = "top center"  -> "bottom center" [] p = "bottom center" -> "top center"
       [] p = "top right"   -> "bottom right"  [] p = "bottom right"  -> "top right"
       [] p = "left center" -> "right center"  [] p = "right center"  -> "left center"]

\* Of a position to the left or right there is no adjacent one.
Adjacent ==
  [p \in Positions |->
     CASE p = "top left"    -> "top center"    [] p = "bottom left"   -> "bottom center"
       [] p = "top center"  -> "top right"     [] p = "bottom center" -> "bottom right"
       [] p = "top right"   -> "top left"      [] p = "bottom right"  -> "bottom left"
       [] OTHER             -> NoPosition]

(* Faulty variant: the round never comes by the bottom.                    *)
BackupAtTop ==
  [p \in Positions |->
     CASE p = "top left"     -> "top center"   [] p = "top center"    -> "top right"
       [] p = "top right"    -> "right center" [] p = "right center"  -> "top right"
       [] p = "bottom right" -> "right center" [] p = "bottom center" -> "bottom left"
       [] p = "bottom left"  -> "left center"  [] p = "left center"   -> "top left"]

Backup ==
  [p \in Positions |->
     CASE p = "top left"     -> "top center"    [] p = "top center"    -> "top right"
       [] p = "top right"    -> "right center"  [] p = "right center"  -> "bottom right"
       [] p = "bottom right" -> "bottom center" [] p = "bottom center" -> "bottom left"
       [] p = "bottom left"  -> "left center"   [] p = "left center"   -> "top left"]

\* On a page written from right to left every position is mirrored - at every
\* attempt, also one that is derived from a mirrored one.
Mirrored ==
  [p \in Positions |->
     CASE p = "top left"    -> "top right"    [] p = "top right"    -> "top left"
       [] p = "bottom left" -> "bottom right" [] p = "bottom right" -> "bottom left"
       [] p = "left center" -> "right center" [] p = "right center" -> "left center"
       [] OTHER             -> p]

\* get.nextPosition, once this one is recorded as tried.
NextPosition(position, tried) ==
  LET preferred == IF page.prefer = "opposite" THEN Opposite[position] ELSE Adjacent[position]
  IN  IF preferred \in tried THEN Backup[position] ELSE preferred

\* set.position, up to the attempt: which position this call tries.
Tried ==
  LET asked    == IF search.position = NoPosition THEN page.start ELSE search.position
      mirrored == IF page.writing = "rtl" THEN Mirrored[asked] ELSE asked
  IN  IF search.depth = MaxSearchDepth /\ page.lastResort \in Positions
      THEN page.lastResort ELSE mirrored

PlacingInit ==
  /\ page \in [start : Positions, prefer : Preferences, writing : Writings,
               lastResort : LastResorts, fits : SUBSET Positions]
  /\ search = [depth |-> 0, position |-> page.start, tried |-> {}, verdict |-> "searching"]

\* The position fits, or it is the last resort.
Place ==
  /\ search.verdict = "searching"
  /\ \/ Tried \in page.fits
     \/ search.depth = MaxSearchDepth /\ page.lastResort # "nothing"
  /\ search' = [search EXCEPT !.verdict = "placed", !.position = Tried]
  /\ UNCHANGED page

TryNext ==
  /\ search.verdict = "searching"
  /\ Tried \notin page.fits
  /\ search.depth < MaxSearchDepth
  /\ LET tried == search.tried \cup {Tried}
     IN  search' = [search EXCEPT !.depth = @ + 1, !.tried = tried,
                                  !.position = NextPosition(Tried, tried)]
  /\ UNCHANGED page

GiveUp ==
  /\ search.verdict = "searching"
  /\ Tried \notin page.fits
  /\ search.depth = MaxSearchDepth /\ page.lastResort = "nothing"
  /\ search' = [search EXCEPT !.verdict = "cannot place"]
  /\ UNCHANGED page

PlacingNext == Place \/ TryNext \/ GiveUp

PlacingSpec == PlacingInit /\ [][PlacingNext]_placing

-----------------------------------------------------------------------------
(* Correctness.                                                            *)

\* The positions beside each other on one side of the target.
Row(p) ==
  CHOOSE row \in {{"top left", "top center", "top right"},
                  {"bottom left", "bottom center", "bottom right"},
                  {"left center"}, {"right center"}} : p \in row

(* What a search owes the settings it began with.  Only the one that       *)
(* prefers the opposite, on a page written from left to right, goes all    *)
(* around the target.  One that prefers the adjacent stays on its side,    *)
(* and has nowhere to go from the left or the right.  On a page written    *)
(* from right to left every step is mirrored again: of a start above or    *)
(* below, the mirrored place and, if the opposite is preferred, the one    *)
(* across from the start are all that is sure to be tried.                 *)
Owed ==
  CASE page.writing = "rtl" ->
         {Mirrored[page.start]}
           \cup (IF page.prefer = "opposite" /\ page.start \notin {"left center", "right center"}
                 THEN {Opposite[page.start]} ELSE {})
    [] page.writing = "ltr" /\ page.prefer = "opposite" -> Positions
    [] page.writing = "ltr" /\ page.prefer = "adjacent" -> Row(page.start)

(* A popup that is said not to fit on the page fits nowhere the search has *)
(* to look, and the last resort is taken only then.                        *)
WhatFitsIsFound ==
  /\ search.verdict = "cannot place" => page.fits \cap Owed = {}
  /\ search.verdict = "placed" /\ page.fits \cap Owed # {} => search.position \in page.fits

=============================================================================
