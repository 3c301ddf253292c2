----------------------------- MODULE SearchBox -----------------------------
(***************************************************************************)
(* A search box of Semantic UI (modules/search.js) with its default        *)
(* settings, over the requests of its api (behaviors/api.js) and the       *)
(* animation of its results (modules/transition.js).                       *)
(*                                                                         *)
(* JavaScript runs each event to its end: each is one action, computed on  *)
(* the whole of the box.  Timeouts without a delay run in the order they   *)
(* were set: "due" is their queue.                                         *)
(***************************************************************************)
EXTENDS Naturals, FiniteSets, SequencesExt, ApiRequest, Transition

CONSTANTS
  Terms,       \* what may be searched for
  MaxQueries   \* bound: requests to the server

SearchAssumption == MaxQueries \in Nat /\ "" \notin Terms /\ "error" \notin Terms

VARIABLES
  box,    \* the search box
  held    \* is the mouse held down on the results?

vars == <<box, held>>

Nothing == ""   \* an empty prompt, an empty list, no entry in the cache
Message == "error"
ResultSize == 2

Call(id) == [what |-> "call", id |-> id]
HideTime == [what |-> "hide", id |-> 0]

\* "html" is the term the list answers (or a message), "active" the number of
\* the result that is chosen; "dismissed" is resultsDismissed, "clicked" is
\* resultsClicked, "closing" whether a click on the results is listened for.
\* module.timer is one handle for two kinds of timers: those before a search,
\* and those that hide the results, which are in "due".
NewBox ==
  [prompt |-> Nothing, focused |-> FALSE, focusClass |-> FALSE,
   el |-> NewElement, html |-> Nothing, active |-> 0, cache |-> [t \in Terms |-> Nothing],
   dismissed |-> FALSE, clicked |-> FALSE, closing |-> FALSE,
   api |-> NewApi, due |-> <<>>, searchTimers |-> 0, handle |-> "none"]

-----------------------------------------------------------------------------
(* The list of results.                                                    *)

\* showResults(): a list that is being hidden still counts as visible.
ShowResults(b) ==
  IF b.dismissed \/ IsDisplayed(b.el) THEN b
  ELSE [b EXCEPT !.el = Start(@, "in", NoCallback)]

\* hideResults().  (Of several that wait for the end of an animation the first
\* starts and the others are dropped: the queue need not hold them.)
HideResults(b) ==
  IF ~IsDisplayed(b.el) \/ b.el.queue # <<>> THEN b
  ELSE [b EXCEPT !.el = IF IsAnimating(@) THEN Enqueue(@, "out", NoCallback)
                        ELSE Start(@, "out", NoCallback)]

AddResults(b, html) == ShowResults([b EXCEPT !.html = html, !.active = 0])

-----------------------------------------------------------------------------
(* Searching.                                                              *)

CancelQuery(b) ==
  IF ~CanAbort(b.api) THEN b
  ELSE [b EXCEPT !.api = Aborted(@), !.due = Append(@, Call(Newest(b.api)))]

SearchRemote(b, term) ==
  LET free == IF IsLoading(b.api) THEN CancelQuery(b) ELSE b
  IN  [free EXCEPT !.api = Sent(@, term)]

\* query(): too short a text hides the list, the cache answers at once, and
\* else the server is asked.  (The callback of a query on focus would show the
\* list that addResults() has shown.)
QueryResults(b) ==
  IF b.prompt = Nothing THEN HideResults(b)
  ELSE IF b.cache[b.prompt] # Nothing THEN AddResults(b, b.cache[b.prompt])
  ELSE SearchRemote(b, b.prompt)

(* Faulty variant: what arrives is cached for the text that is there now.  *)
ParseResponseNow(b, term) ==
  [AddResults(b, term) EXCEPT !.cache = [t \in Terms |-> IF t = b.prompt THEN term ELSE @[t]]]

\* parse.response(), for the text the request was made for.
ParseResponse(b, term) == [AddResults(b, term) EXCEPT !.cache[term] = term]

\* The end of a request for its caller: nothing is said of one that was aborted.
RequestSettled(b, id) ==
  LET call == b.api.calls[id]
      v    == [b EXCEPT !.api = Settled(@, id)]
  IN  CASE call.phase = "answered" -> ParseResponse(v, call.term)
        [] call.phase = "failed"   -> AddResults(v, Message)
        [] call.phase = "aborted"  -> v

-----------------------------------------------------------------------------
(* The prompt.                                                             *)

NewestHide(due) ==
  CHOOSE i \in DOMAIN due :
    due[i] = HideTime /\ \A j \in DOMAIN due : due[j] = HideTime => j <= i

\* clearTimeout(module.timer): of the timer that was set last.
ClearTimer(b) ==
  CASE b.handle = "none"   -> b
    [] b.handle = "search" -> [b EXCEPT !.searchTimers = @ - 1, !.handle = "none"]
    [] b.handle = "hide"   ->
         [b EXCEPT !.due = RemoveAt(@, NewestHide(@)), !.handle = "none"]

\* event.focus.
TakeFocus(b) ==
  LET v == [b EXCEPT !.focused = TRUE, !.focusClass = TRUE]
  IN  IF v.prompt = Nothing THEN v ELSE QueryResults(v)

Close(b) ==
  [CancelQuery(b) EXCEPT !.focusClass = FALSE, !.due = Append(@, HideTime),
                         !.handle = "hide"]

LoseFocus(b) ==
  LET v == [b EXCEPT !.focused = FALSE, !.dismissed = FALSE]
  IN  IF b.clicked THEN [v EXCEPT !.closing = TRUE] ELSE Close(v)

\* event.result.click: the text of the result replaces that of the prompt.
Select(b, title) == [HideResults(b) EXCEPT !.prompt = title]

-----------------------------------------------------------------------------
Init ==
  /\ box = NewBox
  /\ held = FALSE

Visible == IsDisplayed(box.el)

\* The bound: there is room for a request, or there is none to be made.
MayType  == Len(box.api.calls) + box.searchTimers < MaxQueries
MayQuery == box.prompt # Nothing /\ box.cache[box.prompt] = Nothing => MayType

\* Another bound: the user does not leave the box twice in no time.
MayLeave == HideTime \notin Range(box.due)

Type(text) ==
  /\ box.focused /\ text # box.prompt /\ MayType
  /\ LET v == ClearTimer([box EXCEPT !.prompt = text])
     IN  box' = [v EXCEPT !.searchTimers = @ + 1, !.handle = "search"]
  /\ UNCHANGED held

\* 200 ms after a key.  The timers have one delay: the eldest runs first.
SearchTimer ==
  /\ box.searchTimers > 0
  /\ LET v == [box EXCEPT !.searchTimers = @ - 1,
                          !.handle = IF @ = "search" /\ box.searchTimers = 1 THEN "none" ELSE @]
     IN  box' = IF v.focused THEN QueryResults(v) ELSE v
  /\ UNCHANGED held

FocusPrompt ==
  /\ ~box.focused /\ ~held /\ MayQuery
  /\ box' = TakeFocus(box)
  /\ UNCHANGED held

\* By the Tab key, or the mouse elsewhere.  (The window that loses the focus
\* takes none from its prompt.)
BlurPrompt ==
  /\ box.focused /\ ~held /\ MayLeave
  /\ box' = LoseFocus(box)
  /\ UNCHANGED held

Escape ==
  /\ box.focused
  /\ box' = [HideResults(box) EXCEPT !.dismissed = TRUE]
  /\ UNCHANGED held

\* handleKeyboard: the arrows choose a result, and Enter takes it.
Arrow ==
  /\ box.focused /\ Visible /\ box.html # Message
  /\ \E i \in 1 .. ResultSize :
       /\ i \in {box.active - 1, box.active + 1}
       /\ box' = [box EXCEPT !.active = i]
  /\ UNCHANGED held

EnterResult ==
  /\ box.focused /\ Visible /\ box.active > 0
  /\ \E title \in Terms : box' = Select(box, title)
  /\ UNCHANGED held

EnterQuery ==
  /\ box.focused /\ ~Visible /\ MayQuery
  /\ box' = QueryResults(box)
  /\ UNCHANGED held

\* The search button, which has the focus then.
ClickButton ==
  /\ ~box.focused /\ ~held /\ MayQuery
  /\ box' = QueryResults(box)
  /\ UNCHANGED held

MouseDown ==
  /\ Visible /\ ~held
  /\ held' = TRUE
  /\ LET v == [box EXCEPT !.clicked = TRUE]
     IN  box' = IF v.focused THEN LoseFocus(v) ELSE v

\* The mouse goes up on a result: click, and "click.close" finds the list
\* animating.
ClickResult ==
  /\ held /\ Visible /\ box.html # Message
  /\ held' = FALSE
  /\ \E title \in Terms :
       box' = [Select(box, title) EXCEPT !.clicked = FALSE, !.closing = FALSE]

\* The mouse goes up between the results, or on a message, which gives the
\* focus back.
ClickList ==
  /\ held /\ Visible
  /\ held' = FALSE
  /\ LET v == [box EXCEPT !.clicked = FALSE, !.closing = FALSE]
     IN  box' = IF ~box.closing THEN v
                ELSE IF box.html = Message THEN (IF box.focused THEN v ELSE TakeFocus(v))
                ELSE IF IsAnimating(box.el) THEN v ELSE Close(v)
  /\ MayLeave /\ (box.html = Message => MayQuery)

\* The mouse goes up elsewhere: nobody hears of it.
ReleaseElsewhere ==
  /\ held
  /\ held' = FALSE
  /\ UNCHANGED box

-----------------------------------------------------------------------------
(* The server, the browser and the timers.                                 *)
RequestEnds(id) ==
  /\ box.api.calls[id].phase = "sent"
  /\ \E how \in {"answered", "failed", "aborted"} :
       box' = [box EXCEPT !.api = Ended(@, id, how), !.due = Append(@, Call(id))]
  /\ UNCHANGED held

RunTimeout ==
  /\ box.due # <<>>
  /\ LET next == Head(box.due)
         v    == [box EXCEPT !.due = Tail(@),
                             !.handle = IF next = HideTime /\ @ = "hide" THEN "none" ELSE @]
     IN  box' = IF next = HideTime THEN HideResults(v) ELSE RequestSettled(v, next.id)
  /\ UNCHANGED held

ErrorTimer ==
  /\ box.api.errorTimers > 0
  /\ box' = [box EXCEPT !.api = ErrorRemoved(@)]
  /\ UNCHANGED held

\* The end of an animation; one that is queued starts.
AnimationEnds ==
  /\ IsAnimating(box.el)
  /\ LET el == [Complete(box.el) EXCEPT !.queue = <<>>]
     IN  box' = [box EXCEPT !.el = IF box.el.queue = <<>> THEN el
                                   ELSE Start(el, "out", NoCallback)]
  /\ UNCHANGED held

Next ==
  \/ \E text \in Terms \cup {Nothing} : Type(text)
  \/ FocusPrompt \/ BlurPrompt \/ Escape \/ Arrow \/ EnterResult \/ EnterQuery
  \/ ClickButton \/ MouseDown \/ ClickResult \/ ClickList \/ ReleaseElsewhere
  \/ SearchTimer \/ RunTimeout \/ ErrorTimer \/ AnimationEnds
  \/ \E id \in DOMAIN box.api.calls : RequestEnds(id)

Spec == Init /\ [][Next]_vars

-----------------------------------------------------------------------------
InPhase(ps) == {i \in DOMAIN box.api.calls : box.api.calls[i].phase \in ps}

(* The cache has for a text what the server answered to that text, though  *)
(* the prompt may have another when the answer arrives.                    *)
CacheIsHonest == \A t \in Terms : box.cache[t] \in {Nothing, t}

(* The server works on the last search at most: an answer is never overtaken *)
(* by that of an earlier one.                                              *)
OneSearchUnderWay == InPhase({"sent"}) \subseteq {Newest(box.api)}

(* An answer is shown and kept as the answer to the text it was asked for. *)
AnswersAreTheirs == CacheIsHonest /\ OneSearchUnderWay

=============================================================================
