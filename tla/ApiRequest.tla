----------------------------- MODULE ApiRequest -----------------------------
(***************************************************************************)
(* The requests that one element makes through Semantic UI's api           *)
(* (behaviors/api.js), with its default settings and an action to call.    *)
(* Each use of the element makes a module of its own; "destroy" only makes *)
(* the element forget the one before, the requests of which go on.  All of *)
(* them write to the classes of the same element.                          *)
(*                                                                         *)
(* A request ends twice: when the browser has an answer or none, and, for  *)
(* the caller, in a timeout that the first end sets.                       *)
(***************************************************************************)
EXTENDS Naturals, Sequences

\* "sent" is a request the browser still works on, the next three are those
\* whose timeout is set, by what it will say.
Awaited == {"sent", "answered", "failed", "aborted"}

\* "calls": the module.request of each module, in order, with what it asks;
\* the classes "loading" and "error"; how many timers will remove the latter.
NewApi == [calls |-> <<>>, loading |-> FALSE, error |-> FALSE, errorTimers |-> 0]

Newest(api) == Len(api.calls)

(* is.loading() and abort() speak of the newest module.                    *)
IsLoading(api) ==
  api.calls # <<>> /\ api.calls[Newest(api)].phase \in Awaited

CanAbort(api) ==
  api.calls # <<>> /\ api.calls[Newest(api)].phase = "sent"

(* The first end of a request: the answer, an error of the server, or      *)
(* neither - aborted() takes a lost connection for an abort.               *)
Ended(api, id, how) == [api EXCEPT !.calls[id].phase = how]

Aborted(api) == Ended(api, Newest(api), "aborted")

(* query() and send.request() of a new module.                             *)
Sent(api, term) ==
  [api EXCEPT !.calls = Append(@, [term |-> term, phase |-> "sent"]),
              !.loading = TRUE]

(* The second end, event.request.complete() and fail(): the element is not *)
(* loading any more, and shows an error of the server for two seconds.     *)
Settled(api, id) ==
  LET how == api.calls[id].phase
  IN  [api EXCEPT !.calls[id].phase = IF how = "answered" THEN "resolved" ELSE "rejected",
                  !.loading = FALSE,
                  !.error = @ \/ how = "failed",
                  !.errorTimers = IF how = "failed" THEN @ + 1 ELSE @]

(* remove.error(), by any of the timers.                                   *)
ErrorRemoved(api) == [api EXCEPT !.error = FALSE, !.errorTimers = @ - 1]
=============================================================================
