-------------------------- MODULE SearchBoxProofs --------------------------
(***************************************************************************)
(* Theorems about SearchBox, for every set of terms and any number of      *)
(* requests.                                                               *)
(***************************************************************************)
EXTENDS SearchBox, TLAPS

-----------------------------------------------------------------------------
(* Types.                                                                  *)

Element ==
  [anim : {"none", "in", "out"}, shown : BOOLEAN,
   queue : Seq([dir : {"out"}, done : {NoCallback}]),
   instance : {NoCallback}, handler : {NoCallback}]

Ends   == {"answered", "failed", "aborted"}
Phases == Awaited \cup {"resolved", "rejected"}

Request  == [term : Terms, phase : Phases]
Requests == Seq(Request)

Api == [calls : Requests, loading : BOOLEAN, error : BOOLEAN, errorTimers : Nat]

Timeouts == {HideTime} \cup {Call(id) : id \in Nat}

SearchBoxes ==
  [prompt : Terms \cup {Nothing}, focused : BOOLEAN, focusClass : BOOLEAN, el : Element,
   html : Terms \cup {Nothing, Message}, active : Nat,
   cache : [Terms -> Terms \cup {Nothing}], dismissed : BOOLEAN, clicked : BOOLEAN,
   closing : BOOLEAN, api : Api, due : Seq(Timeouts), searchTimers : Nat,
   handle : {"none", "search", "hide"}]

TypeOK == box \in SearchBoxes /\ held \in BOOLEAN

-----------------------------------------------------------------------------
(* The inductive invariant.                                                *)

(* A request that has ended for the browser has one timeout in which it    *)
(* ends for its caller; no other request has one.                          *)
EachEndsOnce(calls, due) ==
  /\ IsInjective(due)
  /\ \A i \in DOMAIN due : due[i] # HideTime => due[i].id \in DOMAIN calls
  /\ \A id \in DOMAIN calls :
       calls[id].phase \in Ends <=> \E i \in DOMAIN due : due[i] = Call(id)

(* Only the newest request may be with the server.                         *)
OneSent(calls) == \A id \in DOMAIN calls : calls[id].phase = "sent" => id = Len(calls)

Honest(cache) == \A t \in Terms : cache[t] \in {Nothing, t}

(* The handle of a timer is that of a timer that is set.                   *)
HandleHolds(handle, due) == handle = "hide" => \E i \in DOMAIN due : due[i] = HideTime

Sound(b) ==
  /\ b \in SearchBoxes
  /\ EachEndsOnce(b.api.calls, b.due)
  /\ OneSent(b.api.calls)
  /\ Honest(b.cache)
  /\ HandleHolds(b.handle, b.due)
  /\ b.handle = "search" => b.searchTimers > 0

SearchInv == Sound(box) /\ held \in BOOLEAN

-----------------------------------------------------------------------------
(* Timeouts.                                                               *)

LEMMA CallsDiffer ==
    ASSUME NEW i \in Nat, NEW j \in Nat
    PROVE  /\ Call(i) = Call(j) => i = j
           /\ Call(i) # HideTime /\ Call(i).id = i
           /\ Call(i) \in Timeouts /\ HideTime \in Timeouts
BY DEF Call, HideTime, Timeouts

LEMMA TimeoutIsACall ==
    ASSUME NEW d \in Timeouts, d # HideTime
    PROVE  d.id \in Nat /\ d = Call(d.id)
BY DEF Call, HideTime, Timeouts

(* A request ends for the browser.                                         *)
LEMMA EndIsAwaited ==
    ASSUME NEW calls \in Requests, NEW due \in Seq(Timeouts), EachEndsOnce(calls, due),
           NEW id \in DOMAIN calls, calls[id].phase = "sent",
           NEW g \in Requests, DOMAIN g = DOMAIN calls, g[id].phase \in Ends,
           \A j \in DOMAIN calls : j # id => g[j] = calls[j]
    PROVE  EachEndsOnce(g, Append(due, Call(id)))
<1> DEFINE d == Append(due, Call(id))
<1>1. /\ DOMAIN due = 1 .. Len(due) /\ DOMAIN d = 1 .. Len(due) + 1 /\ Len(due) \in Nat
      /\ d[Len(due) + 1] = Call(id) /\ \A i \in DOMAIN due : d[i] = due[i]
  OBVIOUS
<1>2. id \in Nat /\ \A j \in DOMAIN calls : j \in Nat
  BY DEF Requests
<1>3. ~\E i \in DOMAIN due : due[i] = Call(id)
  BY DEF EachEndsOnce, Ends
<1> HIDE DEF d
<1>4. IsInjective(d)
  BY <1>1, <1>3 DEF EachEndsOnce, IsInjective
<1>5. \A i \in DOMAIN d : d[i] # HideTime => d[i].id \in DOMAIN g
  <2>1. Call(id).id = id
    BY <1>2, CallsDiffer
  <2>2. QED
    BY <1>1, <2>1 DEF EachEndsOnce
<1>6. ASSUME NEW j \in DOMAIN g
      PROVE  g[j].phase \in Ends <=> \E i \in DOMAIN d : d[i] = Call(j)
  <2>1. CASE j = id
    BY <1>1, <2>1
  <2>2. CASE j # id
    <3>1. Call(j) # Call(id) /\ g[j] = calls[j]
      BY <1>2, <2>2, CallsDiffer
    <3>2. QED
      BY <1>1, <3>1 DEF EachEndsOnce
  <2>3. QED
    BY <2>1, <2>2
<1>7. QED
  BY <1>4, <1>5, <1>6 DEF EachEndsOnce, d

(* A request is sent.                                                      *)
LEMMA SendingEndsNothing ==
    ASSUME NEW calls \in Requests, NEW due \in Seq(Timeouts), EachEndsOnce(calls, due),
           NEW c \in Request, c.phase = "sent"
    PROVE  EachEndsOnce(Append(calls, c), due)
<1> DEFINE g == Append(calls, c)
<1>1. /\ DOMAIN calls = 1 .. Len(calls) /\ DOMAIN g = 1 .. Len(calls) + 1 /\ Len(calls) \in Nat
      /\ g[Len(calls) + 1] = c /\ \A i \in DOMAIN calls : g[i] = calls[i]
  BY DEF Requests
<1> HIDE DEF g
<1>2. ~\E i \in DOMAIN due : due[i] = Call(Len(calls) + 1)
  <2>1. SUFFICES ASSUME NEW i \in DOMAIN due, due[i] = Call(Len(calls) + 1) PROVE FALSE
    OBVIOUS
  <2>2. due[i] # HideTime /\ due[i].id = Len(calls) + 1
    BY <1>1, <2>1, CallsDiffer
  <2>3. QED
    BY <1>1, <2>2 DEF EachEndsOnce
<1>3. "sent" \notin Ends
  BY DEF Ends
<1>4. ASSUME NEW j \in DOMAIN g
      PROVE  g[j].phase \in Ends <=> \E i \in DOMAIN due : due[i] = Call(j)
  <2>1. CASE j \in DOMAIN calls
    BY <1>1, <2>1 DEF EachEndsOnce
  <2>2. CASE j = Len(calls) + 1
    BY <1>1, <1>2, <1>3, <2>2
  <2>3. QED
    BY <1>1, <2>1, <2>2
<1>5. \A i \in DOMAIN due : due[i] # HideTime => due[i].id \in DOMAIN g
  BY <1>1 DEF EachEndsOnce
<1>6. QED
  BY <1>4, <1>5 DEF EachEndsOnce, g

(* A timer that will hide the results.                                     *)
LEMMA HideIsSet ==
    ASSUME NEW calls \in Requests, NEW due \in Seq(Timeouts), EachEndsOnce(calls, due),
           ~\E i \in DOMAIN due : due[i] = HideTime
    PROVE  /\ EachEndsOnce(calls, Append(due, HideTime))
           /\ \E i \in DOMAIN Append(due, HideTime) : Append(due, HideTime)[i] = HideTime
<1> DEFINE d == Append(due, HideTime)
<1>1. /\ DOMAIN due = 1 .. Len(due) /\ DOMAIN d = 1 .. Len(due) + 1 /\ Len(due) \in Nat
      /\ d[Len(due) + 1] = HideTime /\ \A i \in DOMAIN due : d[i] = due[i]
  OBVIOUS
<1>2. \A j \in DOMAIN calls : Call(j) # HideTime
  BY CallsDiffer DEF Requests
<1> HIDE DEF d
<1>3. IsInjective(d)
  BY <1>1 DEF EachEndsOnce, IsInjective
<1>4. QED
  BY <1>1, <1>2, <1>3 DEF EachEndsOnce, d


(* A timeout runs, or is cleared.                                          *)
Without(due, k, d) ==
  /\ d \in Seq(Timeouts) /\ Len(d) = Len(due) - 1
  /\ \A i \in DOMAIN d : d[i] = IF i < k THEN due[i] ELSE due[i + 1]

LEMMA OneIsTaken ==
    ASSUME NEW due \in Seq(Timeouts), NEW k \in DOMAIN due, IsInjective(due),
           NEW d, Without(due, k, d)
    PROVE  /\ IsInjective(d)
           /\ \A i \in DOMAIN d : d[i] # due[k] /\ \E j \in DOMAIN due : d[i] = due[j]
           /\ \A j \in DOMAIN due : due[j] # due[k] => \E i \in DOMAIN d : d[i] = due[j]
<1>1. /\ DOMAIN due = 1 .. Len(due) /\ DOMAIN d = 1 .. Len(due) - 1 /\ Len(due) \in Nat
      /\ k \in 1 .. Len(due)
  BY DEF Without
<1> DEFINE At(i) == IF i < k THEN i ELSE i + 1
<1>2. \A i \in DOMAIN d : At(i) \in DOMAIN due /\ At(i) # k /\ d[i] = due[At(i)]
  BY <1>1 DEF Without
<1>3. \A i, j \in DOMAIN d : At(i) = At(j) => i = j
  BY <1>1
<1>4. ASSUME NEW j \in DOMAIN due, j # k PROVE \E i \in DOMAIN d : At(i) = j
  <2>1. CASE j < k
    <3>1. j \in DOMAIN d /\ At(j) = j
      BY <1>1, <2>1
    <3>2. QED
      BY <3>1
  <2>2. CASE j > k
    <3>1. j - 1 \in DOMAIN d /\ At(j - 1) = j
      BY <1>1, <2>2
    <3>2. QED
      BY <3>1
  <2>3. QED
    BY <1>1, <1>4, <2>1, <2>2
<1> HIDE DEF At
<1>5. IsInjective(d)
  BY <1>2, <1>3 DEF IsInjective
<1>6. \A i \in DOMAIN d : d[i] # due[k] /\ \E j \in DOMAIN due : d[i] = due[j]
  BY <1>2 DEF IsInjective
<1>7. \A j \in DOMAIN due : due[j] # due[k] => \E i \in DOMAIN d : d[i] = due[j]
  BY <1>2, <1>4
<1>8. QED
  BY <1>5, <1>6, <1>7

(* The timer that hides the results: other timeouts stay as they are.      *)
LEMMA HideIsTaken ==
    ASSUME NEW calls \in Requests, NEW due \in Seq(Timeouts), EachEndsOnce(calls, due),
           NEW k \in DOMAIN due, due[k] = HideTime,
           NEW d, Without(due, k, d)
    PROVE  EachEndsOnce(calls, d)
<1>1. IsInjective(due)
  BY DEF EachEndsOnce
<1>2. /\ IsInjective(d)
      /\ \A i \in DOMAIN d : d[i] # HideTime /\ \E j \in DOMAIN due : d[i] = due[j]
      /\ \A j \in DOMAIN due : due[j] # HideTime => \E i \in DOMAIN d : d[i] = due[j]
  <2>1. /\ IsInjective(d)
        /\ \A i \in DOMAIN d : d[i] # due[k] /\ \E j \in DOMAIN due : d[i] = due[j]
        /\ \A j \in DOMAIN due : due[j] # due[k] => \E i \in DOMAIN d : d[i] = due[j]
    BY <1>1, OneIsTaken
  <2>2. QED
    BY <2>1
<1>3. \A j \in DOMAIN calls : Call(j) # HideTime
  BY CallsDiffer DEF Requests
<1>4. QED
  BY <1>2, <1>3 DEF EachEndsOnce

(* A request ends for its caller.                                          *)
LEMMA CallIsTaken ==
    ASSUME NEW calls \in Requests, NEW due \in Seq(Timeouts), EachEndsOnce(calls, due),
           NEW k \in DOMAIN due, due[k] # HideTime,
           NEW d, Without(due, k, d),
           NEW g \in Requests, DOMAIN g = DOMAIN calls, g[due[k].id].phase \notin Ends,
           \A j \in DOMAIN calls : j # due[k].id => g[j] = calls[j]
    PROVE  /\ EachEndsOnce(g, d)
           /\ (\E i \in DOMAIN due : due[i] = HideTime) => \E i \in DOMAIN d : d[i] = HideTime
<1> DEFINE id == due[k].id
<1>1. IsInjective(due) /\ due[k] \in Timeouts
  BY DEF EachEndsOnce
<1>2. id \in Nat /\ due[k] = Call(id) /\ \A j \in DOMAIN calls : j \in Nat
  BY <1>1, TimeoutIsACall DEF Requests
<1> HIDE DEF id
<1>3. /\ IsInjective(d)
      /\ \A i \in DOMAIN d : d[i] # Call(id) /\ \E j \in DOMAIN due : d[i] = due[j]
      /\ \A j \in DOMAIN due : due[j] # Call(id) => \E i \in DOMAIN d : d[i] = due[j]
  <2>1. /\ IsInjective(d)
        /\ \A i \in DOMAIN d : d[i] # due[k] /\ \E j \in DOMAIN due : d[i] = due[j]
        /\ \A j \in DOMAIN due : due[j] # due[k] => \E i \in DOMAIN d : d[i] = due[j]
    BY <1>1, OneIsTaken
  <2>2. QED
    BY <1>2, <2>1
<1>4. ASSUME NEW j \in DOMAIN g
      PROVE  g[j].phase \in Ends <=> \E i \in DOMAIN d : d[i] = Call(j)
  <2>1. CASE j = id
    BY <1>3, <2>1 DEF id
  <2>2. CASE j # id
    <3>1. Call(j) # Call(id) /\ g[j] = calls[j]
      BY <1>2, <2>2, CallsDiffer DEF id
    <3>2. (\E i \in DOMAIN d : d[i] = Call(j)) <=> \E i \in DOMAIN due : due[i] = Call(j)
      BY <1>3, <3>1
    <3>3. QED
      BY <3>1, <3>2 DEF EachEndsOnce
  <2>3. QED
    BY <2>1, <2>2
<1>5. \A i \in DOMAIN d : d[i] # HideTime => d[i].id \in DOMAIN g
  BY <1>3 DEF EachEndsOnce
<1>6. EachEndsOnce(g, d)
  BY <1>3, <1>4, <1>5 DEF EachEndsOnce
<1>7. (\E i \in DOMAIN due : due[i] = HideTime) => \E i \in DOMAIN d : d[i] = HideTime
  BY <1>2, <1>3, CallsDiffer
<1>8. QED
  BY <1>6, <1>7

LEMMA TailTakes ==
    ASSUME NEW due \in Seq(Timeouts), due # <<>>
    PROVE  Without(due, 1, Tail(due)) /\ 1 \in DOMAIN due /\ Head(due) = due[1]
BY DEF Without

LEMMA RemoveAtTakes ==
    ASSUME NEW due \in Seq(Timeouts), NEW k \in DOMAIN due
    PROVE  Without(due, k, RemoveAt(due, k))
<1> DEFINE p == SubSeq(due, 1, k - 1)
           q == SubSeq(due, k + 1, Len(due))
<1>1. k \in 1 .. Len(due) /\ Len(due) \in Nat
  OBVIOUS
<1>2. p \in Seq(Timeouts) /\ Len(p) = k - 1 /\ \A i \in 1 .. k - 1 : p[i] = due[i]
  BY <1>1
<1>3. q \in Seq(Timeouts) /\ Len(q) = Len(due) - k
      /\ \A i \in 1 .. Len(due) - k : q[i] = due[i + k]
  BY <1>1
<1>4. RemoveAt(due, k) = p \o q
  BY DEF RemoveAt
<1> DEFINE s == p \o q
<1> HIDE DEF p, q
<1>5. /\ s \in Seq(Timeouts) /\ Len(s) = Len(due) - 1 /\ DOMAIN s = 1 .. Len(due) - 1
      /\ \A i \in 1 .. Len(due) - 1 : s[i] = IF i <= k - 1 THEN p[i] ELSE q[i - (k - 1)]
  BY <1>1, <1>2, <1>3
<1> HIDE DEF s
<1>6. ASSUME NEW i \in 1 .. Len(due) - 1
      PROVE  s[i] = IF i < k THEN due[i] ELSE due[i + 1]
  <2>1. CASE i < k
    BY <1>1, <1>2, <1>5, <2>1
  <2>2. CASE ~(i < k)
    <3>1. i - (k - 1) \in 1 .. Len(due) - k /\ (i - (k - 1)) + k = i + 1
      BY <1>1, <2>2
    <3>2. q[i - (k - 1)] = due[i + 1]
      BY <1>3, <3>1
    <3>3. QED
      BY <1>1, <1>5, <2>2, <3>2
  <2>3. QED
    BY <2>1, <2>2
<1>7. QED
  BY <1>4, <1>5, <1>6 DEF s, Without

-----------------------------------------------------------------------------
(* The list of results.                                                    *)

LEMMA ElementTyped ==
    ASSUME NEW el \in Element, NEW dir \in {"in", "out"}
    PROVE  /\ Start(el, dir, NoCallback) \in Element
           /\ Enqueue(el, "out", NoCallback) \in Element
           /\ [Complete(el) EXCEPT !.queue = <<>>] \in Element
           /\ Start([Complete(el) EXCEPT !.queue = <<>>], "out", NoCallback) \in Element
<1>1. ASSUME NEW e \in Element PROVE Start(e, dir, NoCallback) \in Element
  BY DEF Start, Element
<1>2. [Complete(el) EXCEPT !.queue = <<>>] \in Element
  <2> DEFINE s == (el.anim = "in")
  <2>1. s \in BOOLEAN /\ <<>> \in Seq([dir : {"out"}, done : {NoCallback}])
    OBVIOUS
  <2>2. Complete(el) = [el EXCEPT !.anim = "none", !.shown = s, !.handler = NoCallback]
    BY DEF Complete
  <2> HIDE DEF s
  <2>3. QED
    BY <2>1, <2>2 DEF Element
<1>3. Enqueue(el, "out", NoCallback) \in Element
  <2>1. el.queue \in Seq([dir : {"out"}, done : {NoCallback}])
    BY DEF Element
  <2>2. Append(el.queue, [dir |-> "out", done |-> NoCallback])
          \in Seq([dir : {"out"}, done : {NoCallback}])
    BY <2>1
  <2>3. QED
    BY <2>2 DEF Enqueue, Element
<1>4. ASSUME NEW e \in Element PROVE Start(e, "out", NoCallback) \in Element
  BY DEF Start, Element
<1>5. QED
  BY <1>1, <1>2, <1>3, <1>4

(* What a step does that leaves the requests, the cache and the timeouts   *)
(* alone.                                                                  *)
Shows(c, b) ==
  /\ c \in SearchBoxes
  /\ c.api = b.api /\ c.due = b.due /\ c.cache = b.cache
  /\ c.handle = b.handle /\ c.searchTimers = b.searchTimers

LEMMA ShowingIsSound ==
    ASSUME NEW b, NEW c, Sound(b), Shows(c, b)
    PROVE  Sound(c)
BY DEF Sound, Shows

LEMMA FieldsShow ==
    ASSUME NEW b \in SearchBoxes, NEW x \in BOOLEAN
    PROVE  /\ Shows(b, b)
           /\ Shows([b EXCEPT !.focused = x], b)
           /\ Shows([b EXCEPT !.focusClass = x], b)
           /\ Shows([b EXCEPT !.dismissed = x], b)
           /\ Shows([b EXCEPT !.clicked = x], b)
           /\ Shows([b EXCEPT !.closing = x], b)
           /\ \A t \in Terms \cup {Nothing} : Shows([b EXCEPT !.prompt = t], b)
           /\ \A n \in Nat : Shows([b EXCEPT !.active = n], b)
           /\ \A el \in Element : Shows([b EXCEPT !.el = el], b)
BY DEF Shows, SearchBoxes

LEMMA ShowsTwice ==
    ASSUME NEW a, NEW b, NEW c, Shows(a, b), Shows(b, c)
    PROVE  Shows(a, c)
BY DEF Shows

LEMMA ResultsShow ==
    ASSUME NEW b \in SearchBoxes
    PROVE  Shows(ShowResults(b), b) /\ Shows(HideResults(b), b)
<1>1. b.el \in Element
  BY DEF SearchBoxes
<1>2. /\ Shows(b, b)
      /\ Shows([b EXCEPT !.el = Start(b.el, "in", NoCallback)], b)
      /\ Shows([b EXCEPT !.el = Start(b.el, "out", NoCallback)], b)
      /\ Shows([b EXCEPT !.el = Enqueue(b.el, "out", NoCallback)], b)
  BY <1>1, FieldsShow, ElementTyped
<1>3. ShowResults(b) \in {b, [b EXCEPT !.el = Start(b.el, "in", NoCallback)]}
  BY DEF ShowResults
<1>4. HideResults(b) \in {b, [b EXCEPT !.el = Start(b.el, "out", NoCallback)],
                          [b EXCEPT !.el = Enqueue(b.el, "out", NoCallback)]}
  BY DEF HideResults
<1>5. QED
  BY <1>2, <1>3, <1>4

LEMMA AddingShows ==
    ASSUME NEW b \in SearchBoxes, NEW html \in Terms \cup {Message}
    PROVE  Shows(AddResults(b, html), b)
<1> DEFINE v == [b EXCEPT !.html = html, !.active = 0]
<1>1. Shows(v, b) /\ v \in SearchBoxes
  BY DEF Shows, SearchBoxes
<1> HIDE DEF v
<1>2. Shows(ShowResults(v), v)
  BY <1>1, ResultsShow
<1>3. AddResults(b, html) = ShowResults(v)
  BY DEF AddResults, v
<1>4. QED
  BY <1>1, <1>2, <1>3, ShowsTwice

-----------------------------------------------------------------------------
(* Requests.                                                               *)

LEMMA EndedTyped ==
    ASSUME NEW api \in Api, NEW id \in DOMAIN api.calls, NEW how \in Phases
    PROVE  /\ Ended(api, id, how) \in Api
           /\ DOMAIN Ended(api, id, how).calls = DOMAIN api.calls
           /\ Len(Ended(api, id, how).calls) = Len(api.calls)
           /\ Ended(api, id, how).calls[id].phase = how
           /\ \A j \in DOMAIN api.calls :
                j # id => Ended(api, id, how).calls[j] = api.calls[j]
<1> DEFINE calls == api.calls
           c == [calls[id] EXCEPT !.phase = how]
           g == [calls EXCEPT ![id] = c]
<1>1. calls \in Requests /\ id \in DOMAIN calls /\ calls[id] \in Request
  <2>1. calls \in Requests /\ id \in DOMAIN calls
    BY DEF Api
  <2> HIDE DEF calls
  <2>2. QED
    BY <2>1 DEF Requests
<1>2. c \in Request /\ c.phase = how
  BY <1>1 DEF Request
<1>3. Ended(api, id, how) = [api EXCEPT !.calls = g]
  BY DEF Ended
<1> HIDE DEF calls, c
<1>4. /\ g \in Requests /\ DOMAIN g = DOMAIN calls /\ Len(g) = Len(calls) /\ g[id] = c
      /\ \A j \in DOMAIN calls : j # id => g[j] = calls[j]
  BY <1>1, <1>2 DEF Requests
<1> HIDE DEF g
<1>5. Ended(api, id, how) \in Api /\ Ended(api, id, how).calls = g
  BY <1>3, <1>4 DEF Api
<1>6. QED
  BY <1>2, <1>4, <1>5 DEF calls

(* The first end of a request.                                             *)
EndOf(b, id, how) ==
  [b EXCEPT !.api = Ended(b.api, id, how), !.due = Append(b.due, Call(id))]

LEMMA EndIsSound ==
    ASSUME NEW b, Sound(b), NEW id \in DOMAIN b.api.calls, b.api.calls[id].phase = "sent",
           NEW how \in Ends,
           NEW c, c = EndOf(b, id, how)
    PROVE  /\ Sound(c)
           /\ c.api.calls[id].phase = how /\ Len(c.api.calls) = Len(b.api.calls)
           /\ (\E i \in DOMAIN c.due : c.due[i] = HideTime)
                => \E i \in DOMAIN b.due : b.due[i] = HideTime
<1> DEFINE api == Ended(b.api, id, how)
           due == Append(b.due, Call(id))
<1>1. /\ b \in SearchBoxes /\ b.api \in Api /\ b.api.calls \in Requests /\ b.due \in Seq(Timeouts)
      /\ EachEndsOnce(b.api.calls, b.due) /\ OneSent(b.api.calls)
  BY DEF Sound, SearchBoxes, Api
<1>2. how \in Phases /\ how # "sent"
  BY DEF Ends, Phases, Awaited
<1>3. id \in Nat
  BY <1>1 DEF Requests
<1>4. /\ api \in Api /\ api.calls \in Requests
      /\ DOMAIN api.calls = DOMAIN b.api.calls /\ Len(api.calls) = Len(b.api.calls)
      /\ api.calls[id].phase = how
      /\ \A j \in DOMAIN b.api.calls : j # id => api.calls[j] = b.api.calls[j]
  <2>1. api \in Api => api.calls \in Requests
    BY DEF Api
  <2>2. QED
    BY <1>1, <1>2, <2>1, EndedTyped
<1> HIDE DEF api
<1>5. EachEndsOnce(api.calls, due)
  BY <1>1, <1>4, EndIsAwaited
<1>6. Call(id) \in Timeouts /\ Call(id) # HideTime
  BY <1>3, CallsDiffer
<1>7. /\ due \in Seq(Timeouts) /\ DOMAIN b.due = 1 .. Len(b.due) /\ Len(b.due) \in Nat
      /\ DOMAIN due = 1 .. Len(b.due) + 1 /\ due[Len(b.due) + 1] = Call(id)
      /\ \A i \in DOMAIN b.due : due[i] = b.due[i]
  BY <1>1, <1>6
<1> HIDE DEF due
<1>8. (\E i \in DOMAIN due : due[i] = HideTime) <=> \E i \in DOMAIN b.due : b.due[i] = HideTime
  BY <1>6, <1>7
<1>9. /\ c \in SearchBoxes /\ c.api = api /\ c.due = due
      /\ c.cache = b.cache /\ c.handle = b.handle /\ c.searchTimers = b.searchTimers
  <2>1. c = [b EXCEPT !.api = api, !.due = due]
    BY DEF EndOf, api, due
  <2>2. QED
    BY <1>1, <1>4, <1>7, <2>1 DEF SearchBoxes
<1>10. OneSent(api.calls)
  BY <1>1, <1>2, <1>4 DEF OneSent
<1>11. Sound(c)
  BY <1>5, <1>8, <1>9, <1>10 DEF Sound, HandleHolds
<1>12. QED
  BY <1>4, <1>8, <1>9, <1>11

(* A query that is cancelled leaves none with the server.                  *)
LEMMA CancelIsSound ==
    ASSUME NEW b, Sound(b)
    PROVE  /\ Sound(CancelQuery(b))
           /\ ~CanAbort(CancelQuery(b).api)
           /\ (\E i \in DOMAIN CancelQuery(b).due : CancelQuery(b).due[i] = HideTime)
                => \E i \in DOMAIN b.due : b.due[i] = HideTime
<1> DEFINE calls == b.api.calls
           n == Len(calls)
<1>1. CASE ~CanAbort(b.api)
  BY <1>1 DEF CancelQuery
<1>2. CASE CanAbort(b.api)
  <2>1. calls \in Requests /\ calls # <<>> /\ n \in DOMAIN calls /\ calls[n].phase = "sent"
    <3>1. calls \in Requests
      BY DEF Sound, SearchBoxes, Api
    <3>2. calls # <<>> /\ calls[n].phase = "sent"
      BY <1>2 DEF CanAbort, Newest
    <3> HIDE DEF calls
    <3>3. QED
      BY <3>1, <3>2 DEF Requests
  <2> DEFINE c == EndOf(b, n, "aborted")
  <2>2. "aborted" \in Ends /\ CancelQuery(b) = c
    BY <1>2 DEF Ends, CancelQuery, Aborted, Newest, EndOf
  <2>4. /\ n \in DOMAIN b.api.calls /\ b.api.calls[n].phase = "sent"
        /\ c = EndOf(b, n, "aborted")
    BY <2>1
  <2> HIDE DEF n, c, calls
  <2>3. /\ Sound(c)
        /\ c.api.calls[n].phase = "aborted" /\ Len(c.api.calls) = n
        /\ (\E i \in DOMAIN c.due : c.due[i] = HideTime)
             => \E i \in DOMAIN b.due : b.due[i] = HideTime
    <3>1. /\ Sound(c)
          /\ c.api.calls[n].phase = "aborted" /\ Len(c.api.calls) = Len(b.api.calls)
          /\ (\E i \in DOMAIN c.due : c.due[i] = HideTime)
               => \E i \in DOMAIN b.due : b.due[i] = HideTime
      BY <2>2, <2>4, EndIsSound
    <3>2. QED
      BY <3>1 DEF n, calls
  <2>5. ~CanAbort(c.api)
    BY <2>3 DEF CanAbort, Newest
  <2>6. QED
    BY <2>2, <2>3, <2>5
<1>3. QED
  BY <1>1, <1>2

LEMMA SearchIsSound ==
    ASSUME NEW b, Sound(b), NEW term \in Terms
    PROVE  Sound(SearchRemote(b, term))
<1> DEFINE free == IF IsLoading(b.api) THEN CancelQuery(b) ELSE b
           call == [term |-> term, phase |-> "sent"]
           api == [free.api EXCEPT !.calls = Append(free.api.calls, call), !.loading = TRUE]
           c == [free EXCEPT !.api = api]
<1>1. Sound(free) /\ ~CanAbort(free.api)
  <2>1. ~IsLoading(b.api) => ~CanAbort(b.api)
    BY DEF IsLoading, CanAbort, Awaited
  <2>2. QED
    BY <2>1, CancelIsSound
<1>2. SearchRemote(b, term) = c
  BY DEF SearchRemote, Sent
<1> HIDE DEF free
<1>3. /\ free \in SearchBoxes /\ free.api \in Api /\ free.api.calls \in Requests
      /\ free.due \in Seq(Timeouts)
      /\ EachEndsOnce(free.api.calls, free.due) /\ OneSent(free.api.calls)
      /\ Honest(free.cache) /\ HandleHolds(free.handle, free.due)
      /\ (free.handle = "search" => free.searchTimers > 0)
  BY <1>1 DEF Sound, SearchBoxes, Api
<1>4. call \in Request /\ call.phase = "sent"
  BY DEF Request, Phases, Awaited
<1> HIDE DEF call
<1> DEFINE calls == free.api.calls
           g == Append(calls, call)
<1>5. /\ g \in Requests /\ DOMAIN calls = 1 .. Len(calls) /\ DOMAIN g = 1 .. Len(calls) + 1
      /\ Len(calls) \in Nat /\ Len(g) = Len(calls) + 1
      /\ g[Len(calls) + 1] = call /\ \A i \in DOMAIN calls : g[i] = calls[i]
  <2>1. calls \in Requests
    BY <1>3
  <2> HIDE DEF calls
  <2>2. QED
    BY <1>4, <2>1 DEF Requests
<1>6. EachEndsOnce(g, free.due)
  BY <1>3, <1>4, SendingEndsNothing
<1>7. \A i \in DOMAIN calls : calls[i].phase # "sent"
  <2>1. SUFFICES ASSUME NEW i \in DOMAIN calls, calls[i].phase = "sent" PROVE FALSE
    OBVIOUS
  <2>2. i = Len(calls)
    BY <1>3, <2>1 DEF OneSent
  <2>3. calls = <<>>
    BY <1>1, <2>1, <2>2 DEF CanAbort, Newest
  <2>4. QED
    BY <2>1, <2>3
<1> HIDE DEF calls
<1>8. OneSent(g)
  BY <1>5, <1>7 DEF OneSent
<1> HIDE DEF g
<1>9. api \in Api /\ api.calls = g
  BY <1>3, <1>5 DEF Api, g, calls
<1> HIDE DEF api
<1>10. /\ c \in SearchBoxes /\ c.api = api /\ c.due = free.due /\ c.cache = free.cache
       /\ c.handle = free.handle /\ c.searchTimers = free.searchTimers
  BY <1>3, <1>9 DEF SearchBoxes
<1> HIDE DEF c
<1>11. QED
  BY <1>2, <1>3, <1>6, <1>8, <1>9, <1>10 DEF Sound

LEMMA QueryIsSound ==
    ASSUME SearchAssumption, NEW b, Sound(b)
    PROVE  Sound(QueryResults(b))
<1>1. /\ b \in SearchBoxes /\ b.prompt \in Terms \cup {Nothing}
      /\ b.cache \in [Terms -> Terms \cup {Nothing}] /\ Honest(b.cache)
  BY DEF Sound, SearchBoxes
<1>2. CASE b.prompt = Nothing
  BY <1>1, <1>2, ResultsShow, ShowingIsSound DEF QueryResults
<1>3. CASE b.prompt # Nothing /\ b.cache[b.prompt] # Nothing
  <2>1. b.cache[b.prompt] \in Terms
    BY <1>1, <1>3
  <2>2. Shows(AddResults(b, b.cache[b.prompt]), b)
    BY <1>1, <2>1, AddingShows
  <2>3. QED
    BY <1>3, <2>2, ShowingIsSound DEF QueryResults
<1>4. CASE b.prompt # Nothing /\ b.cache[b.prompt] = Nothing
  <2>1. b.prompt \in Terms
    BY <1>1, <1>4
  <2>2. QED
    BY <1>4, <2>1, SearchIsSound DEF QueryResults
<1>5. QED
  BY <1>2, <1>3, <1>4

(* An answer is kept as that to the text it was asked for.                 *)
LEMMA ParsingIsSound ==
    ASSUME NEW b, Sound(b), NEW term \in Terms
    PROVE  Sound(ParseResponse(b, term))
<1> DEFINE v == AddResults(b, term)
           cache == [v.cache EXCEPT ![term] = term]
           c == [v EXCEPT !.cache = cache]
<1>1. Sound(v)
  <2>1. b \in SearchBoxes
    BY DEF Sound
  <2>2. QED
    BY <2>1, AddingShows, ShowingIsSound
<1>2. ParseResponse(b, term) = c
  BY DEF ParseResponse
<1> HIDE DEF v
<1>3. v \in SearchBoxes /\ v.cache \in [Terms -> Terms \cup {Nothing}] /\ Honest(v.cache)
  BY <1>1 DEF Sound, SearchBoxes
<1>4. cache \in [Terms -> Terms \cup {Nothing}] /\ Honest(cache)
  BY <1>3 DEF Honest
<1> HIDE DEF cache
<1>5. /\ c \in SearchBoxes /\ c.cache = cache
      /\ c.api = v.api /\ c.due = v.due /\ c.handle = v.handle /\ c.searchTimers = v.searchTimers
  BY <1>3, <1>4 DEF SearchBoxes
<1> HIDE DEF c
<1>6. QED
  BY <1>1, <1>2, <1>4, <1>5 DEF Sound

-----------------------------------------------------------------------------
(* Timeouts that run, and timers.                                          *)

LEMMA SettledTyped ==
    ASSUME NEW api \in Api, NEW id \in DOMAIN api.calls
    PROVE  /\ Settled(api, id) \in Api /\ Settled(api, id).calls \in Requests
           /\ DOMAIN Settled(api, id).calls = DOMAIN api.calls
           /\ Len(Settled(api, id).calls) = Len(api.calls)
           /\ Settled(api, id).calls[id].phase \notin Ends \cup {"sent"}
           /\ \A j \in DOMAIN api.calls :
                j # id => Settled(api, id).calls[j] = api.calls[j]
<1> DEFINE how == IF api.calls[id].phase = "answered" THEN "resolved" ELSE "rejected"
           u == Ended(api, id, how)
           failed == api.calls[id].phase = "failed"
           error == u.error \/ failed
           timers == IF failed THEN u.errorTimers + 1 ELSE u.errorTimers
           c == [u EXCEPT !.loading = FALSE, !.error = error, !.errorTimers = timers]
<1>1. how \in Phases /\ how \notin Ends \cup {"sent"}
  BY DEF Phases, Ends
<1>2. Settled(api, id) = c
  BY DEF Settled, Ended, Api
<1> HIDE DEF how
<1>3. /\ u \in Api /\ DOMAIN u.calls = DOMAIN api.calls /\ Len(u.calls) = Len(api.calls)
      /\ u.calls[id].phase = how
      /\ \A j \in DOMAIN api.calls : j # id => u.calls[j] = api.calls[j]
  BY <1>1, EndedTyped
<1> HIDE DEF u
<1>4. error \in BOOLEAN
  OBVIOUS
<1>5. timers \in Nat
  BY <1>3 DEF Api
<1> HIDE DEF error, timers
<1>6. c \in Api /\ c.calls = u.calls /\ c.calls \in Requests
  BY <1>3, <1>4, <1>5 DEF Api
<1> HIDE DEF c
<1>7. QED
  BY <1>1, <1>2, <1>3, <1>6

(* A request ends for its caller, in the timeout that is due.              *)
LEMMA SettlingIsSound ==
    ASSUME NEW b, Sound(b), b.due # <<>>, Head(b.due) # HideTime,
           NEW v, v = [b EXCEPT !.due = Tail(b.due)]
    PROVE  Sound(RequestSettled(v, Head(b.due).id))
<1> DEFINE id == Head(b.due).id
           d == Tail(b.due)
           api == Settled(b.api, id)
           w == [v EXCEPT !.api = Settled(v.api, id)]
           call == b.api.calls[id]
<1>1. /\ b \in SearchBoxes /\ b.api \in Api /\ b.api.calls \in Requests /\ b.due \in Seq(Timeouts)
      /\ EachEndsOnce(b.api.calls, b.due) /\ OneSent(b.api.calls)
  BY DEF Sound, SearchBoxes, Api
<1>2. Without(b.due, 1, d) /\ 1 \in DOMAIN b.due /\ Head(b.due) = b.due[1]
  BY <1>1, TailTakes
<1>3. id = b.due[1].id /\ d \in Seq(Timeouts)
  BY <1>2 DEF Without
<1>4. id \in DOMAIN b.api.calls /\ call.phase \in Ends /\ call \in Request
  <2>1. id \in DOMAIN b.api.calls
    BY <1>1, <1>2 DEF EachEndsOnce
  <2>2. b.due[1] \in Timeouts /\ b.due[1] # HideTime
    BY <1>1, <1>2
  <2>3. b.due[1] = Call(id)
    BY <1>3, <2>2, TimeoutIsACall
  <2>4. call.phase \in Ends
    BY <1>1, <1>2, <2>1, <2>3 DEF EachEndsOnce
  <2> DEFINE calls == b.api.calls
  <2>5. calls \in Requests /\ id \in DOMAIN calls
    BY <1>1, <2>1
  <2> HIDE DEF calls, id
  <2>6. calls[id] \in Request
    BY <2>5 DEF Requests
  <2>7. QED
    BY <2>1, <2>4, <2>6 DEF calls
<1>5. v = [b EXCEPT !.due = d]
  OBVIOUS
<1> HIDE DEF id, d
<1>6. /\ v \in SearchBoxes /\ v.api = b.api /\ v.due = d /\ v.cache = b.cache
      /\ v.handle = b.handle /\ v.searchTimers = b.searchTimers
  BY <1>1, <1>3, <1>5 DEF SearchBoxes
<1>7. /\ api \in Api /\ api.calls \in Requests
      /\ DOMAIN api.calls = DOMAIN b.api.calls /\ Len(api.calls) = Len(b.api.calls)
      /\ api.calls[id].phase \notin Ends \cup {"sent"}
      /\ \A j \in DOMAIN b.api.calls : j # id => api.calls[j] = b.api.calls[j]
  BY <1>1, <1>4, SettledTyped
<1>8. w = [v EXCEPT !.api = api]
  BY <1>6
<1> HIDE DEF api
<1>9. /\ w \in SearchBoxes /\ w.api = api /\ w.due = d /\ w.cache = b.cache
      /\ w.handle = b.handle /\ w.searchTimers = b.searchTimers
  BY <1>6, <1>7, <1>8 DEF SearchBoxes
<1>10. /\ EachEndsOnce(api.calls, d)
       /\ (\E i \in DOMAIN b.due : b.due[i] = HideTime) => \E i \in DOMAIN d : d[i] = HideTime
  <2> DEFINE g == api.calls
  <2>1. g[b.due[1].id].phase \notin Ends /\ b.due[1] # HideTime
    BY <1>2, <1>3, <1>7
  <2>2. \A j \in DOMAIN b.api.calls : j # b.due[1].id => g[j] = b.api.calls[j]
    BY <1>3, <1>7
  <2>3. g \in Requests /\ DOMAIN g = DOMAIN b.api.calls
    BY <1>7
  <2> HIDE DEF g
  <2>4. /\ EachEndsOnce(g, d)
        /\ (\E i \in DOMAIN b.due : b.due[i] = HideTime) => \E i \in DOMAIN d : d[i] = HideTime
    BY <1>1, <1>2, <2>1, <2>2, <2>3, CallIsTaken
  <2>5. QED
    BY <2>4 DEF g
<1>11. OneSent(api.calls)
  BY <1>1, <1>7 DEF OneSent
<1> HIDE DEF w
<1>12. Sound(w)
  BY <1>9, <1>10, <1>11 DEF Sound, HandleHolds
<1>13. v.api.calls[id] = call
  BY <1>6
<1>14. /\ call.phase = "answered" => RequestSettled(v, id) = ParseResponse(w, call.term)
       /\ call.phase = "failed" => RequestSettled(v, id) = AddResults(w, Message)
       /\ call.phase = "aborted" => RequestSettled(v, id) = w
  BY <1>13 DEF RequestSettled, w
<1>15. Sound(AddResults(w, Message))
  BY <1>9, <1>12, AddingShows, ShowingIsSound
<1>16. Sound(ParseResponse(w, call.term))
  <2>1. call.term \in Terms
    BY <1>4 DEF Request
  <2>2. QED
    BY <1>12, <2>1, ParsingIsSound
<1>17. QED
  BY <1>4, <1>12, <1>14, <1>15, <1>16 DEF Ends, id

(* The timer that hides the results is gone: it has run or was cleared.    *)
Gone(b, d, h) == [b EXCEPT !.due = d, !.handle = h]

LEMMA HideTimerIsSound ==
    ASSUME NEW b, Sound(b), NEW k \in DOMAIN b.due, b.due[k] = HideTime,
           NEW d, Without(b.due, k, d),
           NEW h \in {"none", "search"}, h = "search" => b.handle = "search",
           NEW v, v = Gone(b, d, h)
    PROVE  Sound(v) /\ v.handle = h /\ v.searchTimers = b.searchTimers
<1>1. /\ b \in SearchBoxes /\ b.api.calls \in Requests /\ b.due \in Seq(Timeouts)
      /\ EachEndsOnce(b.api.calls, b.due)
  BY DEF Sound, SearchBoxes, Api
<1>2. d \in Seq(Timeouts)
  BY DEF Without
<1>3. EachEndsOnce(b.api.calls, d)
  BY <1>1, HideIsTaken
<1>4. /\ v \in SearchBoxes /\ v.api = b.api /\ v.due = d /\ v.cache = b.cache
      /\ v.handle = h /\ v.searchTimers = b.searchTimers
  BY <1>1, <1>2 DEF SearchBoxes, Gone
<1>5. QED
  BY <1>3, <1>4 DEF Sound, HandleHolds

LEMMA ClearingIsSound ==
    ASSUME NEW b, Sound(b)
    PROVE  Sound(ClearTimer(b)) /\ ClearTimer(b).handle = "none"
<1>1. b \in SearchBoxes /\ b.handle \in {"none", "search", "hide"} /\ b.searchTimers \in Nat
      /\ b.due \in Seq(Timeouts)
  BY DEF Sound, SearchBoxes
<1>2. CASE b.handle = "none"
  BY <1>2 DEF ClearTimer
<1>3. CASE b.handle = "search"
  <2> DEFINE v == [b EXCEPT !.searchTimers = b.searchTimers - 1, !.handle = "none"]
  <2>1. ClearTimer(b) = v
    BY <1>3 DEF ClearTimer
  <2>2. b.searchTimers - 1 \in Nat
    BY <1>1, <1>3 DEF Sound
  <2>3. /\ v \in SearchBoxes /\ v.api = b.api /\ v.due = b.due /\ v.cache = b.cache
        /\ v.handle = "none"
    BY <1>1, <2>2 DEF SearchBoxes
  <2> HIDE DEF v
  <2>4. QED
    BY <2>1, <2>3 DEF Sound, HandleHolds
<1>4. CASE b.handle = "hide"
  <2> DEFINE k == NewestHide(b.due)
             d == RemoveAt(b.due, k)
             v == Gone(b, d, "none")
  <2>1. ClearTimer(b) = v
    BY <1>4 DEF ClearTimer, Gone
  <2>2. PICK i \in DOMAIN b.due : b.due[i] = HideTime
    BY <1>4 DEF Sound, HandleHolds
  <2>3. \A j \in DOMAIN b.due : b.due[j] = HideTime => j <= i
    <3>1. \A j \in DOMAIN b.due : b.due[j] = HideTime => j = i
      BY <2>2 DEF Sound, EachEndsOnce, IsInjective
    <3>2. i \in Nat
      BY <1>1
    <3>3. QED
      BY <3>1, <3>2
  <2>4. k \in DOMAIN b.due /\ b.due[k] = HideTime
    BY <2>2, <2>3 DEF NewestHide
  <2> HIDE DEF k
  <2>5. Without(b.due, k, d)
    BY <1>1, <2>4, RemoveAtTakes
  <2> HIDE DEF d
  <2>6. "none" \in {"none", "search"} /\ "none" # "search"
    OBVIOUS
  <2> HIDE DEF v
  <2>7. Sound(v) /\ v.handle = "none"
    BY <2>4, <2>5, <2>6, HideTimerIsSound DEF v
  <2>8. QED
    BY <2>1, <2>7
<1>5. QED
  BY <1>1, <1>2, <1>3, <1>4

-----------------------------------------------------------------------------
(* The prompt.                                                             *)

LEMMA FocusIsSound ==
    ASSUME SearchAssumption, NEW b, Sound(b)
    PROVE  Sound(TakeFocus(b))
<1> DEFINE v == [b EXCEPT !.focused = TRUE, !.focusClass = TRUE]
<1>1. Shows(v, b)
  BY DEF Sound, Shows, SearchBoxes
<1>2. TakeFocus(b) \in {v, QueryResults(v)}
  BY DEF TakeFocus
<1> HIDE DEF v
<1>3. Sound(v) /\ Sound(QueryResults(v))
  BY <1>1, ShowingIsSound, QueryIsSound
<1>4. QED
  BY <1>2, <1>3

NoHideSet(b) == ~\E i \in DOMAIN b.due : b.due[i] = HideTime

LEMMA ClosingIsSound ==
    ASSUME NEW b, Sound(b), NoHideSet(b)
    PROVE  Sound(Close(b))
<1> DEFINE u == CancelQuery(b)
           d == Append(u.due, HideTime)
           v == [u EXCEPT !.focusClass = FALSE, !.due = d, !.handle = "hide"]
<1>1. Close(b) = v
  BY DEF Close
<1>2. Sound(u) /\ NoHideSet(u)
  BY CancelIsSound DEF NoHideSet
<1> HIDE DEF u
<1>3. /\ u \in SearchBoxes /\ u.api.calls \in Requests /\ u.due \in Seq(Timeouts)
      /\ EachEndsOnce(u.api.calls, u.due) /\ ~\E i \in DOMAIN u.due : u.due[i] = HideTime
  BY <1>2 DEF Sound, SearchBoxes, Api, NoHideSet
<1>4. d \in Seq(Timeouts)
  BY <1>3 DEF Timeouts
<1>5. EachEndsOnce(u.api.calls, d) /\ \E i \in DOMAIN d : d[i] = HideTime
  BY <1>3, HideIsSet
<1> HIDE DEF d
<1>6. /\ v \in SearchBoxes /\ v.api = u.api /\ v.due = d /\ v.cache = u.cache
      /\ v.handle = "hide" /\ v.searchTimers = u.searchTimers
  BY <1>3, <1>4 DEF SearchBoxes
<1> HIDE DEF v
<1>7. QED
  BY <1>1, <1>2, <1>5, <1>6 DEF Sound, HandleHolds

LEMMA LosingIsSound ==
    ASSUME NEW b, Sound(b), b.clicked \/ NoHideSet(b)
    PROVE  Sound(LoseFocus(b))
<1> DEFINE v == [b EXCEPT !.focused = FALSE, !.dismissed = FALSE]
<1>1. Shows(v, b) /\ v.clicked = b.clicked
  BY DEF Sound, Shows, SearchBoxes
<1>2. LoseFocus(b) = IF b.clicked THEN [v EXCEPT !.closing = TRUE] ELSE Close(v)
  BY DEF LoseFocus
<1> HIDE DEF v
<1>3. Sound(v) /\ Shows([v EXCEPT !.closing = TRUE], v)
  BY <1>1, ShowingIsSound, FieldsShow DEF Shows
<1>4. Sound([v EXCEPT !.closing = TRUE])
  BY <1>3, ShowingIsSound
<1>5. NoHideSet(b) => Sound(Close(v))
  BY <1>1, <1>3, ClosingIsSound DEF NoHideSet, Shows
<1>6. QED
  BY <1>2, <1>4, <1>5

LEMMA SelectShows ==
    ASSUME NEW b, Sound(b), NEW title \in Terms
    PROVE  Shows(Select(b, title), b)
<1> DEFINE v == HideResults(b)
<1>1. Shows(v, b)
  BY ResultsShow DEF Sound
<1>2. Select(b, title) = [v EXCEPT !.prompt = title]
  BY DEF Select
<1> HIDE DEF v
<1>3. Shows([v EXCEPT !.prompt = title], v)
  <2>1. v \in SearchBoxes /\ title \in Terms \cup {Nothing}
    BY <1>1 DEF Shows
  <2>2. QED
    BY <2>1, FieldsShow
<1>4. QED
  BY <1>1, <1>2, <1>3, ShowsTwice

LEMMA NobodyLeavesTwice == MayLeave => NoHideSet(box)
BY DEF MayLeave, NoHideSet, Range

-----------------------------------------------------------------------------
(* The steps.                                                              *)

LEMMA SearchInvInit == Init => SearchInv
<1> SUFFICES ASSUME Init PROVE SearchInv
  OBVIOUS
<1>1. NewElement \in Element
  BY DEF NewElement, Element, NoCallback
<1>2. NewApi \in Api /\ NewApi.calls = <<>> /\ <<>> \in Requests
  BY DEF NewApi, Api, Requests
<1>3. [t \in Terms |-> Nothing] \in [Terms -> Terms \cup {Nothing}]
      /\ Honest([t \in Terms |-> Nothing])
  BY DEF Honest
<1>4. <<>> \in Seq(Timeouts)
  OBVIOUS
<1>5. /\ NewBox \in SearchBoxes /\ NewBox.api = NewApi /\ NewBox.due = <<>>
      /\ NewBox.cache = [t \in Terms |-> Nothing] /\ NewBox.handle = "none"
  BY <1>1, <1>2, <1>3, <1>4 DEF NewBox, SearchBoxes
<1>6. EachEndsOnce(<<>>, <<>>) /\ OneSent(<<>>)
  BY DEF EachEndsOnce, OneSent, IsInjective
<1>7. QED
  BY <1>2, <1>3, <1>5, <1>6 DEF Init, SearchInv, Sound, HandleHolds

LEMMA SearchInvPrompt ==
    ASSUME SearchAssumption, SearchInv,
           \/ \E text \in Terms \cup {Nothing} : Type(text)
           \/ FocusPrompt \/ BlurPrompt \/ Escape \/ Arrow \/ EnterResult \/ EnterQuery
           \/ SearchTimer
    PROVE  SearchInv'
<1>1. Sound(box) /\ box \in SearchBoxes /\ held \in BOOLEAN
  BY DEF SearchInv, Sound
<1>2. SUFFICES Sound(box')
  <2>1. held' = held
    BY DEF Type, FocusPrompt, BlurPrompt, Escape, Arrow, EnterResult, EnterQuery, SearchTimer
  <2>2. Sound(box)' <=> Sound(box')
    BY DEF Sound, HandleHolds, EachEndsOnce, OneSent, Honest
  <2>3. QED
    BY <1>1, <2>1, <2>2 DEF SearchInv
<1>3. CASE \E text \in Terms \cup {Nothing} : Type(text)
  <2>1. PICK text \in Terms \cup {Nothing} : Type(text)
    BY <1>3
  <2> DEFINE u == [box EXCEPT !.prompt = text]
             v == ClearTimer(u)
             n == v.searchTimers + 1
             w == [v EXCEPT !.searchTimers = n, !.handle = "search"]
  <2>2. box' = w
    BY <2>1 DEF Type
  <2>3. Sound(u)
    BY <1>1, FieldsShow, ShowingIsSound
  <2> HIDE DEF u
  <2>4. Sound(v)
    BY <2>3, ClearingIsSound
  <2> HIDE DEF v
  <2>5. v \in SearchBoxes /\ v.searchTimers \in Nat
    BY <2>4 DEF Sound, SearchBoxes
  <2>6. n \in Nat /\ n > 0
    BY <2>5
  <2> HIDE DEF n
  <2>7. /\ w \in SearchBoxes /\ w.api = v.api /\ w.due = v.due /\ w.cache = v.cache
        /\ w.handle = "search" /\ w.searchTimers = n
    BY <2>5, <2>6 DEF SearchBoxes
  <2> HIDE DEF w
  <2>8. QED
    BY <2>2, <2>4, <2>6, <2>7 DEF Sound, HandleHolds
<1>4. CASE FocusPrompt
  BY <1>1, <1>4, FocusIsSound DEF FocusPrompt
<1>5. CASE BlurPrompt
  BY <1>1, <1>5, LosingIsSound, NobodyLeavesTwice DEF BlurPrompt
<1>6. CASE Escape
  <2> DEFINE v == HideResults(box)
  <2>1. Shows(v, box)
    BY <1>1, ResultsShow
  <2>2. box' = [v EXCEPT !.dismissed = TRUE]
    BY <1>6 DEF Escape
  <2> HIDE DEF v
  <2>3. Shows([v EXCEPT !.dismissed = TRUE], v)
    BY <2>1, FieldsShow DEF Shows
  <2>4. QED
    BY <1>1, <2>1, <2>2, <2>3, ShowingIsSound
<1>7. CASE Arrow
  <2>1. PICK i \in Nat : box' = [box EXCEPT !.active = i]
    BY <1>7 DEF Arrow, ResultSize
  <2>2. QED
    BY <1>1, <2>1, FieldsShow, ShowingIsSound
<1>8. CASE EnterResult
  BY <1>1, <1>8, SelectShows, ShowingIsSound DEF EnterResult
<1>9. CASE EnterQuery
  BY <1>1, <1>9, QueryIsSound DEF EnterQuery
<1>10. CASE SearchTimer
  <2> DEFINE h == IF box.handle = "search" /\ box.searchTimers = 1 THEN "none" ELSE box.handle
             v == [box EXCEPT !.searchTimers = box.searchTimers - 1, !.handle = h]
  <2>1. box' \in {v, QueryResults(v)} /\ box.searchTimers > 0
    BY <1>10 DEF SearchTimer
  <2>2. box.searchTimers \in Nat /\ box.searchTimers - 1 \in Nat
    BY <1>1, <2>1 DEF SearchBoxes
  <2>3. h \in {"none", "search", "hide"} /\ (h = "hide" => box.handle = "hide")
        /\ (h = "search" => box.searchTimers - 1 > 0)
    BY <1>1, <2>1, <2>2 DEF SearchBoxes
  <2> HIDE DEF h
  <2>4. /\ v \in SearchBoxes /\ v.api = box.api /\ v.due = box.due /\ v.cache = box.cache
        /\ v.handle = h /\ v.searchTimers = box.searchTimers - 1
    BY <1>1, <2>2, <2>3 DEF SearchBoxes
  <2> HIDE DEF v
  <2>5. Sound(v)
    BY <1>1, <2>3, <2>4 DEF Sound, HandleHolds
  <2>6. QED
    BY <2>1, <2>5, QueryIsSound
<1>11. QED
  BY <1>3, <1>4, <1>5, <1>6, <1>7, <1>8, <1>9, <1>10

LEMMA SearchInvMouse ==
    ASSUME SearchAssumption, SearchInv,
           ClickButton \/ MouseDown \/ ClickResult \/ ClickList \/ ReleaseElsewhere
    PROVE  SearchInv'
<1>1. Sound(box) /\ box \in SearchBoxes /\ held \in BOOLEAN
  BY DEF SearchInv, Sound
<1>2. SUFFICES Sound(box')
  <2>1. held' \in BOOLEAN
    BY <1>1 DEF ClickButton, MouseDown, ClickResult, ClickList, ReleaseElsewhere
  <2>2. Sound(box)' <=> Sound(box')
    BY DEF Sound, HandleHolds, EachEndsOnce, OneSent, Honest
  <2>3. QED
    BY <2>1, <2>2 DEF SearchInv
<1>3. CASE ClickButton
  BY <1>1, <1>3, QueryIsSound DEF ClickButton
<1>4. CASE MouseDown
  <2> DEFINE v == [box EXCEPT !.clicked = TRUE]
  <2>1. Sound(v) /\ v.clicked
    BY <1>1, FieldsShow, ShowingIsSound DEF SearchBoxes
  <2>2. box' \in {v, LoseFocus(v)}
    BY <1>4 DEF MouseDown
  <2> HIDE DEF v
  <2>3. QED
    BY <2>1, <2>2, LosingIsSound
<1>5. CASE ClickResult
  <2>1. PICK title \in Terms :
          box' = [Select(box, title) EXCEPT !.clicked = FALSE, !.closing = FALSE]
    BY <1>5 DEF ClickResult
  <2> DEFINE v == Select(box, title)
  <2>2. Shows(v, box)
    BY <1>1, SelectShows
  <2>3. box' = [v EXCEPT !.clicked = FALSE, !.closing = FALSE]
    BY <2>1
  <2> HIDE DEF v
  <2>4. Shows(box', v)
    BY <2>2, <2>3 DEF Shows, SearchBoxes
  <2>5. QED
    BY <1>1, <2>2, <2>4, ShowingIsSound
<1>6. CASE ClickList
  <2> DEFINE v == [box EXCEPT !.clicked = FALSE, !.closing = FALSE]
  <2>1. box' \in {v, TakeFocus(v), Close(v)} /\ NoHideSet(box)
    BY <1>6, NobodyLeavesTwice DEF ClickList
  <2>2. Shows(v, box)
    BY <1>1 DEF Shows, SearchBoxes
  <2> HIDE DEF v
  <2>3. Sound(v) /\ NoHideSet(v)
    BY <1>1, <2>1, <2>2, ShowingIsSound DEF NoHideSet, Shows
  <2>4. QED
    BY <2>1, <2>3, FocusIsSound, ClosingIsSound
<1>7. CASE ReleaseElsewhere
  BY <1>1, <1>7 DEF ReleaseElsewhere
<1>8. QED
  BY <1>3, <1>4, <1>5, <1>6, <1>7

LEMMA SearchInvBrowser ==
    ASSUME SearchAssumption, SearchInv,
           \/ RunTimeout \/ ErrorTimer \/ AnimationEnds
           \/ \E id \in DOMAIN box.api.calls : RequestEnds(id)
    PROVE  SearchInv'
<1>1. Sound(box) /\ box \in SearchBoxes /\ held \in BOOLEAN
  BY DEF SearchInv, Sound
<1>2. SUFFICES Sound(box')
  <2>1. held' = held
    BY DEF RunTimeout, ErrorTimer, AnimationEnds, RequestEnds
  <2>2. Sound(box)' <=> Sound(box')
    BY DEF Sound, HandleHolds, EachEndsOnce, OneSent, Honest
  <2>3. QED
    BY <1>1, <2>1, <2>2 DEF SearchInv
<1>3. CASE RunTimeout /\ Head(box.due) = HideTime
  <2> DEFINE d == Tail(box.due)
             h == IF box.handle = "hide" THEN "none" ELSE box.handle
             v == Gone(box, d, h)
  <2>1. box.due # <<>> /\ box' = HideResults(v)
    BY <1>3 DEF RunTimeout, Gone
  <2>2. /\ Without(box.due, 1, d) /\ 1 \in DOMAIN box.due /\ box.due[1] = HideTime
    BY <1>1, <1>3, <2>1, TailTakes DEF SearchBoxes
  <2>3. h \in {"none", "search"} /\ (h = "search" => box.handle = "search")
    BY <1>1 DEF SearchBoxes
  <2> HIDE DEF d, h, v
  <2>4. Sound(v)
    BY <1>1, <2>2, <2>3, HideTimerIsSound DEF v
  <2>5. QED
    BY <2>1, <2>4, ResultsShow, ShowingIsSound DEF Sound
<1>4. CASE RunTimeout /\ Head(box.due) # HideTime
  <2> DEFINE v == [box EXCEPT !.due = Tail(box.due)]
  <2>1. box.due # <<>> /\ box' = RequestSettled(v, Head(box.due).id)
    <3> DEFINE w == [box EXCEPT !.due = Tail(box.due), !.handle = box.handle]
    <3>1. box.due # <<>> /\ box' = RequestSettled(w, Head(box.due).id)
      BY <1>4 DEF RunTimeout
    <3>2. w = v
      BY <1>1 DEF SearchBoxes
    <3>3. QED
      BY <3>1, <3>2
  <2>2. QED
    BY <1>1, <1>4, <2>1, SettlingIsSound
<1>5. CASE ErrorTimer
  <2> DEFINE n == box.api.errorTimers - 1
             api == [box.api EXCEPT !.error = FALSE, !.errorTimers = n]
             v == [box EXCEPT !.api = api]
  <2>1. box' = v /\ n \in Nat /\ box.api \in Api
    BY <1>1, <1>5 DEF ErrorTimer, ErrorRemoved, SearchBoxes, Api
  <2> HIDE DEF n
  <2>2. api \in Api /\ api.calls = box.api.calls
    BY <2>1 DEF Api
  <2> HIDE DEF api
  <2>3. /\ v \in SearchBoxes /\ v.api = api /\ v.due = box.due /\ v.cache = box.cache
        /\ v.handle = box.handle /\ v.searchTimers = box.searchTimers
    BY <1>1, <2>2 DEF SearchBoxes
  <2> HIDE DEF v
  <2>4. QED
    BY <1>1, <2>1, <2>2, <2>3 DEF Sound
<1>6. CASE AnimationEnds
  <2> DEFINE el == [Complete(box.el) EXCEPT !.queue = <<>>]
             n == IF box.el.queue = <<>> THEN el ELSE Start(el, "out", NoCallback)
  <2>1. box' = [box EXCEPT !.el = n]
    BY <1>6 DEF AnimationEnds
  <2>2. box.el \in Element
    BY <1>1 DEF SearchBoxes
  <2>3. n \in Element
    BY <2>2, ElementTyped
  <2> HIDE DEF n
  <2>4. QED
    BY <1>1, <2>1, <2>3, FieldsShow, ShowingIsSound
<1>7. CASE \E id \in DOMAIN box.api.calls : RequestEnds(id)
  <2>1. PICK id \in DOMAIN box.api.calls, how \in Ends :
          box.api.calls[id].phase = "sent" /\ box' = EndOf(box, id, how)
    BY <1>7 DEF RequestEnds, Ends, EndOf
  <2> DEFINE c == EndOf(box, id, how)
  <2> HIDE DEF c
  <2>2. Sound(c)
    BY <1>1, <2>1, EndIsSound DEF c
  <2>3. QED
    BY <2>1, <2>2 DEF c
<1>8. QED
  BY <1>3, <1>4, <1>5, <1>6, <1>7

LEMMA SearchInvStep == SearchAssumption /\ SearchInv /\ [Next]_vars => SearchInv'
<1> SUFFICES ASSUME SearchAssumption, SearchInv, [Next]_vars PROVE SearchInv'
  OBVIOUS
<1>1. CASE UNCHANGED vars
  BY <1>1 DEF vars, SearchInv, Sound, HandleHolds, EachEndsOnce, OneSent, Honest
<1>2. CASE Next
  BY <1>2, SearchInvPrompt, SearchInvMouse, SearchInvBrowser DEF Next
<1>3. QED
  BY <1>1, <1>2

(* search.js, api.js: every request ends once for its caller, in a timeout *)
(* that is set when it ends for the browser, and the newest alone may be   *)
(* with the server.                                                        *)
THEOREM SearchInvariant == SearchAssumption => (Spec => []SearchInv)
<1> SUFFICES ASSUME SearchAssumption PROVE Spec => []SearchInv
  OBVIOUS
<1>1. SearchInv /\ [Next]_vars => SearchInv'
  BY SearchInvStep
<1>2. QED
  BY <1>1, SearchInvInit, PTL DEF Spec

(* parse.response: what is kept and shown as the answer to a text is what  *)
(* the server answered to it, whatever is typed, cancelled, lost and late. *)
THEOREM AnswersBelongToTheirTexts == SearchAssumption => (Spec => []AnswersAreTheirs)
<1> SUFFICES ASSUME SearchAssumption PROVE Spec => []AnswersAreTheirs
  OBVIOUS
<1>1. SearchInv => AnswersAreTheirs
  BY DEF SearchInv, Sound, Honest, OneSent, AnswersAreTheirs, CacheIsHonest, OneSearchUnderWay,
         InPhase, Newest
<1>2. QED
  BY <1>1, SearchInvariant, PTL
=============================================================================
