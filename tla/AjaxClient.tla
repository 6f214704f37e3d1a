------------------------------ MODULE AjaxClient ------------------------------
(***************************************************************************)
(* kwami-generic-webapp, ajaxClient.ts and jsonAjaxClient.ts.  The page    *)
(* has one static field for the XMLHttpRequest object; every request puts  *)
(* a new object there, and the handler of every object, old ones included, *)
(* looks at the field instead of at its own object.  What the handler      *)
(* passes on besides the response, the array objs, is its own request's.   *)
(*                                                                         *)
(* #ajaxOverlay covers the page while a request is outstanding, but it is  *)
(* no lock: a focused button still takes the keyboard, and a panel whose   *)
(* z-index has passed 1500 or that hangs over the edge of the body lies    *)
(* above or beside it.  So requests may overlap.                           *)
(*                                                                         *)
(* Events of the page run to completion: one step each.                    *)
(***************************************************************************)
EXTENDS Naturals

CONSTANTS MaxRequests,   \* bound: requests of one run
          Answers        \* what a response with status 200 may hold

Requests == 1..MaxRequests
NoRequest == 0
NoAnswer == "none"       \* no response yet
Failed   == "failed"     \* complete with another status than 200

ASSUME AjaxAssumption ==
    /\ MaxRequests \in Nat
    /\ NoAnswer \notin Answers /\ Failed \notin Answers

VARIABLES
    xmlhttp,      \* the static field: the latest request, NoRequest at first
    readyState,   \* of each request's object: 0 unsent, 1 opened, ... 4 done
    answer,       \* what its response is
    objs,         \* requests whose array still holds callback and context
    overlay,      \* #ajaxOverlay is displayed
    overlapped,   \* history: requests in flight when a later one was made
    calls         \* history: callback of request `to` got the response to `of`

ajaxVars == <<xmlhttp, readyState, answer, objs, overlay, overlapped, calls>>

InFlight == {i \in Requests : readyState[i] \in 1..3}

AjaxInit ==
    /\ xmlhttp = NoRequest
    /\ readyState = [i \in Requests |-> 0]
    /\ answer = [i \in Requests |-> NoAnswer]
    /\ objs = {} /\ overlay = FALSE
    /\ overlapped = {} /\ calls = {}

-----------------------------------------------------------------------------
(* The program                                                             *)

\* Mutant: the overlay is not displayed.
AjaxJson_NoOverlay ==
    /\ xmlhttp < MaxRequests
    /\ xmlhttp' = xmlhttp + 1
    /\ objs' = objs \cup {xmlhttp'}
    /\ readyState' = [readyState EXCEPT ![xmlhttp'] = 1]
    /\ overlapped' = overlapped \cup InFlight
    /\ UNCHANGED <<answer, calls, overlay>>

\* The event of open() finds the new object in readyState 1 and does nothing.
AjaxJson ==
    /\ xmlhttp < MaxRequests
    /\ xmlhttp' = xmlhttp + 1
    /\ objs' = objs \cup {xmlhttp'}
    /\ readyState' = [readyState EXCEPT ![xmlhttp'] = 1]
    /\ overlay' = TRUE
    /\ overlapped' = overlapped \cup InFlight
    /\ UNCHANGED <<answer, calls>>

\* open() throws on a malformed URL: the field holds an object that is never sent.
AjaxJsonThrows ==
    /\ xmlhttp < MaxRequests
    /\ xmlhttp' = xmlhttp + 1
    /\ objs' = objs \cup {xmlhttp'}
    /\ overlapped' = overlapped \cup InFlight
    /\ UNCHANGED <<readyState, answer, overlay, calls>>

\* Mutant: the handler of request i keeps its own object instead of using the field.
Seen_Own(i) == i

\* The object the handler of request i looks at: the one in the field.
Seen(i) == xmlhttp

\* The handler's test, after the event has changed the object it is about.
Answered(i) == readyState'[Seen(i)] = 4 /\ answer'[Seen(i)] \in Answers

\* Mutant: the overlay stays.
Handler_OverlayStays(i) ==
    IF Answered(i)
    THEN /\ objs' = objs \ {i}
         /\ calls' = IF i \in objs THEN calls \cup {[to |-> i, of |-> Seen(i)]} ELSE calls
         /\ UNCHANGED overlay
    ELSE UNCHANGED <<overlay, objs, calls>>

\* onreadystatechange of request i, and JsonAjaxClient.intercept.  objs.pop() on an
\* array that is empty by now yields undefined, calling it a TypeError.
Handler(i) ==
    IF Answered(i)
    THEN /\ overlay' = FALSE
         /\ objs' = objs \ {i}
         /\ calls' = IF i \in objs THEN calls \cup {[to |-> i, of |-> Seen(i)]} ELSE calls
    ELSE UNCHANGED <<overlay, objs, calls>>

-----------------------------------------------------------------------------
(* The browser: readystatechange events of request i's object              *)

XhrGoes(i, from, to) ==
    /\ readyState[i] \in from
    /\ readyState' = [readyState EXCEPT ![i] = to]
    /\ UNCHANGED <<xmlhttp, overlapped>>

XhrHeaders(i) == XhrGoes(i, {1}, 2) /\ UNCHANGED answer /\ Handler(i)

\* Once per chunk of the body.
XhrLoading(i) == XhrGoes(i, {2, 3}, 3) /\ UNCHANGED answer /\ Handler(i)

XhrDone(i) ==
    /\ XhrGoes(i, {2, 3}, 4)
    /\ \E a \in Answers \cup {Failed} : answer' = [answer EXCEPT ![i] = a]
    /\ Handler(i)

\* The network fails: done, with status 0.
XhrFails(i) ==
    /\ XhrGoes(i, 1..3, 4)
    /\ answer' = [answer EXCEPT ![i] = Failed]
    /\ Handler(i)

XhrEvent(i) == XhrHeaders(i) \/ XhrLoading(i) \/ XhrDone(i) \/ XhrFails(i)

AjaxNext == AjaxJson \/ AjaxJsonThrows \/ \E i \in Requests : XhrEvent(i)

AjaxSpec == AjaxInit /\ [][AjaxNext]_ajaxVars

-----------------------------------------------------------------------------
(* Properties                                                              *)

AjaxTypeOK ==
    /\ xmlhttp \in Requests \cup {NoRequest}
    /\ readyState \in [Requests -> 0..4]
    /\ answer \in [Requests -> Answers \cup {NoAnswer, Failed}]
    /\ objs \subseteq Requests /\ overlay \in BOOLEAN
    /\ overlapped \subseteq Requests
    /\ calls \subseteq [to : Requests, of : Requests]

\* Whatever overlaps, a callback never gets the response to an older request, it gets
\* its own exactly when no later request was made while it was in flight, and at most
\* one response at all (ajaxClient.ts 19-29, the array of jsonAjaxClient.ts 40).
AnswersMixOnlyByOverlap ==
    /\ \A c \in calls : c.of >= c.to /\ (c.of = c.to <=> c.to \notin overlapped)
    /\ \A c, d \in calls : c.to = d.to => c = d

\* The overlay is displayed as long as the latest request is in flight, even when the
\* events of older ones arrive meanwhile (ajaxClient.ts 23-26).
OverlayWhileWaiting == xmlhttp \in InFlight => overlay

\* It does not stay: it goes away unless the latest request could not be sent or was
\* answered with another status than 200, which no code handles.
OverlayGoes ==
    []<>(~overlay \/ readyState[xmlhttp] = 0 \/ answer[xmlhttp] = Failed)
=============================================================================
