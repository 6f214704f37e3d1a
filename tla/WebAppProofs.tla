----------------------------- MODULE WebAppProofs -----------------------------
(***************************************************************************)
(* The web application for every number of requests, panels and URLs.      *)
(* First AjaxClient on its own; then that WebApp only uses it as           *)
(* AjaxClient allows, which carries the result over; then the page.        *)
(***************************************************************************)
EXTENDS WebApp, FiniteSetTheorems, WellFoundedInduction, TLAPS

-----------------------------------------------------------------------------
(* AjaxClient                                                              *)

\* Requests are made in the order of their numbers; all but the latest were overlapped
\* unless they completed first; a callback that has run has left its array.
AjaxInv ==
    /\ AjaxTypeOK
    /\ OverlayWhileWaiting
    /\ \A i \in Requests : i > xmlhttp =>
         readyState[i] = 0 /\ i \notin objs /\ i \notin overlapped
    /\ \A i \in Requests : i \in InFlight /\ i # xmlhttp => i \in overlapped
    /\ xmlhttp \notin overlapped
    /\ \A c \in calls : c.to \notin objs /\ c.to <= xmlhttp
    /\ \A c \in calls : c.of = c.to => readyState[c.to] = 4
    /\ AnswersMixOnlyByOverlap

LEMMA AjaxInitially == AjaxInit => AjaxInv
  <1> SUFFICES ASSUME AjaxInit PROVE AjaxInv
    OBVIOUS
  <1>1. AjaxTypeOK
    <2>1. overlay \in BOOLEAN
      BY Zenon DEF AjaxInit
    <2>2. readyState \in [Requests -> 0..4]
      BY DEF AjaxInit
    <2> QED
      BY <2>1, <2>2 DEF AjaxInit, AjaxTypeOK
  <1>2. InFlight = {} /\ overlapped = {} /\ calls = {}
        /\ \A i \in Requests : readyState[i] = 0 /\ i \notin objs
    BY DEF AjaxInit, InFlight
  <1> QED
    BY <1>1, <1>2 DEF AjaxInv, OverlayWhileWaiting, AnswersMixOnlyByOverlap

\* A request, sent or refused, is newer than all others and overlaps those in flight.
LEMMA AjaxAsk ==
    ASSUME AjaxInv, AjaxJson \/ AjaxJsonThrows
    PROVE  AjaxInv'
  <1> DEFINE n == xmlhttp + 1
  <1>1. /\ xmlhttp < MaxRequests /\ xmlhttp' = n /\ objs' = objs \cup {n}
        /\ overlapped' = overlapped \cup InFlight /\ UNCHANGED <<answer, calls>>
    BY DEF AjaxJson, AjaxJsonThrows
  <1>2. \/ readyState' = [readyState EXCEPT ![n] = 1] /\ overlay' = TRUE
        \/ UNCHANGED <<readyState, overlay>>
    BY DEF AjaxJson, AjaxJsonThrows
  <1>3. n \in Requests /\ n > xmlhttp /\ xmlhttp \in Nat /\ MaxRequests \in Nat
        /\ readyState[n] = 0
    BY <1>1, AjaxAssumption DEF AjaxInv, AjaxTypeOK, Requests, NoRequest
  <1>4. AjaxTypeOK'
    <2>1. readyState' \in [Requests -> 0..4]
      BY <1>2 DEF AjaxInv, AjaxTypeOK
    <2>2. overlay' \in BOOLEAN
      BY <1>2, Zenon DEF AjaxInv, AjaxTypeOK
    <2> QED
      BY <1>1, <1>3, <2>1, <2>2 DEF AjaxInv, AjaxTypeOK, InFlight
  <1>5. InFlight' \subseteq InFlight \cup {n} /\ n \notin InFlight
        /\ (n \in InFlight' => overlay')
    <2>1. \A i \in Requests \ {n} : readyState'[i] = readyState[i]
      BY <1>2 DEF AjaxInv, AjaxTypeOK
    <2>2. n \notin InFlight
      BY <1>3 DEF InFlight
    <2>3. (readyState'[n] = 1 /\ overlay') \/ readyState'[n] = 0
      BY <1>2, <1>3 DEF AjaxInv, AjaxTypeOK
    <2> QED
      BY <2>1, <2>2, <2>3 DEF InFlight
  <1>6. OverlayWhileWaiting'
    BY <1>1, <1>5 DEF OverlayWhileWaiting
  <1>7. \A i \in Requests : i > n => readyState'[i] = 0 /\ i \notin objs' /\ i \notin overlapped'
    BY <1>1, <1>2, <1>3 DEF AjaxInv, AjaxTypeOK, InFlight, Requests
  <1>8. /\ \A i \in Requests : i \in InFlight' /\ i # n => i \in overlapped'
        /\ n \notin overlapped'
    BY <1>1, <1>3, <1>5 DEF AjaxInv, AjaxTypeOK
  <1>9. \A c \in calls : /\ c.to \notin objs' /\ c.to <= n
                         /\ c.of = c.to => readyState'[c.to] = 4
                         /\ c.to \in Requests /\ c.of \in Requests
    BY <1>1, <1>2, <1>3 DEF AjaxInv, AjaxTypeOK, Requests
  <1>10. AnswersMixOnlyByOverlap'
    <2>1. \A c \in calls : c.of = c.to => c.to \notin InFlight
      BY DEF AjaxInv, InFlight
    <2> QED
      BY <1>1, <1>9, <2>1 DEF AjaxInv, AnswersMixOnlyByOverlap
  <1> QED
    BY <1>1, <1>4, <1>6, <1>7, <1>8, <1>9, <1>10 DEF AjaxInv

\* An event of a request in flight: either it calls back, once, with the response in the
\* field, which is its own or a newer one, or it changes nothing but the object.
LEMMA AjaxEvent ==
    ASSUME AjaxInv, NEW i \in Requests, XhrEvent(i)
    PROVE  AjaxInv'
  <1>1. PICK to \in 2..4 :
          /\ readyState[i] \in 1..3
          /\ readyState' = [readyState EXCEPT ![i] = to]
          /\ UNCHANGED <<xmlhttp, overlapped>>
    BY DEF XhrEvent, XhrHeaders, XhrLoading, XhrDone, XhrFails, XhrGoes
  <1>2. answer' \in [Requests -> Answers \cup {NoAnswer, Failed}]
    BY DEF XhrEvent, XhrHeaders, XhrLoading, XhrDone, XhrFails, AjaxInv, AjaxTypeOK
  <1>3. Handler(i)
    BY DEF XhrEvent, XhrHeaders, XhrLoading, XhrDone, XhrFails
  <1>4. /\ xmlhttp \in Requests /\ i <= xmlhttp /\ i \in InFlight
        /\ (i # xmlhttp => i \in overlapped)
    BY <1>1, AjaxAssumption DEF AjaxInv, AjaxTypeOK, Requests, NoRequest, InFlight
  <1>5. \/ /\ overlay' = FALSE /\ objs' = objs \ {i} /\ readyState'[xmlhttp] = 4
           /\ calls' = IF i \in objs THEN calls \cup {[to |-> i, of |-> xmlhttp]} ELSE calls
        \/ UNCHANGED <<overlay, objs, calls>>
    BY <1>1, <1>3 DEF Handler, Answered, Seen
  <1>6. AjaxTypeOK'
    <2>1. readyState' \in [Requests -> 0..4]
      BY <1>1 DEF AjaxInv, AjaxTypeOK
    <2>2. overlay' \in BOOLEAN
      BY <1>5, Zenon DEF AjaxInv, AjaxTypeOK
    <2>3. objs' \subseteq Requests
          /\ calls' \subseteq [to : Requests, of : Requests]
      BY <1>4, <1>5 DEF AjaxInv, AjaxTypeOK
    <2> QED
      BY <1>1, <1>2, <2>1, <2>2, <2>3 DEF AjaxInv, AjaxTypeOK
  <1>7. InFlight' \subseteq InFlight /\ (xmlhttp \in InFlight' => readyState'[xmlhttp] # 4)
    BY <1>1, <1>4 DEF InFlight, AjaxInv, AjaxTypeOK
  <1>8. OverlayWhileWaiting'
    BY <1>1, <1>5, <1>7 DEF OverlayWhileWaiting, AjaxInv
  <1>9. /\ \A j \in Requests : j > xmlhttp' =>
             readyState'[j] = 0 /\ j \notin objs' /\ j \notin overlapped'
        /\ \A j \in Requests : j \in InFlight' /\ j # xmlhttp' => j \in overlapped'
        /\ xmlhttp' \notin overlapped'
    BY <1>1, <1>4, <1>5, <1>7 DEF AjaxInv, AjaxTypeOK, Requests
  <1>10. \A c \in calls : c.of = c.to => c.to # i /\ readyState'[c.to] = 4
    BY <1>1, <1>4 DEF AjaxInv, AjaxTypeOK, InFlight
  <1>11. \A c \in calls' : /\ c.to \notin objs' /\ c.to <= xmlhttp'
                           /\ c.of = c.to => readyState'[c.to] = 4
    BY <1>1, <1>4, <1>5, <1>10 DEF AjaxInv
  <1>12. AnswersMixOnlyByOverlap'
    <2>1. CASE UNCHANGED calls
      BY <1>1, <2>1 DEF AnswersMixOnlyByOverlap, AjaxInv
    <2>2. CASE i \in objs /\ calls' = calls \cup {[to |-> i, of |-> xmlhttp]}
      <3> DEFINE new == [to |-> i, of |-> xmlhttp]
      <3>1. /\ new.of >= new.to /\ (new.of = new.to <=> new.to \notin overlapped)
        BY <1>4 DEF AjaxInv, Requests
      <3>2. \A c \in calls : c.to # new.to
        BY <2>2 DEF AjaxInv
      <3> QED
        BY <1>1, <2>2, <3>1, <3>2 DEF AnswersMixOnlyByOverlap, AjaxInv
    <2> QED
      BY <1>5, <2>1, <2>2
  <1> QED
    BY <1>6, <1>8, <1>9, <1>11, <1>12 DEF AjaxInv

LEMMA AjaxStep ==
    ASSUME AjaxInv, [AjaxNext]_ajaxVars
    PROVE  AjaxInv'
  <1>1. CASE AjaxJson \/ AjaxJsonThrows
    BY <1>1, AjaxAsk
  <1>2. CASE \E i \in Requests : XhrEvent(i)
    BY <1>2, AjaxEvent
  <1>3. CASE UNCHANGED ajaxVars
    BY <1>3 DEF AjaxInv, ajaxVars, AjaxTypeOK, OverlayWhileWaiting, InFlight,
       AnswersMixOnlyByOverlap
  <1> QED
    BY <1>1, <1>2, <1>3 DEF AjaxNext

\* AjaxClient keeps its invariant, whoever uses it and however requests overlap.
THEOREM AjaxInvariance == AjaxSpec => []AjaxInv
  <1>1. AjaxInv /\ [AjaxNext]_ajaxVars => AjaxInv'
    BY AjaxStep
  <1> QED
    BY <1>1, AjaxInitially, PTL DEF AjaxSpec

-----------------------------------------------------------------------------
(* WebApp uses AjaxClient as specified                                     *)

LEMMA StepOfAjaxClient ==
    ASSUME [Next]_vars
    PROVE  [AjaxNext]_ajaxVars
  <1>1. CASE ClickConnect \/ ClickTable \/ \E p \in ui.page : ClickExecute(p)
    BY <1>1 DEF ClickConnect, ClickTable, ClickExecute, Ask, AjaxNext
  <1>2. CASE \E p \in ui.page : ClickClose(p) \/ ClickHide(p) \/ ClickRow(p) \/ ClickHeading(p)
    BY <1>2 DEF ClickClose, ClickHide, ClickRow, ClickHeading, OnPage
  <1>3. CASE ClickCancel \/ ClickUpdate \/ MenuSchema \/ MenuNewSql
             \/ \E t \in PanelTypes : MenuShow(t)
    BY <1>3 DEF ClickCancel, ClickUpdate, MenuSchema, MenuNewSql, MenuShow, OnPage
  <1>4. CASE \E i \in Requests : Event(i)
    BY <1>4 DEF Event, AjaxNext
  <1>5. CASE UNCHANGED vars
    BY <1>5 DEF vars
  <1> QED
    BY <1>1, <1>2, <1>3, <1>4, <1>5 DEF Next, Click

\* Every click and every event of the application is a step of AjaxClient or changes
\* none of its variables: the application implements AjaxSpec.
THEOREM ImplementsAjaxClient == Spec => AjaxSpec
  <1>1. Init => AjaxInit
    BY DEF Init
  <1>2. [Next]_vars => [AjaxNext]_ajaxVars
    BY StepOfAjaxClient
  <1> QED
    BY <1>1, <1>2, PTL DEF Spec, AjaxSpec

\* Answers are mixed up only when requests overlap, and never with older ones.
THEOREM AnswersOfWebApp == Spec => []AnswersMixOnlyByOverlap
  <1>1. AjaxInv => AnswersMixOnlyByOverlap
    BY DEF AjaxInv
  <1> QED
    BY <1>1, AjaxInvariance, ImplementsAjaxClient, PTL

\* The overlay covers the page while the latest request is in flight.
THEOREM OverlayOfWebApp == Spec => []OverlayWhileWaiting
  <1>1. AjaxInv => OverlayWhileWaiting
    BY DEF AjaxInv
  <1> QED
    BY <1>1, AjaxInvariance, ImplementsAjaxClient, PTL

-----------------------------------------------------------------------------
(* The page: every operation of Panels keeps list and page together        *)

IsFirst(u, p) == p \in u.page /\ \A q \in u.page : u.type[q] = u.type[p] => p <= q

\* The list is the page; only first panels of a type have handlers or are hidden.
Good(u) ==
    /\ u \in Pages
    /\ u.list = u.page /\ u.shown \subseteq u.page /\ u.wired \subseteq u.page
    /\ \A p \in u.page : p <= u.created /\ u.type[p] \in PanelTypes
    /\ \A p \in u.wired \cup (u.page \ u.shown) : IsFirst(u, p)

\* What the page looks like to those who search it.
Same(u, v) == v.created = u.created /\ v.page = u.page /\ v.type = u.type

LEMMA FirstOfIs ==
    ASSUME NEW u, NEW S \in SUBSET PanelIds, NEW t
    PROVE  /\ OfType(u, S, t) = {} => FirstOf(u, S, t) = NoPanel
           /\ OfType(u, S, t) # {} =>
                /\ FirstOf(u, S, t) \in OfType(u, S, t)
                /\ \A q \in OfType(u, S, t) : FirstOf(u, S, t) <= q
           /\ FirstOf(u, S, t) \in PanelIds \cup {NoPanel}
           /\ FirstOf(u, S, t) = NoPanel <=> OfType(u, S, t) = {}
  <1> DEFINE T == OfType(u, S, t)
  <1>1. T \subseteq PanelIds /\ PanelIds \subseteq Nat \ {0}
    <2>1. T \subseteq S
      BY DEF OfType
    <2>2. PanelIds \subseteq Nat \ {0}
      BY PanelsAssumption DEF PanelIds
    <2> QED
      BY <2>1, <2>2
  <1>2. CASE T = {}
    BY <1>1, <1>2 DEF FirstOf, NoPanel
  <1>3. CASE T # {}
    <2>1. PICK p \in T : \A q \in T : ~ (<<q, p>> \in OpToRel(<, Nat))
      <3>1. T \subseteq Nat
        BY <1>1
      <3> QED
        BY <1>3, <3>1, WFMin, NatLessThanWellFounded
    <2>2. \A q \in T : ~ (q < p)
      <3>1. \A q \in T : <<q, p>> \in Nat \X Nat
        BY <1>1
      <3> QED
        BY <2>1, <3>1, Zenon DEF OpToRel
    <2>3. \A q \in T : q \in Nat
      BY <1>1
    <2>4. \A q \in T : p <= q
      BY <2>2, <2>3
    <2>5. FirstOf(u, S, t) = CHOOSE x \in T : \A y \in T : x <= y
      BY <1>3 DEF FirstOf
    <2>6. FirstOf(u, S, t) \in T /\ \A q \in T : FirstOf(u, S, t) <= q
      BY <2>1, <2>4, <2>5
    <2> QED
      BY <1>1, <1>3, <2>6 DEF NoPanel
  <1> QED
    BY <1>2, <1>3

\* The panel a search finds is the first of its type.
LEMMA GetPanelIs ==
    ASSUME NEW u, Good(u), NEW t
    PROVE  /\ GetPanel(u, t) = FirstOf(u, u.page, t)
           /\ GetPanel(u, t) # NoPanel => IsFirst(u, GetPanel(u, t)) /\ u.type[GetPanel(u, t)] = t
           /\ \A p : IsFirst(u, p) /\ u.type[p] = t => GetPanel(u, t) = p
           /\ GetPanel(u, t) = NoPanel <=> OfType(u, u.page, t) = {}
           /\ GetPanel(u, t) \in PanelIds \cup {NoPanel}
  <1>1. u.list = u.page /\ u.page \in SUBSET PanelIds
    BY DEF Good, Pages
  <1>2. GetPanel(u, t) = FirstOf(u, u.page, t)
    BY <1>1 DEF GetPanel
  <1> DEFINE g == GetPanel(u, t)
  <1>3. /\ g = NoPanel <=> OfType(u, u.page, t) = {}
        /\ g # NoPanel => g \in OfType(u, u.page, t) /\ \A q \in OfType(u, u.page, t) : g <= q
        /\ g \in PanelIds \cup {NoPanel}
    BY <1>1, <1>2, FirstOfIs
  <1>4. ASSUME NEW p, IsFirst(u, p), u.type[p] = t PROVE g = p
    <2>1. p \in OfType(u, u.page, t)
      BY <1>4 DEF IsFirst, OfType
    <2>2. p <= g /\ g <= p /\ p \in Nat /\ g \in Nat
      BY <1>1, <1>3, <1>4, <2>1, PanelsAssumption DEF IsFirst, OfType, PanelIds
    <2> QED
      BY <2>2
  <1> QED
    BY <1>2, <1>3, <1>4 DEF IsFirst, OfType

LEMMA ShowIs ==
    ASSUME NEW u, Good(u), NEW p, p \in u.page
    PROVE  Good(Show(u, p)) /\ Same(u, Show(u, p))
  BY DEF Good, Pages, Show, Same, IsFirst

\* Only the first panel of a type can be hidden, or none.
LEMMA HideIs ==
    ASSUME NEW u, Good(u), NEW p, p = NoPanel \/ IsFirst(u, p)
    PROVE  Good(Hide(u, p)) /\ Same(u, Hide(u, p))
  <1> DEFINE v == Hide(u, p)
  <1>1. /\ v.list = u.list /\ v.shown = u.shown \ {p} /\ v.wired = u.wired
        /\ Same(u, v) /\ v \in Pages
    BY DEF Good, Pages, Hide, Same
  <1>2. \A q : IsFirst(u, q) => IsFirst(v, q)
    BY <1>1 DEF IsFirst, Same
  <1>3. p \in u.page => IsFirst(u, p)
    BY PanelsAssumption DEF Good, Pages, PanelIds, NoPanel
  <1> QED
    BY <1>1, <1>2, <1>3 DEF Good, Same

\* A new panel stands last, so no panel loses its place, and is shown.
LEMMA OpenedIs ==
    ASSUME NEW u, Good(u), NEW t \in PanelTypes, u.created < MaxPanels
    PROVE  LET v == Opened(u, t) IN
           /\ Good(v) /\ v.created = u.created + 1 /\ v.created \notin u.page
           /\ v.page = u.page \cup {v.created} /\ v.type = [u.type EXCEPT ![v.created] = t]
  <1> DEFINE n == u.created + 1
             w == [u EXCEPT !.created = n, !.type[n] = t, !.page = @ \cup {n}]
             first == FirstOf(w, w.page, t)
             v == Opened(u, t)
  <1>1. /\ n \in PanelIds /\ PanelIds \subseteq Nat /\ n \in 0..MaxPanels
        /\ \A p \in u.page : p < n /\ p \in PanelIds
        /\ u.type \in [PanelIds -> PanelTypes \cup {"none"}] /\ u.page \subseteq PanelIds
    BY PanelsAssumption DEF Good, Pages, PanelIds
  <1>2. /\ w.page = u.page \cup {n} /\ w.type = [u.type EXCEPT ![n] = t]
        /\ w.type[n] = t /\ \A p \in u.page : w.type[p] = u.type[p]
    BY <1>1 DEF Good, Pages
  <1>3. first \in w.page /\ w.type[first] = t
        /\ \A q \in w.page : w.type[q] = t => first <= q
    <2>1. n \in OfType(w, w.page, t) /\ w.page \in SUBSET PanelIds
      BY <1>1, <1>2 DEF OfType
    <2>2. first \in OfType(w, w.page, t) /\ \A q \in OfType(w, w.page, t) : first <= q
      BY <2>1, FirstOfIs
    <2> QED
      BY <2>2 DEF OfType
  <1>4. /\ v.created = n /\ v.page = w.page /\ v.type = w.type
        /\ v.list = u.list \cup {n} /\ v.shown = u.shown \cup {n}
        /\ v.wired = u.wired \cup {first}
    BY DEF Opened, NewPanel, Show, Good, Pages
  <1>5. v \in Pages
    <2>1. first \in PanelIds
      BY <1>1, <1>2, <1>3
    <2>2. w \in Pages
      BY <1>1 DEF Good, Pages
    <2>3. v = Show([w EXCEPT !.list = @ \cup {n}, !.wired = @ \cup {first},
                             !.titled = @ \cup {first}], n)
      BY <1>4 DEF Opened, NewPanel
    <2>4. ASSUME NEW x \in Pages
          PROVE  Show([x EXCEPT !.list = @ \cup {n}, !.wired = @ \cup {first},
                                !.titled = @ \cup {first}], n) \in Pages
      BY <1>1, <2>1 DEF Pages, Show
    <2> QED
      BY <2>2, <2>3, <2>4
  <1>6. \A p : IsFirst(u, p) => IsFirst(v, p)
    BY <1>1, <1>2, <1>4 DEF IsFirst
  <1>7. IsFirst(v, first)
    BY <1>2, <1>3, <1>4 DEF IsFirst
  <1>8. \A p \in v.page : p <= v.created /\ v.type[p] \in PanelTypes
    BY <1>1, <1>2, <1>4 DEF Good
  <1>9. Good(v)
    BY <1>2, <1>3, <1>4, <1>5, <1>6, <1>7, <1>8 DEF Good
  <1> QED
    BY <1>1, <1>2, <1>4, <1>9

\* Removing the first panel of a type from the page, and the first of that type from
\* the list, removes the same panel.
LEMMA ClosePanelIs ==
    ASSUME NEW u, Good(u), NEW p, IsFirst(u, p)
    PROVE  LET v == ClosePanel(u, p) IN
           /\ Good(v) /\ v.page = u.page \ {p}
           /\ v.created = u.created /\ v.type = u.type
  <1> DEFINE w == RemoveDiv(u, p)
             v == ClosePanel(u, p)
  <1>1. /\ w.list = u.list /\ w.type = u.type /\ w.created = u.created
        /\ w.page = u.page \ {p} /\ w.shown = u.shown \ {p} /\ w.wired = u.wired \ {p}
        /\ w \in Pages
    BY DEF RemoveDiv, Good, Pages
  <1>2. GetPanel(w, u.type[p]) = p
    <2>1. GetPanel(w, u.type[p]) = GetPanel(u, u.type[p])
      BY <1>1 DEF GetPanel, FirstOf, OfType
    <2> QED
      BY <2>1, GetPanelIs
  <1>3. /\ v.list = u.page \ {p} /\ v.type = u.type /\ v.created = u.created
        /\ v.page = u.page \ {p} /\ v.shown = u.shown \ {p} /\ v.wired = u.wired \ {p}
        /\ v \in Pages
    BY <1>1, <1>2 DEF ClosePanel, RemovePanel, Good, Pages
  <1>4. \A q : IsFirst(u, q) /\ q # p => IsFirst(v, q)
    BY <1>3 DEF IsFirst
  <1> QED
    BY <1>3, <1>4 DEF Good

LEMMA RemovePanelAndDivIs ==
    ASSUME NEW u, Good(u), NEW t
    PROVE  LET v == RemovePanelAndDiv(u, t) IN
           /\ Good(v) /\ v.page = u.page \ {GetPanel(u, t)}
           /\ v.created = u.created /\ v.type = u.type
  <1> DEFINE g == GetPanel(u, t)
  <1>1. CASE g = NoPanel
    <2>1. NoPanel \notin u.page
      BY PanelsAssumption DEF Good, Pages, PanelIds, NoPanel
    <2> QED
      BY <1>1, <2>1 DEF RemovePanelAndDiv
  <1>2. CASE g # NoPanel
    <2>1. IsFirst(u, g) /\ u.type[g] = t
      BY <1>2, GetPanelIs
    <2>2. RemovePanelAndDiv(u, t) = ClosePanel(u, g)
      BY <1>2, <2>1 DEF RemovePanelAndDiv, ClosePanel
    <2> QED
      BY <2>1, <2>2, ClosePanelIs
  <1> QED
    BY <1>1, <1>2

LEMMA SetHeadingIs ==
    ASSUME NEW u, Good(u), NEW t, GetPanel(u, t) # NoPanel
    PROVE  Good(SetHeading(u, t)) /\ Same(u, SetHeading(u, t))
  <1>1. FirstOf(u, u.page, t) \in PanelIds
    BY GetPanelIs
  <1> QED
    BY <1>1 DEF Good, Pages, SetHeading, Same, IsFirst

LEMMA WithRowsIs ==
    ASSUME NEW u, Good(u), NEW p \in u.page, NEW a
    PROVE  Good(WithRows(u, p, a)) /\ Same(u, WithRows(u, p, a))
  BY DEF Good, Pages, WithRows, Same, IsFirst

-----------------------------------------------------------------------------
(* Connection and schema panel                                             *)

Schemas(u) == OfType(u, u.page, "Schema")

PageInv(u) ==
    /\ Good(u)
    /\ OfType(u, u.page, "Connect") = {1}
    /\ \A p, q \in Schemas(u) : p = q

LEMMA SamePage ==
    ASSUME NEW u, PageInv(u), NEW v, Good(v), Same(u, v)
    PROVE  PageInv(v) /\ Schemas(v) = Schemas(u)
  BY DEF PageInv, Schemas, OfType, Same

LEMMA OpenedPage ==
    ASSUME NEW u, PageInv(u), NEW t \in Closeable, u.created < MaxPanels
    PROVE  LET v == Opened(u, t) IN
           PageInv(v) /\ Schemas(v) = Schemas(u) /\ v.created = u.created + 1
           /\ v.created \in v.page
  <1> DEFINE v == Opened(u, t)
  <1>1. /\ Good(v) /\ v.created = u.created + 1 /\ v.created \notin u.page
        /\ v.page = u.page \cup {v.created} /\ v.type = [u.type EXCEPT ![v.created] = t]
    BY OpenedIs DEF PageInv, Closeable, PanelTypes
  <1>2. v.created \in PanelIds /\ u.page \subseteq PanelIds
        /\ u.type \in [PanelIds -> PanelTypes \cup {"none"}]
    BY <1>1 DEF PageInv, Good, Pages
  <1>3. \A s \in {"Connect", "Schema"} : OfType(v, v.page, s) = OfType(u, u.page, s)
    BY <1>1, <1>2 DEF OfType, Closeable
  <1> QED
    BY <1>1, <1>3 DEF PageInv, Schemas

LEMMA ClosedPage ==
    ASSUME NEW u, PageInv(u), NEW p, IsFirst(u, p), u.type[p] \in Closeable
    PROVE  LET v == ClosePanel(u, p) IN
           PageInv(v) /\ Schemas(v) = Schemas(u) /\ v.created = u.created
  <1> DEFINE v == ClosePanel(u, p)
  <1>1. Good(v) /\ v.page = u.page \ {p} /\ v.created = u.created /\ v.type = u.type
    BY ClosePanelIs DEF PageInv
  <1>2. \A s \in {"Connect", "Schema"} : OfType(v, v.page, s) = OfType(u, u.page, s)
    BY <1>1 DEF OfType, Closeable
  <1> QED
    BY <1>1, <1>2 DEF PageInv, Schemas

LEMMA SchemaShownPage ==
    ASSUME NEW u, PageInv(u), u.created < MaxPanels \/ GetPanel(u, "Schema") # NoPanel
    PROVE  LET v == SchemaShown(u) IN
           /\ PageInv(v) /\ Schemas(v) # {} /\ (Schemas(u) # {} => Schemas(v) = Schemas(u))
           /\ v.created <= u.created + 1
           /\ (GetPanel(u, "Schema") # NoPanel => v.created = u.created)
  <1> DEFINE g == GetPanel(u, "Schema")
             v == SchemaShown(u)
  <1>1. g = NoPanel <=> Schemas(u) = {}
    BY GetPanelIs DEF PageInv, Schemas
  <1>2. u.created \in Nat
    BY DEF PageInv, Good, Pages
  <1>3. CASE g # NoPanel
    <2>1. v = Show(u, g) /\ g \in u.page
      BY <1>3, GetPanelIs DEF SchemaShown, PageInv, IsFirst
    <2>2. Good(v) /\ Same(u, v)
      BY <2>1, ShowIs DEF PageInv
    <2>3. PageInv(v) /\ Schemas(v) = Schemas(u)
      BY <2>2, SamePage
    <2> QED
      BY <1>1, <1>2, <1>3, <2>2, <2>3 DEF Same
  <1>4. CASE g = NoPanel
    <2>1. /\ Good(v) /\ v.created = u.created + 1 /\ v.created \notin u.page
          /\ v.page = u.page \cup {v.created}
          /\ v.type = [u.type EXCEPT ![v.created] = "Schema"]
      BY <1>4, OpenedIs DEF SchemaShown, PageInv, PanelTypes
    <2>2. v.created \in PanelIds /\ u.page \subseteq PanelIds
          /\ u.type \in [PanelIds -> PanelTypes \cup {"none"}]
      BY <2>1 DEF PageInv, Good, Pages
    <2>3. OfType(v, v.page, "Connect") = OfType(u, u.page, "Connect")
      BY <2>1, <2>2 DEF OfType
    <2>4. Schemas(v) = Schemas(u) \cup {v.created}
      BY <2>1, <2>2 DEF OfType, Schemas
    <2> QED
      BY <1>1, <1>2, <1>4, <2>1, <2>3, <2>4 DEF PageInv
  <1> QED
    BY <1>3, <1>4

\* The old schema panel is removed, the connection panel hidden.
LEMMA ReconnectedPage ==
    ASSUME NEW u, PageInv(u)
    PROVE  LET v == RemovePanelAndDiv(u, "Schema")
               w == Hide(v, GetPanel(v, "Connect"))
           IN  /\ PageInv(v) /\ Schemas(v) = {} /\ v.created = u.created
               /\ GetPanel(v, "Schema") = NoPanel
               /\ PageInv(w) /\ Schemas(w) = {} /\ w.created = u.created
               /\ GetPanel(w, "Schema") = NoPanel
  <1> DEFINE v == RemovePanelAndDiv(u, "Schema")
             w == Hide(v, GetPanel(v, "Connect"))
             g == GetPanel(u, "Schema")
  <1>1. Good(v) /\ v.page = u.page \ {g} /\ v.created = u.created /\ v.type = u.type
    BY RemovePanelAndDivIs DEF PageInv
  <1>2. /\ g # NoPanel => g \in Schemas(u)
        /\ g = NoPanel <=> Schemas(u) = {}
    BY GetPanelIs DEF PageInv, Schemas, IsFirst, OfType
  <1>3. Schemas(v) = {}
    BY <1>1, <1>2 DEF PageInv, Schemas, OfType
  <1>4. OfType(v, v.page, "Connect") = OfType(u, u.page, "Connect")
    <2>1. g \in u.page => u.type[g] = "Schema"
      BY <1>2, PanelsAssumption DEF Schemas, OfType, PageInv, Good, Pages, PanelIds, NoPanel
    <2> QED
      BY <1>1, <2>1 DEF OfType
  <1>5. PageInv(v)
    BY <1>1, <1>3, <1>4 DEF PageInv
  <1>6. Good(w) /\ Same(v, w)
    BY <1>1, GetPanelIs, HideIs
  <1>7. PageInv(w) /\ Schemas(w) = {}
    BY <1>3, <1>5, <1>6, SamePage
  <1>8. GetPanel(v, "Schema") = NoPanel /\ GetPanel(w, "Schema") = NoPanel
    BY <1>1, <1>3, <1>6, <1>7, GetPanelIs DEF Schemas
  <1> QED
    BY <1>1, <1>3, <1>5, <1>6, <1>7, <1>8 DEF Same

-----------------------------------------------------------------------------
(* The application                                                         *)

Awaited == objs \cap InFlight

\* Besides the page: there is room for a panel per callback; the latest request was
\* made to the URL in use, and no schema panel was filled by a later one.
WebInv ==
    /\ PageInv(ui)
    /\ ui.created + Cardinality(Awaited) <= MaxPanels
    /\ url \in Urls \cup {NoUrl} /\ status \in Statuses
    /\ schema \in [url : Urls \cup {NoUrl}, from : Requests \cup {NoRequest}]
    /\ asked \in [Requests -> [callback : Callbacks \cup {"none"}, url : Urls \cup {NoUrl}]]
    /\ dialog \in PanelTypes \cup {"none"}
    /\ schema.from <= xmlhttp
    /\ xmlhttp # NoRequest => asked[xmlhttp].url = url
    /\ (Schemas(ui) # {} /\ schema.from # NoRequest) =>
         /\ asked[schema.from].url = schema.url
         /\ schema.url = url \/ status = "Connecting..."
    /\ status = "OK" => Schemas(ui) # {} /\ schema.from # NoRequest
    /\ status = "FAILED" => Schemas(ui) = {} \/ schema.from = NoRequest

LEMMA AwaitedIs ==
    /\ IsFiniteSet(Awaited) /\ IsFiniteSet(Awaited')
    /\ Cardinality(Awaited) \in Nat /\ Cardinality(Awaited') \in Nat
    /\ Awaited' \subseteq Awaited => Cardinality(Awaited') <= Cardinality(Awaited)
    /\ \A i : Awaited' \subseteq Awaited \ {i} /\ i \in Awaited =>
         Cardinality(Awaited') + 1 <= Cardinality(Awaited)
    /\ \A n : Awaited' \subseteq Awaited \cup {n} =>
         Cardinality(Awaited') <= Cardinality(Awaited) + 1
  <1>1. IsFiniteSet(Requests)
    BY AjaxAssumption, FS_Interval DEF Requests
  <1>2. Awaited \in SUBSET Requests /\ Awaited' \in SUBSET Requests
    BY DEF Awaited, InFlight
  <1>3. /\ IsFiniteSet(Awaited) /\ IsFiniteSet(Awaited')
        /\ Cardinality(Awaited) \in Nat /\ Cardinality(Awaited') \in Nat
    BY <1>1, <1>2, FS_Subset, FS_CardinalityType
  <1>4. Awaited' \subseteq Awaited => Cardinality(Awaited') <= Cardinality(Awaited)
    BY <1>3, FS_Subset
  <1>5. ASSUME NEW i, Awaited' \subseteq Awaited \ {i}, i \in Awaited
        PROVE  Cardinality(Awaited') + 1 <= Cardinality(Awaited)
    <2>1. IsFiniteSet(Awaited \ {i}) /\ Cardinality(Awaited \ {i}) = Cardinality(Awaited) - 1
      BY <1>3, <1>5, FS_RemoveElement
    <2>2. Cardinality(Awaited') <= Cardinality(Awaited \ {i})
      BY <1>5, <2>1, FS_Subset
    <2> QED
      BY <1>3, <2>1, <2>2
  <1>6. ASSUME NEW n, Awaited' \subseteq Awaited \cup {n}
        PROVE  Cardinality(Awaited') <= Cardinality(Awaited) + 1
    <2>1. IsFiniteSet(Awaited \cup {n})
          /\ Cardinality(Awaited \cup {n}) <= Cardinality(Awaited) + 1
      BY <1>3, FS_AddElement
    <2>2. Cardinality(Awaited') <= Cardinality(Awaited \cup {n})
      BY <1>6, <2>1, FS_Subset
    <2>3. Cardinality(Awaited \cup {n}) \in Nat
      BY <2>1, FS_CardinalityType
    <2> QED
      BY <1>3, <2>1, <2>2, <2>3
  <1> QED
    BY <1>3, <1>4, <1>5, <1>6

LEMMA WebInitially == Init => AjaxInv /\ WebInv
  <1> SUFFICES ASSUME Init PROVE WebInv
    BY AjaxInitially DEF Init
  <1> DEFINE v == NewPanel(BlankPage, "Connect")
             w == [BlankPage EXCEPT !.created = 1, !.type[1] = "Connect", !.page = @ \cup {1}]
  <1>1. 1 \in PanelIds /\ PanelIds \subseteq Nat /\ 1 \in 0..MaxPanels /\ MaxPanels \in Nat
    BY PanelsAssumption DEF PanelIds
  <1>2. /\ w.page = {1} /\ w.created = 1 /\ w.list = {} /\ w.wired = {}
        /\ w.type = [p \in PanelIds |-> IF p = 1 THEN "Connect" ELSE "none"]
        /\ w \in Pages
    <2>1. BlankPage \in Pages
      BY <1>1 DEF BlankPage, Pages, NoPanel
    <2>2. w \in Pages
      BY <1>1, <2>1 DEF Pages, PanelTypes
    <2> QED
      BY <1>1, <2>2 DEF BlankPage
  <1>3. FirstOf(w, w.page, "Connect") = 1
    <2>1. OfType(w, w.page, "Connect") = {1}
      BY <1>1, <1>2 DEF OfType
    <2> QED
      BY <1>1, <1>2, <2>1, FirstOfIs
  <1>4. /\ ui.page = {1} /\ ui.list = {1} /\ ui.shown = {1} /\ ui.wired = {1}
        /\ ui.created = 1 /\ ui.type = w.type /\ ui \in Pages
    <2>1. BlankPage.created + 1 = 1
      BY DEF BlankPage
    <2>2. ui = Show([w EXCEPT !.list = @ \cup {1}, !.wired = @ \cup {1},
                              !.titled = @ \cup {1}], 1)
      BY <1>3, <2>1 DEF Init, NewPanel
    <2>3. w.shown = {}
      BY <1>1 DEF BlankPage
    <2>4. ASSUME NEW x \in Pages
          PROVE  LET y == Show([x EXCEPT !.list = @ \cup {1}, !.wired = @ \cup {1},
                                         !.titled = @ \cup {1}], 1)
                 IN  /\ y \in Pages /\ y.page = x.page /\ y.list = x.list \cup {1}
                     /\ y.shown = x.shown \cup {1} /\ y.wired = x.wired \cup {1}
                     /\ y.created = x.created /\ y.type = x.type
      BY <1>1 DEF Show, Pages
    <2> QED
      BY <1>2, <2>2, <2>3, <2>4
  <1>5. PageInv(ui)
    BY <1>1, <1>2, <1>4 DEF PageInv, Good, IsFirst, OfType, Schemas, PanelTypes
  <1>6. Cardinality(Awaited) = 0
    <2>1. Awaited = {}
      BY DEF Awaited, Init, AjaxInit
    <2> QED
      BY <2>1, FS_EmptySet
  <1>7. Schemas(ui) = {}
    BY <1>1, <1>2, <1>4 DEF Schemas, OfType
  <1>8. /\ ui.created + Cardinality(Awaited) <= MaxPanels
        /\ schema.from = NoRequest /\ xmlhttp = NoRequest /\ status = "Not tried"
    <2>1. schema.from = NoRequest /\ xmlhttp = NoRequest /\ status = "Not tried"
      BY DEF Init, AjaxInit
    <2>2. ui.created + Cardinality(Awaited) = 1
      BY <1>4, <1>6
    <2>3. 1 <= MaxPanels
      BY PanelsAssumption
    <2>4. ui.created + Cardinality(Awaited) <= MaxPanels
      BY <2>2, <2>3
    <2> QED
      BY <2>1, <2>4
  <1>9. /\ schema \in [url : Urls \cup {NoUrl}, from : Requests \cup {NoRequest}]
        /\ asked \in [Requests -> [callback : Callbacks \cup {"none"}, url : Urls \cup {NoUrl}]]
        /\ url \in Urls \cup {NoUrl} /\ dialog \in PanelTypes \cup {"none"}
    BY DEF Init
  <1> QED
    <2>1. schema.from <= xmlhttp
      <3>1. schema.from = 0 /\ xmlhttp = 0
        BY <1>8 DEF NoRequest
      <3> QED
        BY <3>1
    <2>2. status \in Statuses
      BY <1>8 DEF Statuses
    <2>3. ~ (Schemas(ui) # {}) /\ status # "OK" /\ ~ (xmlhttp # NoRequest)
      BY <1>7, <1>8
    <2>4. ui.created + Cardinality(Awaited) <= MaxPanels
      BY <1>8
    <2> QED
      BY <1>5, <1>9, <1>7, <2>1, <2>2, <2>3, <2>4 DEF WebInv

\* A request is newer than whatever filled the schema panel.
LEMMA WebAsk ==
    ASSUME AjaxInv, WebInv, NEW callback \in Callbacks, Ask(callback),
           UNCHANGED <<ui, schema, dialog>>, url' \in Urls \cup {NoUrl},
           (url' = url /\ status' = status) \/ status' = "Connecting..."
    PROVE  WebInv'
  <1> DEFINE n == xmlhttp + 1
  <1>1. /\ xmlhttp' = n /\ n \in Requests /\ xmlhttp \in Nat /\ objs' = objs \cup {n}
        /\ readyState' = [readyState EXCEPT ![n] = 1] \/ readyState' = readyState
        /\ asked' = [asked EXCEPT ![n] = [callback |-> callback, url |-> url']]
        /\ readyState \in [Requests -> 0..4]
    <2>1. /\ xmlhttp \in Requests \cup {NoRequest} /\ readyState \in [Requests -> 0..4]
          /\ AjaxJson \/ AjaxJsonThrows
          /\ asked' = [asked EXCEPT ![xmlhttp'] = [callback |-> callback, url |-> url']]
      BY DEF Ask, AjaxInv, AjaxTypeOK
    <2>2. /\ xmlhttp < MaxRequests /\ xmlhttp' = n /\ objs' = objs \cup {n}
          /\ readyState' = [readyState EXCEPT ![n] = 1] \/ readyState' = readyState
      BY <2>1 DEF AjaxJson, AjaxJsonThrows
    <2>3. xmlhttp \in Nat /\ n \in Requests
      BY <2>1, <2>2, AjaxAssumption DEF Requests, NoRequest
    <2> QED
      BY <2>1, <2>2, <2>3
  <1>2. Awaited' \subseteq Awaited \cup {n}
    BY <1>1 DEF Awaited, InFlight
  <1>3. ui'.created + Cardinality(Awaited') <= MaxPanels
    <2>1. /\ Cardinality(Awaited') <= Cardinality(Awaited) + 1
          /\ Cardinality(Awaited) \in Nat /\ Cardinality(Awaited') \in Nat
      BY <1>2, AwaitedIs
    <2>2. ui.created + Cardinality(Awaited) < MaxPanels
      BY DEF Ask, Room, Awaited
    <2>3. ui' = ui /\ ui.created \in Nat /\ MaxPanels \in Nat
      BY PanelsAssumption DEF WebInv, PageInv, Good, Pages
    <2> QED
      BY <2>1, <2>2, <2>3
  <1>4. asked' \in [Requests -> [callback : Callbacks \cup {"none"}, url : Urls \cup {NoUrl}]]
    BY <1>1 DEF WebInv
  <1>5. /\ schema'.from <= xmlhttp' /\ asked'[xmlhttp'].url = url'
        /\ schema.from # NoRequest => asked'[schema.from] = asked[schema.from]
    <2>1. schema.from \in Requests \cup {NoRequest} /\ schema.from <= xmlhttp /\ schema' = schema
      BY DEF WebInv
    <2>2. asked'[n].url = url'
      BY <1>1 DEF WebInv
    <2>3. schema.from \in Nat /\ schema.from # n /\ schema.from <= n
      BY <1>1, <2>1 DEF Requests, NoRequest
    <2> QED
      BY <1>1, <2>1, <2>2, <2>3 DEF WebInv
  <1>6. status' \in Statuses
    BY DEF WebInv, Statuses
  <1> QED
    BY <1>3, <1>4, <1>5, <1>6, Zenon DEF WebInv

\* Clicks that send nothing: the schema panel stays, or there was none.
LEMMA WebPage ==
    ASSUME AjaxInv, WebInv, UNCHANGED <<ajaxVars, url, status, asked>>,
           PageInv(ui'), ui'.created + Cardinality(Awaited) <= MaxPanels,
           dialog' \in PanelTypes \cup {"none"},
           \/ Schemas(ui') = Schemas(ui) /\ schema' = schema
           \/ Schemas(ui) = {} /\ schema' = [url |-> url, from |-> NoRequest]
    PROVE  WebInv'
  <1>1. Awaited' = Awaited
    BY DEF ajaxVars, Awaited, InFlight
  <1>2. xmlhttp' = xmlhttp
    BY DEF ajaxVars
  <1>3. CASE Schemas(ui') = Schemas(ui) /\ schema' = schema
    BY <1>1, <1>2, <1>3, Zenon DEF WebInv
  <1>4. CASE Schemas(ui) = {} /\ schema' = [url |-> url, from |-> NoRequest]
    <2>1. /\ schema' \in [url : Urls \cup {NoUrl}, from : Requests \cup {NoRequest}]
          /\ schema'.from = NoRequest
      BY <1>4 DEF WebInv
    <2>2. status # "OK"
      BY <1>4 DEF WebInv
    <2>3. schema'.from <= xmlhttp'
      <3>1. schema.from \in Nat /\ schema.from <= xmlhttp /\ xmlhttp \in Nat
        BY AjaxAssumption DEF WebInv, Requests, NoRequest, AjaxInv, AjaxTypeOK
      <3>2. schema'.from = 0
        BY <2>1 DEF NoRequest
      <3> QED
        BY <1>2, <3>1, <3>2
    <2> QED
      BY <1>1, <1>2, <2>1, <2>2, <2>3, Zenon DEF WebInv
  <1> QED
    BY <1>3, <1>4

LEMMA WebClicks ==
    ASSUME AjaxInv, WebInv,
           \/ ClickConnect \/ ClickTable \/ ClickCancel \/ ClickUpdate
           \/ MenuSchema \/ MenuNewSql \/ \E t \in PanelTypes : MenuShow(t)
    PROVE  WebInv'
  <1>1. PageInv(ui) /\ Good(ui) /\ ui.created \in Nat /\ MaxPanels \in Nat
        /\ Cardinality(Awaited) \in Nat /\ ui.created + Cardinality(Awaited) <= MaxPanels
    BY PanelsAssumption, AwaitedIs DEF WebInv, PageInv, Good, Pages
  <1>2. Room => ui.created + 1 + Cardinality(Awaited) <= MaxPanels /\ ui.created < MaxPanels
    BY <1>1 DEF Room, Awaited
  <1>3. CASE ClickConnect
    BY <1>3, WebAsk DEF ClickConnect, Callbacks
  <1>4. CASE ClickTable
    BY <1>4, WebAsk DEF ClickTable, Callbacks, WebInv
  <1>5. CASE ClickCancel
    BY <1>1, <1>5, WebPage DEF ClickCancel, OnPage
  <1>6. CASE ClickUpdate
    <2>1. Good(ui') /\ Same(ui, ui')
      BY <1>1, <1>6, SetHeadingIs DEF ClickUpdate, OnPage
    <2>2. PageInv(ui') /\ Schemas(ui') = Schemas(ui)
      BY <1>1, <2>1, SamePage
    <2> QED
      BY <1>1, <1>6, <2>1, <2>2, WebPage DEF ClickUpdate, OnPage, Same
  <1>7. CASE MenuSchema
    <2>1. ui' = SchemaShown(ui) /\ schema' = SchemaFilled(ui, NoRequest)
      BY <1>7 DEF MenuSchema, OnPage
    <2>2. /\ PageInv(ui')
          /\ Schemas(ui) # {} => Schemas(ui') = Schemas(ui)
          /\ ui'.created <= ui.created + 1
          /\ GetPanel(ui, "Schema") # NoPanel => ui'.created = ui.created
      BY <1>1, <1>2, <1>7, <2>1, SchemaShownPage DEF MenuSchema
    <2>3. GetPanel(ui, "Schema") = NoPanel <=> Schemas(ui) = {}
      BY <1>1, GetPanelIs DEF Schemas
    <2>4. \/ Schemas(ui') = Schemas(ui) /\ schema' = schema
          \/ Schemas(ui) = {} /\ schema' = [url |-> url, from |-> NoRequest]
      BY <2>1, <2>2, <2>3 DEF SchemaFilled
    <2>5. ui'.created + Cardinality(Awaited) <= MaxPanels
      <3>1. ui'.created \in Nat
        BY <2>2 DEF PageInv, Good, Pages
      <3> QED
        BY <1>1, <1>2, <1>7, <2>2, <3>1 DEF MenuSchema
    <2> QED
      BY <1>7, <2>2, <2>4, <2>5, WebPage DEF MenuSchema, OnPage, WebInv
  <1>8. CASE MenuNewSql
    <2>1. PageInv(ui') /\ Schemas(ui') = Schemas(ui) /\ ui'.created = ui.created + 1
      BY <1>1, <1>2, <1>8, OpenedPage DEF MenuNewSql, OnPage, Closeable
    <2> QED
      BY <1>2, <1>8, <2>1, WebPage DEF MenuNewSql, OnPage, WebInv
  <1>9. ASSUME NEW t \in PanelTypes, MenuShow(t) PROVE WebInv'
    <2>1. Good(ui') /\ Same(ui, ui')
      BY <1>1, <1>9, ShowIs, GetPanelIs DEF MenuShow, OnPage, ShowPanel, IsFirst, Same
    <2>2. PageInv(ui') /\ Schemas(ui') = Schemas(ui)
      BY <1>1, <2>1, SamePage
    <2> QED
      BY <1>1, <1>9, <2>1, <2>2, WebPage DEF MenuShow, OnPage, Same, WebInv
  <1> QED
    BY <1>3, <1>4, <1>5, <1>6, <1>7, <1>8, <1>9

LEMMA WebPanelClicks ==
    ASSUME AjaxInv, WebInv, NEW p \in ui.page,
           ClickExecute(p) \/ ClickClose(p) \/ ClickHide(p) \/ ClickRow(p) \/ ClickHeading(p)
    PROVE  WebInv'
  <1>1. PageInv(ui) /\ Good(ui) /\ ui.created \in Nat /\ MaxPanels \in Nat
        /\ Cardinality(Awaited) \in Nat /\ ui.created + Cardinality(Awaited) <= MaxPanels
    BY PanelsAssumption, AwaitedIs DEF WebInv, PageInv, Good, Pages
  <1>2. (p \in ui.wired => IsFirst(ui, p)) /\ ui.type[p] \in PanelTypes
    BY <1>1 DEF Good
  <1>3. CASE ClickExecute(p)
    BY <1>3, WebAsk DEF ClickExecute, Callbacks, WebInv
  <1>4. CASE ClickClose(p)
    <2>1. PageInv(ui') /\ Schemas(ui') = Schemas(ui) /\ ui'.created = ui.created
      BY <1>1, <1>2, <1>4, ClosedPage DEF ClickClose, OnPage
    <2> QED
      BY <1>1, <1>4, <2>1, WebPage DEF ClickClose, OnPage, WebInv
  <1>5. CASE ClickHide(p)
    <2>1. Good(ui') /\ Same(ui, ui')
      BY <1>1, <1>2, <1>5, HideIs DEF ClickHide, OnPage
    <2>2. PageInv(ui') /\ Schemas(ui') = Schemas(ui)
      BY <1>1, <2>1, SamePage
    <2> QED
      BY <1>1, <1>5, <2>1, <2>2, WebPage DEF ClickHide, OnPage, Same, WebInv
  <1>6. CASE ClickRow(p)
    <2>1. ui.created + 1 + Cardinality(Awaited) <= MaxPanels /\ ui.created < MaxPanels
      BY <1>1, <1>6 DEF ClickRow, Room, Awaited
    <2>2. PageInv(ui') /\ Schemas(ui') = Schemas(ui) /\ ui'.created = ui.created + 1
      BY <1>1, <1>6, <2>1, OpenedPage DEF ClickRow, OnPage, Closeable
    <2> QED
      BY <1>6, <2>1, <2>2, WebPage DEF ClickRow, OnPage, WebInv
  <1>7. CASE ClickHeading(p)
    BY <1>1, <1>2, <1>7, WebPage DEF ClickHeading, OnPage
  <1> QED
    BY <1>3, <1>4, <1>5, <1>6, <1>7

\* The events of a request; the one that runs its callback takes it out of those awaited.
LEMMA WebEvent ==
    ASSUME AjaxInv, WebInv, NEW i \in Requests, Event(i)
    PROVE  WebInv'
  <1>1. /\ XhrEvent(i) /\ Handler(i) /\ xmlhttp' = xmlhttp
        /\ readyState[i] \in 1..3
        /\ \E to \in 2..4 : readyState' = [readyState EXCEPT ![i] = to]
        /\ UNCHANGED <<url, asked, dialog>>
    BY DEF Event, XhrEvent, XhrHeaders, XhrLoading, XhrDone, XhrFails, XhrGoes
  <1>2. /\ xmlhttp \in Requests /\ xmlhttp # NoRequest /\ i \in InFlight
        /\ InFlight' \subseteq InFlight
    BY <1>1, AjaxAssumption DEF AjaxInv, AjaxTypeOK, Requests, NoRequest, InFlight
  <1>3. PageInv(ui) /\ Good(ui) /\ ui.created \in Nat /\ MaxPanels \in Nat
        /\ Cardinality(Awaited) \in Nat /\ Cardinality(Awaited') \in Nat
        /\ ui.created + Cardinality(Awaited) <= MaxPanels
    BY PanelsAssumption, AwaitedIs DEF WebInv, PageInv, Good, Pages
  <1>4. CASE UNCHANGED <<ui, status, schema>>
    <2>1. Awaited' \subseteq Awaited
      BY <1>1, <1>2 DEF Handler, Awaited
    <2>2. ui'.created + Cardinality(Awaited') <= MaxPanels
      BY <1>3, <1>4, <2>1, AwaitedIs
    <2> QED
      BY <1>1, <1>4, <2>2, Zenon DEF WebInv
  <1>5. CASE Answered(i) /\ i \in objs /\ Callback(i, xmlhttp)
    <2>1. Awaited' \subseteq Awaited \ {i} /\ i \in Awaited
      BY <1>1, <1>2, <1>5 DEF Handler, Awaited
    <2>2. Cardinality(Awaited') + 1 <= Cardinality(Awaited)
      BY <2>1, AwaitedIs
    <2>3. ui.created < MaxPanels /\ ui.created + 1 + Cardinality(Awaited') <= MaxPanels
      BY <1>3, <2>2
    <2> DEFINE j == xmlhttp
               v == RemovePanelAndDiv(ui, "Schema")
               w == Hide(v, GetPanel(v, "Connect"))
    <2>4. ASSUME PageInv(ui'), ui'.created <= ui.created + 1
          PROVE  ui'.created + Cardinality(Awaited') <= MaxPanels
      <3>1. ui'.created \in Nat
        BY <2>4 DEF PageInv, Good, Pages
      <3> QED
        BY <1>3, <2>3, <2>4, <3>1
    <2>5. /\ PageInv(v) /\ Schemas(v) = {} /\ v.created = ui.created
          /\ PageInv(w) /\ Schemas(w) = {} /\ w.created = ui.created
          /\ GetPanel(v, "Schema") = NoPanel /\ GetPanel(w, "Schema") = NoPanel
      BY <1>3, ReconnectedPage
    <2>6. CASE SetResponse(j) /\ answer'[j] = "RESULTSET"
      <3>1. /\ ui' = SchemaShown(w) /\ status' = "OK"
            /\ schema' = [url |-> url, from |-> j]
        BY <2>5, <2>6 DEF SetResponse, SchemaFilled
      <3>2. PageInv(ui') /\ Schemas(ui') # {} /\ ui'.created <= ui.created + 1
        BY <2>3, <2>5, <3>1, SchemaShownPage
      <3>3. ui'.created + Cardinality(Awaited') <= MaxPanels
        BY <2>4, <3>2
      <3>4. schema' \in [url : Urls \cup {NoUrl}, from : Requests \cup {NoRequest}]
            /\ schema'.from = j /\ schema'.url = url' /\ j <= j
        BY <1>1, <1>2, <3>1, AjaxAssumption DEF WebInv, Requests
      <3>5. status' \in Statuses /\ status' # "FAILED"
        BY <3>1 DEF Statuses
      <3> QED
        BY <1>1, <1>2, <3>1, <3>2, <3>3, <3>4, <3>5, Zenon DEF WebInv
    <2>7. CASE SetResponse(j) /\ answer'[j] # "RESULTSET"
      <3>1. ui' = v /\ status' = "FAILED" /\ schema' = schema
        BY <2>7 DEF SetResponse
      <3>2. ui'.created + Cardinality(Awaited') <= MaxPanels
        BY <1>3, <2>4, <2>5, <3>1
      <3>3. status' \in Statuses /\ status' # "OK" /\ ~ (Schemas(ui') # {})
        BY <2>5, <3>1 DEF Statuses
      <3> QED
        BY <1>1, <2>5, <3>1, <3>2, <3>3, Zenon DEF WebInv
    <2>8. CASE \E t \in {"Sql", "Result"} : ProcessInto(t, j)
      <3>1. PICK t \in {"Sql", "Result"} : ProcessInto(t, j)
        BY <2>8
      <3> DEFINE x == Opened(ui, t)
      <3>2. PageInv(x) /\ Schemas(x) = Schemas(ui) /\ x.created = ui.created + 1
            /\ x.created \in x.page
        BY <1>3, <2>3, OpenedPage DEF Closeable
      <3>3. ui' = WithRows(x, x.created, answer'[j])
        BY <3>1 DEF ProcessInto
      <3>4. Good(ui') /\ Same(x, ui')
        BY <3>2, <3>3, WithRowsIs DEF PageInv
      <3>5. PageInv(ui') /\ Schemas(ui') = Schemas(ui)
        BY <3>2, <3>4, SamePage
      <3>6. ui'.created + Cardinality(Awaited') <= MaxPanels
        BY <1>3, <2>4, <3>2, <3>4, <3>5 DEF Same
      <3>7. UNCHANGED <<status, schema>>
        BY <3>1 DEF ProcessInto
      <3> QED
        BY <1>1, <3>5, <3>6, <3>7, Zenon DEF WebInv
    <2> QED
      BY <1>5, <2>6, <2>7, <2>8 DEF Callback
  <1> QED
    BY <1>4, <1>5 DEF Event, Seen

LEMMA WebStep ==
    ASSUME AjaxInv, WebInv, [Next]_vars
    PROVE  WebInv'
  <1>1. CASE Click
    BY <1>1, WebClicks, WebPanelClicks DEF Click
  <1>2. CASE \E i \in Requests : Event(i)
    BY <1>2, WebEvent
  <1>3. CASE UNCHANGED vars
    BY <1>3, Zenon DEF WebInv, vars, webVars, ajaxVars, Awaited, InFlight
  <1> QED
    BY <1>1, <1>2, <1>3 DEF Next

\* What is proved of the application rests on this invariant.
THEOREM WebInvariance == Spec => [](AjaxInv /\ WebInv)
  <1>1. AjaxInv /\ WebInv /\ [Next]_vars => (AjaxInv /\ WebInv)'
    BY WebStep, AjaxStep, StepOfAjaxClient
  <1> QED
    BY <1>1, WebInitially, PTL DEF Spec

LEMMA WhatWebInvSays ==
    ASSUME AjaxInv, WebInv
    PROVE  /\ TypeOK /\ PageMatchesList /\ HiddenIsReachable
           /\ OneOfEach /\ SchemaIsCurrent /\ StatusTruthful
  <1>1. TypeOK
    BY Zenon DEF TypeOK, AjaxInv, WebInv, PageInv, Good
  <1>2. PageMatchesList
    BY DEF PageMatchesList, WebInv, PageInv, Good
  <1>3. HiddenIsReachable
    <2>1. Good(ui)
      BY DEF WebInv, PageInv
    <2>2. \A p \in ui.page \ ui.shown : IsFirst(ui, p)
      BY <2>1 DEF Good
    <2> QED
      BY <2>1, <2>2, GetPanelIs DEF HiddenIsReachable
  <1>4. OneOfEach
    <2>1. OfType(ui, ui.page, "Connect") = {1}
      BY DEF WebInv, PageInv
    <2>2. \A p, q \in Schemas(ui) : p = q
      BY DEF WebInv, PageInv
    <2>3. CASE Schemas(ui) = {}
      <3>1. Cardinality(OfType(ui, ui.page, "Schema")) = 0
        BY <2>3, FS_EmptySet DEF Schemas
      <3> QED
        BY <2>1, <3>1, FS_Singleton DEF OneOfEach
    <2>4. CASE Schemas(ui) # {}
      <3>1. PICK p : Schemas(ui) = {p}
        BY <2>2, <2>4
      <3> QED
        BY <2>1, <3>1, FS_Singleton DEF OneOfEach, Schemas
    <2> QED
      BY <2>3, <2>4
  <1>5. Schema = NoPanel <=> Schemas(ui) = {}
    BY FirstOfIs DEF Schema, Schemas, WebInv, PageInv, Good, Pages
  <1>6. SchemaIsCurrent
    BY <1>5, Zenon DEF SchemaIsCurrent, WebInv
  <1>7. StatusTruthful
    BY <1>5, Zenon DEF StatusTruthful, WebInv
  <1> QED
    BY <1>1, <1>2, <1>3, <1>4, <1>6, <1>7

\* Every variable keeps its type, and the bound on panels is never passed.
THEOREM TypesOfWebApp == Spec => []TypeOK
  BY WebInvariance, WhatWebInvSays, PTL

\* However requests overlap and panels are closed, the list is the page.
THEOREM ListOfWebApp == Spec => []PageMatchesList
  BY WebInvariance, WhatWebInvSays, PTL

\* No hidden panel is out of reach of the menus.
THEOREM HiddenOfWebApp == Spec => []HiddenIsReachable
  BY WebInvariance, WhatWebInvSays, PTL

\* One connection panel, at most one schema panel.
THEOREM OneOfEachInWebApp == Spec => []OneOfEach
  BY WebInvariance, WhatWebInvSays, PTL

\* The schema panel shows what the URL of its heading answered.
THEOREM SchemaOfWebApp == Spec => []SchemaIsCurrent
  BY WebInvariance, WhatWebInvSays, PTL

\* The status field tells whether there is a schema panel with an answer.
THEOREM StatusOfWebApp == Spec => []StatusTruthful
  BY WebInvariance, WhatWebInvSays, PTL
=============================================================================
