-------------------------------- MODULE WebApp --------------------------------
(***************************************************************************)
(* kwami-generic-webapp: the panels (panels.ts) on top of Panels and       *)
(* AjaxClient.  The user clicks; the browser delivers events of requests;  *)
(* the callback of a request runs in the event that completes it.          *)
(***************************************************************************)
EXTENDS AjaxClient, Panels

CONSTANT Urls            \* what the connection panel's fields may amount to

NoUrl == 0               \* AjaxClient.url before the first connect: undefined

ASSUME WebAssumption ==
    /\ NoUrl \notin Urls
    /\ "RESULTSET" \in Answers /\ Answers \subseteq {"RESULTSET", "EXCEPTION", "UPDATE"}

VARIABLES
    ui,        \* the page and the list of panels
    url,       \* AjaxClient.url
    status,    \* the status field of the connection panel
    schema,    \* the schema panel: its heading, and the request that filled it
    asked,     \* per request: its callback and its URL
    dialog     \* HeadingUpdater.panelId while its dialog is displayed, or "none"

webVars == <<ui, url, status, schema, asked, dialog>>
vars == <<ajaxVars, webVars>>

Callbacks == {"setResponse", "processTableMetaData", "processResults"}
Statuses  == {"Not tried", "Connecting...", "OK", "FAILED"}

Connect == FirstOf(ui, ui.page, "Connect")
Schema  == FirstOf(ui, ui.page, "Schema")
Visible(p) == p \in ui.page \cap ui.shown

\* ConnectionPanel.getInstance(true), which shows the panel and sets up the menus.
Init ==
    /\ AjaxInit
    /\ ui = Show(NewPanel(BlankPage, "Connect"), 1)
    /\ url = NoUrl /\ status = "Not tried"
    /\ schema = [url |-> NoUrl, from |-> NoRequest]
    /\ asked = [i \in Requests |-> [callback |-> "none", url |-> NoUrl]]
    /\ dialog = "none"

\* The bound on panels keeps one for every callback that may still run.
Room == ui.created + Cardinality(objs \cap InFlight) < MaxPanels

-----------------------------------------------------------------------------
(* Requests of the user                                                    *)

\* A request to the present URL, or one that open() refuses.
Ask(callback) ==
    /\ Room
    /\ AjaxJson \/ AjaxJsonThrows
    /\ asked' = [asked EXCEPT ![xmlhttp'] = [callback |-> callback, url |-> url']]

\* The connect button: setUrl, the status field, the request.
ClickConnect ==
    /\ Visible(Connect)
    /\ url' \in Urls
    /\ status' = "Connecting..."
    /\ Ask("setResponse")
    /\ UNCHANGED <<ui, schema, dialog>>

\* A table of the schema panel; the default list of a panel opened from the menu
\* before the first connect has no handlers.
ClickTable ==
    /\ Visible(Schema) /\ schema.from # NoRequest
    /\ UNCHANGED <<ui, url, status, schema, dialog>>
    /\ Ask("processTableMetaData")

\* The execute button of an SQL panel.
ClickExecute(p) ==
    /\ Visible(p) /\ p \in ui.wired /\ ui.type[p] = "Sql"
    /\ UNCHANGED <<ui, url, status, schema, dialog>>
    /\ Ask("processResults")

-----------------------------------------------------------------------------
(* Callbacks, in the event of request i, with the response to request j    *)

\* getInstance of SqlPanel, ResultPanel and RowPanel: always a new panel, then shown.
Opened(u, t) == LET v == NewPanel(u, t) IN Show(v, v.created)

\* addResults: the panel shows a table of rows, or none.
WithRows(u, p, answered) ==
    IF answered = "RESULTSET" THEN [u EXCEPT !.rows = @ \cup {p}] ELSE u

\* Mutant: getInstance() does not look for the panel first.
SchemaShown_Always(u) == Opened(u, "Schema")

\* SchemaPanel.getInstance().show()
SchemaShown(u) ==
    IF GetPanel(u, "Schema") = NoPanel THEN Opened(u, "Schema")
    ELSE Show(u, GetPanel(u, "Schema"))

\* What it then shows: a panel constructed now has the present URL as its heading.
SchemaFilled(u, j) ==
    IF GetPanel(u, "Schema") = NoPanel THEN [url |-> url, from |-> j] ELSE schema

\* Mutant: the schema panel of the last connection is not removed first.
SetResponse_KeepsSchema(j) ==
    /\ IF answer'[j] = "RESULTSET"
       THEN /\ ui' = SchemaShown(Hide(ui, GetPanel(ui, "Connect")))
            /\ schema' = SchemaFilled(ui, j)
            /\ status' = "OK"
       ELSE /\ UNCHANGED <<ui, schema>>
            /\ status' = "FAILED"

SetResponse(j) ==
    LET v == RemovePanelAndDiv(ui, "Schema") IN
    /\ IF answer'[j] = "RESULTSET"
       THEN /\ ui' = SchemaShown(Hide(v, GetPanel(v, "Connect")))
            /\ schema' = SchemaFilled(v, j)
            /\ status' = "OK"
       ELSE /\ ui' = v /\ UNCHANGED schema
            /\ status' = "FAILED"

\* Mutant: the new panel is not shown.
ProcessInto_NotShown(t, j) ==
    /\ ui' = LET v == NewPanel(ui, t) IN WithRows(v, v.created, answer'[j])
    /\ UNCHANGED <<status, schema>>

\* processTableMetaData with an SqlPanel, processResults with a ResultPanel.
ProcessInto(t, j) ==
    /\ ui' = LET v == Opened(ui, t) IN WithRows(v, v.created, answer'[j])
    /\ UNCHANGED <<status, schema>>

Callback(i, j) ==
    \/ asked[i].callback = "setResponse" /\ SetResponse(j)
    \/ asked[i].callback = "processTableMetaData" /\ ProcessInto("Sql", j)
    \/ asked[i].callback = "processResults" /\ ProcessInto("Result", j)

\* An event of request i runs its callback if the handler finds the latest request
\* answered and the callback still in the array.
Event(i) ==
    /\ XhrEvent(i)
    /\ IF Answered(i) /\ i \in objs
       THEN Callback(i, Seen(i))
       ELSE UNCHANGED <<ui, status, schema>>
    /\ UNCHANGED <<url, asked, dialog>>

-----------------------------------------------------------------------------
(* Other clicks of the user                                                *)

OnPage(u) ==
    /\ ui' = u
    /\ UNCHANGED <<ajaxVars, url, status, asked>>

ClickClose(p) ==
    /\ Visible(p) /\ p \in ui.wired /\ ui.type[p] \in Closeable
    /\ OnPage(ClosePanel(ui, p))
    /\ UNCHANGED <<schema, dialog>>

ClickHide(p) ==
    /\ Visible(p) /\ p \in ui.wired
    /\ OnPage(Hide(ui, p))
    /\ UNCHANGED <<schema, dialog>>

\* A row of a table opens a row panel.
ClickRow(p) ==
    /\ Visible(p) /\ p \in ui.rows /\ Room
    /\ OnPage(Opened(ui, "Row"))
    /\ UNCHANGED <<schema, dialog>>

\* HeadingUpdater.show, cancel and updateName.  The latter throws when no panel with
\* that id is left, and the dialog stays.
ClickHeading(p) ==
    /\ Visible(p) /\ p \in ui.wired
    /\ OnPage(ui)
    /\ dialog' = ui.type[p]
    /\ UNCHANGED schema

ClickCancel ==
    /\ dialog # "none" /\ dialog' = "none"
    /\ OnPage(ui) /\ UNCHANGED schema

ClickUpdate ==
    /\ dialog # "none" /\ GetPanel(ui, dialog) # NoPanel
    /\ OnPage(SetHeading(ui, dialog))
    /\ dialog' = "none" /\ UNCHANGED schema

\* Menu.itemClick.  The menus can be opened at any time and hold no state of their own:
\* an entry of the list of SQL, result or row panels stands for the id all of them
\* share, and does nothing if the last of them has been closed since.
MenuSchema ==
    /\ Room \/ GetPanel(ui, "Schema") # NoPanel
    /\ OnPage(SchemaShown(ui))
    /\ schema' = SchemaFilled(ui, NoRequest)
    /\ UNCHANGED dialog

MenuNewSql ==
    /\ Room
    /\ OnPage(Opened(ui, "Sql")) /\ UNCHANGED <<schema, dialog>>

MenuShow(t) ==
    /\ t \in Closeable \cup {"Connect"}
    /\ OnPage(ShowPanel(ui, t)) /\ UNCHANGED <<schema, dialog>>

Click ==
    \/ ClickConnect \/ ClickTable
    \/ \E p \in ui.page : ClickExecute(p) \/ ClickClose(p) \/ ClickHide(p)
                          \/ ClickRow(p) \/ ClickHeading(p)
    \/ ClickCancel \/ ClickUpdate \/ MenuSchema \/ MenuNewSql
    \/ \E t \in PanelTypes : MenuShow(t)

Next == Click \/ \E i \in Requests : Event(i)

Spec == Init /\ [][Next]_vars

\* The network answers or fails: no request is in flight for ever.
FairSpec == Spec /\ \A i \in Requests : WF_ajaxVars(XhrDone(i) \/ XhrFails(i))

-----------------------------------------------------------------------------
(* Properties                                                              *)

TypeOK ==
    /\ AjaxTypeOK
    /\ ui \in Pages
    /\ url \in Urls \cup {NoUrl} /\ status \in Statuses
    /\ schema \in [url : Urls \cup {NoUrl}, from : Requests \cup {NoRequest}]
    /\ asked \in [Requests -> [callback : Callbacks \cup {"none"}, url : Urls \cup {NoUrl}]]
    /\ dialog \in PanelTypes \cup {"none"}

\* The list of panels and the page never disagree, although ids are shared and closing
\* removes the clicked div from the page but the first panel of its id from the list
\* (panel.ts 165-183): only the first of a type ever gets handlers.
PageMatchesList == ui.list = ui.page

\* A panel that is on the page but hidden can be brought back: showPanel(id), all the
\* menus offer, finds the first of a type, and only such a one is ever hidden
\* (panel.ts 90-98, panels.ts 512-543).
HiddenIsReachable ==
    \A p \in ui.page \ ui.shown : p = GetPanel(ui, ui.type[p])

\* There is one connection panel and at most one schema panel, whatever answers come
\* in whatever order (panels.ts 72-91, 93-104, 181-189).
OneOfEach ==
    /\ Cardinality(OfType(ui, ui.page, "Connect")) = 1
    /\ Cardinality(OfType(ui, ui.page, "Schema")) <= 1

\* The tables of the schema panel were answered by the URL of its heading, which is
\* the URL in use unless a connect has not been answered: a late answer of another
\* server never fills it (panels.ts 58-91, ajaxClient.ts 19-29).
SchemaIsCurrent ==
    (Schema # NoPanel /\ schema.from # NoRequest) =>
        /\ asked[schema.from].url = schema.url
        /\ schema.url = url \/ status = "Connecting..."

\* The status field tells the truth about the schema panel (panels.ts 79-90).
StatusTruthful ==
    /\ status = "OK" => Schema # NoPanel /\ schema.from # NoRequest
    /\ status = "FAILED" => Schema = NoPanel \/ schema.from = NoRequest
=============================================================================
