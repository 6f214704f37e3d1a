-------------------------------- MODULE Panels --------------------------------
(***************************************************************************)
(* kwami-generic-webapp, panel.ts and the constructors of panels.ts: the   *)
(* list Panel.panels and the divs of the page.  A panel is named by the    *)
(* number of its construction; its id is the name of its type, so that all *)
(* SQL panels, for instance, carry the same id, and every search by id,    *)
(* in the list or with querySelector, finds the first of a type.           *)
(*                                                                         *)
(* Both the list and the page only grow at the end (push, appendChild) and *)
(* shrink by single elements: they are sets here, "first" is the least     *)
(* number.  Positions, z-order, headings and contents are left out.        *)
(***************************************************************************)
EXTENDS Naturals, FiniteSets

CONSTANT MaxPanels       \* bound: panels constructed in one run

PanelIds == 1..MaxPanels
NoPanel  == 0
PanelTypes == {"Schema", "Connect", "Result", "Row", "Sql"}
Closeable  == {"Result", "Row", "Sql"}     \* constructed without notCloseable

ASSUME PanelsAssumption == MaxPanels \in Nat \ {0}

\* The state of the page: list is Panel.panels, page the panels' divs; wired are the
\* divs whose buttons and heading have handlers, titled those whose heading says
\* 'click to rename'; rows are the panels that show a table of rows.
Pages == [created : 0..MaxPanels, type : [PanelIds -> PanelTypes \cup {"none"}],
          list : SUBSET PanelIds, page : SUBSET PanelIds, shown : SUBSET PanelIds,
          wired : SUBSET PanelIds, titled : SUBSET PanelIds,
          rows : SUBSET PanelIds]

BlankPage == [created |-> 0, type |-> [p \in PanelIds |-> "none"],
              list |-> {}, page |-> {}, shown |-> {}, wired |-> {}, titled |-> {},
              rows |-> {}]

OfType(u, S, t) == {p \in S : u.type[p] = t}

\* The first of type t in S, NoPanel if there is none.
FirstOf(u, S, t) ==
    IF OfType(u, S, t) = {} THEN NoPanel
    ELSE CHOOSE p \in OfType(u, S, t) : \A q \in OfType(u, S, t) : p <= q

\* Panel.getPanel(id)
GetPanel(u, t) == FirstOf(u, u.list, t)

Show(u, p) == [u EXCEPT !.shown = @ \cup {p}]
Hide(u, p) == [u EXCEPT !.shown = @ \ {p}]

\* Panel.showPanel(id)
ShowPanel(u, t) == IF GetPanel(u, t) = NoPanel THEN u ELSE Show(u, GetPanel(u, t))

\* Mutant: the constructor looks for buttons and heading in its own div.
NewPanel_OwnElements(u, t) ==
    LET n == u.created + 1
    IN  [u EXCEPT !.created = n, !.type[n] = t, !.page = @ \cup {n},
                  !.list = @ \cup {n}, !.wired = @ \cup {n}, !.titled = @ \cup {n}]

\* The constructors and savePanel: prepareButtons and prepareHeading search
\* the page for '#id #...' and so find the elements of the first panel of the type.
NewPanel(u, t) ==
    LET n == u.created + 1
        v == [u EXCEPT !.created = n, !.type[n] = t, !.page = @ \cup {n}]
        first == FirstOf(v, v.page, t)
    IN  [v EXCEPT !.list = @ \cup {n}, !.wired = @ \cup {first},
                  !.titled = @ \cup {first}]

\* A div leaves the page.
RemoveDiv(u, p) == [u EXCEPT !.page = @ \ {p}, !.shown = @ \ {p},
                             !.wired = @ \ {p}, !.titled = @ \ {p}, !.rows = @ \ {p}]

\* Panel.removePanel(id): the first one leaves the list.
RemovePanel(u, t) == [u EXCEPT !.list = @ \ {GetPanel(u, t)}]

\* Panel.removePanel(id, true)
RemovePanelAndDiv(u, t) ==
    IF GetPanel(u, t) = NoPanel THEN u
    ELSE RemovePanel(RemoveDiv(u, GetPanel(u, t)), t)

\* Panel.closePanel on the close button of p
ClosePanel(u, p) == RemovePanel(RemoveDiv(u, p), u.type[p])

\* setHeading of the panel getPanel(id) finds: prepareHeading searches the page again.
SetHeading(u, t) == [u EXCEPT !.titled = @ \cup {FirstOf(u, u.page, t)}]
=============================================================================
