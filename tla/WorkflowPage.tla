---------------------------- MODULE WorkflowPage ----------------------------
(***************************************************************************)
(* The Automation page's workflow editor and switches (pages/automation.jsx), *)
(* against the handlers that store what they send (api/automation.py).     *)
(*                                                                         *)
(* The page asks for the list of workflows with the vocabulary (meta), and *)
(* for the selected one, in two effects that run again after every change  *)
(* of its own; no late answer is discarded.  The editor takes the graph    *)
(* over whenever the workflow's id or version or the meta object changes,  *)
(* which every answer to the first effect does.                            *)
(***************************************************************************)
EXTENDS Integers

CONSTANTS Workflows,
          None,
          MaxClicks, MaxVisits, MaxFails    \* bounds of the model

WorkflowAssumption == None \notin Workflows

BoundAssumption ==
    /\ MaxClicks \in Nat
    /\ MaxVisits \in Nat
    /\ MaxFails \in Nat

VARIABLES
    wf,         \* the workflows table
    page,       \* AutomationPage: list, current, detail and error
    editor,     \* Editor: the graph drawn, and whether it says it is unsaved
    flight,     \* answers on their way, as the server gave them
    puts,       \* graphs being saved, also by an editor that is gone
    posts,      \* switches being set, also by a page that is gone
    asked,      \* history: workflows an administrator agreed to take live
    budget      \* what is left of the bounds

vars == <<wf, page, editor, flight, puts, posts, asked, budget>>

\* A graph is known by the workflow it was drawn for and by a number of its own.
Graph == [for : Workflows, n : 0..MaxClicks]
Drawn(w, n) == [for |-> w, n |-> n]

Switches(row) == [enabled |-> row.enabled, shadow |-> row.shadow]

NoPage == [list |-> None, current |-> None, detail |-> None, error |-> FALSE]
NoEditor == [open |-> FALSE, nodes |-> None, dirty |-> FALSE, saving |-> FALSE]

\* Workflows are created disabled and in shadow, whatever the caller asked.
Init ==
    /\ wf = [w \in Workflows |-> [graph |-> Drawn(w, 0), version |-> 1,
                                  enabled |-> FALSE, shadow |-> TRUE]]
    /\ page = NoPage
    /\ editor = NoEditor
    /\ flight = {}
    /\ puts = {}
    /\ posts = {}
    /\ asked = {}
    /\ budget = [clicks |-> MaxClicks, visits |-> MaxVisits, fails |-> MaxFails]

-----------------------------------------------------------------------------
(* Reading *)

ListAnswer(table) ==
    [kind |-> "list", rows |-> [w \in Workflows |-> Switches(table[w])]]

DetailAnswer(table, w) ==
    [kind |-> "detail",
     rows |-> [id |-> w, version |-> table[w].version, graph |-> table[w].graph]]

\* What the two effects ask for when they run.
Reload(table, w) ==
    {ListAnswer(table)} \cup (IF w = None THEN {} ELSE {DetailAnswer(table, w)})

\* The editor's effect: the graph of the workflow replaces what is drawn.
TakeOver(e, detail) ==
    [e EXCEPT !.open = TRUE, !.nodes = detail.graph, !.dirty = FALSE]

\* The editor after a render: taken away by an error, put up with the first
\* workflow, and its effect run when something it depends on is new.
Rendered(p, changed) ==
    IF p.error \/ p.list = None \/ p.detail = None THEN NoEditor
    ELSE IF ~editor.open THEN TakeOver(NoEditor, p.detail)
    ELSE IF changed THEN TakeOver(editor, p.detail)
    ELSE editor

\* An editor that is taken away does not hear of the save it began.
Orphaned(e) == IF editor.open /\ ~e.open THEN {[p EXCEPT !.mine = FALSE] : p \in puts} ELSE puts

OpenPage ==
    /\ page = NoPage /\ flight = {}
    /\ budget.visits > 0
    /\ flight' = Reload(wf, None)
    /\ budget' = [budget EXCEPT !.visits = @ - 1]
    /\ UNCHANGED <<wf, page, editor, puts, posts, asked>>

ListArrives(q, w) ==
    /\ q \in flight
    /\ q.kind = "list"
    /\ LET p == [page EXCEPT !.list = q.rows,
                             !.current = IF @ = None THEN w ELSE @]
       IN  /\ page' = p
           /\ editor' = Rendered(p, TRUE)
           /\ flight' = (flight \ {q})
                        \cup (IF page.current = None THEN {DetailAnswer(wf, w)} ELSE {})
           /\ puts' = Orphaned(editor')
    /\ UNCHANGED <<wf, posts, asked, budget>>

\* Mutant of DetailArrives: the effect depends on the version and not on the id.
MutantDetailArrives(q) ==
    /\ q \in flight
    /\ q.kind = "detail"
    /\ LET p == [page EXCEPT !.detail = q.rows]
       IN  /\ page' = p
           /\ editor' = Rendered(p, page.detail = None \/ page.detail.version # q.rows.version)
           /\ puts' = Orphaned(editor')
    /\ flight' = flight \ {q}
    /\ UNCHANGED <<wf, posts, asked, budget>>

DetailArrives(q) ==
    /\ q \in flight
    /\ q.kind = "detail"
    /\ LET p == [page EXCEPT !.detail = q.rows]
       IN  /\ page' = p
           /\ editor' = Rendered(p, \/ page.detail = None
                                    \/ page.detail.id # q.rows.id
                                    \/ page.detail.version # q.rows.version)
           /\ puts' = Orphaned(editor')
    /\ flight' = flight \ {q}
    /\ UNCHANGED <<wf, posts, asked, budget>>

\* The page's error is never taken back.
ReadFails(q) ==
    /\ q \in flight
    /\ budget.fails > 0
    /\ page' = [page EXCEPT !.error = TRUE]
    /\ editor' = NoEditor
    /\ puts' = Orphaned(editor')
    /\ flight' = flight \ {q}
    /\ budget' = [budget EXCEPT !.fails = @ - 1]
    /\ UNCHANGED <<wf, posts, asked>>

Select(w) ==
    /\ page.list # None
    /\ ~page.error
    /\ w # page.current
    /\ budget.clicks > 0
    /\ page' = [page EXCEPT !.current = w]
    /\ flight' = flight \cup {DetailAnswer(wf, w)}
    /\ budget' = [budget EXCEPT !.clicks = @ - 1]
    /\ UNCHANGED <<wf, editor, puts, posts, asked>>

\* Another tab of the page: the editor goes, and its edits with it.
SwitchTab ==
    /\ editor.open
    /\ budget.clicks > 0
    /\ editor' = TakeOver(NoEditor, page.detail)
    /\ puts' = {[p EXCEPT !.mine = FALSE] : p \in puts}
    /\ budget' = [budget EXCEPT !.clicks = @ - 1]
    /\ UNCHANGED <<wf, page, flight, posts, asked>>

\* Another page: what is being sent goes on, and nobody waits for it.
ClosePage ==
    /\ page # NoPage
    /\ page' = NoPage
    /\ editor' = NoEditor
    /\ flight' = {}
    /\ puts' = {[p EXCEPT !.mine = FALSE, !.page = FALSE] : p \in puts}
    /\ posts' = {[p EXCEPT !.page = FALSE] : p \in posts}
    /\ UNCHANGED <<wf, asked, budget>>

-----------------------------------------------------------------------------
(* Writing *)

\* patchNode, addNode, deleteNode, onConnect and setEdgeWhen.
Edit ==
    /\ editor.open
    /\ budget.clicks > 0
    /\ editor' = [editor EXCEPT !.nodes = Drawn(@.for, budget.clicks), !.dirty = TRUE]
    /\ budget' = [budget EXCEPT !.clicks = @ - 1]
    /\ UNCHANGED <<wf, page, flight, puts, posts, asked>>

\* The graph drawn is sent for the workflow the editor was given.
Save ==
    /\ editor.open
    /\ editor.dirty
    /\ ~editor.saving
    /\ editor' = [editor EXCEPT !.saving = TRUE]
    /\ puts' = puts \cup {[id |-> page.detail.id, graph |-> editor.nodes, read |-> None,
                           mine |-> TRUE, page |-> TRUE]}
    /\ UNCHANGED <<wf, page, flight, posts, asked, budget>>

ReadVersion(p) ==
    /\ p \in puts
    /\ p.read = None
    /\ puts' = (puts \ {p}) \cup {[p EXCEPT !.read = wf[p.id].version]}
    /\ UNCHANGED <<wf, page, editor, flight, posts, asked, budget>>

\* The row is written, whatever its version is by now.
Stored(p) == [wf EXCEPT ![p.id].graph = p.graph, ![p.id].version = p.read + 1]

Saved(e) == [e EXCEPT !.dirty = FALSE, !.saving = FALSE]

StoreGraph(p) ==
    /\ p \in puts
    /\ p.read # None
    /\ wf' = Stored(p)
    /\ puts' = puts \ {p}
    /\ editor' = IF p.mine THEN Saved(editor) ELSE editor
    /\ flight' = IF p.page THEN flight \cup Reload(wf', page.current) ELSE flight
    /\ UNCHANGED <<page, posts, asked, budget>>

\* The validator refuses the graph, the request is lost, or its answer.
SaveFails(p) ==
    /\ p \in puts
    /\ budget.fails > 0
    /\ wf' \in {wf} \cup (IF p.read = None THEN {} ELSE {Stored(p)})
    /\ puts' = puts \ {p}
    /\ editor' = IF p.mine THEN [editor EXCEPT !.saving = FALSE] ELSE editor
    /\ budget' = [budget EXCEPT !.fails = @ - 1]
    /\ UNCHANGED <<page, flight, posts, asked>>

CanSwitch ==
    /\ page.list # None
    /\ ~page.error
    /\ \A p \in posts : ~p.page
    /\ budget.clicks > 0

Switch(enabled, shadow) ==
    /\ posts' = posts \cup {[id |-> page.current, enabled |-> enabled, shadow |-> shadow,
                             read |-> None, page |-> TRUE]}
    /\ budget' = [budget EXCEPT !.clicks = @ - 1]
    /\ UNCHANGED <<wf, page, editor, flight, puts>>

\* The button sends the opposite of what the list says, which may be old.
ToggleEnabled ==
    /\ CanSwitch
    /\ Switch(~page.list[page.current].enabled, None)
    /\ UNCHANGED asked

GoLive ==
    /\ CanSwitch
    /\ page.list[page.current].shadow
    /\ asked' = asked \cup {page.current}
    /\ Switch(None, FALSE)

BackToShadow ==
    /\ CanSwitch
    /\ ~page.list[page.current].shadow
    /\ Switch(None, TRUE)
    /\ UNCHANGED asked

ReadSwitches(p) ==
    /\ p \in posts
    /\ p.read = None
    /\ posts' = (posts \ {p}) \cup {[p EXCEPT !.read = Switches(wf[p.id])]}
    /\ UNCHANGED <<wf, page, editor, flight, puts, asked, budget>>

\* Mutant of Patched: a switch that is not in the request reads as off.
MutantPatched(p) ==
    [enabled |-> IF p.enabled = None THEN p.read.enabled ELSE p.enabled,
     shadow |-> IF p.shadow = None THEN FALSE ELSE p.shadow]

\* Both columns are written: the one asked for, and the other as it was read.
Patched(p) ==
    [enabled |-> IF p.enabled = None THEN p.read.enabled ELSE p.enabled,
     shadow |-> IF p.shadow = None THEN p.read.shadow ELSE p.shadow]

Switched(p) ==
    [wf EXCEPT ![p.id].enabled = Patched(p).enabled, ![p.id].shadow = Patched(p).shadow]

\* The page, if it is still there, asks for both again.
StoreSwitches(p) ==
    /\ p \in posts
    /\ p.read # None
    /\ wf' = Switched(p)
    /\ posts' = posts \ {p}
    /\ flight' = IF p.page THEN flight \cup Reload(wf', page.current) ELSE flight
    /\ UNCHANGED <<page, editor, puts, asked, budget>>

\* A graph that does not validate is not taken live, the request is lost, or its
\* answer: the button is free again, and the page goes on showing what it had.
SwitchFails(p) ==
    /\ p \in posts
    /\ budget.fails > 0
    /\ wf' \in {wf} \cup (IF p.read = None THEN {} ELSE {Switched(p)})
    /\ posts' = posts \ {p}
    /\ budget' = [budget EXCEPT !.fails = @ - 1]
    /\ UNCHANGED <<page, editor, flight, puts, asked>>

Next ==
    \/ OpenPage \/ ClosePage \/ SwitchTab \/ Edit \/ Save
    \/ ToggleEnabled \/ GoLive \/ BackToShadow
    \/ \E w \in Workflows : Select(w)
    \/ \E q \in flight : (\E w \in Workflows : ListArrives(q, w)) \/ DetailArrives(q) \/ ReadFails(q)
    \/ \E p \in puts : ReadVersion(p) \/ StoreGraph(p) \/ SaveFails(p)
    \/ \E p \in posts : ReadSwitches(p) \/ StoreSwitches(p) \/ SwitchFails(p)

Spec == Init /\ [][Next]_vars

-----------------------------------------------------------------------------
(* Properties *)

Row == [graph : Graph, version : Nat, enabled : BOOLEAN, shadow : BOOLEAN]

TypeOK ==
    /\ wf \in [Workflows -> Row]
    /\ page \in [list : [Workflows -> [enabled : BOOLEAN, shadow : BOOLEAN]] \cup {None},
                 current : Workflows \cup {None},
                 detail : [id : Workflows, version : Nat, graph : Graph] \cup {None},
                 error : BOOLEAN]
    /\ editor \in [open : BOOLEAN, nodes : Graph \cup {None}, dirty : BOOLEAN,
                   saving : BOOLEAN]
    /\ editor.saving <=> \E p \in puts : p.mine
    /\ asked \subseteq Workflows

\* No workflow is ever stored with a graph that was drawn for another one: however
\* selections, late answers, tab changes and saves interleave, the graph in the
\* editor is that of the workflow whose id it saves under.
SavesOwnGraph == \A w \in Workflows : wf[w].graph.for = w

\* A workflow that acts on the fleet is one an administrator once agreed to take
\* out of shadow: enabling it, saving it or a stale page never does (the confirm
\* of WorkflowSwitch, the defaults of set_workflow_state).
NeverLiveUnasked == \A w \in Workflows : ~wf[w].shadow => w \in asked
=============================================================================
