------------------------- MODULE WorkflowPageProofs -------------------------
(***************************************************************************)
(* Theorems about the workflow editor and its handlers, for any number of  *)
(* workflows, clicks, visits and failures.                                 *)
(*                                                                         *)
(* A graph carries the workflow it was drawn for wherever it is: in the    *)
(* table, in an answer under way, on the page, in the editor and in a save *)
(* under way.  GraphInv follows it through all five; LiveInv follows the   *)
(* order to leave shadow from the click to the row.                        *)
(***************************************************************************)
EXTENDS WorkflowPage, TLAPS

SwitchRow == [enabled : BOOLEAN, shadow : BOOLEAN]
Budgets == [clicks : 0..MaxClicks, visits : Nat, fails : Nat]
Tables == [Workflows -> [graph : Graph, version : Nat, enabled : BOOLEAN, shadow : BOOLEAN]]
Details == [id : Workflows, version : Nat, graph : Graph]
Answers == [kind : {"list"}, rows : [Workflows -> SwitchRow]]
           \cup [kind : {"detail"}, rows : Details]
Puts == [id : Workflows, graph : Graph, read : Nat \cup {None}, mine : BOOLEAN, page : BOOLEAN]
Posts == [id : Workflows, enabled : BOOLEAN \cup {None}, shadow : BOOLEAN \cup {None},
          read : SwitchRow \cup {None}, page : BOOLEAN]

TypeInv ==
    /\ wf \in Tables
    /\ page \in [list : [Workflows -> SwitchRow] \cup {None}, current : Workflows \cup {None},
                 detail : Details \cup {None}, error : BOOLEAN]
    /\ editor \in [open : BOOLEAN, nodes : Graph \cup {None}, dirty : BOOLEAN, saving : BOOLEAN]
    /\ flight \subseteq Answers
    /\ puts \subseteq Puts
    /\ posts \subseteq Posts
    /\ budget \in Budgets
    /\ page.list # None => page.current # None
    /\ asked \subseteq Workflows

\* The graph of every answer, of the page, of the editor and of every save is that
\* of the workflow it is named with.
GraphInv ==
    /\ SavesOwnGraph
    /\ \A q \in flight : q.kind = "detail" => q.rows.graph.for = q.rows.id
    /\ page.detail # None => page.detail.graph.for = page.detail.id
    /\ editor.open => page.detail # None /\ editor.nodes \in Graph
                      /\ editor.nodes.for = page.detail.id
    /\ \A p \in puts : p.graph.for = p.id

\* A request that leaves shadow was agreed to, and so was what it has read.
LiveInv ==
    /\ NeverLiveUnasked
    /\ \A p \in posts :
        /\ p.shadow # None /\ p.shadow = FALSE => p.id \in asked
        /\ p.read # None /\ p.read.shadow = FALSE => p.id \in asked

IInv == TypeInv /\ GraphInv /\ LiveInv

-----------------------------------------------------------------------------
(* Answers and renderings *)

\* Answers read from a table of own graphs.
LEMMA ReloadIsOwn ==
    ASSUME NEW table \in Tables, NEW w \in Workflows \cup {None},
           \A v \in Workflows : table[v].graph.for = v
    PROVE  /\ Reload(table, w) \subseteq Answers
           /\ \A q \in Reload(table, w) : q.kind = "detail" => q.rows.graph.for = q.rows.id
PROOF
<1>1. ListAnswer(table) \in [kind : {"list"}, rows : [Workflows -> SwitchRow]]
  BY DEF ListAnswer, Switches, SwitchRow, Tables
<1>2. ASSUME w # None
      PROVE  /\ DetailAnswer(table, w) \in [kind : {"detail"}, rows : Details]
             /\ DetailAnswer(table, w).rows.graph.for = DetailAnswer(table, w).rows.id
  BY <1>2 DEF DetailAnswer, Details, Tables
<1> QED
  BY <1>1, <1>2 DEF Reload, Answers

LEMMA AnswerIsOwn ==
    ASSUME TypeInv, SavesOwnGraph, NEW w \in Workflows
    PROVE  /\ DetailAnswer(wf, w) \in Answers
           /\ DetailAnswer(wf, w).rows.graph.for = DetailAnswer(wf, w).rows.id
BY DEF DetailAnswer, Details, Answers, Tables, TypeInv, SavesOwnGraph

\* What a save leaves in the editor's hands.
LEMMA OrphansKeep ==
    ASSUME TypeInv, GraphInv, NEW e
    PROVE  Orphaned(e) \subseteq Puts /\ \A p \in Orphaned(e) : p.graph.for = p.id
PROOF
<1>1. ASSUME NEW p \in puts
      PROVE  [p EXCEPT !.mine = FALSE] \in Puts
             /\ [p EXCEPT !.mine = FALSE].graph.for = [p EXCEPT !.mine = FALSE].id
  BY <1>1 DEF TypeInv, Tables, GraphInv, Puts
<1>2. CASE editor.open /\ ~e.open
  BY <1>1, <1>2 DEF Orphaned
<1>3. CASE ~(editor.open /\ ~e.open)
  <2>1. Orphaned(e) = puts
    BY <1>3 DEF Orphaned
  <2> QED
    BY <2>1 DEF TypeInv, Tables, GraphInv
<1> QED
  BY <1>2, <1>3

\* The editor holds the graph of the page's detail after every render.
LEMMA RenderIsOwn ==
    ASSUME TypeInv, GraphInv, NEW p, NEW changed \in BOOLEAN,
           p.detail \in Details \cup {None},
           p.detail # None => p.detail.graph.for = p.detail.id,
           page.detail # None /\ ~changed => p.detail # None /\ p.detail.id = page.detail.id
    PROVE  LET e == Rendered(p, changed)
           IN  /\ e \in [open : BOOLEAN, nodes : Graph \cup {None}, dirty : BOOLEAN, saving : BOOLEAN]
               /\ e.open => p.detail # None /\ e.nodes \in Graph /\ e.nodes.for = p.detail.id
PROOF
<1> DEFINE E == [open : BOOLEAN, nodes : Graph \cup {None}, dirty : BOOLEAN, saving : BOOLEAN]
<1>1. NoEditor \in E /\ ~NoEditor.open
  BY DEF NoEditor
<1>2. ASSUME NEW e \in E, p.detail # None
      PROVE  TakeOver(e, p.detail) \in E /\ TakeOver(e, p.detail).nodes = p.detail.graph
             /\ p.detail.graph \in Graph
  BY <1>2 DEF TakeOver, Details
<1>3. editor \in E
  BY DEF TypeInv, Tables
<1> QED
  BY <1>1, <1>2, <1>3 DEF Rendered, GraphInv

-----------------------------------------------------------------------------
(* The invariant *)

LEMMA InitInv == ASSUME WorkflowAssumption, BoundAssumption PROVE Init => IInv
PROOF
<1> SUFFICES ASSUME Init PROVE IInv
  OBVIOUS
<1>1. budget \in Budgets
  BY DEF Init, BoundAssumption, Budgets
<1>2. TypeInv
  BY <1>1 DEF Init, TypeInv, Tables, NoPage, NoEditor, Drawn, Graph, BoundAssumption, Graph
<1>3. GraphInv
  BY DEF Init, GraphInv, SavesOwnGraph, NoPage, NoEditor, Drawn
<1>4. LiveInv
  BY DEF Init, LiveInv, NeverLiveUnasked
<1> QED
  BY <1>2, <1>3, <1>4 DEF IInv

LEMMA ReadingStep ==
    ASSUME WorkflowAssumption, IInv, NEW q \in flight,
           (\E w \in Workflows : ListArrives(q, w)) \/ DetailArrives(q) \/ ReadFails(q)
    PROVE  IInv'
PROOF
<1> USE DEF IInv
<1>1. q \in Answers
  BY DEF TypeInv, Tables
<1>2. UNCHANGED <<wf, posts, asked>>
  BY DEF ListArrives, DetailArrives, ReadFails
<1>3. LiveInv' /\ SavesOwnGraph'
  BY <1>2 DEF LiveInv, NeverLiveUnasked, GraphInv, SavesOwnGraph
<1>4. ASSUME NEW w \in Workflows, ListArrives(q, w) PROVE TypeInv' /\ GraphInv'
  <2> DEFINE p == [page EXCEPT !.list = q.rows, !.current = IF @ = None THEN w ELSE @]
  <2>1. /\ page' = p /\ editor' = Rendered(p, TRUE) /\ puts' = Orphaned(editor')
        /\ flight' \subseteq (flight \ {q}) \cup {DetailAnswer(wf, w)}
        /\ UNCHANGED budget
    BY <1>4 DEF ListArrives
  <2>2. q.rows \in [Workflows -> SwitchRow]
    BY <1>1, <1>4 DEF ListArrives, Answers
  <2>3. p \in [list : [Workflows -> SwitchRow] \cup {None}, current : Workflows \cup {None},
               detail : Details \cup {None}, error : BOOLEAN]
        /\ p.detail = page.detail /\ p.current # None
    BY <2>2 DEF TypeInv, Tables, WorkflowAssumption
  <2>4. /\ editor' \in [open : BOOLEAN, nodes : Graph \cup {None}, dirty : BOOLEAN, saving : BOOLEAN]
        /\ editor'.open => p.detail # None /\ editor'.nodes \in Graph /\ editor'.nodes.for = p.detail.id
    BY <2>1, <2>3, RenderIsOwn DEF TypeInv, Tables, GraphInv
  <2>5. flight' \subseteq Answers /\ \A a \in flight' : a.kind = "detail" => a.rows.graph.for = a.rows.id
    BY <2>1, AnswerIsOwn DEF TypeInv, Tables, GraphInv
  <2>6. puts' \subseteq Puts /\ \A a \in puts' : a.graph.for = a.id
    BY <2>1, OrphansKeep
  <2>7. TypeInv'
    BY <1>2, <2>1, <2>3, <2>4, <2>5, <2>6 DEF TypeInv, Tables
  <2> QED
    BY <1>3, <2>1, <2>3, <2>4, <2>5, <2>6, <2>7 DEF GraphInv
<1>5. CASE DetailArrives(q)
  <2> DEFINE p == [page EXCEPT !.detail = q.rows]
             changed == \/ page.detail = None
                        \/ page.detail.id # q.rows.id
                        \/ page.detail.version # q.rows.version
  <2>1. /\ page' = p /\ editor' = Rendered(p, changed) /\ puts' = Orphaned(editor')
        /\ flight' = flight \ {q} /\ UNCHANGED budget
    BY <1>5 DEF DetailArrives
  <2>2. q.rows \in Details /\ q.rows.graph.for = q.rows.id
    BY <1>1, <1>5 DEF DetailArrives, Answers, GraphInv
  <2>3. p \in [list : [Workflows -> SwitchRow] \cup {None}, current : Workflows \cup {None},
               detail : Details \cup {None}, error : BOOLEAN]
        /\ p.detail = q.rows /\ p.current = page.current /\ p.list = page.list
    BY <2>2 DEF TypeInv, Tables
  <2>4. /\ editor' \in [open : BOOLEAN, nodes : Graph \cup {None}, dirty : BOOLEAN, saving : BOOLEAN]
        /\ editor'.open => p.detail # None /\ editor'.nodes \in Graph /\ editor'.nodes.for = p.detail.id
    <3>1. page.detail # None /\ ~changed => p.detail.id = page.detail.id
      BY <2>3
    <3>2. changed \in BOOLEAN
      OBVIOUS
    <3>3. CASE p.detail # None
      <4> HIDE DEF changed, p
      <4> QED
        BY <2>1, <2>2, <2>3, <3>1, <3>2, <3>3, RenderIsOwn
    <3>4. CASE p.detail = None
      BY <2>1, <3>4 DEF Rendered, NoEditor
    <3> QED
      BY <3>3, <3>4
  <2>5. puts' \subseteq Puts /\ \A a \in puts' : a.graph.for = a.id
    BY <2>1, OrphansKeep
  <2>6. TypeInv'
    BY <1>2, <2>1, <2>3, <2>4, <2>5 DEF TypeInv, Tables
  <2> QED
    BY <1>3, <2>1, <2>2, <2>3, <2>4, <2>5, <2>6 DEF GraphInv
<1>6. CASE ReadFails(q)
  <2>1. puts' \subseteq Puts /\ \A a \in puts' : a.graph.for = a.id
    BY <1>6, OrphansKeep DEF ReadFails
  <2>2. budget' \in Budgets
    BY <1>6 DEF ReadFails, TypeInv, Budgets
  <2>3. TypeInv'
    BY <1>2, <1>6, <2>1, <2>2 DEF ReadFails, TypeInv, NoEditor
  <2> QED
    BY <1>3, <1>6, <2>1, <2>3 DEF ReadFails, GraphInv, NoEditor, TypeInv
<1> QED
  BY <1>3, <1>4, <1>5, <1>6

LEMMA ClickStep ==
    ASSUME WorkflowAssumption, BoundAssumption, IInv,
           OpenPage \/ ClosePage \/ SwitchTab \/ Edit \/ Save \/ \E w \in Workflows : Select(w)
    PROVE  IInv'
PROOF
<1> USE DEF IInv
<1>1. wf' = wf /\ asked' = asked
  BY DEF OpenPage, ClosePage, SwitchTab, Edit, Save, Select
<1>2. SavesOwnGraph' /\ NeverLiveUnasked'
  BY <1>1 DEF GraphInv, SavesOwnGraph, LiveInv, NeverLiveUnasked
<1>3. ASSUME NEW p \in puts
      PROVE  /\ p \in Puts /\ p.graph.for = p.id
             /\ [p EXCEPT !.mine = FALSE] \in Puts
             /\ [p EXCEPT !.mine = FALSE].graph.for = p.id /\ [p EXCEPT !.mine = FALSE].id = p.id
             /\ [p EXCEPT !.mine = FALSE, !.page = FALSE] \in Puts
             /\ [p EXCEPT !.mine = FALSE, !.page = FALSE].graph.for = p.id
             /\ [p EXCEPT !.mine = FALSE, !.page = FALSE].id = p.id
  BY <1>3 DEF TypeInv, Tables, GraphInv, Puts
<1>4. ASSUME budget.clicks > 0 PROVE [budget EXCEPT !.clicks = @ - 1] \in Budgets
  BY <1>4 DEF TypeInv, Tables, Budgets, BoundAssumption
<1>5. CASE OpenPage
  <2>1. flight' = Reload(wf, None) /\ UNCHANGED <<page, editor, puts, posts>>
        /\ budget' \in Budgets
    BY <1>5 DEF OpenPage, TypeInv, Budgets
  <2>2. flight' \subseteq Answers /\ \A q \in flight' : q.kind = "detail" => q.rows.graph.for = q.rows.id
    BY <2>1, ReloadIsOwn DEF GraphInv, TypeInv, SavesOwnGraph
  <2> QED
    BY <1>1, <1>2, <2>1, <2>2 DEF TypeInv, Tables, GraphInv, LiveInv
<1>6. CASE ClosePage
  <2>1. /\ page' = NoPage /\ editor' = NoEditor /\ flight' = {} /\ UNCHANGED budget
        /\ puts' = {[p EXCEPT !.mine = FALSE, !.page = FALSE] : p \in puts}
        /\ posts' = {[p EXCEPT !.page = FALSE] : p \in posts}
    BY <1>6 DEF ClosePage
  <2>2. puts' \subseteq Puts /\ \A p \in puts' : p.graph.for = p.id
    BY <1>3, <2>1
  <2>3. ASSUME NEW p \in posts
        PROVE  /\ [p EXCEPT !.page = FALSE] \in Posts
               /\ [p EXCEPT !.page = FALSE].id = p.id
               /\ [p EXCEPT !.page = FALSE].shadow = p.shadow
               /\ [p EXCEPT !.page = FALSE].read = p.read
    BY <2>3 DEF TypeInv, Tables, Posts
  <2>4. posts' \subseteq Posts
    BY <2>1, <2>3
  <2>5. page' \in [list : [Workflows -> SwitchRow] \cup {None}, current : Workflows \cup {None},
                  detail : Details \cup {None}, error : BOOLEAN] /\ page'.list = None
    BY <2>1 DEF NoPage
  <2>6. editor' \in [open : BOOLEAN, nodes : Graph \cup {None}, dirty : BOOLEAN, saving : BOOLEAN]
    BY <2>1 DEF NoEditor
  <2>7. TypeInv'
    BY <1>1, <2>1, <2>2, <2>4, <2>5, <2>6 DEF TypeInv, Tables
  <2>8. GraphInv'
    BY <1>2, <2>1, <2>2 DEF GraphInv, NoPage, NoEditor
  <2>9. ASSUME NEW r \in posts'
         PROVE  \E p \in posts : r.id = p.id /\ r.shadow = p.shadow /\ r.read = p.read
    BY <2>1, <2>3
  <2>10. LiveInv'
    BY <1>1, <1>2, <2>9 DEF LiveInv
  <2> QED
    BY <2>7, <2>8, <2>10
<1>7. CASE SwitchTab
  <2>1. /\ editor' = TakeOver(NoEditor, page.detail) /\ UNCHANGED <<page, flight, posts>>
        /\ puts' = {[p EXCEPT !.mine = FALSE] : p \in puts}
        /\ budget' \in Budgets
    BY <1>4, <1>7 DEF SwitchTab
  <2>2. puts' \subseteq Puts /\ \A p \in puts' : p.graph.for = p.id
    BY <1>3, <2>1
  <2>3. page.detail \in Details /\ page.detail.graph.for = page.detail.id /\ page.detail # None
    BY <1>7 DEF SwitchTab, GraphInv, TypeInv
  <2>4. editor' = [open |-> TRUE, nodes |-> page.detail.graph, dirty |-> FALSE, saving |-> FALSE]
        /\ page.detail.graph \in Graph
    BY <2>1, <2>3 DEF TakeOver, NoEditor, Details
  <2>5. TypeInv'
    BY <1>1, <2>1, <2>2, <2>4 DEF TypeInv, Tables
  <2>6. GraphInv'
    BY <1>2, <2>1, <2>2, <2>3, <2>4 DEF GraphInv
  <2> QED
    BY <1>1, <1>2, <2>1, <2>5, <2>6 DEF LiveInv
<1>8. CASE Edit
  <2>1. /\ editor' = [editor EXCEPT !.nodes = Drawn(@.for, budget.clicks), !.dirty = TRUE]
        /\ UNCHANGED <<page, flight, puts, posts>>
        /\ budget' \in Budgets
    BY <1>4, <1>8 DEF Edit
  <2>2. editor.open /\ editor.nodes \in Graph /\ budget.clicks \in 0..MaxClicks
    BY <1>8 DEF Edit, GraphInv, TypeInv, Budgets, BoundAssumption
  <2>3. editor'.nodes \in Graph /\ editor'.nodes.for = editor.nodes.for /\ editor'.open = editor.open
        /\ editor' \in [open : BOOLEAN, nodes : Graph \cup {None}, dirty : BOOLEAN, saving : BOOLEAN]
    BY <2>1, <2>2 DEF Drawn, Graph, TypeInv
  <2> QED
    BY <1>1, <1>2, <2>1, <2>3 DEF TypeInv, Tables, GraphInv, LiveInv
<1>9. CASE Save
  <2> DEFINE p == [id |-> page.detail.id, graph |-> editor.nodes, read |-> None,
                   mine |-> TRUE, page |-> TRUE]
  <2>1. /\ editor' = [editor EXCEPT !.saving = TRUE] /\ puts' = puts \cup {p}
        /\ UNCHANGED <<page, flight, posts, budget>>
    BY <1>9 DEF Save
  <2>2. p \in Puts /\ p.graph.for = p.id
    BY <1>9 DEF Save, GraphInv, TypeInv, Puts, Details
  <2>3. /\ editor'.open = editor.open /\ editor'.nodes = editor.nodes
        /\ editor' \in [open : BOOLEAN, nodes : Graph \cup {None}, dirty : BOOLEAN, saving : BOOLEAN]
    BY <2>1 DEF TypeInv, Tables
  <2> HIDE DEF p
  <2> QED
    BY <1>1, <1>2, <2>1, <2>2, <2>3 DEF TypeInv, Tables, GraphInv, LiveInv
<1>10. ASSUME NEW w \in Workflows, Select(w) PROVE IInv'
  <2>1. /\ page' = [page EXCEPT !.current = w] /\ flight' = flight \cup {DetailAnswer(wf, w)}
        /\ UNCHANGED <<editor, puts, posts>> /\ budget' \in Budgets
        /\ page.list # None /\ w # page.current
    BY <1>4, <1>10 DEF Select
  <2>2. flight' \subseteq Answers /\ \A q \in flight' : q.kind = "detail" => q.rows.graph.for = q.rows.id
    BY <2>1, AnswerIsOwn DEF TypeInv, Tables, GraphInv
  <2>3. page'.detail = page.detail /\ page'.list = page.list /\ page'.current = w
        /\ page' \in [list : [Workflows -> SwitchRow] \cup {None}, current : Workflows \cup {None},
                      detail : Details \cup {None}, error : BOOLEAN]
    BY <2>1 DEF TypeInv, Tables
  <2> QED
    BY <1>1, <1>2, <2>1, <2>2, <2>3 DEF TypeInv, Tables, GraphInv, LiveInv, WorkflowAssumption
<1> QED
  BY <1>5, <1>6, <1>7, <1>8, <1>9, <1>10

LEMMA SaveStep ==
    ASSUME WorkflowAssumption, IInv, NEW p \in puts, ReadVersion(p) \/ StoreGraph(p) \/ SaveFails(p)
    PROVE  IInv'
PROOF
<1> USE DEF IInv
<1> DEFINE E == [open : BOOLEAN, nodes : Graph \cup {None}, dirty : BOOLEAN, saving : BOOLEAN]
           B == Budgets
<1>1. p \in Puts /\ p.graph.for = p.id
  BY DEF TypeInv, Tables, GraphInv
<1>2. UNCHANGED <<page, posts, asked>>
  BY DEF ReadVersion, StoreGraph, SaveFails
<1>3. ASSUME p.read # None
      PROVE  /\ Stored(p) \in Tables
             /\ \A w \in Workflows : Stored(p)[w].graph.for = w
             /\ \A w \in Workflows : Stored(p)[w].shadow = wf[w].shadow
  <2> DEFINE row == [wf[p.id] EXCEPT !.graph = p.graph, !.version = p.read + 1]
  <2>1. p.id \in Workflows /\ p.read \in Nat /\ p.graph \in Graph
    BY <1>1, <1>3 DEF Puts
  <2>2. row \in [graph : Graph, version : Nat, enabled : BOOLEAN, shadow : BOOLEAN]
        /\ row.graph.for = p.id /\ row.shadow = wf[p.id].shadow
    <3>1. wf[p.id] \in [graph : Graph, version : Nat, enabled : BOOLEAN, shadow : BOOLEAN]
      BY <2>1 DEF TypeInv, Tables
    <3>2. p.read + 1 \in Nat
      BY <2>1
    <3> QED
      BY <1>1, <2>1, <3>1, <3>2
  <2>3. Stored(p) = [wf EXCEPT ![p.id] = row]
    BY <2>1 DEF Stored, TypeInv
  <2> HIDE DEF row
  <2> QED
    BY <2>1, <2>2, <2>3 DEF TypeInv, Tables, GraphInv, SavesOwnGraph
<1>4. wf' \in Tables
      /\ (\A w \in Workflows : wf'[w].graph.for = w)
      /\ (\A w \in Workflows : wf'[w].shadow = wf[w].shadow)
  BY <1>3 DEF ReadVersion, StoreGraph, SaveFails, TypeInv, GraphInv, SavesOwnGraph
<1>5. LiveInv' /\ SavesOwnGraph'
  BY <1>2, <1>4 DEF LiveInv, NeverLiveUnasked, SavesOwnGraph
<1>6. editor' \in E /\ editor'.open = editor.open /\ editor'.nodes = editor.nodes
  BY DEF ReadVersion, StoreGraph, SaveFails, Saved, TypeInv
<1>7. budget' \in B
  BY DEF ReadVersion, StoreGraph, SaveFails, TypeInv, Budgets
<1>8. puts' \subseteq Puts /\ \A a \in puts' : a.graph.for = a.id
  <2>1. [p EXCEPT !.read = wf[p.id].version] \in Puts
        /\ [p EXCEPT !.read = wf[p.id].version].graph.for = [p EXCEPT !.read = wf[p.id].version].id
    BY <1>1 DEF Puts, Tables, TypeInv
  <2> QED
    BY <2>1 DEF ReadVersion, StoreGraph, SaveFails, TypeInv, GraphInv
<1>9. flight' \subseteq Answers /\ \A a \in flight' : a.kind = "detail" => a.rows.graph.for = a.rows.id
  <2>1. CASE StoreGraph(p) /\ p.page
    <3>1. flight' = flight \cup Reload(wf', page.current)
      BY <2>1 DEF StoreGraph
    <3>2. page.current \in Workflows \cup {None}
      BY DEF TypeInv, Tables
    <3>3. /\ Reload(wf', page.current) \subseteq Answers
          /\ \A q \in Reload(wf', page.current) : q.kind = "detail" => q.rows.graph.for = q.rows.id
      BY <1>4, <3>2, ReloadIsOwn
    <3> QED
      BY <3>1, <3>3 DEF TypeInv, Tables, GraphInv
  <2>2. CASE flight' = flight
    BY <2>2 DEF TypeInv, Tables, GraphInv
  <2> QED
    BY <1>1, <2>1, <2>2 DEF ReadVersion, StoreGraph, SaveFails
<1>10. TypeInv'
  BY <1>2, <1>4, <1>6, <1>7, <1>8, <1>9 DEF TypeInv, Tables
<1>11. GraphInv'
  BY <1>2, <1>5, <1>6, <1>8, <1>9 DEF GraphInv
<1> QED
  BY <1>5, <1>10, <1>11

LEMMA SwitchingStep ==
    ASSUME WorkflowAssumption, IInv, NEW p \in posts,
           ReadSwitches(p) \/ StoreSwitches(p) \/ SwitchFails(p)
    PROVE  IInv'
PROOF
<1> USE DEF IInv
<1>1. p \in Posts /\ p.id \in Workflows
  BY DEF TypeInv, Posts
<1>2. UNCHANGED <<page, editor, puts, asked>>
  BY DEF ReadSwitches, StoreSwitches, SwitchFails
<1>3. ASSUME p.read # None
      PROVE  /\ Switched(p) \in Tables
             /\ \A w \in Workflows : Switched(p)[w].graph = wf[w].graph
             /\ \A w \in Workflows : Switched(p)[w].shadow = FALSE => w \in asked
  <2>1. Patched(p).enabled \in BOOLEAN /\ Patched(p).shadow \in BOOLEAN
    BY <1>1, <1>3 DEF Patched, Posts, SwitchRow
  <2>2. Patched(p).shadow = FALSE => p.id \in asked
    BY <1>3 DEF Patched, LiveInv
  <2> DEFINE row == [wf[p.id] EXCEPT !.enabled = Patched(p).enabled, !.shadow = Patched(p).shadow]
  <2>3. row \in [graph : Graph, version : Nat, enabled : BOOLEAN, shadow : BOOLEAN]
        /\ row.graph = wf[p.id].graph /\ row.shadow = Patched(p).shadow
    BY <1>1, <2>1 DEF TypeInv, Tables
  <2>4. Switched(p) = [wf EXCEPT ![p.id] = row]
    BY <1>1 DEF Switched, TypeInv, Tables
  <2>5. \A w \in Workflows : wf[w].shadow = FALSE => w \in asked
    BY DEF LiveInv, NeverLiveUnasked
  <2> HIDE DEF row
  <2> QED
    BY <1>1, <2>2, <2>3, <2>4, <2>5 DEF TypeInv, Tables
<1>4. /\ wf' \in Tables
      /\ \A w \in Workflows : wf'[w].graph = wf[w].graph
      /\ \A w \in Workflows : wf'[w].shadow = FALSE => w \in asked
  <2>1. \A w \in Workflows : wf[w].shadow = FALSE => w \in asked
    BY DEF LiveInv, NeverLiveUnasked
  <2> QED
    BY <1>3, <2>1 DEF ReadSwitches, StoreSwitches, SwitchFails, TypeInv
<1>5. SavesOwnGraph' /\ NeverLiveUnasked'
  BY <1>2, <1>4 DEF GraphInv, SavesOwnGraph, NeverLiveUnasked, Tables
<1>6. budget' \in Budgets
  BY DEF ReadSwitches, StoreSwitches, SwitchFails, TypeInv, Budgets
<1>7. /\ posts' \subseteq Posts
      /\ \A a \in posts' :
          /\ a.shadow # None /\ a.shadow = FALSE => a.id \in asked
          /\ a.read # None /\ a.read.shadow = FALSE => a.id \in asked
  <2> DEFINE r == Switches(wf[p.id])
             q == [p EXCEPT !.read = r]
  <2>1. r \in SwitchRow /\ r.shadow = wf[p.id].shadow
    BY <1>1 DEF Switches, SwitchRow, TypeInv, Tables
  <2>2. r.shadow = FALSE => p.id \in asked
    BY <1>1, <2>1 DEF LiveInv, NeverLiveUnasked
  <2> HIDE DEF r
  <2>3. q \in Posts /\ q.id = p.id /\ q.shadow = p.shadow /\ q.read = r
    BY <1>1, <2>1 DEF Posts
  <2> HIDE DEF q
  <2>4. posts' \subseteq posts \cup {q}
    BY DEF q, r, ReadSwitches, StoreSwitches, SwitchFails
  <2> QED
    BY <2>2, <2>3, <2>4 DEF TypeInv, LiveInv
<1>8. flight' \subseteq Answers /\ \A a \in flight' : a.kind = "detail" => a.rows.graph.for = a.rows.id
  <2>1. CASE StoreSwitches(p) /\ p.page
    <3>1. flight' = flight \cup Reload(wf', page.current)
      BY <2>1 DEF StoreSwitches
    <3>2. /\ Reload(wf', page.current) \subseteq Answers
          /\ \A q \in Reload(wf', page.current) : q.kind = "detail" => q.rows.graph.for = q.rows.id
      BY <1>4, <1>5, ReloadIsOwn DEF TypeInv, SavesOwnGraph
    <3> QED
      BY <3>1, <3>2 DEF TypeInv, GraphInv
  <2>2. CASE flight' = flight
    BY <2>2 DEF TypeInv, GraphInv
  <2> QED
    BY <1>1, <2>1, <2>2 DEF ReadSwitches, StoreSwitches, SwitchFails
<1>9. TypeInv'
  BY <1>2, <1>4, <1>6, <1>7, <1>8 DEF TypeInv
<1>10. GraphInv'
  BY <1>2, <1>5, <1>8 DEF GraphInv
<1>11. LiveInv'
  <2>1. NeverLiveUnasked'
    BY <1>5
  <2>2. asked' = asked
    BY <1>2
  <2> QED
    BY <1>7, <2>1, <2>2 DEF LiveInv
<1> QED
  BY <1>9, <1>10, <1>11

\* The three buttons: only the one that goes live leaves shadow, and it has asked.
LEMMA OrderStep ==
    ASSUME WorkflowAssumption, BoundAssumption, IInv, ToggleEnabled \/ GoLive \/ BackToShadow
    PROVE  IInv'
PROOF
<1> USE DEF IInv
<1>1. page.current \in Workflows /\ budget.clicks > 0
  <2>1. CanSwitch
    BY DEF ToggleEnabled, GoLive, BackToShadow
  <2> QED
    BY <2>1 DEF CanSwitch, TypeInv
<1>2. PICK en \in BOOLEAN \cup {None}, sh \in BOOLEAN \cup {None} :
         Switch(en, sh) /\ (sh # None /\ sh = FALSE => page.current \in asked')
  <2>1. CASE ToggleEnabled
    <3>1. (~page.list[page.current].enabled) \in BOOLEAN
      OBVIOUS
    <3> QED
      BY <2>1, <3>1 DEF ToggleEnabled
  <2>2. CASE GoLive
    BY <2>2 DEF GoLive
  <2>3. CASE BackToShadow
    BY <2>3 DEF BackToShadow
  <2> QED
    BY <2>1, <2>2, <2>3
<1> DEFINE p == [id |-> page.current, enabled |-> en, shadow |-> sh, read |-> None, page |-> TRUE]
<1>3. posts' = posts \cup {p} /\ UNCHANGED <<wf, page, editor, flight, puts>>
      /\ budget' = [budget EXCEPT !.clicks = @ - 1]
  BY <1>2 DEF Switch
<1>4. asked \subseteq asked' /\ asked' \subseteq asked \cup {page.current}
  BY DEF ToggleEnabled, GoLive, BackToShadow
<1>5. p \in Posts /\ p.id = page.current /\ p.shadow = sh /\ p.read = None
  BY <1>1 DEF Posts
<1> HIDE DEF p
<1>6. budget' \in Budgets
  BY <1>1, <1>3 DEF TypeInv, Budgets, BoundAssumption
<1>7. TypeInv'
  BY <1>1, <1>3, <1>4, <1>5, <1>6 DEF TypeInv
<1>8. GraphInv'
  BY <1>3 DEF GraphInv, SavesOwnGraph
<1>9. LiveInv'
  BY <1>2, <1>3, <1>4, <1>5 DEF LiveInv, NeverLiveUnasked
<1> QED
  BY <1>7, <1>8, <1>9

LEMMA StepInv == ASSUME WorkflowAssumption, BoundAssumption PROVE IInv /\ [Next]_vars => IInv'
PROOF
<1> SUFFICES ASSUME IInv, [Next]_vars PROVE IInv'
  OBVIOUS
<1>1. CASE UNCHANGED vars
  BY <1>1 DEF vars, IInv, TypeInv, GraphInv, LiveInv, SavesOwnGraph, NeverLiveUnasked
<1> QED
  BY <1>1, ReadingStep, ClickStep, SaveStep, SwitchingStep, OrderStep DEF Next

\* The editor says that it is saving while a save of its own is under way.
SavingInv ==
    /\ editor.saving <=> \E p \in puts : p.mine
    /\ \A p, q \in puts : p.mine /\ q.mine => p = q
    /\ editor.saving => editor.open

LEMMA SavingStep ==
    ASSUME IInv, SavingInv, [Next]_vars
    PROVE  SavingInv'
PROOF
<1>1. editor \in [open : BOOLEAN, nodes : Graph \cup {None}, dirty : BOOLEAN, saving : BOOLEAN]
      /\ puts \subseteq Puts
  BY DEF IInv, TypeInv
<1>2. CASE UNCHANGED <<editor, puts>>
  BY <1>2 DEF SavingInv
<1>3. CASE ~editor'.saving /\ \A p \in puts' : ~p.mine
  BY <1>3 DEF SavingInv
<1>4. ASSUME NEW p \in puts PROVE ~[p EXCEPT !.mine = FALSE].mine
  BY <1>1 DEF Puts
<1>5. ASSUME NEW p, NEW changed, editor' = Rendered(p, changed), puts' = Orphaned(editor')
      PROVE  SavingInv'
  <2>1. CASE editor.open /\ editor'.open
    <3>1. puts' = puts
      BY <1>5, <2>1 DEF Orphaned
    <3>2. editor' = editor \/ editor' = TakeOver(editor, p.detail)
      BY <1>5, <2>1 DEF Rendered, NoEditor
    <3>3. editor'.saving = editor.saving
      BY <1>1, <3>2 DEF TakeOver
    <3> QED
      BY <2>1, <3>1, <3>3 DEF SavingInv
  <2>2. CASE editor.open /\ ~editor'.open
    <3>1. puts' = {[q EXCEPT !.mine = FALSE] : q \in puts}
      BY <1>5, <2>2 DEF Orphaned
    <3>2. editor' = NoEditor
      BY <1>1, <1>5, <2>2 DEF Rendered, TakeOver
    <3> QED
      BY <1>3, <1>4, <3>1, <3>2 DEF NoEditor
  <2>3. CASE ~editor.open
    <3>1. puts' = puts
      BY <1>5, <2>3 DEF Orphaned
    <3>2. ~editor'.saving
      BY <1>5, <2>3 DEF Rendered, TakeOver, NoEditor
    <3> QED
      BY <1>3, <2>3, <3>1, <3>2 DEF SavingInv
  <2> QED
    BY <2>1, <2>2, <2>3
<1>6. ASSUME NEW q \in flight,
             (\E w \in Workflows : ListArrives(q, w)) \/ DetailArrives(q) \/ ReadFails(q)
      PROVE  SavingInv'
  <2>1. CASE ReadFails(q)
    <3>1. editor' = NoEditor /\ puts' = Orphaned(editor')
      BY <2>1 DEF ReadFails
    <3>2. editor' = Rendered([error |-> TRUE], TRUE)
      BY <3>1 DEF Rendered
    <3> QED
      BY <1>5, <3>1, <3>2
  <2> QED
    BY <1>5, <1>6, <2>1 DEF ListArrives, DetailArrives
<1>7. CASE SwitchTab
  <2>1. editor' = TakeOver(NoEditor, page.detail) /\ puts' = {[p EXCEPT !.mine = FALSE] : p \in puts}
    BY <1>7 DEF SwitchTab
  <2>2. ~editor'.saving
    BY <2>1 DEF TakeOver, NoEditor
  <2> QED
    BY <1>3, <1>4, <2>1, <2>2
<1>12. CASE ClosePage
  <2>1. /\ editor' = NoEditor
        /\ puts' = {[p EXCEPT !.mine = FALSE, !.page = FALSE] : p \in puts}
    BY <1>12 DEF ClosePage
  <2>2. \A p \in puts : ~[p EXCEPT !.mine = FALSE, !.page = FALSE].mine
    BY <1>1 DEF Puts
  <2>3. ~editor'.saving
    BY <2>1 DEF NoEditor
  <2> QED
    BY <1>3, <2>1, <2>2, <2>3
<1>8. CASE Edit
  BY <1>1, <1>8 DEF Edit, SavingInv
<1>9. CASE Save
  <2> DEFINE p == [id |-> page.detail.id, graph |-> editor.nodes, read |-> None,
                   mine |-> TRUE, page |-> TRUE]
  <2>1. p.mine /\ puts' = puts \cup {p} /\ editor' = [editor EXCEPT !.saving = TRUE]
        /\ editor.open /\ ~editor.saving
    BY <1>9 DEF Save
  <2>2. editor'.saving /\ editor'.open
    BY <1>1, <2>1
  <2> HIDE DEF p
  <2> QED
    BY <2>1, <2>2 DEF SavingInv
<1>10. ASSUME NEW p \in puts, ReadVersion(p) \/ StoreGraph(p) \/ SaveFails(p) PROVE SavingInv'
  <2>1. CASE ReadVersion(p)
    <3> DEFINE q == [p EXCEPT !.read = wf[p.id].version]
    <3>1. q.mine = p.mine
      BY <1>1 DEF Puts
    <3>2. puts' = (puts \ {p}) \cup {q} /\ editor' = editor
      BY <2>1 DEF ReadVersion
    <3> HIDE DEF q
    <3> QED
      BY <3>1, <3>2 DEF SavingInv
  <2>2. CASE StoreGraph(p) \/ SaveFails(p)
    <3>1. /\ puts' = puts \ {p}
          /\ p.mine => ~editor'.saving
          /\ ~p.mine => editor' = editor
      BY <1>1, <2>2 DEF StoreGraph, SaveFails, Saved
    <3> QED
      BY <3>1 DEF SavingInv
  <2> QED
    BY <1>10, <2>1, <2>2
<1>11. CASE OpenPage \/ (\E w \in Workflows : Select(w))
            \/ ToggleEnabled \/ GoLive \/ BackToShadow
            \/ (\E p \in posts : ReadSwitches(p) \/ StoreSwitches(p) \/ SwitchFails(p))
  BY <1>2, <1>11 DEF OpenPage, Select, ToggleEnabled, GoLive, BackToShadow, Switch,
     ReadSwitches, StoreSwitches, SwitchFails
<1> QED
  BY <1>2, <1>6, <1>7, <1>8, <1>9, <1>10, <1>11, <1>12 DEF Next, vars

LEMMA SavingInit == Init => SavingInv
BY DEF Init, SavingInv, NoEditor

LEMMA TypesFollow == IInv /\ SavingInv => TypeOK
BY DEF IInv, TypeInv, Tables, Details, SwitchRow, SavingInv, TypeOK, Row

LEMMA Invariance == ASSUME WorkflowAssumption, BoundAssumption PROVE Spec => []IInv
BY InitInv, StepInv, PTL DEF Spec

-----------------------------------------------------------------------------
(* Theorems *)

\* Every variable keeps its type, and the editor says that it is saving exactly
\* while a save of its own is under way, whatever became of the page.
THEOREM TypesHold == ASSUME WorkflowAssumption, BoundAssumption PROVE Spec => []TypeOK
PROOF
<1>1. Init => SavingInv
  BY SavingInit
<1>2. IInv /\ SavingInv /\ [Next]_vars => SavingInv'
  BY SavingStep
<1>3. IInv /\ SavingInv => TypeOK
  BY TypesFollow
<1> QED
  BY <1>1, <1>2, <1>3, Invariance, PTL DEF Spec

\* pages/automation.jsx:404-410 and 472-478: however selections, late answers, tab
\* changes and saves interleave, no workflow is stored with another one's graph.
THEOREM GraphsAreOwn == ASSUME WorkflowAssumption, BoundAssumption PROVE Spec => []SavesOwnGraph
PROOF
<1>1. IInv => SavesOwnGraph
  BY DEF IInv, GraphInv
<1> QED
  BY <1>1, Invariance, PTL

\* api/automation.py:214-243: whatever the page believed and whoever else switched
\* meanwhile, a workflow is out of shadow only if somebody agreed to that.
THEOREM LiveWasAsked == ASSUME WorkflowAssumption, BoundAssumption PROVE Spec => []NeverLiveUnasked
PROOF
<1>1. IInv => NeverLiveUnasked
  BY DEF IInv, LiveInv
<1> QED
  BY <1>1, Invariance, PTL
=============================================================================
