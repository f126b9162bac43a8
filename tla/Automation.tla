----------------------------- MODULE Automation -----------------------------
(***************************************************************************)
(* One remediation workflow: netmon/automation/runner.py, the guards that  *)
(* read its own history (G7, G8) and netmon/api/automation.py.             *)
(*                                                                         *)
(* The runner is one supervised coroutine.  A cycle resumes parked runs,   *)
(* expires proposals, and opens a run for each matching device that has    *)
(* none.  A run walks the graph node by node: a non-disruptive action goes *)
(* out to Milestone, a disruptive one becomes a proposal that operators    *)
(* decide through request handlers of their own.  The database is the only *)
(* state the two share; each of their statements is a transaction, and a   *)
(* step here is at most one statement that changes it.                     *)
(*                                                                         *)
(* What guards and predicates other than G7 and G8 read (reachability,     *)
(* maintenance, port memory, configuration) is not modelled: a branch may  *)
(* take either arm and any action may be refused.                          *)
(***************************************************************************)
EXTENDS Integers, FiniteSets

CONSTANTS
    Devices,
    Graphs,       \* workflow graphs that validate, see IsGraph
    Invalid,      \* a graph document that does not
    Requests,     \* operators' requests that can be in flight together
    None,         \* no node, no device
    FleetLimit,   \* [automation] fleet_rate_limit
    MaxRuns,      \* bound: runs opened
    MaxAdmin,     \* bound: edits of the workflow row
    MaxFaults     \* bound: crashes, cancelled cycles, database calls that raise

VARIABLES
    enabled,    \* workflows.enabled
    shadow,     \* workflows.shadow
    graph,      \* workflows.graph
    runs,       \* [Ids -> Run]: workflow_runs
    proposal,   \* [Ids -> Decisions]: the action_proposals row of the run
    overdue,    \* SUBSET Ids: proposals past expires_at
    sent,       \* SUBSET Ids: runs that have sent a call to Milestone
    runner,     \* the local variables of the runner's cycle
    op,         \* [Requests -> [pc, run]]: the handlers in flight
    budget      \* what is left of the bounds

vars == <<enabled, shadow, graph, runs, proposal, overdue, sent, runner, op, budget>>

Ids       == 1..MaxRuns
Live      == {"running", "waiting", "awaiting_approval"}
Statuses  == Live \cup {"none", "done", "refused"}
Decided   == {"executed", "dismissed", "failed", "expired"}
Decisions == Decided \cup {"none", "pending"}
Ages      == {"hour", "cooldown", "old"}
Kinds     == {"branch", "act", "propose", "wait", "alert", "stop"}
Nodes     == UNION {DOMAIN g.kind : g \in Graphs}
Locations == {"idle", "resume", "load", "scan", "walk", "asking", "sent"}
Handlers  == {"idle", "approving", "executed", "dismissing", "closing"}
Budgets   == {"admin", "faults"}

\* A graph: the node after the trigger and, per node, its kind and successors;
\* "no" is the false arm of a branch.
IsGraph(g) ==
    LET N == DOMAIN g.kind
    IN  /\ g.first \in N \cup {None}
        /\ g.kind \in [N -> Kinds]
        /\ g.next \in [N -> N \cup {None}]
        /\ g.no \in [N -> N \cup {None}]

ASSUME WorkflowAssumption ==
    /\ FleetLimit \in Nat \ {0}
    /\ MaxRuns \in Nat
    /\ Invalid \notin Graphs
    /\ None \notin Nodes \cup Devices
    /\ \A g \in Graphs : IsGraph(g)

ASSUME BoundAssumption ==
    /\ MaxAdmin \in Nat
    /\ MaxFaults \in Nat

\* age: started within the last hour, within per_device_cooldown_s (which is
\* longer), or before.  ripe: resume_at has passed.
Run == [status : Statuses, dev : Devices \cup {None}, shadow : BOOLEAN,
        cursor : Nodes \cup {None}, ripe : BOOLEAN, age : Ages]

Runner == [pc : Locations, due : SUBSET Ids, enabled : BOOLEAN, shadow : BOOLEAN,
           graph : Graphs \cup {Invalid}, todo : SUBSET Devices,
           back : {"resume", "scan"}, run : Ids \cup {0}, node : Nodes \cup {None},
           outcome : {"done", "refused", "waiting", "awaiting_approval"},
           cursor : Nodes \cup {None}, hour : SUBSET Ids, cool : SUBSET Ids]

NoRun == [status |-> "none", dev |-> None, shadow |-> TRUE, cursor |-> None,
          ripe |-> FALSE, age |-> "hour"]

Resting == [pc |-> "idle", due |-> {}, enabled |-> FALSE, shadow |-> TRUE,
            graph |-> Invalid, todo |-> {}, back |-> "scan", run |-> 0, node |-> None,
            outcome |-> "done", cursor |-> None, hour |-> {}, cool |-> {}]

Spend(what) == budget[what] > 0 /\ budget' = [budget EXCEPT ![what] = @ - 1]

\* A workflow is created off and in shadow.
Init ==
    /\ enabled = FALSE
    /\ shadow = TRUE
    /\ graph \in Graphs
    /\ runs = [i \in Ids |-> NoRun]
    /\ proposal = [i \in Ids |-> "none"]
    /\ overdue = {}
    /\ sent = {}
    /\ runner = Resting
    /\ op = [q \in Requests |-> [pc |-> "idle", run |-> 0]]
    /\ budget = [what \in Budgets |-> IF what = "admin" THEN MaxAdmin ELSE MaxFaults]

row == <<enabled, shadow, graph>>

-----------------------------------------------------------------------------
(* The cycle *)

Opened    == {i \in Ids : runs[i].status # "none"}
Recent(ages) == {i \in Opened : runs[i].age \in ages}

\* Mutant of DueRuns: the join leaves out runs of a disabled workflow.
MutantDueRuns == {i \in Ids : enabled /\ runs[i].status = "waiting" /\ runs[i].ripe}

\* The runs whose wait has elapsed.
DueRuns == {i \in Ids : runs[i].status = "waiting" /\ runs[i].ripe}

\* run_once, _resume_due: read the due runs with their workflow's row.
BeginCycle ==
    /\ runner.pc = "idle"
    /\ runner' = [runner EXCEPT !.pc = "resume", !.due = DueRuns,
                                !.enabled = enabled, !.graph = graph]
    /\ UNCHANGED <<row, runs, proposal, overdue, sent, op, budget>>

Resumable(i) ==
    /\ runner.enabled
    /\ runner.graph # Invalid
    /\ runs[i].cursor \in DOMAIN runner.graph.kind

\* _abandon: disabled, no longer valid, or the node is gone.
Abandon(i) ==
    /\ runner.pc = "resume"
    /\ i \in runner.due
    /\ ~ Resumable(i)
    /\ runs' = [runs EXCEPT ![i].status = "done", ![i].cursor = None, ![i].ripe = FALSE]
    /\ runner' = [runner EXCEPT !.due = @ \ {i}]
    /\ UNCHANGED <<row, proposal, overdue, sent, op, budget>>

\* Start walking run i at node n: Context.build takes the time the guards use.
Walk(i, n, isShadow, from) ==
    [runner EXCEPT !.pc = "walk", !.back = from, !.run = i, !.node = n,
                   !.shadow = isShadow, !.outcome = "done", !.cursor = None,
                   !.hour = Recent({"hour"}), !.cool = Recent({"hour", "cooldown"})]

\* Mutant of Resume: the walk takes the workflow's shadow flag, not the run's.
MutantResume(i) ==
    /\ runner.pc = "resume"
    /\ i \in runner.due
    /\ Resumable(i)
    /\ runs' = [runs EXCEPT ![i].status = "running", ![i].cursor = None, ![i].ripe = FALSE]
    /\ runner' = [Walk(i, runs[i].cursor, shadow, "resume") EXCEPT !.due = @ \ {i}]
    /\ UNCHANGED <<row, proposal, overdue, sent, op, budget>>

\* _continue: the run goes on from its cursor.
Resume(i) ==
    /\ runner.pc = "resume"
    /\ i \in runner.due
    /\ Resumable(i)
    /\ runs' = [runs EXCEPT ![i].status = "running", ![i].cursor = None, ![i].ripe = FALSE]
    /\ runner' = [Walk(i, runs[i].cursor, runs[i].shadow, "resume")
                    EXCEPT !.due = @ \ {i}]
    /\ UNCHANGED <<row, proposal, overdue, sent, op, budget>>

\* _expire_proposals.
ExpireProposals ==
    /\ runner.pc = "resume"
    /\ runner.due = {}
    /\ proposal' = [i \in Ids |-> IF proposal[i] = "pending" /\ i \in overdue
                                    THEN "expired" ELSE proposal[i]]
    /\ runner' = [runner EXCEPT !.pc = "load"]
    /\ UNCHANGED <<row, runs, overdue, sent, op, budget>>

\* _workflows, gr.parse, _trigger_devices: any devices may match the trigger,
\* and have held its value long enough.
LoadWorkflow(matching) ==
    /\ runner.pc = "load"
    /\ enabled /\ graph # Invalid
    /\ runner' = [runner EXCEPT !.pc = "scan", !.todo = matching, !.shadow = shadow,
                                !.graph = graph]
    /\ UNCHANGED <<row, runs, proposal, overdue, sent, op, budget>>

\* Mutant of HasLiveRun: before migration 033 no run was parked.
MutantHasLiveRun(d) ==
    \E i \in Ids : /\ runs[i].dev = d
                   /\ \/ runs[i].status \in {"running", "awaiting_approval"}
                      \/ proposal[i] = "pending"

\* _has_live_run: the workflow has a live run or a pending proposal for d.
HasLiveRun(d) ==
    \E i \in Ids : runs[i].dev = d /\ (runs[i].status \in Live \/ proposal[i] = "pending")

\* The device has its run already; or MaxRuns is spent and no more are opened.
SkipDevice(d) ==
    /\ runner.pc = "scan"
    /\ d \in runner.todo
    /\ HasLiveRun(d) \/ Opened = Ids
    /\ runner' = [runner EXCEPT !.todo = @ \ {d}]
    /\ UNCHANGED <<row, runs, proposal, overdue, sent, op, budget>>

\* _run_one, _open_run: the run takes the flag and the graph of the scan.
OpenRun(d, i) ==
    /\ runner.pc = "scan"
    /\ d \in runner.todo
    /\ ~ HasLiveRun(d)
    /\ Opened = 1..(i - 1)
    /\ runs' = [runs EXCEPT ![i] = [NoRun EXCEPT !.status = "running", !.dev = d,
                                                 !.shadow = runner.shadow]]
    /\ runner' = [Walk(i, runner.graph.first, runner.shadow, "scan")
                    EXCEPT !.todo = @ \ {d}]
    /\ UNCHANGED <<row, proposal, overdue, sent, op, budget>>

\* The cycle is over: every device was visited, or the workflow does not run.
EndCycle ==
    /\ \/ runner.pc = "scan" /\ runner.todo = {}
       \/ runner.pc = "load" /\ (~ enabled \/ graph = Invalid)
    /\ runner' = Resting
    /\ UNCHANGED <<row, runs, proposal, overdue, sent, op, budget>>

-----------------------------------------------------------------------------
(* _visit: one node *)

tables == <<row, runs, proposal, overdue, sent, op, budget>>

Visiting(kind) ==
    /\ runner.pc = "walk"
    /\ runner.node # None
    /\ runner.graph.kind[runner.node] = kind

Successor == runner.graph.next[runner.node]

\* The walk goes on at node n, or ends if there is none.
Goto(n) == runner' = [runner EXCEPT !.pc = "walk", !.node = n]

\* The walk ends and _close_run will store the outcome.
Ends(outcome) == runner' = [runner EXCEPT !.pc = "walk", !.node = None, !.outcome = outcome]

VisitStop   == Visiting("stop") /\ Ends("done") /\ UNCHANGED tables
VisitAlert  == Visiting("alert") /\ Goto(Successor) /\ UNCHANGED tables
VisitBranch ==
    /\ Visiting("branch")
    /\ Goto(Successor) \/ Goto(runner.graph.no[runner.node])
    /\ UNCHANGED tables

\* The run parks with a cursor; a wait with nothing after it ends the walk.
VisitWait ==
    /\ Visiting("wait")
    /\ IF Successor = None
         THEN Ends("done")
         ELSE runner' = [runner EXCEPT !.node = None, !.outcome = "waiting",
                                       !.cursor = Successor]
    /\ UNCHANGED tables

\* Mutant of CoolingDown: the hour of G8 for the cooldown of G7.
MutantCoolingDown == \E j \in runner.hour \ {runner.run} :
    /\ runs[j].dev = runs[runner.run].dev
    /\ ~ runs[j].shadow
    /\ runs[j].status # "refused"

\* g7_cooldown: another run for the device, neither shadow nor refused, began
\* within the cooldown.
CoolingDown == \E j \in runner.cool \ {runner.run} :
    /\ runs[j].dev = runs[runner.run].dev
    /\ ~ runs[j].shadow
    /\ runs[j].status # "refused"

\* Mutant of AtRateLimit: > for >=.
MutantAtRateLimit ==
    Cardinality({j \in runner.hour \ {runner.run} :
        ~ runs[j].shadow /\ runs[j].status \in {"done", "awaiting_approval"}}) > FleetLimit

\* g8_rate_limit: the other runs of the last hour that count as acted.
AtRateLimit ==
    Cardinality({j \in runner.hour \ {runner.run} :
        ~ runs[j].shadow /\ runs[j].status \in {"done", "awaiting_approval"}}) >= FleetLimit

Allowed == ~ CoolingDown /\ ~ AtRateLimit

\* check_all refuses; guards other than G7 and G8 may refuse at any time.
Refuse ==
    /\ Visiting("act") \/ Visiting("propose")
    /\ Ends("refused")
    /\ UNCHANGED tables

ShadowAction ==
    /\ Visiting("act") \/ Visiting("propose")
    /\ runner.shadow
    /\ Allowed
    /\ IF Visiting("act") THEN Goto(Successor) ELSE Ends("done")
    /\ UNCHANGED tables

\* _propose, and the walk ends awaiting approval.
Propose ==
    /\ Visiting("propose")
    /\ ~ runner.shadow
    /\ Allowed
    /\ proposal' = [proposal EXCEPT ![runner.run] = "pending"]
    /\ Ends("awaiting_approval")
    /\ UNCHANGED <<row, runs, overdue, sent, op, budget>>

\* _milestone_refresh awaits the task list of the hardware.
AskTasks ==
    /\ Visiting("act")
    /\ ~ runner.shadow
    /\ Allowed
    /\ runner' = [runner EXCEPT !.pc = "asking"]
    /\ UNCHANGED tables

\* No hardware id, no client, no answer or no such task: the walk goes on.
Unsupported ==
    /\ runner.pc = "asking"
    /\ Goto(Successor)
    /\ UNCHANGED tables

\* The audited call to Milestone is sent, and awaited.
SendUpdate ==
    /\ runner.pc = "asking"
    /\ sent' = sent \cup {runner.run}
    /\ runner' = [runner EXCEPT !.pc = "sent"]
    /\ UNCHANGED <<row, runs, proposal, overdue, op, budget>>

\* A refused or failed call ends the run, a good one goes on.
UpdateAnswered ==
    /\ runner.pc = "sent"
    /\ Goto(Successor) \/ Ends("done")
    /\ UNCHANGED tables

\* Back to the loop that started the walk.
Return == runner' = [runner EXCEPT !.pc = runner.back, !.run = 0, !.node = None,
                                   !.outcome = "done", !.cursor = None,
                                   !.hour = {}, !.cool = {}]

\* Mutant of CloseRun: the cursor is not stored.
MutantCloseRun ==
    /\ runner.pc = "walk"
    /\ runner.node = None
    /\ runs' = [runs EXCEPT ![runner.run].status = runner.outcome]
    /\ Return
    /\ UNCHANGED <<row, proposal, overdue, sent, op, budget>>

\* _close_run.
CloseRun ==
    /\ runner.pc = "walk"
    /\ runner.node = None
    /\ runs' = [runs EXCEPT ![runner.run].status = runner.outcome,
                            ![runner.run].cursor = runner.cursor]
    /\ Return
    /\ UNCHANGED <<row, proposal, overdue, sent, op, budget>>

-----------------------------------------------------------------------------
(* What ends a walk or a cycle early *)

\* A database call of the walk raises: the run keeps the status it has.
WalkRaises ==
    /\ runner.pc \in {"walk", "asking", "sent"}
    /\ Spend("faults")
    /\ Return
    /\ UNCHANGED <<row, runs, proposal, overdue, sent, op>>

\* A database call between walks raises: run_guarded records it.
CycleRaises ==
    /\ runner.pc \in {"resume", "load", "scan"}
    /\ Spend("faults")
    /\ runner' = Resting
    /\ UNCHANGED <<row, runs, proposal, overdue, sent, op>>

\* The supervisor cancels a cycle that awaits Milestone.
Timeout ==
    /\ runner.pc \in {"asking", "sent"}
    /\ Spend("faults")
    /\ runner' = Resting
    /\ UNCHANGED <<row, runs, proposal, overdue, sent, op>>

Crash ==
    /\ Spend("faults")
    /\ runner' = Resting
    /\ op' = [q \in Requests |-> [pc |-> "idle", run |-> 0]]
    /\ UNCHANGED <<row, runs, proposal, overdue, sent>>

-----------------------------------------------------------------------------
(* Operators: api/automation.py *)

workflow == <<row, overdue, sent, runner>>

AtOp(q, loc) == op[q].pc = loc
MoveOp(q, loc) == op' = [op EXCEPT ![q].pc = loc]
LeaveOp(q) == op' = [op EXCEPT ![q] = [pc |-> "idle", run |-> 0]]

\* Mutant of Decide: dismiss_proposal without its UPDATE.
MutantDecide(q, i, loc) ==
    /\ AtOp(q, "idle")
    /\ proposal[i] = "pending"
    /\ op' = [op EXCEPT ![q] = [pc |-> IF loc = "dismissing" THEN "closing" ELSE loc,
                               run |-> i]]
    /\ UNCHANGED <<workflow, runs, proposal, budget>>

\* _pending_or_404 of approve_proposal or dismiss_proposal.
Decide(q, i, loc) ==
    /\ AtOp(q, "idle")
    /\ proposal[i] = "pending"
    /\ op' = [op EXCEPT ![q] = [pc |-> loc, run |-> i]]
    /\ UNCHANGED <<workflow, runs, proposal, budget>>

\* _dispatch raises ActionRefused: nothing sent, the proposal has failed.
DispatchRefused(q) ==
    /\ AtOp(q, "approving")
    /\ proposal' = [proposal EXCEPT ![op[q].run] = "failed"]
    /\ LeaveOp(q)
    /\ UNCHANGED <<workflow, runs, budget>>

\* The source answers with an error, or not at all, whether or not the call
\* landed: a 502, and the proposal is as it was.
DispatchFails(q) ==
    /\ AtOp(q, "approving")
    /\ LeaveOp(q)
    /\ UNCHANGED <<workflow, runs, proposal, budget>>

\* The awaited call has gone out and succeeded.
Dispatched(q) ==
    /\ AtOp(q, "approving")
    /\ MoveOp(q, "executed")
    /\ UNCHANGED <<workflow, runs, proposal, budget>>

\* UPDATE action_proposals SET status.
RecordDecision(q) ==
    /\ op[q].pc \in {"executed", "dismissing"}
    /\ proposal' = [proposal EXCEPT ![op[q].run] =
                      IF AtOp(q, "executed") THEN "executed" ELSE "dismissed"]
    /\ MoveOp(q, "closing")
    /\ UNCHANGED <<workflow, runs, budget>>

\* _close_run of the API.
ReleaseRun(q) ==
    /\ AtOp(q, "closing")
    /\ runs' = [runs EXCEPT ![op[q].run].status =
                  IF @ = "awaiting_approval" THEN "done" ELSE @]
    /\ LeaveOp(q)
    /\ UNCHANGED <<workflow, proposal, budget>>

\* A database call of the handler raises.
HandlerRaises(q) ==
    /\ op[q].pc \in {"executed", "dismissing", "closing"}
    /\ Spend("faults")
    /\ LeaveOp(q)
    /\ UNCHANGED <<workflow, runs, proposal>>

\* set_workflow_state: no graph that does not validate is run live.
SetWorkflowState(e, s) ==
    /\ e /\ ~ s => graph # Invalid
    /\ Spend("admin")
    /\ enabled' = e
    /\ shadow' = s
    /\ UNCHANGED <<graph, runs, proposal, overdue, sent, runner, op>>

\* update_workflow, or an edit of the row in the database.
EditGraph(g) ==
    /\ g # graph
    /\ Spend("admin")
    /\ graph' = g
    /\ UNCHANGED <<enabled, shadow, runs, proposal, overdue, sent, runner, op>>

-----------------------------------------------------------------------------
(* Time *)

WaitElapses(i) ==
    /\ runs[i].status = "waiting"
    /\ ~ runs[i].ripe
    /\ runs' = [runs EXCEPT ![i].ripe = TRUE]
    /\ UNCHANGED <<row, proposal, overdue, sent, runner, op, budget>>

\* Runs age in the order they were started.
Grow(age) == IF age = "hour" THEN "cooldown" ELSE "old"

RunAges(i) ==
    /\ i \in Opened
    /\ runs[i].age # "old"
    /\ \A j \in 1..(i - 1) : runs[j].age # runs[i].age
    /\ runs' = [runs EXCEPT ![i].age = Grow(@)]
    /\ UNCHANGED <<row, proposal, overdue, sent, runner, op, budget>>

ProposalAges(i) ==
    /\ proposal[i] = "pending"
    /\ i \notin overdue
    /\ overdue' = overdue \cup {i}
    /\ UNCHANGED <<row, runs, proposal, sent, runner, op, budget>>

-----------------------------------------------------------------------------

Visit ==
    \/ VisitStop \/ VisitAlert \/ VisitBranch \/ VisitWait
    \/ Refuse \/ ShadowAction \/ Propose
    \/ AskTasks \/ Unsupported \/ SendUpdate \/ UpdateAnswered

Cycle ==
    \/ BeginCycle
    \/ \E i \in Ids : Abandon(i) \/ Resume(i)
    \/ ExpireProposals
    \/ \E matching \in SUBSET Devices : LoadWorkflow(matching)
    \/ \E d \in Devices : SkipDevice(d) \/ \E i \in Ids : OpenRun(d, i)
    \/ EndCycle
    \/ Visit \/ CloseRun

Operators ==
    \E q \in Requests :
        \/ \E i \in Ids : Decide(q, i, "approving") \/ Decide(q, i, "dismissing")
        \/ DispatchRefused(q) \/ DispatchFails(q) \/ Dispatched(q)
        \/ RecordDecision(q) \/ ReleaseRun(q) \/ HandlerRaises(q)

Time == \E i \in Ids : WaitElapses(i) \/ RunAges(i) \/ ProposalAges(i)

Next ==
    \/ Cycle
    \/ WalkRaises \/ CycleRaises \/ Timeout \/ Crash
    \/ Operators
    \/ \E e, s \in BOOLEAN : SetWorkflowState(e, s)
    \/ \E g \in Graphs \cup {Invalid} : EditGraph(g)
    \/ Time

Spec == Init /\ [][Next]_vars

\* The supervisor runs the cycle again and again, every await of it returns or
\* times out, and a wait elapses.
LiveSpec == Spec /\ WF_vars(Cycle) /\ \A i \in Ids : WF_vars(WaitElapses(i))

-----------------------------------------------------------------------------
(* Properties *)

\* Runs are opened in order; a parked run, and no other, has a cursor.
RunsOK ==
    \A i \in Ids :
        /\ runs[i].status = "none" <=> runs[i].dev = None
        /\ runs[i].status = "waiting" <=> runs[i].cursor # None
        /\ runs[i].ripe => runs[i].status = "waiting"

\* A walk has a run, and the run is running.
WalkOK ==
    /\ runner.pc \in {"walk", "asking", "sent"} <=> runner.run # 0
    /\ runner.run # 0 => runs[runner.run].status = "running"
    /\ runner.outcome = "waiting" <=> runner.cursor # None
    /\ runner.pc \in {"scan", "walk", "asking", "sent"} => runner.graph # Invalid
    /\ runner.pc \in {"asking", "sent"} => runner.node # None
    /\ runner.node # None => runner.run # 0 /\ runner.node \in DOMAIN runner.graph.kind

TypeOK ==
    /\ RunsOK
    /\ WalkOK
    /\ enabled \in BOOLEAN
    /\ shadow \in BOOLEAN
    /\ graph \in Graphs \cup {Invalid}
    /\ runs \in [Ids -> Run]
    /\ proposal \in [Ids -> Decisions]
    /\ overdue \subseteq Ids
    /\ sent \subseteq Ids
    /\ runner \in Runner
    /\ op \in [Requests -> [pc : Handlers, run : Ids \cup {0}]]
    /\ \A q \in Requests : op[q].pc = "idle" <=> op[q].run = 0
    /\ budget \in [Budgets -> Nat]

\* The run keeps its device: it is live, or its proposal still can be approved.
Busy(i) == runs[i].status \in Live \/ proposal[i] = "pending"

\* docs/spec/22-automation-workflows.md:95 (W9), at most one run or proposal per
\* device is open, whatever crashed, raised, timed out or was decided meanwhile.
OneRunPerDevice ==
    \A i, j \in Ids : Busy(i) /\ Busy(j) /\ runs[i].dev = runs[j].dev => i = j

\* runner.py:11-15, a run opened in shadow sends and proposes nothing, even if
\* the workflow goes live while the run is parked.
ShadowIsSilent ==
    \A i \in Ids : runs[i].shadow => proposal[i] = "none" /\ i \notin sent

\* api/automation.py:384 and 417-423, a run leaves the approval queue only when
\* its proposal can no longer be decided.
ReleasedByDecision ==
    [][\A i \in Ids : runs[i].status = "awaiting_approval" /\ runs'[i].status # "awaiting_approval"
         => proposal[i] \in Decided]_vars

\* The run has asked Milestone or an operator for something.
Acted(i) == i \in sent \/ proposal[i] # "none"

Acts(i) == (i \in sent' \ sent) \/ (proposal[i] = "none" /\ proposal'[i] # "none")

\* docs/spec/22-automation-workflows.md:126 (G7) and guards.py:189: a run acts on a
\* device only if no other run acted on it within the cooldown.
CooldownHolds ==
    [][\A i, j \in Ids : Acts(i) /\ Acted(j) /\ i # j /\ runs[i].dev = runs[j].dev =>
         j \notin runner.cool]_vars

\* What the query of G8 cannot see of an action: the run was cut short and is still
\* running, or has sent its call and then parked or was refused at a later node.
Unseen(j) ==
    \/ runs[j].status = "running"
    \/ proposal[j] = "none" /\ runs[j].status \in {"waiting", "refused"}

\* docs/spec/22-automation-workflows.md:127 (G8) and guards.py:213, a run acts only
\* if fewer than FleetLimit others have acted in the last hour: of those that G8 can
\* see, and on the count as it is when the call goes out, after another await.
RateLimitHolds ==
    [][\A i \in Ids : Acts(i) =>
         Cardinality({j \in runner.hour \ {i} : Acted(j) /\ ~ Unseen(j)}) < FleetLimit]_vars

\* runner.py:197-203: a parked run is resumed or abandoned in the end, even if
\* its workflow is disabled or edited and cycles crash, raise and time out.
ParkedRunsMoveOn == \A i \in Ids : runs[i].status = "waiting" ~> runs[i].status # "waiting"

\* api/automation.py:470-475: once the proposal is decided and no handler has
\* business with it, its run no longer awaits approval.
NoRunForgotten ==
    \A i \in Ids :
        proposal[i] \in Decided /\ (\A q \in Requests : op[q].run # i) =>
            runs[i].status # "awaiting_approval"

\* tests/test_automation_api.py:224-231: a proposal can only be decided once.
DecidedOnce ==
    [][\A i \in Ids : proposal[i] \in Decided => proposal'[i] = proposal[i]]_vars
=============================================================================
