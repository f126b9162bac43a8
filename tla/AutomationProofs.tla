-------------------------- MODULE AutomationProofs --------------------------
(***************************************************************************)
(* Theorems about the automation runner and the approval handlers, for     *)
(* every set of devices, workflow graphs, operators' requests and bounds.  *)
(*                                                                         *)
(* The inductive invariant has three parts, one per owner of state: the    *)
(* tables, the cycle with the walk inside it, and the handlers in flight.  *)
(***************************************************************************)
EXTENDS Automation, FiniteSetTheorems, TLAPS

\* A run not opened is in shadow, and a parked run has proposed nothing.
ParkedOK ==
    \A i \in Ids :
        /\ runs[i].status = "none" => runs[i].shadow
        /\ runs[i].status = "waiting" => proposal[i] = "none"

TablesInv ==
    /\ enabled \in BOOLEAN
    /\ shadow \in BOOLEAN
    /\ graph \in Graphs \cup {Invalid}
    /\ runs \in [Ids -> Run]
    /\ proposal \in [Ids -> Decisions]
    /\ overdue \subseteq Ids
    /\ sent \subseteq Ids
    /\ budget \in [Budgets -> Nat]
    /\ RunsOK
    /\ ParkedOK
    /\ OneRunPerDevice
    /\ ShadowIsSilent

\* The due runs are parked, and the walk has its run's flag; it has proposed
\* nothing unless it ends awaiting approval, and decides how it ends only as it
\* leaves its last node.
WalkInv ==
    /\ \A i \in runner.due : runs[i].status = "waiting"
    /\ runner.run # 0 => runner.shadow = runs[runner.run].shadow
    /\ runner.run # 0 /\ runner.outcome # "awaiting_approval" => proposal[runner.run] = "none"
    /\ runner.node # None => runner.outcome = "done"
    /\ runner.pc \in {"asking", "sent"} => ~ runner.shadow

RunnerInv == runner \in Runner /\ WalkOK /\ WalkInv

\* A handler in flight decides a proposal that exists, and closes the run of one
\* that is decided.
HandlersInv ==
    /\ op \in [Requests -> [pc : Handlers, run : Ids \cup {0}]]
    /\ \A q \in Requests :
        /\ op[q].pc = "idle" <=> op[q].run = 0
        /\ op[q].run # 0 => proposal[op[q].run] # "none"
        /\ op[q].pc = "closing" => proposal[op[q].run] \in Decided

IInv == TablesInv /\ RunnerInv /\ HandlersInv

-----------------------------------------------------------------------------
(* Lemmas *)

\* 0, which stands for no run, is not a run.
LEMMA NoZero == 0 \notin Ids
BY WorkflowAssumption DEF Ids

\* A graph's successors are nodes of it, or none.
LEMMA GraphNodes ==
    ASSUME NEW g \in Graphs, NEW n \in DOMAIN g.kind
    PROVE  /\ g.next[n] \in DOMAIN g.kind \cup {None}
           /\ g.no[n] \in DOMAIN g.kind \cup {None}
BY WorkflowAssumption DEF IsGraph

LEMMA GraphsNodes ==
    ASSUME NEW g \in Graphs
    PROVE  /\ DOMAIN g.kind \subseteq Nodes
           /\ None \notin DOMAIN g.kind
           /\ g.first \in DOMAIN g.kind \cup {None}
BY WorkflowAssumption DEF IsGraph, Nodes

LEMMA RestingInv == ASSUME runner' = Resting PROVE RunnerInv'
BY NoZero DEF Resting, RunnerInv, Runner, WalkOK, WalkInv, Locations

\* A step that leaves the tables and the handlers alone.
LEMMA CycleStep ==
    ASSUME IInv, UNCHANGED tables, RunnerInv'
    PROVE  IInv'
BY DEF IInv, TablesInv, HandlersInv, tables, row, RunsOK, ParkedOK, OneRunPerDevice, Busy,
       ShadowIsSilent

LEMMA SpendType ==
    ASSUME IInv, NEW what \in Budgets, Spend(what)
    PROVE  budget' \in [Budgets -> Nat]
BY DEF IInv, TablesInv, Spend

-----------------------------------------------------------------------------
(* The nodes of a walk *)

\* The facts every visit rests on.
LEMMA Visited ==
    ASSUME IInv, runner.pc \in {"walk", "asking", "sent"}, runner.node # None
    PROVE  /\ runner.graph \in Graphs
           /\ runner.node \in DOMAIN runner.graph.kind
           /\ Successor \in (DOMAIN runner.graph.kind \cup {None}) \cap (Nodes \cup {None})
           /\ runner.graph.no[runner.node]
                \in (DOMAIN runner.graph.kind \cup {None}) \cap (Nodes \cup {None})
           /\ runner.outcome = "done"
           /\ runner.cursor = None
           /\ runner.run \in Ids
PROOF
<1>1. runner \in Runner /\ WalkOK /\ WalkInv
  BY DEF IInv, RunnerInv
<1>2. runner.graph \in Graphs
  BY <1>1 DEF Runner, WalkOK
<1>3. runner.node \in DOMAIN runner.graph.kind
  BY <1>1 DEF WalkOK
<1>4. runner.outcome = "done" /\ runner.cursor = None /\ runner.run \in Ids
  BY <1>1 DEF Runner, WalkOK, WalkInv
<1> QED
  BY <1>2, <1>3, <1>4, GraphNodes, GraphsNodes DEF Successor

LEMMA GotoInv ==
    ASSUME IInv, runner.pc \in {"walk", "asking", "sent"}, runner.node # None,
           NEW n \in (DOMAIN runner.graph.kind \cup {None}) \cap (Nodes \cup {None}),
           Goto(n), UNCHANGED <<runs, proposal>>
    PROVE  RunnerInv'
PROOF
<1>1. runner \in Runner /\ WalkOK /\ WalkInv
  BY DEF IInv, RunnerInv
<1>2. runner' \in Runner
  BY <1>1 DEF Goto, Runner, Locations
<1>3. WalkOK'
  BY <1>1 DEF Goto, WalkOK, Runner
<1>4. WalkInv'
  BY <1>1, Visited DEF Goto, WalkInv, Runner
<1> QED
  BY <1>2, <1>3, <1>4 DEF RunnerInv

LEMMA EndsInv ==
    ASSUME IInv, runner.pc \in {"walk", "asking", "sent"}, runner.node # None,
           NEW outcome \in {"done", "refused", "awaiting_approval"}, Ends(outcome),
           UNCHANGED runs,
           UNCHANGED proposal \/ outcome = "awaiting_approval"
    PROVE  RunnerInv'
PROOF
<1>1. runner \in Runner /\ WalkOK /\ WalkInv
  BY DEF IInv, RunnerInv
<1>2. runner' \in Runner
  BY <1>1 DEF Ends, Runner, Locations
<1>3. WalkOK'
  BY <1>1, Visited DEF Ends, WalkOK, Runner
<1>4. WalkInv'
  BY <1>1, Visited DEF Ends, WalkInv, Runner
<1> QED
  BY <1>2, <1>3, <1>4 DEF RunnerInv

\* Every visit that leaves runs and proposals alone.
LEMMA VisitRunner ==
    ASSUME IInv, Visit, UNCHANGED <<runs, proposal>>
    PROVE  RunnerInv'
PROOF
<1>1. runner \in Runner /\ WalkOK /\ WalkInv
  BY DEF IInv, RunnerInv
<1>2. runner.pc \in {"walk", "asking", "sent"} /\ runner.node # None
  BY <1>1 DEF Visit, VisitStop, VisitAlert, VisitBranch, VisitWait, Refuse, ShadowAction,
     Propose, AskTasks, Unsupported, SendUpdate, UpdateAnswered, Visiting, WalkOK
<1>3. ASSUME NEW n \in {Successor, runner.graph.no[runner.node]}, Goto(n) PROVE RunnerInv'
  BY <1>2, <1>3, Visited, GotoInv
<1>4. ASSUME NEW outcome \in {"done", "refused", "awaiting_approval"}, Ends(outcome)
      PROVE  RunnerInv'
  BY <1>2, <1>4, EndsInv
<1>5. ASSUME VisitWait, Successor # None PROVE RunnerInv'
  <2>1. /\ runner' = [runner EXCEPT !.node = None, !.outcome = "waiting",
                                    !.cursor = Successor]
        /\ runner.pc = "walk"
    BY <1>5 DEF VisitWait, Visiting
  <2>2. runner' \in Runner
    BY <1>1, <1>2, <2>1, Visited DEF Runner
  <2>3. WalkOK'
    BY <1>1, <1>2, <1>5, <2>1, Visited DEF Runner, WalkOK
  <2>4. WalkInv'
    BY <1>1, <1>2, <2>1, Visited DEF Runner, WalkInv
  <2> QED
    BY <2>2, <2>3, <2>4 DEF RunnerInv
<1>6. ASSUME AskTasks PROVE RunnerInv'
  <2>1. runner' = [runner EXCEPT !.pc = "asking"] /\ ~ runner.shadow /\ runner.pc = "walk"
    BY <1>6 DEF AskTasks, Visiting
  <2> QED
    BY <1>1, <1>2, <2>1 DEF RunnerInv, Runner, Locations, WalkOK, WalkInv
<1>7. ASSUME SendUpdate PROVE RunnerInv'
  <2>1. runner' = [runner EXCEPT !.pc = "sent"] /\ runner.pc = "asking"
    BY <1>7 DEF SendUpdate
  <2> QED
    BY <1>1, <1>2, <2>1 DEF RunnerInv, Runner, Locations, WalkOK, WalkInv
<1> QED
  BY <1>3, <1>4, <1>5, <1>6, <1>7 DEF Visit, VisitStop, VisitAlert, VisitBranch, VisitWait,
     Refuse, ShadowAction, Propose, Unsupported, UpdateAnswered

LEMMA ProposeInv ==
    ASSUME IInv, Propose
    PROVE  IInv'
PROOF
<1>1. runner.pc = "walk" /\ runner.node # None /\ ~ runner.shadow
  BY DEF Propose, Visiting
<1>2. runner.run \in Ids /\ runner.run # 0
  BY <1>1, Visited, NoZero
<1> DEFINE i == runner.run
<1>3. /\ proposal' = [proposal EXCEPT ![i] = "pending"]
      /\ UNCHANGED <<row, runs, overdue, sent, op, budget>>
      /\ Ends("awaiting_approval")
  BY DEF Propose
<1>4. RunnerInv'
  BY <1>1, <1>3, EndsInv
<1>5. runs[i].status = "running" /\ ~ runs[i].shadow /\ proposal[i] = "none"
  BY <1>1, <1>2, Visited DEF IInv, RunnerInv, WalkOK, WalkInv
<1>6. /\ proposal' \in [Ids -> Decisions]
      /\ proposal'[i] = "pending"
      /\ \A j \in Ids : j # i => proposal'[j] = proposal[j]
  BY <1>2, <1>3 DEF IInv, TablesInv, Decisions
<1>7. ParkedOK' /\ ShadowIsSilent'
  BY <1>3, <1>5, <1>6 DEF IInv, TablesInv, ParkedOK, ShadowIsSilent
<1>8. OneRunPerDevice'
  <2>1. \A j \in Ids : Busy(j)' => Busy(j)
    BY <1>3, <1>5, <1>6 DEF Busy, Live
  <2> QED
    BY <1>3, <2>1 DEF IInv, TablesInv, OneRunPerDevice
<1>9. TablesInv'
  BY <1>3, <1>6, <1>7, <1>8 DEF IInv, TablesInv, row, RunsOK
<1>10. HandlersInv'
  <2> SUFFICES ASSUME NEW q \in Requests
               PROVE  /\ op[q].run # 0 => proposal'[op[q].run] # "none"
                      /\ op[q].pc = "closing" => proposal'[op[q].run] \in Decided
    BY <1>3 DEF IInv, HandlersInv
  <2>1. op[q].run \in Ids \cup {0} /\ (op[q].pc = "closing" => op[q].run # 0)
    BY DEF IInv, HandlersInv
  <2>2. op[q].run # 0 => op[q].run # i
    BY <1>5 DEF IInv, HandlersInv
  <2> QED
    BY <1>6, <2>1, <2>2 DEF IInv, HandlersInv
<1> QED
  BY <1>4, <1>9, <1>10 DEF IInv

\* A call is sent for a run that is not in shadow.
LEMMA SendInv ==
    ASSUME IInv, SendUpdate
    PROVE  IInv'
PROOF
<1>1. /\ runner.pc = "asking"
      /\ sent' = sent \cup {runner.run}
      /\ runner' = [runner EXCEPT !.pc = "sent"]
      /\ UNCHANGED <<row, runs, proposal, overdue, op, budget>>
  BY DEF SendUpdate
<1>2. runner \in Runner /\ WalkOK /\ WalkInv
  BY DEF IInv, RunnerInv
<1>3. runner.run \in Ids /\ ~ runs[runner.run].shadow
  BY <1>1, <1>2, NoZero DEF Runner, WalkOK, WalkInv
<1>4. RunnerInv'
  BY <1>1, VisitRunner DEF Visit
<1>5. TablesInv'
  BY <1>1, <1>3 DEF IInv, TablesInv, row, RunsOK, ParkedOK, OneRunPerDevice, Busy, ShadowIsSilent
<1>6. HandlersInv'
  BY <1>1 DEF IInv, HandlersInv
<1> QED
  BY <1>4, <1>5, <1>6 DEF IInv

-----------------------------------------------------------------------------
(* The cycle around the walks *)

\* A step that rewrites one run, which keeps its device and its flag and becomes
\* no busier: parked only if it has proposed nothing.
LEMMA RewriteRun ==
    ASSUME IInv, NEW i \in Ids, NEW r \in Run,
           runs' = [runs EXCEPT ![i] = r],
           r.dev = runs[i].dev, r.shadow = runs[i].shadow,
           r.status # "none", runs[i].status # "none",
           r.status = "waiting" <=> r.cursor # None,
           r.ripe => r.status = "waiting",
           r.status = "waiting" => proposal[i] = "none",
           r.status \in Live => runs[i].status \in Live,
           UNCHANGED <<row, proposal, overdue, sent>>,
           budget' \in [Budgets -> Nat]
    PROVE  TablesInv'
PROOF
<1>1. /\ runs' \in [Ids -> Run]
      /\ runs'[i] = r
      /\ \A j \in Ids : j # i => runs'[j] = runs[j]
  BY DEF IInv, TablesInv
<1>2. RunsOK' /\ ParkedOK' /\ ShadowIsSilent'
  BY <1>1 DEF IInv, TablesInv, RunsOK, ParkedOK, ShadowIsSilent
<1>3. \A j \in Ids : (Busy(j)' => Busy(j)) /\ runs'[j].dev = runs[j].dev
  BY <1>1 DEF Busy
<1>4. OneRunPerDevice'
  BY <1>3 DEF IInv, TablesInv, OneRunPerDevice
<1> QED
  BY <1>1, <1>2, <1>4 DEF IInv, TablesInv, row

LEMMA BeginCycleInv == ASSUME IInv, BeginCycle PROVE IInv'
PROOF
<1>1. runner.pc = "idle" /\ UNCHANGED tables
  BY DEF BeginCycle, tables
<1>2. runner' = [runner EXCEPT !.pc = "resume", !.due = DueRuns,
                               !.enabled = enabled, !.graph = graph]
  BY DEF BeginCycle
<1>3. runner' \in Runner
  BY <1>2 DEF IInv, TablesInv, RunnerInv, Runner, Locations, DueRuns
<1>4. WalkOK'
  BY <1>1, <1>2 DEF IInv, RunnerInv, Runner, WalkOK, tables
<1>5. WalkInv'
  BY <1>1, <1>2 DEF IInv, RunnerInv, Runner, WalkOK, WalkInv, tables, DueRuns
<1> QED
  BY <1>1, <1>3, <1>4, <1>5, CycleStep DEF RunnerInv

\* A due run is parked, is nobody else's, and has its cursor.
LEMMA DueRun ==
    ASSUME IInv, runner.pc = "resume", NEW i \in runner.due
    PROVE  /\ i \in Ids
           /\ runs[i] \in Run
           /\ runs[i].status = "waiting"
           /\ proposal[i] = "none"
           /\ runner.run = 0
           /\ runner.node = None
PROOF
<1>1. runner \in Runner /\ WalkOK /\ WalkInv
  BY DEF IInv, RunnerInv
<1>2. i \in Ids /\ runs[i].status = "waiting" /\ runner.run = 0 /\ runner.node = None
  BY <1>1 DEF Runner, WalkOK, WalkInv
<1> QED
  BY <1>2 DEF IInv, TablesInv, ParkedOK

LEMMA AbandonInv == ASSUME IInv, NEW i \in Ids, Abandon(i) PROVE IInv'
PROOF
<1>1. /\ runner.pc = "resume" /\ i \in runner.due
      /\ runs' = [runs EXCEPT ![i].status = "done", ![i].cursor = None, ![i].ripe = FALSE]
      /\ runner' = [runner EXCEPT !.due = @ \ {i}]
      /\ UNCHANGED <<row, proposal, overdue, sent, op, budget>>
  BY DEF Abandon
<1> DEFINE r == [runs[i] EXCEPT !.status = "done", !.cursor = None, !.ripe = FALSE]
<1>2. r \in Run /\ r.status = "done" /\ r.cursor = None /\ ~ r.ripe
      /\ r.dev = runs[i].dev /\ r.shadow = runs[i].shadow
  BY <1>1, DueRun DEF Run, Statuses
<1>3. runs' = [runs EXCEPT ![i] = r]
  BY <1>1 DEF IInv, TablesInv
<1>4. TablesInv'
  <2>1. budget' \in [Budgets -> Nat]
    BY <1>1 DEF IInv, TablesInv
  <2> HIDE DEF r
  <2> QED
    BY <1>1, <1>2, <1>3, <2>1, DueRun, RewriteRun DEF Live
<1>5. RunnerInv'
  <2>1. runner' \in Runner
    BY <1>1 DEF IInv, RunnerInv, Runner
  <2>2. WalkOK'
    BY <1>1, DueRun DEF IInv, RunnerInv, Runner, WalkOK
  <2>3. WalkInv'
    BY <1>1, <1>3, DueRun DEF IInv, TablesInv, RunnerInv, Runner, WalkInv
  <2> QED  BY <2>1, <2>2, <2>3 DEF RunnerInv
<1> QED
  BY <1>1, <1>4, <1>5 DEF IInv, HandlersInv

LEMMA ResumeInv == ASSUME IInv, NEW i \in Ids, Resume(i) PROVE IInv'
PROOF
<1>1. /\ runner.pc = "resume" /\ i \in runner.due /\ Resumable(i)
      /\ runs' = [runs EXCEPT ![i].status = "running", ![i].cursor = None, ![i].ripe = FALSE]
      /\ runner' = [Walk(i, runs[i].cursor, runs[i].shadow, "resume")
                      EXCEPT !.due = @ \ {i}]
      /\ UNCHANGED <<row, proposal, overdue, sent, op, budget>>
  BY DEF Resume
<1> DEFINE r == [runs[i] EXCEPT !.status = "running", !.cursor = None, !.ripe = FALSE]
<1>2. r \in Run /\ r.status = "running" /\ r.cursor = None /\ ~ r.ripe
      /\ r.dev = runs[i].dev /\ r.shadow = runs[i].shadow
  BY <1>1, DueRun DEF Run, Statuses, Live
<1>3. runs' = [runs EXCEPT ![i] = r]
  BY <1>1 DEF IInv, TablesInv
<1>4. TablesInv'
  <2>1. budget' \in [Budgets -> Nat]
    BY <1>1 DEF IInv, TablesInv
  <2> HIDE DEF r
  <2> QED
    BY <1>1, <1>2, <1>3, <2>1, DueRun, RewriteRun DEF Live
<1>5. RunnerInv'
  <2>1. /\ runner' \in Runner
        /\ runner'.pc = "walk" /\ runner'.run = i /\ runner'.node = runs[i].cursor
        /\ runner'.shadow = runs[i].shadow /\ runner'.outcome = "done"
        /\ runner'.cursor = None /\ runner'.due = runner.due \ {i}
        /\ runner'.graph = runner.graph
    BY <1>1, DueRun DEF IInv, RunnerInv, Runner, Walk, Locations, Recent, Opened, Run
  <2>2. runner.graph # Invalid /\ runs[i].cursor \in DOMAIN runner.graph.kind /\ i # 0
    BY <1>1, DueRun, NoZero DEF Resumable
  <2>3. runs'[i] = r /\ \A j \in Ids : j # i => runs'[j] = runs[j]
    BY <1>1, <1>3, DueRun DEF IInv, TablesInv
  <2>4. WalkOK'
    BY <1>2, <2>1, <2>2, <2>3 DEF WalkOK
  <2>5. WalkInv'
    <3>1. \A j \in runner.due \ {i} : j \in Ids /\ runs[j].status = "waiting"
      BY DEF IInv, RunnerInv, WalkInv, Runner
    <3>2. proposal'[i] = "none" /\ runs'[i].shadow = runs[i].shadow
      BY <1>1, <1>2, <2>3, DueRun
    <3> HIDE DEF r
    <3> QED
      BY <2>1, <2>3, <3>1, <3>2 DEF WalkInv
  <2> QED  BY <2>1, <2>4, <2>5 DEF RunnerInv
<1> QED
  BY <1>1, <1>4, <1>5 DEF IInv, HandlersInv

\* A step that at most decides proposals.
LEMMA DecideStep ==
    ASSUME IInv,
           proposal' \in [Ids -> Decisions],
           \A i \in Ids : \/ proposal'[i] = proposal[i]
                          \/ proposal[i] # "none" /\ proposal'[i] \in Decided,
           UNCHANGED <<row, runs, overdue, sent>>,
           budget' \in [Budgets -> Nat]
    PROVE  /\ TablesInv'
           /\ UNCHANGED runner => RunnerInv'
           /\ \A i \in Ids : /\ proposal[i] = "none" <=> proposal'[i] = "none"
                             /\ proposal[i] \in Decided => proposal'[i] \in Decided
PROOF
<1>1. \A i \in Ids : /\ proposal[i] = "none" <=> proposal'[i] = "none"
                     /\ proposal[i] \in Decided => proposal'[i] \in Decided
                     /\ Busy(i)' => Busy(i)
  BY DEF Decided, Busy
<1>2. RunsOK' /\ ParkedOK' /\ ShadowIsSilent'
  BY <1>1 DEF IInv, TablesInv, RunsOK, ParkedOK, ShadowIsSilent
<1>3. OneRunPerDevice'
  BY <1>1 DEF IInv, TablesInv, OneRunPerDevice
<1>4. TablesInv'
  BY <1>2, <1>3 DEF IInv, TablesInv, row
<1>5. UNCHANGED runner => RunnerInv'
  <2>1. runner.run \in Ids \cup {0}
    BY DEF IInv, RunnerInv, Runner
  <2> QED
    BY <1>1, <2>1 DEF IInv, RunnerInv, WalkOK, WalkInv
<1> QED
  BY <1>1, <1>4, <1>5

LEMMA ExpireInv == ASSUME IInv, ExpireProposals PROVE IInv'
PROOF
<1>1. /\ runner.pc = "resume"
      /\ proposal' = [i \in Ids |-> IF proposal[i] = "pending" /\ i \in overdue
                                      THEN "expired" ELSE proposal[i]]
      /\ runner' = [runner EXCEPT !.pc = "load"]
      /\ UNCHANGED <<row, runs, overdue, sent, op, budget>>
  BY DEF ExpireProposals
<1>2. proposal' \in [Ids -> Decisions]
  BY <1>1 DEF IInv, TablesInv, Decisions, Decided
<1>3. /\ TablesInv'
      /\ \A i \in Ids : /\ proposal[i] = "none" <=> proposal'[i] = "none"
                        /\ proposal[i] \in Decided => proposal'[i] \in Decided
  <2>1. \A i \in Ids : \/ proposal'[i] = proposal[i]
                       \/ proposal[i] # "none" /\ proposal'[i] \in Decided
    BY <1>1 DEF Decided
  <2>2. budget' \in [Budgets -> Nat]
    BY <1>1 DEF IInv, TablesInv
  <2> QED  BY <1>1, <1>2, <2>1, <2>2, DecideStep
<1>4. RunnerInv'
  BY <1>1, NoZero DEF IInv, RunnerInv, Runner, Locations, WalkOK, WalkInv
<1>5. HandlersInv'
  BY <1>1, <1>3 DEF IInv, HandlersInv
<1> QED
  BY <1>3, <1>4, <1>5 DEF IInv

LEMMA LoadInv ==
    ASSUME IInv, NEW matching \in SUBSET Devices, LoadWorkflow(matching)
    PROVE  IInv'
PROOF
<1>1. /\ runner.pc = "load" /\ graph # Invalid
      /\ runner' = [runner EXCEPT !.pc = "scan", !.todo = matching, !.shadow = shadow,
                                  !.graph = graph]
      /\ UNCHANGED tables
  BY DEF LoadWorkflow, tables
<1>2. runner' \in Runner
  BY <1>1 DEF IInv, TablesInv, RunnerInv, Runner, Locations
<1>3. WalkOK' /\ WalkInv'
  BY <1>1 DEF IInv, RunnerInv, Runner, WalkOK, WalkInv, tables
<1> QED
  BY <1>1, <1>2, <1>3, CycleStep DEF RunnerInv

LEMMA SkipInv == ASSUME IInv, NEW d \in Devices, SkipDevice(d) PROVE IInv'
PROOF
<1>1. runner' = [runner EXCEPT !.todo = @ \ {d}] /\ UNCHANGED tables
  BY DEF SkipDevice, tables
<1>2. RunnerInv'
  BY <1>1 DEF IInv, RunnerInv, Runner, WalkOK, WalkInv, tables
<1> QED
  BY <1>1, <1>2, CycleStep

LEMMA EndCycleInv == ASSUME IInv, EndCycle PROVE IInv'
BY RestingInv, CycleStep DEF EndCycle, tables

\* The guard of OpenRun and W9: the device of the new run has no other.
LEMMA OpenRunInv == ASSUME IInv, NEW d \in Devices, NEW i \in Ids, OpenRun(d, i) PROVE IInv'
PROOF
<1> DEFINE r == [NoRun EXCEPT !.status = "running", !.dev = d, !.shadow = runner.shadow]
<1>1. /\ runner.pc = "scan" /\ ~ HasLiveRun(d) /\ Opened = 1..(i - 1)
      /\ runs' = [runs EXCEPT ![i] = r]
      /\ runner' = [Walk(i, runner.graph.first, runner.shadow, "scan") EXCEPT !.todo = @ \ {d}]
      /\ UNCHANGED <<row, proposal, overdue, sent, op, budget>>
  BY DEF OpenRun
<1>2. runner \in Runner /\ WalkOK /\ WalkInv
  BY DEF IInv, RunnerInv
<1>3. /\ r \in Run /\ r.status = "running" /\ r.dev = d /\ r.shadow = runner.shadow
      /\ r.cursor = None /\ ~ r.ripe
  BY <1>2 DEF NoRun, Run, Statuses, Live, Runner, Ages
<1> HIDE DEF r
<1>4. /\ runs' \in [Ids -> Run]
      /\ runs'[i] = r
      /\ \A j \in Ids : j # i => runs'[j] = runs[j]
  BY <1>1, <1>3 DEF IInv, TablesInv
<1>5. runs[i].status = "none" /\ proposal[i] = "none" /\ i \notin sent
  BY <1>1 DEF Opened, Ids, IInv, TablesInv, ParkedOK, ShadowIsSilent
<1>6. OneRunPerDevice'
  <2>1. \A j \in Ids : j # i => (Busy(j)' <=> Busy(j))
    BY <1>1, <1>4 DEF Busy
  <2>2. \A j \in Ids : j # i /\ Busy(j) => runs[j].dev # d
    BY <1>1 DEF HasLiveRun, Busy
  <2> QED
    BY <1>3, <1>4, <2>1, <2>2 DEF IInv, TablesInv, OneRunPerDevice
<1>7. RunsOK' /\ ParkedOK' /\ ShadowIsSilent'
  <2>1. d # None
    BY WorkflowAssumption
  <2> QED
    BY <1>1, <1>3, <1>4, <1>5, <2>1 DEF IInv, TablesInv, RunsOK, ParkedOK, ShadowIsSilent
<1>8. TablesInv'
  BY <1>1, <1>4, <1>6, <1>7 DEF IInv, TablesInv, row
<1>9. RunnerInv'
  <2>1. runner.graph \in Graphs
    BY <1>1, <1>2 DEF Runner, WalkOK
  <2>2. /\ runner.graph.first \in Nodes \cup {None}
        /\ runner.graph.first \in DOMAIN runner.graph.kind \cup {None}
    BY <2>1, GraphsNodes
  <2>3. /\ runner' \in Runner
        /\ runner'.pc = "walk" /\ runner'.run = i /\ runner'.node = runner.graph.first
        /\ runner'.shadow = runner.shadow /\ runner'.outcome = "done"
        /\ runner'.cursor = None /\ runner'.due = runner.due
        /\ runner'.graph = runner.graph
    BY <1>1, <1>2, <2>2 DEF Runner, Walk, Locations, Recent, Opened
  <2>4. WalkOK'
    BY <1>1, <1>2, <1>3, <1>4, <2>2, <2>3, NoZero DEF WalkOK
  <2>5. WalkInv'
    <3>1. \A j \in runner.due : j \in Ids /\ j # i /\ runs[j].status = "waiting"
      BY <1>2, <1>5 DEF Runner, WalkInv
    <3> QED
      BY <1>1, <1>3, <1>4, <1>5, <2>3, <3>1 DEF WalkInv
  <2> QED
    BY <2>3, <2>4, <2>5 DEF RunnerInv
<1> QED
  BY <1>1, <1>8, <1>9 DEF IInv, HandlersInv

\* The walk is left for the loop that started it.
LEMMA ReturnInv ==
    ASSUME IInv, runner.pc \in {"walk", "asking", "sent"}, Return,
           \A i \in runner.due : runs'[i].status = "waiting"
    PROVE  RunnerInv'
PROOF
<1>1. runner \in Runner /\ WalkOK /\ WalkInv
  BY DEF IInv, RunnerInv
<1>2. /\ runner' \in Runner
      /\ runner'.pc \in {"resume", "scan"} /\ runner'.run = 0 /\ runner'.node = None
      /\ runner'.outcome = "done" /\ runner'.cursor = None
      /\ runner'.due = runner.due /\ runner'.graph = runner.graph
  BY <1>1 DEF Return, Runner, Locations
<1>3. runner.graph # Invalid
  BY <1>1 DEF WalkOK
<1> QED
  BY <1>1, <1>2, <1>3 DEF RunnerInv, WalkOK, WalkInv

LEMMA CloseRunInv == ASSUME IInv, CloseRun PROVE IInv'
PROOF
<1> DEFINE i == runner.run
           r == [runs[i] EXCEPT !.status = runner.outcome, !.cursor = runner.cursor]
<1>1. /\ runner.pc = "walk"
      /\ runs' = [runs EXCEPT ![i].status = runner.outcome, ![i].cursor = runner.cursor]
      /\ Return
      /\ UNCHANGED <<row, proposal, overdue, sent, op, budget>>
  BY DEF CloseRun
<1>2. runner \in Runner /\ WalkOK /\ WalkInv
  BY DEF IInv, RunnerInv
<1>3. i \in Ids /\ runs[i] \in Run /\ runs[i].status = "running"
  BY <1>1, <1>2 DEF Runner, WalkOK, IInv, TablesInv
<1>4. /\ runner.outcome \in {"done", "refused", "waiting", "awaiting_approval"}
      /\ runner.cursor \in Nodes \cup {None}
      /\ runner.outcome = "waiting" <=> runner.cursor # None
      /\ runner.outcome = "waiting" => proposal[i] = "none"
  BY <1>1, <1>2, <1>3, NoZero DEF Runner, WalkOK, WalkInv
<1>5. r \in Run /\ r.status = runner.outcome /\ r.cursor = runner.cursor
      /\ r.dev = runs[i].dev /\ r.shadow = runs[i].shadow /\ r.ripe = runs[i].ripe
  BY <1>3, <1>4 DEF Run, Statuses, Live
<1>6. runs' = [runs EXCEPT ![i] = r]
  BY <1>1, <1>3 DEF IInv, TablesInv
<1>7. ~ runs[i].ripe
  BY <1>3 DEF IInv, TablesInv, RunsOK
<1>8. TablesInv'
  <2>1. budget' \in [Budgets -> Nat]
    BY <1>1 DEF IInv, TablesInv
  <2>2. /\ r.status # "none"
        /\ r.status = "waiting" <=> r.cursor # None
        /\ r.status = "waiting" => proposal[i] = "none"
        /\ ~ r.ripe
        /\ runs[i].status \in Live /\ runs[i].status # "none"
    BY <1>3, <1>4, <1>5, <1>7 DEF Live
  <2>3. UNCHANGED <<row, proposal, overdue, sent>>
    BY <1>1
  <2> HIDE DEF r, i
  <2> QED
    BY <1>3, <1>5, <1>6, <2>1, <2>2, <2>3, RewriteRun
<1>9. RunnerInv'
  <2>1. \A j \in runner.due : j \in Ids /\ j # i /\ runs'[j] = runs[j]
    BY <1>2, <1>3, <1>6 DEF Runner, WalkInv, IInv, TablesInv
  <2> QED
    BY <1>1, <1>2, <2>1, ReturnInv DEF WalkInv
<1> QED
  BY <1>1, <1>8, <1>9 DEF IInv, HandlersInv

\* Exceptions, cancellation and restarts leave the tables as they are.
LEMMA FaultInv ==
    ASSUME IInv, WalkRaises \/ CycleRaises \/ Timeout \/ Crash
    PROVE  IInv'
PROOF
<1>1. /\ Spend("faults") /\ UNCHANGED <<row, runs, proposal, overdue, sent>>
  BY DEF WalkRaises, CycleRaises, Timeout, Crash
<1>2. budget' \in [Budgets -> Nat]
  BY <1>1, SpendType DEF Budgets
<1>3. TablesInv'
  BY <1>1, <1>2 DEF IInv, TablesInv, row, RunsOK, ParkedOK, OneRunPerDevice, Busy, ShadowIsSilent
<1>4. RunnerInv'
  <2>1. CASE WalkRaises
    BY <2>1, ReturnInv DEF WalkRaises, IInv, RunnerInv, WalkInv
  <2>2. CASE CycleRaises \/ Timeout \/ Crash
    BY <2>2, RestingInv DEF CycleRaises, Timeout, Crash
  <2> QED
    BY <2>1, <2>2
<1>5. HandlersInv'
  BY <1>1 DEF WalkRaises, CycleRaises, Timeout, Crash, IInv, HandlersInv, Handlers
<1> QED
  BY <1>3, <1>4, <1>5 DEF IInv

-----------------------------------------------------------------------------
(* Operators and time *)

\* A handler's step that changes neither tables nor cycle.
LEMMA HandlerStep ==
    ASSUME IInv, UNCHANGED <<row, runs, proposal, overdue, sent, runner>>,
           budget' \in [Budgets -> Nat],
           HandlersInv'
    PROVE  IInv'
BY DEF IInv, TablesInv, row, RunsOK, ParkedOK, OneRunPerDevice, Busy, ShadowIsSilent,
       RunnerInv, WalkOK, WalkInv

LEMMA HandlerInv ==
    ASSUME IInv, NEW q \in Requests,
           \/ \E i \in Ids : Decide(q, i, "approving") \/ Decide(q, i, "dismissing")
           \/ DispatchRefused(q) \/ DispatchFails(q) \/ Dispatched(q)
           \/ RecordDecision(q) \/ ReleaseRun(q) \/ HandlerRaises(q)
    PROVE  IInv'
PROOF
<1>1. /\ budget \in [Budgets -> Nat]
      /\ proposal \in [Ids -> Decisions]
      /\ op[q] \in [pc : Handlers, run : Ids \cup {0}]
      /\ op[q].pc # "idle" => op[q].run \in Ids /\ proposal[op[q].run] # "none"
  BY DEF IInv, TablesInv, HandlersInv
<1>2. ASSUME NEW i \in Ids, NEW loc \in {"approving", "dismissing"}, Decide(q, i, loc)
      PROVE  IInv'
  <2>1. /\ proposal[i] = "pending" /\ op' = [op EXCEPT ![q] = [pc |-> loc, run |-> i]]
        /\ UNCHANGED <<row, runs, proposal, overdue, sent, runner, budget>>
    BY <1>2 DEF Decide, workflow
  <2>2. HandlersInv'
    BY <2>1, NoZero DEF IInv, HandlersInv, Handlers
  <2> QED
    BY <1>1, <2>1, <2>2, HandlerStep
<1>3. CASE DispatchRefused(q)
  <2>1. /\ op[q].pc = "approving"
        /\ proposal' = [proposal EXCEPT ![op[q].run] = "failed"]
        /\ op' = [op EXCEPT ![q] = [pc |-> "idle", run |-> 0]]
        /\ UNCHANGED <<row, runs, overdue, sent, runner, budget>>
    BY <1>3 DEF DispatchRefused, AtOp, LeaveOp, workflow
  <2>2. TablesInv' /\ RunnerInv'
        /\ \A i \in Ids : /\ proposal[i] = "none" <=> proposal'[i] = "none"
                          /\ proposal[i] \in Decided => proposal'[i] \in Decided
    <3>1. proposal' \in [Ids -> Decisions]
      BY <1>1, <2>1 DEF Decisions, Decided
    <3>2. \A i \in Ids : \/ proposal'[i] = proposal[i]
                         \/ proposal[i] # "none" /\ proposal'[i] \in Decided
      BY <1>1, <2>1 DEF Decided
    <3> QED
      BY <1>1, <2>1, <3>1, <3>2, DecideStep
  <2>3. HandlersInv'
    BY <1>1, <2>1, <2>2 DEF IInv, HandlersInv, Handlers
  <2> QED
    BY <2>2, <2>3 DEF IInv
<1>4. CASE DispatchFails(q)
  <2>1. /\ op' = [op EXCEPT ![q] = [pc |-> "idle", run |-> 0]]
        /\ UNCHANGED <<row, runs, proposal, overdue, sent, runner, budget>>
    BY <1>4 DEF DispatchFails, LeaveOp, workflow
  <2>2. HandlersInv'
    BY <2>1 DEF IInv, HandlersInv, Handlers
  <2> QED
    BY <1>1, <2>1, <2>2, HandlerStep
<1>5. CASE Dispatched(q)
  <2>1. /\ op[q].pc = "approving"
        /\ op' = [op EXCEPT ![q].pc = "executed"]
        /\ UNCHANGED <<row, runs, proposal, overdue, sent, runner, budget>>
    BY <1>5 DEF Dispatched, AtOp, MoveOp, workflow
  <2>2. HandlersInv'
    BY <1>1, <2>1 DEF IInv, HandlersInv, Handlers
  <2> QED
    BY <1>1, <2>1, <2>2, HandlerStep
<1>6. CASE RecordDecision(q)
  <2> DEFINE decision == IF AtOp(q, "executed") THEN "executed" ELSE "dismissed"
  <2>1. /\ op[q].pc \in {"executed", "dismissing"}
        /\ proposal' = [proposal EXCEPT ![op[q].run] = decision]
        /\ op' = [op EXCEPT ![q].pc = "closing"]
        /\ UNCHANGED <<row, runs, overdue, sent, runner, budget>>
    BY <1>6 DEF RecordDecision, MoveOp, workflow
  <2>2. decision \in Decided
    BY DEF Decided
  <2> HIDE DEF decision
  <2>3. TablesInv' /\ RunnerInv'
        /\ \A i \in Ids : /\ proposal[i] = "none" <=> proposal'[i] = "none"
                          /\ proposal[i] \in Decided => proposal'[i] \in Decided
    <3>1. proposal' \in [Ids -> Decisions]
      BY <1>1, <2>1, <2>2 DEF Decisions
    <3>2. \A i \in Ids : \/ proposal'[i] = proposal[i]
                         \/ proposal[i] # "none" /\ proposal'[i] \in Decided
      BY <1>1, <2>1, <2>2
    <3> QED
      BY <1>1, <2>1, <3>1, <3>2, DecideStep
  <2>4. proposal'[op[q].run] \in Decided
    BY <1>1, <2>1, <2>2
  <2>5. HandlersInv'
    BY <1>1, <2>1, <2>3, <2>4 DEF IInv, HandlersInv, Handlers
  <2> QED
    BY <2>3, <2>5 DEF IInv
<1>7. CASE ReleaseRun(q)
  <2> DEFINE i == op[q].run
             r == [runs[i] EXCEPT !.status = IF @ = "awaiting_approval" THEN "done" ELSE @]
  <2>1. /\ op[q].pc = "closing"
        /\ runs' = [runs EXCEPT ![i].status = IF @ = "awaiting_approval" THEN "done" ELSE @]
        /\ op' = [op EXCEPT ![q] = [pc |-> "idle", run |-> 0]]
        /\ UNCHANGED <<row, proposal, overdue, sent, runner, budget>>
    BY <1>7 DEF ReleaseRun, AtOp, LeaveOp, workflow
  <2>2. i \in Ids /\ proposal[i] # "none" /\ runs[i] \in Run
    BY <1>1, <2>1 DEF IInv, TablesInv
  <2>3. runs[i].status # "none"
    BY <2>2 DEF IInv, TablesInv, ParkedOK, ShadowIsSilent
  <2>4. /\ r \in Run /\ r.dev = runs[i].dev /\ r.shadow = runs[i].shadow
        /\ r.cursor = runs[i].cursor /\ r.ripe = runs[i].ripe
        /\ r.status = IF runs[i].status = "awaiting_approval" THEN "done" ELSE runs[i].status
    BY <2>2 DEF Run, Statuses
  <2>5. runs' = [runs EXCEPT ![i] = r]
    BY <2>1, <2>2 DEF IInv, TablesInv
  <2>6. TablesInv'
    <3>1. /\ r.status = "waiting" <=> r.cursor # None
          /\ r.ripe => r.status = "waiting"
          /\ r.status = "waiting" => proposal[i] = "none"
      BY <2>2, <2>4 DEF IInv, TablesInv, RunsOK, ParkedOK
    <3> HIDE DEF r, i
    <3> QED
      BY <1>1, <2>1, <2>2, <2>3, <2>4, <2>5, <3>1, RewriteRun DEF Live
  <2>7. RunnerInv'
    <3>1. \A j \in Ids : /\ runs'[j].shadow = runs[j].shadow
                         /\ runs[j].status \in {"running", "waiting"} =>
                              runs'[j].status = runs[j].status
      BY <2>2, <2>4, <2>5 DEF IInv, TablesInv
    <3>2. runner.due \subseteq Ids /\ runner.run \in Ids \cup {0}
      BY DEF IInv, RunnerInv, Runner
    <3> QED
      BY <2>1, <3>1, <3>2 DEF IInv, RunnerInv, WalkOK, WalkInv
  <2>8. HandlersInv'
    BY <2>1 DEF IInv, HandlersInv, Handlers
  <2> QED
    BY <2>6, <2>7, <2>8 DEF IInv
<1>8. CASE HandlerRaises(q)
  <2>1. /\ op' = [op EXCEPT ![q] = [pc |-> "idle", run |-> 0]]
        /\ Spend("faults")
        /\ UNCHANGED <<row, runs, proposal, overdue, sent, runner>>
    BY <1>8 DEF HandlerRaises, LeaveOp, workflow
  <2>2. HandlersInv'
    BY <2>1 DEF IInv, HandlersInv, Handlers
  <2>3. budget' \in [Budgets -> Nat]
    BY <2>1, SpendType DEF Budgets
  <2> QED
    BY <2>1, <2>2, <2>3, HandlerStep
<1> QED
  BY <1>2, <1>3, <1>4, <1>5, <1>6, <1>7, <1>8

\* A step that touches neither the cycle, the handlers nor what they rest on.
LEMMA OutsideStep ==
    ASSUME IInv, TablesInv', UNCHANGED <<proposal, runner, op>>,
           \A i \in Ids : runs'[i].status = runs[i].status /\ runs'[i].shadow = runs[i].shadow
    PROVE  IInv'
PROOF
<1>1. runner.due \subseteq Ids /\ runner.run \in Ids \cup {0}
  BY DEF IInv, RunnerInv, Runner
<1> QED
  BY <1>1 DEF IInv, RunnerInv, WalkOK, WalkInv, HandlersInv

LEMMA AdminInv ==
    ASSUME IInv,
           \/ \E e, s \in BOOLEAN : SetWorkflowState(e, s)
           \/ \E g \in Graphs \cup {Invalid} : EditGraph(g)
    PROVE  IInv'
PROOF
<1>1. /\ enabled' \in BOOLEAN /\ shadow' \in BOOLEAN /\ graph' \in Graphs \cup {Invalid}
      /\ Spend("admin")
      /\ UNCHANGED <<runs, proposal, overdue, sent, runner, op>>
  BY DEF SetWorkflowState, EditGraph, IInv, TablesInv
<1>2. budget' \in [Budgets -> Nat]
  BY <1>1, SpendType DEF Budgets
<1>3. TablesInv'
  BY <1>1, <1>2 DEF IInv, TablesInv, RunsOK, ParkedOK, OneRunPerDevice, Busy, ShadowIsSilent
<1> QED
  BY <1>1, <1>3, OutsideStep

LEMMA TimeInv == ASSUME IInv, Time PROVE IInv'
PROOF
<1>1. ASSUME NEW i \in Ids, WaitElapses(i) \/ RunAges(i) PROVE IInv'
  <2>1. PICK r \in Run :
          /\ runs' = [runs EXCEPT ![i] = r]
          /\ runs[i].status # "none"
          /\ r.status = runs[i].status /\ r.dev = runs[i].dev /\ r.shadow = runs[i].shadow
          /\ r.cursor = runs[i].cursor
          /\ r.ripe => runs[i].ripe \/ runs[i].status = "waiting"
    <3>1. runs[i] \in Run /\ runs \in [Ids -> Run]
      BY DEF IInv, TablesInv
    <3>2. CASE WaitElapses(i)
      <4> DEFINE r == [runs[i] EXCEPT !.ripe = TRUE]
      <4>1. runs' = [runs EXCEPT ![i] = r] /\ runs[i].status = "waiting"
        BY <3>1, <3>2 DEF WaitElapses
      <4>2. r \in Run /\ r.status = runs[i].status /\ r.dev = runs[i].dev
            /\ r.shadow = runs[i].shadow /\ r.cursor = runs[i].cursor
        BY <3>1 DEF Run
      <4> QED  BY <4>1, <4>2
    <3>3. CASE RunAges(i)
      <4> DEFINE r == [runs[i] EXCEPT !.age = Grow(@)]
      <4>1. runs' = [runs EXCEPT ![i] = r] /\ runs[i].status # "none"
        BY <3>1, <3>3 DEF RunAges, Opened
      <4>2. r \in Run /\ r.status = runs[i].status /\ r.dev = runs[i].dev
            /\ r.shadow = runs[i].shadow /\ r.cursor = runs[i].cursor
            /\ r.ripe = runs[i].ripe
        BY <3>1 DEF Run, Grow, Ages
      <4> QED  BY <4>1, <4>2
    <3> QED  BY <1>1, <3>2, <3>3
  <2>2. UNCHANGED <<row, proposal, overdue, sent, runner, op, budget>>
    BY <1>1 DEF WaitElapses, RunAges
  <2>3. TablesInv'
    <3>1. /\ r.status = "waiting" <=> r.cursor # None
          /\ r.ripe => r.status = "waiting"
          /\ r.status = "waiting" => proposal[i] = "none"
      BY <2>1 DEF IInv, TablesInv, RunsOK, ParkedOK
    <3>2. budget' \in [Budgets -> Nat]
      BY <2>2 DEF IInv, TablesInv
    <3>3. UNCHANGED <<row, proposal, overdue, sent>>
      BY <2>2
    <3> QED
      BY <2>1, <3>1, <3>2, <3>3, RewriteRun
  <2>4. \A j \in Ids : runs'[j].status = runs[j].status /\ runs'[j].shadow = runs[j].shadow
    BY <2>1 DEF IInv, TablesInv
  <2> QED
    BY <2>2, <2>3, <2>4, OutsideStep
<1>2. ASSUME NEW i \in Ids, ProposalAges(i) PROVE IInv'
  <2>1. overdue' \subseteq Ids /\ UNCHANGED <<row, runs, proposal, sent, runner, op, budget>>
    BY <1>2 DEF ProposalAges, IInv, TablesInv
  <2>2. TablesInv'
    BY <2>1 DEF IInv, TablesInv, row, RunsOK, ParkedOK, OneRunPerDevice, Busy, ShadowIsSilent
  <2> QED
    BY <2>1, <2>2, OutsideStep
<1> QED
  BY <1>1, <1>2 DEF Time

-----------------------------------------------------------------------------
(* The invariant *)

LEMMA InitInv == Init => IInv
PROOF
<1> SUFFICES ASSUME Init PROVE IInv
  OBVIOUS
<1>1. /\ runs \in [Ids -> Run] /\ proposal \in [Ids -> Decisions]
      /\ \A i \in Ids : runs[i] = NoRun /\ proposal[i] = "none"
  BY DEF Init, NoRun, Run, Statuses, Ages, Decisions
<1>2. budget \in [Budgets -> Nat]
  BY BoundAssumption DEF Init
<1>3. TablesInv
  BY <1>1, <1>2 DEF Init, TablesInv, NoRun, RunsOK, ParkedOK, OneRunPerDevice, Busy, Live,
     ShadowIsSilent
<1>4. RunnerInv
  BY NoZero DEF Init, Resting, RunnerInv, Runner, Locations, WalkOK, WalkInv
<1>5. HandlersInv
  BY DEF Init, HandlersInv, Handlers
<1> QED
  BY <1>3, <1>4, <1>5 DEF IInv

LEMMA NextInv == IInv /\ [Next]_vars => IInv'
PROOF
<1> SUFFICES ASSUME IInv, [Next]_vars PROVE IInv'
  OBVIOUS
<1>1. CASE Cycle
  <2>1. CASE Visit
    <3>1. CASE Propose
      BY <3>1, ProposeInv
    <3>2. CASE SendUpdate
      BY <3>2, SendInv
    <3>3. CASE UNCHANGED tables
      BY <2>1, <3>3, VisitRunner, CycleStep DEF tables
    <3> QED
      BY <2>1, <3>1, <3>2, <3>3 DEF Visit, VisitStop, VisitBranch, VisitAlert, VisitWait,
         Refuse, ShadowAction, AskTasks, Unsupported, UpdateAnswered
  <2> QED
    BY <1>1, <2>1, BeginCycleInv, AbandonInv, ResumeInv, ExpireInv, LoadInv, SkipInv,
       OpenRunInv, EndCycleInv, CloseRunInv DEF Cycle
<1>2. CASE WalkRaises \/ CycleRaises \/ Timeout \/ Crash
  BY <1>2, FaultInv
<1>3. CASE Operators
  BY <1>3, HandlerInv DEF Operators
<1>4. CASE \/ \E e, s \in BOOLEAN : SetWorkflowState(e, s)
           \/ \E g \in Graphs \cup {Invalid} : EditGraph(g)
  BY <1>4, AdminInv
<1>5. CASE Time
  BY <1>5, TimeInv
<1>6. CASE UNCHANGED vars
  BY <1>6, CycleStep DEF vars, tables, row, IInv, RunnerInv, WalkOK, WalkInv
<1> QED
  BY <1>1, <1>2, <1>3, <1>4, <1>5, <1>6 DEF Next

\* The strengthened invariant holds of every behaviour.
THEOREM Invariance == Spec => []IInv
PROOF
<1> QED
  BY InitInv, NextInv, PTL DEF Spec

\* Automation.TypeOK holds for any workflows, devices and operators.
THEOREM TypeCorrect == Spec => []TypeOK
PROOF
<1>1. IInv => TypeOK
  BY DEF IInv, TablesInv, RunnerInv, HandlersInv, TypeOK
<1> QED
  BY <1>1, Invariance, PTL

\* docs/spec/22-automation-workflows.md:95 (W9): however many runs are opened,
\* decided, cut short or edited under way, no device has two that are open.
THEOREM OneRunOpen == Spec => []OneRunPerDevice
PROOF
<1>1. IInv => OneRunPerDevice
  BY DEF IInv, TablesInv
<1> QED
  BY <1>1, Invariance, PTL

\* runner.py:11-15: no graph, edit, resumption or operator makes a run opened in
\* shadow send or propose anything.
THEOREM ShadowSilent == Spec => []ShadowIsSilent
PROOF
<1>1. IInv => ShadowIsSilent
  BY DEF IInv, TablesInv
<1> QED
  BY <1>1, Invariance, PTL

\* api/automation.py:384 and 417-423: whatever operators and the runner do between
\* each other's statements, only the decision of its proposal releases a run.
THEOREM ReleaseByDecision == Spec => ReleasedByDecision
PROOF
<1> DEFINE Released(i) == runs[i].status = "awaiting_approval"
                            /\ runs'[i].status # "awaiting_approval"
<1>1. ASSUME IInv, [Next]_vars, NEW i \in Ids, Released(i) PROVE proposal[i] \in Decided
  <2>1. runs \in [Ids -> Run]
    BY <1>1 DEF IInv, TablesInv
  <2>2. ASSUME NEW j \in Ids, Abandon(j) \/ Resume(j) PROVE FALSE
    <3>1. j # i
      BY <1>1, <2>2, DueRun DEF Abandon, Resume
    <3> QED
      BY <1>1, <2>1, <2>2, <3>1 DEF Abandon, Resume
  <2>3. ASSUME NEW d \in Devices, NEW j \in Ids, OpenRun(d, j) PROVE FALSE
    <3>1. j # i
      BY <1>1, <2>3 DEF OpenRun, Opened, Ids
    <3> QED
      BY <1>1, <2>1, <2>3, <3>1 DEF OpenRun
  <2>4. ASSUME CloseRun PROVE FALSE
    <3>1. runner.run # i
      BY <1>1, <2>4 DEF CloseRun, IInv, RunnerInv, WalkOK
    <3> QED
      BY <1>1, <2>1, <2>4, <3>1 DEF CloseRun
  <2>5. ASSUME NEW j \in Ids, WaitElapses(j) \/ RunAges(j) PROVE FALSE
    <3>1. runs[j] \in Run
      BY <2>1
    <3>2. ASSUME WaitElapses(j) PROVE runs'[i].status = runs[i].status
      BY <2>1, <3>1, <3>2 DEF WaitElapses, Run
    <3>3. ASSUME RunAges(j) PROVE runs'[i].status = runs[i].status
      BY <2>1, <3>1, <3>3 DEF RunAges, Run
    <3> QED
      BY <1>1, <2>5, <3>2, <3>3
  <2>6. ASSUME NEW q \in Requests, ReleaseRun(q) PROVE proposal[i] \in Decided
    <3>1. op[q].pc = "closing" /\ proposal[op[q].run] \in Decided
      BY <1>1, <2>6 DEF ReleaseRun, AtOp, IInv, HandlersInv
    <3>2. op[q].run = i
      BY <1>1, <2>1, <2>6 DEF ReleaseRun
    <3> QED
      BY <3>1, <3>2
  <2>7. ~ UNCHANGED runs
    BY <1>1
  <2> QED
    BY <1>1, <2>2, <2>3, <2>4, <2>5, <2>6, <2>7 DEF Next, Cycle, Visit, VisitStop,
       VisitBranch, VisitAlert, VisitWait, Refuse, ShadowAction, Propose, AskTasks,
       Unsupported, SendUpdate, UpdateAnswered, BeginCycle, ExpireProposals, LoadWorkflow,
       SkipDevice, EndCycle, WalkRaises, CycleRaises, Timeout, Crash, Operators, Decide,
       DispatchRefused, DispatchFails, Dispatched, RecordDecision, HandlerRaises,
       SetWorkflowState, EditGraph, Time, ProposalAges, tables, workflow, vars
<1>2. IInv /\ [Next]_vars => \A i \in Ids : Released(i) => proposal[i] \in Decided
  BY <1>1
<1> QED
  BY <1>2, Invariance, PTL DEF Spec, ReleasedByDecision

-----------------------------------------------------------------------------
(* G7: what has acted on a device *)

\* No walk acts again once it has acted, in whichever graph it goes on: After is
\* where an action leads, and nothing there acts or proposes.
LastAction(After) ==
    \A g \in Graphs : \A n \in DOMAIN g.kind :
        /\ g.kind[n] = "act" => g.next[n] \in After \cup {None}
        /\ n \in After => /\ g.kind[n] \notin {"act", "propose"}
                          /\ {g.next[n], g.no[n]} \subseteq After \cup {None}

\* A run that has acted is past its last action, parked or walking, and is not
\* refused any more.
PastAction(After) ==
    /\ \A i \in Ids : Acted(i) => runs[i].status # "refused"
    /\ \A i \in sent : runs[i].cursor \in After \cup {None}
    /\ runner.pc = "walk" /\ runner.run \in sent =>
         /\ {runner.node, runner.cursor} \subseteq After \cup {None}
         /\ runner.outcome # "refused"
    /\ runner.pc \in {"asking", "sent"} => runner.graph.kind[runner.node] = "act"

\* The answer of G7 is still right when the call it let through goes out.
CooledInv ==
    runner.pc = "asking" =>
        \A j \in runner.cool \ {runner.run} :
            Acted(j) => runs[j].dev # runs[runner.run].dev

\* Only the walk acts, by a call or a proposal.
LEMMA OnlyWalkActs ==
    ASSUME IInv, [Next]_vars, NEW i \in Ids, Acts(i)
    PROVE  /\ i = runner.run
           /\ \/ SendUpdate /\ i \in sent' /\ UNCHANGED proposal
              \/ Propose /\ UNCHANGED sent
PROOF
<1>1. proposal \in [Ids -> Decisions]
  BY DEF IInv, TablesInv
<1>2. CASE SendUpdate
  BY <1>2 DEF SendUpdate, Acts
<1>3. CASE Propose
  BY <1>1, <1>3 DEF Propose, Acts
<1>4. CASE ExpireProposals
  BY <1>1, <1>4 DEF ExpireProposals, Acts
<1>5. ASSUME NEW q \in Requests, DispatchRefused(q) \/ RecordDecision(q) PROVE FALSE
  <2>1. op[q].run \in Ids /\ proposal[op[q].run] # "none"
    BY <1>5 DEF DispatchRefused, RecordDecision, AtOp, IInv, HandlersInv
  <2>2. sent' = sent /\ \A j \in Ids : j # op[q].run => proposal'[j] = proposal[j]
    BY <1>1, <1>5 DEF DispatchRefused, RecordDecision, workflow
  <2> QED
    BY <2>1, <2>2 DEF Acts
<1>6. ASSUME UNCHANGED <<proposal, sent>> PROVE FALSE
  BY <1>6 DEF Acts
<1> QED
  BY <1>2, <1>3, <1>4, <1>5, <1>6 DEF Next, Cycle, Visit, VisitStop, VisitBranch, VisitAlert,
     VisitWait, Refuse, ShadowAction, AskTasks, Unsupported, UpdateAnswered, BeginCycle,
     Abandon, Resume, LoadWorkflow, SkipDevice, OpenRun, EndCycle, CloseRun, WalkRaises,
     CycleRaises, Timeout, Crash, Operators, Decide, DispatchFails, Dispatched, ReleaseRun,
     HandlerRaises, SetWorkflowState, EditGraph, Time, WaitElapses, RunAges, ProposalAges,
     tables, workflow, vars

\* What a step does to the runner.
LEMMA RunnerSteps ==
    ASSUME IInv, [Next]_vars
    PROVE  \/ UNCHANGED runner
           \/ runner'.run = 0
           \/ Visit
           \/ \E i \in Ids : Resume(i)
           \/ \E d \in Devices, i \in Ids : OpenRun(d, i)
PROOF
<1>1. runner \in Runner /\ WalkOK
  BY DEF IInv, RunnerInv
<1>2. ASSUME NEW i \in Ids, Abandon(i) PROVE runner'.run = 0
  BY <1>1, <1>2 DEF Abandon, Runner, WalkOK
<1>3. ASSUME BeginCycle \/ ExpireProposals
               \/ (\E m \in SUBSET Devices : LoadWorkflow(m))
               \/ (\E d \in Devices : SkipDevice(d))
      PROVE  runner'.run = 0
  BY <1>1, <1>3 DEF BeginCycle, ExpireProposals, LoadWorkflow, SkipDevice, Runner, WalkOK
<1>4. ASSUME EndCycle \/ CycleRaises \/ Timeout \/ Crash PROVE runner'.run = 0
  BY <1>4 DEF EndCycle, CycleRaises, Timeout, Crash, Resting
<1>5. ASSUME CloseRun \/ WalkRaises PROVE runner'.run = 0
  BY <1>1, <1>5 DEF CloseRun, WalkRaises, Return, Runner
<1> QED
  BY <1>2, <1>3, <1>4, <1>5 DEF Next, Cycle, Operators, Decide, DispatchRefused,
     DispatchFails, Dispatched, RecordDecision, ReleaseRun, HandlerRaises, SetWorkflowState,
     EditGraph, Time, WaitElapses, RunAges, ProposalAges, workflow, vars

\* What a step does to a run: it closes the walk's, or moves one that is parked,
\* awaits approval or is new.  No step makes another device of a run's.
LEMMA RunSteps ==
    ASSUME IInv, [Next]_vars, NEW i \in Ids
    PROVE  \/ UNCHANGED <<runs[i].status, runs[i].cursor, runs[i].dev>>
           \/ /\ runs[i].status = "awaiting_approval"
              /\ runs'[i].status = "done"
              /\ UNCHANGED <<runs[i].cursor, runs[i].dev>>
           \/ /\ runs[i].status = "waiting"
              /\ runs'[i].status \in {"running", "done"}
              /\ runs'[i].cursor = None
              /\ UNCHANGED runs[i].dev
           \/ /\ runs[i].status = "none"
              /\ runs'[i].status = "running"
              /\ runs'[i].cursor = None
              /\ i = runner'.run
           \/ /\ CloseRun
              /\ i = runner.run
              /\ runs'[i].status = runner.outcome
              /\ runs'[i].cursor = runner.cursor
              /\ UNCHANGED runs[i].dev
PROOF
<1>1. runs \in [Ids -> Run] /\ runner \in Runner
  BY DEF IInv, TablesInv, RunnerInv
<1> DEFINE Same(j) == UNCHANGED <<runs[j].status, runs[j].cursor, runs[j].dev>>
<1>2. ASSUME NEW j \in Ids, Abandon(j) \/ Resume(j)
      PROVE  \/ Same(i)
             \/ /\ runs[i].status = "waiting"
                /\ runs'[i].status \in {"running", "done"}
                /\ runs'[i].cursor = None
                /\ UNCHANGED runs[i].dev
  <2>1. runs[j].status = "waiting"
    BY <1>2, DueRun DEF Abandon, Resume
  <2> QED
    BY <1>1, <1>2, <2>1 DEF Abandon, Resume, Run
<1>3. ASSUME NEW d \in Devices, NEW j \in Ids, OpenRun(d, j)
      PROVE  \/ Same(i)
             \/ /\ runs[i].status = "none"
                /\ runs'[i].status = "running"
                /\ runs'[i].cursor = None
                /\ i = runner'.run
  <2>1. j \notin Opened
    BY <1>3 DEF OpenRun, Ids
  <2>2. runner'.run = j
    BY <1>1, <1>3 DEF OpenRun, Walk, Runner
  <2> QED
    BY <1>1, <1>3, <2>1, <2>2 DEF OpenRun, Opened, NoRun
<1>4. ASSUME CloseRun
      PROVE  \/ Same(i)
             \/ /\ i = runner.run
                /\ runs'[i].status = runner.outcome
                /\ runs'[i].cursor = runner.cursor
                /\ UNCHANGED runs[i].dev
  BY <1>1, <1>4 DEF CloseRun, Run
<1>5. ASSUME NEW q \in Requests, ReleaseRun(q)
      PROVE  \/ Same(i)
             \/ /\ runs[i].status = "awaiting_approval"
                /\ runs'[i].status = "done"
                /\ UNCHANGED <<runs[i].cursor, runs[i].dev>>
  BY <1>1, <1>5 DEF ReleaseRun, Run
<1>6. ASSUME NEW j \in Ids, WaitElapses(j) \/ RunAges(j) PROVE Same(i)
  <2>1. CASE WaitElapses(j)
    BY <1>1, <2>1 DEF WaitElapses, Run
  <2>2. CASE RunAges(j)
    BY <1>1, <2>2 DEF RunAges, Run
  <2> QED
    BY <1>6, <2>1, <2>2
<1>7. ASSUME UNCHANGED runs PROVE Same(i)
  BY <1>7
<1> HIDE DEF Same
<1>8. QED
  <2>1. \/ UNCHANGED runs \/ CloseRun
        \/ \E j \in Ids : Abandon(j) \/ Resume(j) \/ WaitElapses(j) \/ RunAges(j)
        \/ \E d \in Devices, j \in Ids : OpenRun(d, j)
        \/ \E q \in Requests : ReleaseRun(q)
    BY DEF Next, Cycle, Visit, VisitStop, VisitBranch, VisitAlert, VisitWait, Refuse,
       ShadowAction, Propose, AskTasks, Unsupported, SendUpdate, UpdateAnswered, BeginCycle,
       ExpireProposals, LoadWorkflow, SkipDevice, EndCycle, WalkRaises, CycleRaises,
       Timeout, Crash, Operators, Decide, DispatchRefused, DispatchFails, Dispatched,
       RecordDecision, HandlerRaises, SetWorkflowState, EditGraph, Time, ProposalAges,
       tables, workflow, vars
  <2> QED
    BY <1>2, <1>3, <1>4, <1>5, <1>6, <1>7, <2>1 DEF Same

\* A run that is not the walk's acts in no step.
LEMMA OthersDoNotAct ==
    ASSUME IInv, [Next]_vars, NEW i \in Ids, i # runner.run
    PROVE  Acted(i)' => Acted(i)
BY OnlyWalkActs DEF Acted, Acts

\* Nobody has acted for a run that is not open, and a parked run has not proposed.
LEMMA ActedIsOpen ==
    ASSUME IInv, NEW i \in Ids, Acted(i)
    PROVE  /\ runs[i].status # "none"
           /\ ~ runs[i].shadow
BY DEF IInv, TablesInv, ParkedOK, ShadowIsSilent, Acted

\* A visit moves the walk on in the same run, and past its action once it acts.
LEMMA VisitPast ==
    ASSUME IInv, NEW After, LastAction(After), PastAction(After), Visit
    PROVE  /\ runner'.run = runner.run
           /\ runner'.pc = "walk" /\ runner.run \in sent' =>
                /\ {runner'.node, runner'.cursor} \subseteq After \cup {None}
                /\ runner'.outcome # "refused"
           /\ runner'.pc \in {"asking", "sent"} =>
                runner'.graph.kind[runner'.node] = "act"
PROOF
<1>1. runner \in Runner /\ WalkOK /\ WalkInv
  BY DEF IInv, RunnerInv
<1>2. runner.pc \in {"walk", "asking", "sent"} /\ runner.node # None
  BY <1>1 DEF Visit, VisitStop, VisitAlert, VisitBranch, VisitWait, Refuse, ShadowAction,
     Propose, AskTasks, Unsupported, SendUpdate, UpdateAnswered, Visiting, WalkOK
<1> DEFINE g == runner.graph
           n == runner.node
<1>3. /\ g \in Graphs /\ n \in DOMAIN g.kind
      /\ runner.outcome = "done" /\ runner.cursor = None
  BY <1>2, Visited
<1>4. /\ g.kind[n] = "act" => g.next[n] \in After \cup {None}
      /\ n \in After => /\ g.kind[n] \notin {"act", "propose"}
                        /\ {g.next[n], g.no[n]} \subseteq After \cup {None}
  BY <1>3 DEF LastAction
<1> HIDE DEF g, n
<1>5. runner.run \in sent /\ runner.pc = "walk" => n \in After
  BY <1>2 DEF PastAction, n
<1>6. runner.pc \in {"asking", "sent"} => g.kind[n] = "act"
  BY DEF PastAction, g, n
<1>7. ASSUME Visiting("act") \/ Visiting("propose"), runner.run \in sent PROVE FALSE
  BY <1>4, <1>5, <1>7 DEF Visiting, g, n
<1> DEFINE Past ==
      /\ runner'.run = runner.run
      /\ runner'.pc = "walk" /\ runner.run \in sent' =>
           /\ {runner'.node, runner'.cursor} \subseteq After \cup {None}
           /\ runner'.outcome # "refused"
      /\ runner'.pc \in {"asking", "sent"} =>
           runner'.graph.kind[runner'.node] = "act"
<1> SUFFICES Past
  BY DEF Past
<1>8. ASSUME NEW m, Goto(m), m \in After \cup {None} \/ runner.run \notin sent' PROVE Past
  <2>1. /\ runner'.run = runner.run /\ runner'.pc = "walk" /\ runner'.node = m
        /\ runner'.cursor = None /\ runner'.outcome = "done"
    BY <1>1, <1>3, <1>8 DEF Goto, Runner
  <2> QED
    BY <1>8, <2>1
<1>9. ASSUME NEW outcome, Ends(outcome), outcome # "refused" \/ runner.run \notin sent'
      PROVE  Past
  <2>1. /\ runner'.run = runner.run /\ runner'.pc = "walk" /\ runner'.node = None
        /\ runner'.cursor = None /\ runner'.outcome = outcome
    BY <1>1, <1>3, <1>9 DEF Ends, Runner
  <2> QED
    BY <1>9, <2>1
<1>10. ASSUME VisitWait, Successor # None PROVE Past
  <2>1. /\ runner.pc = "walk" /\ sent' = sent
        /\ runner' = [runner EXCEPT !.node = None, !.outcome = "waiting",
                                    !.cursor = g.next[n]]
    BY <1>10 DEF VisitWait, Visiting, tables, Successor, g, n
  <2>2. /\ runner'.run = runner.run /\ runner'.pc = "walk" /\ runner'.node = None
        /\ runner'.cursor = g.next[n] /\ runner'.outcome = "waiting"
    BY <1>1, <2>1 DEF Runner
  <2> QED
    BY <1>4, <1>5, <2>1, <2>2
<1>11. CASE AskTasks \/ SendUpdate
  <2>1. /\ runner'.run = runner.run /\ runner'.pc \in {"asking", "sent"}
        /\ runner'.graph = runner.graph /\ runner'.node = runner.node
        /\ g.kind[n] = "act"
    BY <1>1, <1>6, <1>11 DEF AskTasks, SendUpdate, Visiting, Runner, g, n
  <2> QED
    BY <2>1 DEF g, n
<1> HIDE DEF Past
<1>12. CASE VisitStop \/ VisitAlert \/ VisitBranch \/ (VisitWait /\ Successor = None)
  <2>1. /\ runner.pc = "walk" /\ sent' = sent
        /\ Goto(g.next[n]) \/ Goto(g.no[n]) \/ Ends("done")
    BY <1>12 DEF VisitStop, VisitAlert, VisitBranch, VisitWait, Visiting, tables, Successor, g, n
  <2> QED
    BY <1>4, <1>5, <1>8, <1>9, <2>1
<1>13. CASE Refuse \/ Propose \/ ShadowAction
  <2>1. /\ runner.run \notin sent'
        /\ Goto(Successor) \/ (\E outcome : Ends(outcome))
    BY <1>7, <1>13 DEF Refuse, Propose, ShadowAction, tables
  <2> QED
    BY <1>8, <1>9, <2>1
<1>14. CASE Unsupported \/ UpdateAnswered
  <2>1. /\ g.kind[n] = "act"
        /\ Goto(g.next[n]) \/ Ends("done")
    BY <1>6, <1>14 DEF Unsupported, UpdateAnswered, Successor, g, n
  <2> QED
    BY <1>4, <1>8, <1>9, <2>1
<1> QED
  BY <1>10, <1>11, <1>12, <1>13, <1>14 DEF Visit

LEMMA PastActionStep ==
    ASSUME IInv, [Next]_vars, IInv', NEW After, LastAction(After), PastAction(After)
    PROVE  PastAction(After)'
PROOF
<1>1. /\ runner \in Runner /\ WalkOK /\ WalkInv /\ RunsOK /\ runs \in [Ids -> Run]
      /\ sent \subseteq Ids
  BY DEF IInv, RunnerInv, TablesInv
<1>2. ASSUME NEW i \in Ids, Acts(i) PROVE i = runner.run /\ runs[i].status = "running"
  BY <1>1, <1>2, OnlyWalkActs, NoZero DEF WalkOK
<1>3. ASSUME NEW i \in Ids, Acted(i)' PROVE runs'[i].status # "refused"
  <2>1. CASE CloseRun /\ i = runner.run
    <3>1. /\ runner.pc = "walk" /\ UNCHANGED <<proposal, sent>>
          /\ runs'[i].status = runner.outcome
      BY <1>1, <2>1 DEF CloseRun, Run
    <3>2. CASE i \in sent
      BY <2>1, <3>1, <3>2 DEF PastAction
    <3>3. CASE proposal[i] # "none"
      BY <1>1, <2>1, <3>1, <3>3, NoZero DEF WalkInv
    <3> QED
      BY <1>3, <3>1, <3>2, <3>3 DEF Acted
  <2>2. CASE Acted(i) /\ ~ (CloseRun /\ i = runner.run)
    BY <2>2, RunSteps DEF PastAction
  <2>3. CASE Acts(i) /\ ~ (CloseRun /\ i = runner.run)
    BY <1>2, <2>3, RunSteps
  <2> QED
    BY <1>3, <2>1, <2>2, <2>3 DEF Acted, Acts
<1>4. ASSUME NEW i \in sent' PROVE runs'[i].cursor \in After \cup {None}
  <2>1. i \in Ids
    BY <1>4 DEF IInv, TablesInv
  <2>2. CASE CloseRun /\ i = runner.run
    BY <1>1, <1>4, <2>1, <2>2 DEF CloseRun, PastAction, Run
  <2>3. CASE i \in sent /\ ~ (CloseRun /\ i = runner.run)
    BY <2>1, <2>3, RunSteps DEF PastAction
  <2>4. CASE Acts(i) /\ ~ (CloseRun /\ i = runner.run)
    <3>1. runs[i].cursor = None
      BY <1>1, <1>2, <2>1, <2>4 DEF RunsOK
    <3> QED
      BY <2>1, <2>4, <3>1, RunSteps
  <2> QED
    BY <1>4, <2>1, <2>2, <2>3, <2>4 DEF Acts
<1>5. /\ runner'.pc = "walk" /\ runner'.run \in sent' =>
            /\ {runner'.node, runner'.cursor} \subseteq After \cup {None}
            /\ runner'.outcome # "refused"
      /\ runner'.pc \in {"asking", "sent"} => runner'.graph.kind[runner'.node] = "act"
  <2>1. CASE UNCHANGED runner
    <3>1. runner.pc = "walk" => sent' = sent
      <4> SUFFICES ASSUME runner.pc = "walk", NEW i \in Ids, Acts(i) PROVE i \notin sent' \ sent
        BY <1>1 DEF Acts, IInv, TablesInv, Next, Cycle, Visit, VisitStop, VisitBranch,
           VisitAlert, VisitWait, Refuse, ShadowAction, Propose, AskTasks, Unsupported,
           SendUpdate, UpdateAnswered, BeginCycle, Abandon, Resume, ExpireProposals,
           LoadWorkflow, SkipDevice, OpenRun, EndCycle, CloseRun, WalkRaises, CycleRaises,
           Timeout, Crash, Operators, Decide, DispatchRefused, DispatchFails, Dispatched,
           RecordDecision, ReleaseRun, HandlerRaises, SetWorkflowState, EditGraph, Time,
           WaitElapses, RunAges, ProposalAges, tables, workflow, vars
      <4> QED
        BY OnlyWalkActs DEF SendUpdate
    <3> QED
      BY <2>1, <3>1 DEF PastAction
  <2>2. CASE runner'.run = 0
    BY <2>2 DEF IInv, RunnerInv, WalkOK
  <2>3. CASE Visit
    BY <2>3, VisitPast
  <2>4. ASSUME NEW i \in Ids, Resume(i)
        PROVE  /\ runner'.pc = "walk" /\ runner'.run = i /\ runner'.node = runs[i].cursor
               /\ runner'.cursor = None /\ runner'.outcome = "done" /\ sent' = sent
    BY <1>1, <2>4 DEF Resume, Walk, Runner
  <2>5. ASSUME NEW d \in Devices, NEW i \in Ids, OpenRun(d, i)
        PROVE  runner'.pc = "walk" /\ runner'.run = i /\ i \notin sent'
    <3>1. i \notin Opened /\ sent' = sent
      BY <2>5 DEF OpenRun, Ids
    <3> QED
      BY <1>1, <2>5, <3>1, ActedIsOpen DEF OpenRun, Walk, Runner, Opened, Acted
  <2> QED
    BY <2>1, <2>2, <2>3, <2>4, <2>5, RunnerSteps DEF PastAction
<1> QED
  BY <1>3, <1>4, <1>5 DEF PastAction

\* The guards' answer is awaited over only by the run they answered.
LEMMA AskingStays ==
    ASSUME IInv, [Next]_vars, IInv', runner'.pc = "asking"
    PROVE  /\ runner'.run = runner.run /\ runner.run \in Ids
           /\ runner'.cool = runner.cool /\ runner'.hour = runner.hour
           /\ AskTasks \/ UNCHANGED runner
           /\ UNCHANGED runs[runner.run].dev
           /\ \A j \in Ids \ {runner.run} :
                Acted(j)' => Acted(j) /\ UNCHANGED runs[j].dev
PROOF
<1>1. /\ runner \in Runner /\ WalkOK /\ WalkInv
      /\ runner' \in Runner /\ runner'.run # 0
  BY DEF IInv, RunnerInv, WalkOK
<1>2. AskTasks \/ UNCHANGED runner
  <2>1. ASSUME NEW i \in Ids, Resume(i) PROVE FALSE
    BY <1>1, <2>1 DEF Resume, Walk, Runner
  <2>2. ASSUME NEW d \in Devices, NEW i \in Ids, OpenRun(d, i) PROVE FALSE
    BY <1>1, <2>2 DEF OpenRun, Walk, Runner
  <2>3. CASE Visit
    <3>1. ASSUME NEW n, Goto(n) PROVE FALSE
      BY <1>1, <3>1 DEF Goto, Runner
    <3>2. ASSUME NEW outcome, Ends(outcome) PROVE FALSE
      BY <1>1, <3>2 DEF Ends, Runner
    <3>3. ASSUME VisitWait, Successor # None PROVE FALSE
      BY <1>1, <3>3 DEF VisitWait, Visiting, Runner
    <3>4. ASSUME SendUpdate PROVE FALSE
      BY <1>1, <3>4 DEF SendUpdate, Runner
    <3> QED
      BY <2>3, <3>1, <3>2, <3>3, <3>4 DEF Visit, VisitStop, VisitAlert, VisitBranch,
         VisitWait, Refuse, ShadowAction, Propose, Unsupported, UpdateAnswered
  <2> QED
    BY <1>1, <2>1, <2>2, <2>3, RunnerSteps
<1>3. /\ runner'.run = runner.run /\ runner'.cool = runner.cool /\ runner'.hour = runner.hour
  BY <1>1, <1>2 DEF AskTasks, Runner
<1>4. runner.run \in Ids /\ runs[runner.run].status = "running"
  BY <1>1, <1>3 DEF Runner, WalkOK
<1>5. UNCHANGED runs[runner.run].dev
  BY <1>3, <1>4, RunSteps
<1>6. ASSUME NEW j \in Ids \ {runner.run}, Acted(j)' PROVE Acted(j) /\ UNCHANGED runs[j].dev
  <2>1. Acted(j)
    BY <1>6, OthersDoNotAct
  <2> QED
    BY <2>1, ActedIsOpen, RunSteps
<1> QED
  BY <1>2, <1>3, <1>4, <1>5, <1>6

LEMMA CooledStep ==
    ASSUME IInv, [Next]_vars, IInv', NEW After, PastAction(After), CooledInv
    PROVE  CooledInv'
PROOF
<1> SUFFICES ASSUME runner'.pc = "asking", NEW j \in runner'.cool \ {runner'.run}, Acted(j)'
             PROVE  runs'[j].dev # runs'[runner'.run].dev
  BY DEF CooledInv
<1>1. runner \in Runner
  BY DEF IInv, RunnerInv
<1>2. /\ runner'.run = runner.run
      /\ j \in runner.cool /\ j \in Ids /\ j # runner.run
      /\ AskTasks \/ UNCHANGED runner
      /\ Acted(j)
      /\ UNCHANGED <<runs[j].dev, runs[runner.run].dev>>
  BY <1>1, AskingStays DEF Runner
<1>3. CASE AskTasks
  <2>1. ~ CoolingDown
    BY <1>3 DEF AskTasks, Allowed
  <2>2. ~ runs[j].shadow /\ runs[j].status # "refused"
    BY <1>2, ActedIsOpen DEF PastAction
  <2> QED
    BY <1>2, <2>1, <2>2 DEF CoolingDown
<1>4. CASE UNCHANGED runner
  BY <1>2, <1>4 DEF CooledInv
<1> QED
  BY <1>2, <1>3, <1>4

\* docs/spec/22-automation-workflows.md:126 (G7) and guards.py:189: whatever was
\* edited, parked, decided or cut short meanwhile, a run acts on a device only if no
\* other acted on it within the cooldown.
THEOREM CooldownIsKept ==
    ASSUME NEW CONSTANT After, LastAction(After)
    PROVE  Spec => CooldownHolds
PROOF
<1> DEFINE Inv == IInv /\ PastAction(After) /\ CooledInv
           Kept == \A i, j \in Ids :
                     Acts(i) /\ Acted(j) /\ i # j /\ runs[i].dev = runs[j].dev => j \notin runner.cool
<1>1. Init => Inv
  <2> SUFFICES ASSUME Init PROVE PastAction(After) /\ CooledInv
    BY InitInv
  <2>1. runner.pc = "idle" /\ runner.run = 0 /\ sent = {}
        /\ \A i \in Ids : ~ Acted(i)
    BY DEF Init, Resting, Acted
  <2> QED
    BY <2>1 DEF PastAction, CooledInv
<1>2. Inv /\ [Next]_vars => Inv'
  BY NextInv, PastActionStep, CooledStep
<1>3. Inv /\ [Next]_vars => [Kept]_vars
  <2> SUFFICES ASSUME Inv, [Next]_vars, NEW i \in Ids, NEW j \in Ids,
                      Acts(i), Acted(j), i # j, runs[i].dev = runs[j].dev, j \in runner.cool
               PROVE  FALSE
    OBVIOUS
  <2>1. i = runner.run /\ j \in runner.cool \ {runner.run}
    BY OnlyWalkActs
  <2>2. CASE SendUpdate
    BY <2>1, <2>2 DEF SendUpdate, CooledInv
  <2>3. CASE Propose
    <3>1. ~ CoolingDown
      BY <2>3 DEF Propose, Allowed
    <3>2. ~ runs[j].shadow /\ runs[j].status # "refused"
      BY ActedIsOpen DEF PastAction
    <3> QED
      BY <2>1, <3>1, <3>2 DEF CoolingDown
  <2> QED
    BY <2>2, <2>3, OnlyWalkActs
<1> QED
  BY <1>1, <1>2, <1>3, PTL DEF Spec, CooldownHolds

-----------------------------------------------------------------------------
(* G7 and proposals, on any graph *)

\* guards.py:189, for the disruptive actions: no run acts on a device for which
\* another proposed one within the cooldown, whatever became of the proposal.
ProposalsCool ==
    [][\A i, j \in Ids : Acts(i) /\ proposal[j] # "none" /\ i # j /\ runs[i].dev = runs[j].dev =>
         j \notin runner.cool]_vars

\* A run that has proposed is not refused, at any later node.
ProposersStand == \A i \in Ids : proposal[i] # "none" => runs[i].status # "refused"

\* And the answer of G7 stays right.
ProposedInv ==
    /\ ProposersStand
    /\ runner.pc = "asking" =>
         \A j \in runner.cool \ {runner.run} :
             proposal[j] # "none" => runs[j].dev # runs[runner.run].dev

\* What G7 let through is not for the device of another that has proposed.
LEMMA CoolForProposals ==
    ASSUME IInv, ProposedInv, ~ CoolingDown,
           NEW j \in runner.cool \ {runner.run}, proposal[j] # "none"
    PROVE  runs[j].dev # runs[runner.run].dev
PROOF
<1>1. j \in Ids
  BY DEF IInv, RunnerInv, Runner
<1>2. ~ runs[j].shadow /\ runs[j].status # "refused"
  BY <1>1, ActedIsOpen DEF Acted, ProposedInv, ProposersStand
<1> QED
  BY <1>2 DEF CoolingDown

LEMMA StandingStep ==
    ASSUME IInv, [Next]_vars, ProposersStand
    PROVE  ProposersStand'
PROOF
<1>1. runner \in Runner /\ WalkOK /\ WalkInv /\ runs \in [Ids -> Run]
  BY DEF IInv, RunnerInv, TablesInv
<1>2. ASSUME NEW i \in Ids, proposal'[i] # "none" PROVE runs'[i].status # "refused"
  <2>1. CASE CloseRun /\ i = runner.run
    <3>1. runner.pc = "walk" /\ proposal[i] # "none" /\ runs'[i].status = runner.outcome
      BY <1>1, <1>2, <2>1 DEF CloseRun, Run
    <3> QED
      BY <1>1, <2>1, <3>1, NoZero DEF WalkInv
  <2>2. CASE proposal[i] # "none" /\ ~ (CloseRun /\ i = runner.run)
    BY <2>2, RunSteps DEF ProposersStand
  <2>3. CASE proposal[i] = "none" /\ ~ (CloseRun /\ i = runner.run)
    <3>1. i = runner.run /\ runs[i].status = "running"
      BY <1>1, <1>2, <2>3, OnlyWalkActs, NoZero DEF Acts, WalkOK
    <3> QED
      BY <2>3, <3>1, RunSteps
  <2> QED
    BY <2>1, <2>2, <2>3
<1> QED
  BY <1>2 DEF ProposersStand

LEMMA ProposedStep ==
    ASSUME IInv, [Next]_vars, IInv', ProposedInv
    PROVE  ProposedInv'
PROOF
<1>1. runner \in Runner /\ WalkOK
  BY DEF IInv, RunnerInv
<1>2. ProposersStand'
  BY StandingStep DEF ProposedInv
<1>3. ASSUME runner'.pc = "asking", NEW j \in runner'.cool \ {runner'.run},
             proposal'[j] # "none"
      PROVE  runs'[j].dev # runs'[runner'.run].dev
  <2>1. /\ runner'.run = runner.run /\ j \in runner.cool \ {runner.run} /\ j \in Ids
        /\ AskTasks \/ UNCHANGED runner
        /\ Acted(j)
        /\ UNCHANGED <<runs[j].dev, runs[runner.run].dev>>
    BY <1>1, <1>3, AskingStays DEF Acted, Runner
  <2>2. proposal[j] # "none"
    BY <1>3, <2>1, OnlyWalkActs DEF Acts
  <2>3. CASE AskTasks
    BY <2>1, <2>2, <2>3, CoolForProposals DEF AskTasks, Allowed
  <2>4. CASE UNCHANGED runner
    BY <1>3, <2>1, <2>2, <2>4 DEF ProposedInv
  <2> QED
    BY <2>1, <2>3, <2>4
<1> QED
  BY <1>2, <1>3 DEF ProposedInv

\* guards.py:189: on any graph, and whatever raises, restarts or is
\* decided meanwhile, a proposal keeps others from acting on its device for the
\* cooldown.
THEOREM ProposalsCoolDown == Spec => ProposalsCool
PROOF
<1> DEFINE Inv == IInv /\ ProposedInv
           Kept == \A i, j \in Ids :
                     Acts(i) /\ proposal[j] # "none" /\ i # j /\ runs[i].dev = runs[j].dev =>
                        j \notin runner.cool
<1>1. Init => Inv
  <2> SUFFICES ASSUME Init PROVE ProposedInv
    BY InitInv
  <2> QED
    BY DEF Init, Resting, ProposedInv, ProposersStand
<1>2. Inv /\ [Next]_vars => Inv'
  BY NextInv, ProposedStep
<1>3. Inv /\ [Next]_vars => [Kept]_vars
  <2> SUFFICES ASSUME Inv, [Next]_vars, NEW i \in Ids, NEW j \in Ids, Acts(i),
                      proposal[j] # "none", i # j, runs[i].dev = runs[j].dev, j \in runner.cool
               PROVE  FALSE
    OBVIOUS
  <2>1. i = runner.run /\ j \in runner.cool \ {runner.run}
    BY OnlyWalkActs
  <2>2. CASE SendUpdate
    BY <2>1, <2>2 DEF SendUpdate, ProposedInv
  <2>3. CASE Propose
    BY <2>1, <2>3, CoolForProposals DEF Propose, Allowed
  <2> QED
    BY <2>2, <2>3, OnlyWalkActs
<1> QED
  BY <1>1, <1>2, <1>3, PTL DEF Spec, ProposalsCool

-----------------------------------------------------------------------------
(* G8: what has acted at all *)

\* The other runs of the last hour that have acted and that G8 can see.
Counting == {j \in runner.hour \ {runner.run} : Acted(j) /\ ~ Unseen(j)}

\* The answer of G8 is still right when the call it let through goes out.
CountedInv ==
    /\ ProposersStand
    /\ runner.pc = "asking" => Cardinality(Counting) < FleetLimit

\* When G8 lets an action through, fewer than FleetLimit others have acted.
LEMMA CountIsEnough ==
    ASSUME IInv, ProposersStand, ~ AtRateLimit
    PROVE  Cardinality(Counting) < FleetLimit
PROOF
<1> DEFINE Counted == {j \in runner.hour \ {runner.run} :
               ~ runs[j].shadow /\ runs[j].status \in {"done", "awaiting_approval"}}
<1>1. runner.hour \subseteq Ids /\ IsFiniteSet(Ids)
  <2>1. IsFiniteSet(Ids)
    BY WorkflowAssumption, FS_Interval DEF Ids
  <2> QED
    BY <2>1 DEF IInv, RunnerInv, Runner
<1>2. Counting \subseteq Counted
  <2> SUFFICES ASSUME NEW j \in Ids, Acted(j), ~ Unseen(j)
               PROVE  ~ runs[j].shadow /\ runs[j].status \in {"done", "awaiting_approval"}
    BY <1>1 DEF Counting
  <2>1. runs[j].status \in Statuses /\ runs[j].status # "none" /\ ~ runs[j].shadow
    BY ActedIsOpen DEF IInv, TablesInv, Run
  <2>2. runs[j].status \notin {"waiting", "refused"}
    BY DEF Unseen, ProposersStand, IInv, TablesInv, ParkedOK
  <2> QED
    BY <2>1, <2>2 DEF Unseen, Statuses, Live
<1>3. IsFiniteSet(Counted)
  BY <1>1, FS_Subset
<1>4. ~ (Cardinality(Counted) >= FleetLimit)
  BY DEF AtRateLimit
<1> HIDE DEF Counted
<1>5. /\ IsFiniteSet(Counting)
      /\ Cardinality(Counting) <= Cardinality(Counted)
  BY <1>2, <1>3, FS_Subset
<1>6. Cardinality(Counting) \in Nat /\ Cardinality(Counted) \in Nat
  BY <1>3, <1>5, FS_CardinalityType
<1> QED
  BY <1>4, <1>5, <1>6, WorkflowAssumption

\* While the task list is awaited no run is resumed, and no other run is closed:
\* an action that G8 could not see stays out of its sight.
LEMMA UnseenStays ==
    ASSUME IInv, [Next]_vars, runner.pc = "asking", UNCHANGED runner,
           NEW j \in Ids \ {runner.run}, Unseen(j)
    PROVE  Unseen(j)'
PROOF
<1>1. runner \in Runner /\ WalkOK /\ runs \in [Ids -> Run]
  BY DEF IInv, RunnerInv, TablesInv
<1>2. ASSUME NEW i \in Ids, Abandon(i) \/ Resume(i) PROVE FALSE
  BY <1>2 DEF Abandon, Resume
<1>3. runs'[j].status = runs[j].status
  <2>1. runs[j].status \in {"running", "waiting", "refused"}
    BY DEF Unseen
  <2>2. CASE runs[j].status \in {"running", "refused"}
    BY <2>2, RunSteps DEF CloseRun
  <2>3. CASE runs[j].status = "waiting"
    <3>1. \/ UNCHANGED runs
          \/ \E i \in Ids : WaitElapses(i) \/ RunAges(i)
          \/ \E q \in Requests : ReleaseRun(q)
      BY <1>2 DEF Next, Cycle, Visit, VisitStop, VisitBranch, VisitAlert, VisitWait, Refuse,
         ShadowAction, Propose, AskTasks, Unsupported, SendUpdate, UpdateAnswered,
         BeginCycle, ExpireProposals, LoadWorkflow, SkipDevice, OpenRun, EndCycle, CloseRun,
         WalkRaises, CycleRaises, Timeout, Crash, Operators, Decide, DispatchRefused,
         DispatchFails, Dispatched, RecordDecision, HandlerRaises, SetWorkflowState,
         EditGraph, Time, ProposalAges, tables, workflow, vars
    <3>2. ASSUME NEW i \in Ids, WaitElapses(i) \/ RunAges(i)
          PROVE  runs'[j].status = runs[j].status
      <4>1. CASE WaitElapses(i)
        BY <1>1, <4>1 DEF WaitElapses, Run
      <4>2. CASE RunAges(i)
        BY <1>1, <4>2 DEF RunAges, Run
      <4> QED
        BY <3>2, <4>1, <4>2
    <3>3. ASSUME NEW q \in Requests, ReleaseRun(q) PROVE runs'[j].status = runs[j].status
      BY <1>1, <2>3, <3>3 DEF ReleaseRun, Run
    <3> QED
      BY <3>1, <3>2, <3>3
  <2> QED
    BY <2>1, <2>2, <2>3
<1>4. proposal[j] = "none" => proposal'[j] = "none"
  BY OnlyWalkActs DEF Acts
<1> QED
  BY <1>3, <1>4 DEF Unseen

LEMMA CountedStep ==
    ASSUME IInv, [Next]_vars, IInv', CountedInv
    PROVE  CountedInv'
PROOF
<1>1. ProposersStand'
  BY StandingStep DEF CountedInv
<1>2. ASSUME runner'.pc = "asking" PROVE Cardinality(Counting') < FleetLimit
  <2>1. /\ runner'.run = runner.run /\ runner'.hour = runner.hour /\ runner.hour \subseteq Ids
        /\ AskTasks \/ UNCHANGED runner
        /\ \A j \in Ids \ {runner.run} : Acted(j)' => Acted(j)
    BY <1>2, AskingStays DEF IInv, RunnerInv, Runner
  <2>2. Cardinality(Counting) < FleetLimit
    <3>1. CASE AskTasks
      BY <3>1, CountIsEnough DEF AskTasks, Allowed, CountedInv
    <3>2. CASE UNCHANGED runner
      BY <1>2, <3>2 DEF CountedInv
    <3> QED
      BY <2>1, <3>1, <3>2
  <2>3. Counting' \subseteq Counting /\ Counting \subseteq Ids
    <3>1. CASE AskTasks
      <4>1. ASSUME NEW j \in Ids, Acted(j)', ~ Unseen(j)' PROVE ~ Unseen(j)
        BY <3>1, <4>1 DEF AskTasks, tables, Unseen
      <4> QED
        BY <2>1, <4>1 DEF Counting
    <3>2. CASE UNCHANGED runner
      <4>1. ASSUME NEW j \in Ids \ {runner.run}, ~ Unseen(j)' PROVE ~ Unseen(j)
        BY <1>2, <3>2, <4>1, UnseenStays
      <4> QED
        BY <2>1, <4>1 DEF Counting
    <3> QED
      BY <2>1, <3>1, <3>2
  <2>4. IsFiniteSet(Counting)
    <3>1. IsFiniteSet(Ids)
      BY WorkflowAssumption, FS_Interval DEF Ids
    <3> QED
      BY <2>3, <3>1, FS_Subset
  <2>5. Cardinality(Counting') <= Cardinality(Counting) /\ IsFiniteSet(Counting')
    BY <2>3, <2>4, FS_Subset
  <2>6. Cardinality(Counting') \in Nat /\ Cardinality(Counting) \in Nat
    BY <2>4, <2>5, FS_CardinalityType
  <2> QED
    BY <2>2, <2>5, <2>6, WorkflowAssumption
<1> QED
  BY <1>1, <1>2 DEF CountedInv

\* docs/spec/22-automation-workflows.md:127 (G8) and guards.py:213: on any graph, and
\* whatever parks, raises, restarts or is decided meanwhile, a run acts only if fewer
\* than FleetLimit of the others whose action G8 can see have acted in the last hour.
THEOREM RateIsLimited == Spec => RateLimitHolds
PROOF
<1> DEFINE Inv == IInv /\ CountedInv
           Kept == \A i \in Ids : Acts(i) =>
                     Cardinality({j \in runner.hour \ {i} : Acted(j) /\ ~ Unseen(j)}) < FleetLimit
<1>1. Init => Inv
  <2> SUFFICES ASSUME Init PROVE CountedInv
    BY InitInv
  <2> QED
    BY DEF Init, Resting, CountedInv, ProposersStand
<1>2. Inv /\ [Next]_vars => Inv'
  BY NextInv, CountedStep
<1>3. Inv /\ [Next]_vars => [Kept]_vars
  <2> SUFFICES ASSUME Inv, [Next]_vars, NEW i \in Ids, Acts(i)
               PROVE  Cardinality({j \in runner.hour \ {i} : Acted(j) /\ ~ Unseen(j)}) < FleetLimit
    OBVIOUS
  <2>1. i = runner.run
    BY OnlyWalkActs
  <2>2. Cardinality(Counting) < FleetLimit
    <3>1. CASE SendUpdate
      BY <3>1 DEF SendUpdate, CountedInv
    <3>2. CASE Propose
      BY <3>2, CountIsEnough DEF Propose, Allowed, CountedInv
    <3> QED
      BY <3>1, <3>2, OnlyWalkActs
  <2> QED
    BY <2>1, <2>2 DEF Counting
<1> QED
  BY <1>1, <1>2, <1>3, PTL DEF Spec, RateLimitHolds
=============================================================================
