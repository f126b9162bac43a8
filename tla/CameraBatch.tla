---------------------------- MODULE CameraBatch ----------------------------
(***************************************************************************)
(* One batch of a camera firmware roll (cameras/runner.py, cameras/ops.py, *)
(* and its handlers in api/camera_ops.py).                                 *)
(*                                                                         *)
(* The run is a task of the event loop: it reads the items, and starts one *)
(* coroutine per item of a ring behind a semaphore, ring after ring.  Its  *)
(* database calls block the loop, and each is a transaction that may fail. *)
(* The abort handler is synchronous, so it runs in a worker thread and     *)
(* comes between any two of them.  Nothing resumes a batch after a         *)
(* restart.                                                                *)
(***************************************************************************)
EXTENDS Integers, FiniteSets, Sequences

CONSTANTS Cameras,        \* the cameras pre-flight allowed, in the order asked for
          CanaryCount,    \* how many go first
          RingSize,       \* how many of the others form a ring
          MaxConcurrent,  \* permits of a ring's semaphore
          AbortPct,       \* a ring with a higher share of failures stops the batch
          MaxAborts, MaxErrors, MaxCrashes    \* bounds of the model

ASSUME RollAssumption ==
    /\ Cameras \in Seq(STRING) \ {<<>>}
    /\ \A m, n \in DOMAIN Cameras : Cameras[m] = Cameras[n] => m = n
    /\ CanaryCount \in Nat \ {0}
    /\ RingSize \in Nat \ {0}
    /\ MaxConcurrent \in Nat \ {0}
    /\ AbortPct \in 1..100

ASSUME BoundAssumption ==
    /\ MaxAborts \in Nat
    /\ MaxErrors \in Nat
    /\ MaxCrashes \in Nat

Items == {Cameras[n] : n \in DOMAIN Cameras}

\* The n-th camera is a canary, or in one of the rings after them.
RingAt(n) == IF n <= CanaryCount THEN 0
                                 ELSE 1 + ((n - CanaryCount - 1) \div RingSize)

RingOf == [i \in Items |-> RingAt(CHOOSE n \in DOMAIN Cameras : Cameras[n] = i)]

VARIABLES
    dry,        \* camera_batches.dry_run
    status,     \* camera_batches.status
    item,       \* camera_batch_items.status of each camera
    task,       \* the locals of the run, and BatchRunner.aborted as "halted"
    co,         \* where the coroutine of each item stands
    handler,    \* the abort handler's thread
    uploads,    \* how many uploads went out to each camera
    result,     \* what the coroutine of each item returned
    stranded,   \* history: "running" was written over an abort, or the write
                \* that was to replace it failed
    budget      \* what is left of the bounds

vars == <<dry, status, item, task, co, handler, uploads, result, stranded, budget>>

rows == <<dry, status, item>>
history == <<uploads, result, stranded>>

Roll == INSTANCE Rollout

Waiting == {"pending", "would_run"}
Settling == {"haltRow", "haltItems", "failRest"}
Alive == {"created", "guarded", "marked", "between", "ring", "finishing"} \cup Settling
Underway == {"started", "sent"}

NoTask == [pc |-> "none", halted |-> FALSE, raised |-> FALSE, left |-> {}, ring |-> 0]

\* The coroutines of the items run while the task has not begun, waits or is over.
LoopFree == task.pc \in {"none", "created", "ring", "ended"}

\* create_batch: the items of a rehearsal are "would_run" from the start.
Init ==
    /\ dry \in BOOLEAN
    /\ status = "previewed"
    /\ item = [i \in Items |-> IF dry THEN "would_run" ELSE "pending"]
    /\ task = NoTask
    /\ co = [i \in Items |-> "none"]
    /\ handler = "idle"
    /\ uploads = [i \in Items |-> 0]
    /\ result = [i \in Items |-> "none"]
    /\ stranded = FALSE
    /\ budget = [aborts |-> MaxAborts, errors |-> MaxErrors, crashes |-> MaxCrashes]

Startable == status \notin {"running", "done", "aborted"}

\* Mutant of Skipped: the rows get the word of the batch.
MutantSkipped(rs) == [i \in Items |-> IF rs[i] \in Waiting THEN "aborted" ELSE rs[i]]

Skipped(rs) == [i \in Items |-> IF rs[i] \in Waiting THEN "skipped" ELSE rs[i]]

-----------------------------------------------------------------------------
(* The start handler and the run *)

\* start_batch refuses while a task of this process is alive, and unless the
\* guard lets the batch run.
StartBatch ==
    /\ task.pc \notin Alive
    /\ Startable
    /\ task' = [NoTask EXCEPT !.pc = "created"]
    /\ UNCHANGED <<rows, co, handler, history, budget>>

\* run() reads the row again, guards again and hashes the image.
TaskGuards ==
    /\ task.pc = "created"
    /\ task' = [task EXCEPT !.pc = IF Startable THEN "guarded" ELSE "ended"]
    /\ UNCHANGED <<rows, co, handler, history, budget>>

\* Of a live batch, a flag, the schedule or the image may refuse by now.
TaskRefused ==
    /\ task.pc = "created"
    /\ ~dry
    /\ task' = [task EXCEPT !.pc = "ended"]
    /\ UNCHANGED <<rows, co, handler, history, budget>>

MarkRunning ==
    /\ task.pc = "guarded"
    /\ status' = "running"
    /\ stranded' = (stranded \/ status = "aborted" \/ handler # "idle" \/ task.halted)
    /\ task' = [task EXCEPT !.pc = "marked"]
    /\ UNCHANGED <<dry, item, co, handler, uploads, result, budget>>

ReadRings ==
    /\ task.pc = "marked"
    /\ task' = [task EXCEPT !.pc = "between",
                            !.left = {i \in Items : item[i] \in Waiting}]
    /\ UNCHANGED <<rows, co, handler, history, budget>>

FirstRing(left, k) ==
    /\ \E i \in left : RingOf[i] = k
    /\ \A i \in left : RingOf[i] >= k

\* Every item of the ring gets a coroutine, which queues on the semaphore.
BeginRing(k) ==
    /\ task.pc = "between"
    /\ ~task.halted
    /\ FirstRing(task.left, k)
    /\ co' = [i \in Items |-> IF i \in task.left /\ RingOf[i] = k
                              THEN "queued" ELSE co[i]]
    /\ task' = [task EXCEPT !.pc = "ring", !.ring = k,
                            !.left = {i \in @ : RingOf[i] # k}]
    /\ UNCHANGED <<rows, handler, history, budget>>

InRing(i) == RingOf[i] = task.ring /\ co[i] # "none"

\* _halt begins: the flag is set before the rows are written.
Halt(raised) ==
    task' = [task EXCEPT !.pc = "haltRow", !.halted = TRUE, !.raised = raised]

\* Mutant of RingStops: a camera that never answered again does not count.
MutantRingStops ==
    LET ring == {i \in Items : InRing(i)}
        bad  == {i \in ring : result[i] = "failed"}
    IN  /\ ~dry
        /\ IF task.ring = 0
           THEN \E i \in ring : result[i] # "verified"
           ELSE (Cardinality(bad) * 100) \div Cardinality(ring) > AbortPct

\* What gather returned decides, but not for a rehearsal.
RingStops ==
    LET ring == {i \in Items : InRing(i)}
        bad  == {i \in ring : result[i] \in {"failed", "indeterminate"}}
    IN  /\ ~dry
        /\ IF task.ring = 0
           THEN \E i \in ring : result[i] # "verified"
           ELSE (Cardinality(bad) * 100) \div Cardinality(ring) > AbortPct

\* Mutant of EndRing: the first coroutine to finish ends the ring.
MutantEndRing ==
    /\ task.pc = "ring"
    /\ \E i \in Items : InRing(i) /\ co[i] = "done"
    /\ IF RingStops THEN Halt(FALSE) ELSE task' = [task EXCEPT !.pc = "between"]
    /\ UNCHANGED <<rows, co, handler, history, budget>>

EndRing ==
    /\ task.pc = "ring"
    /\ \A i \in Items : InRing(i) => co[i] = "done"
    /\ IF RingStops THEN Halt(FALSE) ELSE task' = [task EXCEPT !.pc = "between"]
    /\ UNCHANGED <<rows, co, handler, history, budget>>

\* The loop over the rings is over; self.aborted is read.
EndRings ==
    /\ task.pc = "between"
    /\ task.halted \/ task.left = {}
    /\ task' = [task EXCEPT !.pc = IF task.halted THEN "ended" ELSE "finishing"]
    /\ UNCHANGED <<rows, co, handler, history, budget>>

MarkDone ==
    /\ task.pc = "finishing"
    /\ status' = "done"
    /\ task' = [task EXCEPT !.pc = "ended"]
    /\ UNCHANGED <<dry, item, co, handler, history, budget>>

\* Mutant of TaskFails: the exception is logged and the rows are left.
MutantTaskFails ==
    /\ task.pc = "ring"
    /\ \E i \in Items : InRing(i) /\ co[i] = "raised"
    /\ task' = [task EXCEPT !.pc = "ended", !.halted = TRUE]
    /\ UNCHANGED <<rows, co, handler, history, budget>>

\* gather propagates the first exception; the ring's other coroutines run on.
TaskFails ==
    /\ task.pc = "ring"
    /\ \E i \in Items : InRing(i) /\ co[i] = "raised"
    /\ Halt(TRUE)
    /\ UNCHANGED <<rows, co, handler, history, budget>>

HaltRow ==
    /\ task.pc = "haltRow"
    /\ status' = "aborted"
    /\ task' = [task EXCEPT !.pc = "haltItems"]
    /\ UNCHANGED <<dry, item, co, handler, history, budget>>

\* The break after _halt ends the run; the except clause has one more write.
HaltItems ==
    /\ task.pc = "haltItems"
    /\ item' = Skipped(item)
    /\ task' = [task EXCEPT !.pc = IF task.raised THEN "failRest" ELSE "ended"]
    /\ UNCHANGED <<dry, status, co, handler, history, budget>>

FailRest ==
    /\ task.pc = "failRest"
    /\ item' = [i \in Items |-> IF item[i] = "running" THEN "failed" ELSE item[i]]
    /\ task' = [task EXCEPT !.pc = "ended"]
    /\ UNCHANGED <<dry, status, co, handler, history, budget>>

\* The _halt of a ring that stopped is inside the try; the other statements of the
\* run, those of the except clause included, are not.
InTry == task.pc \in {"haltRow", "haltItems"} /\ ~task.raised

\* A statement of the run raises: the except clause halts (again), or the task is
\* over with its rows as they are.
RunRaises ==
    /\ task.pc \in Alive \ {"between", "ring"}
    /\ budget.errors > 0
    /\ IF InTry THEN Halt(TRUE) ELSE task' = [task EXCEPT !.pc = "ended"]
    /\ stranded' = (stranded \/ (~InTry /\ task.pc \in {"marked", "finishing", "haltRow"}))
    /\ budget' = [budget EXCEPT !.errors = @ - 1]
    /\ UNCHANGED <<rows, co, handler, uploads, result>>

-----------------------------------------------------------------------------
(* The coroutine of an item *)

ItemReturns(i, r) ==
    /\ item' = [item EXCEPT ![i] = r]
    /\ result' = [result EXCEPT ![i] = r]
    /\ co' = [co EXCEPT ![i] = "done"]
    /\ UNCHANGED <<dry, status, task, handler, uploads, stranded, budget>>

\* Mutant of HasPermit: the permit is not given back.
MutantHasPermit(i) ==
    /\ LoopFree
    /\ co[i] = "queued"
    /\ Cardinality({j \in Items : co[j] \in Underway \cup {"done"}}) < MaxConcurrent

HasPermit(i) ==
    /\ LoopFree
    /\ co[i] = "queued"
    /\ Cardinality({j \in Items : co[j] \in Underway}) < MaxConcurrent

Rehearse(i) ==
    /\ HasPermit(i)
    /\ dry
    /\ ItemReturns(i, "would_run")

NoProfile(i) ==
    /\ HasPermit(i)
    /\ ~dry
    /\ ItemReturns(i, "failed")

StartItem(i) ==
    /\ HasPermit(i)
    /\ ~dry
    /\ item' = [item EXCEPT ![i] = "running"]
    /\ co' = [co EXCEPT ![i] = "started"]
    /\ UNCHANGED <<dry, status, task, handler, history, budget>>

\* The platform contradicts the image, or the request cannot be built.
RefuseItem(i) ==
    /\ LoopFree
    /\ co[i] = "started"
    /\ ItemReturns(i, "failed")

Upload(i) ==
    /\ LoopFree
    /\ co[i] = "started"
    /\ uploads' = [uploads EXCEPT ![i] = @ + 1]
    /\ co' = [co EXCEPT ![i] = "sent"]
    /\ UNCHANGED <<rows, task, handler, result, stranded, budget>>

\* The upload failed, or the camera was read back until it answered or time was up.
VerifyItem(i) ==
    /\ LoopFree
    /\ co[i] = "sent"
    /\ \E r \in {"verified", "indeterminate", "failed"} : ItemReturns(i, r)

\* Any of its statements or requests, the first write of a rehearsal included.
ItemRaises(i) ==
    /\ LoopFree
    /\ co[i] \in Underway \/ HasPermit(i)
    /\ budget.errors > 0
    /\ co' = [co EXCEPT ![i] = "raised"]
    /\ budget' = [budget EXCEPT !.errors = @ - 1]
    /\ UNCHANGED <<rows, task, handler, history>>

-----------------------------------------------------------------------------
(* The abort handler, a thread, and the end of the process *)

\* With an entry of this process, even of a task that has ended, its runner is
\* told; without one, the row is asked whether there is something to abort.
RequestAbort ==
    /\ handler = "idle"
    /\ budget.aborts > 0
    /\ task.pc = "none" => status \notin {"done", "aborted"}
    /\ task' = [task EXCEPT !.halted = (task.pc # "none")]
    /\ handler' = "row"
    /\ budget' = [budget EXCEPT !.aborts = @ - 1]
    /\ UNCHANGED <<rows, co, history>>

AbortRow ==
    /\ handler = "row"
    /\ status' = "aborted"
    /\ handler' = "items"
    /\ UNCHANGED <<dry, item, task, co, history, budget>>

AbortItems ==
    /\ handler = "items"
    /\ item' = Skipped(item)
    /\ handler' = "idle"
    /\ UNCHANGED <<dry, status, task, co, history, budget>>

\* Either write may raise: the operator gets a 500, and the flag stays set.
AbortFails ==
    /\ handler # "idle"
    /\ budget.errors > 0
    /\ stranded' = (stranded \/ (handler = "row" /\ task.halted))
    /\ handler' = "idle"
    /\ budget' = [budget EXCEPT !.errors = @ - 1]
    /\ UNCHANGED <<rows, task, co, uploads, result>>

Crash ==
    /\ budget.crashes > 0
    /\ task' = NoTask
    /\ co' = [i \in Items |-> "none"]
    /\ handler' = "idle"
    /\ budget' = [budget EXCEPT !.crashes = @ - 1]
    /\ UNCHANGED <<rows, history>>

-----------------------------------------------------------------------------

Run ==
    \/ TaskGuards \/ MarkRunning \/ ReadRings
    \/ \E k \in 0..Len(Cameras) : BeginRing(k)
    \/ EndRing \/ EndRings \/ MarkDone \/ TaskFails
    \/ HaltRow \/ HaltItems \/ FailRest

ItemStep(i) ==
    Rehearse(i) \/ NoProfile(i) \/ StartItem(i) \/ RefuseItem(i) \/ Upload(i) \/ VerifyItem(i)

Next ==
    \/ StartBatch \/ TaskRefused
    \/ Run \/ RunRaises
    \/ \E i \in Items : ItemStep(i) \/ ItemRaises(i)
    \/ RequestAbort \/ AbortRow \/ AbortItems \/ AbortFails
    \/ Crash

Spec == Init /\ [][Next]_vars

\* The event loop runs on, and every request to a camera has a time-out.
Fairness ==
    /\ WF_vars(Run)
    /\ \A i \in Items : WF_vars(ItemStep(i))

LiveSpec == Spec /\ Fairness

-----------------------------------------------------------------------------
(* Properties *)

TypeOK ==
    /\ dry \in BOOLEAN
    /\ status \in {"previewed", "running", "done", "aborted"}
    /\ item \in [Items -> Waiting \cup Roll!Outcomes \cup {"running", "skipped"}]
    /\ task \in [pc : Alive \cup {"none", "ended"}, halted : BOOLEAN,
                 raised : BOOLEAN, left : SUBSET Items, ring : 0..Len(Cameras)]
    /\ co \in [Items -> Underway \cup {"none", "queued", "done", "raised"}]
    /\ handler \in {"idle", "row", "items"}
    /\ uploads \in [Items -> Nat]
    /\ result \in [Items -> Roll!Outcomes \cup {"none"}]
    /\ stranded \in BOOLEAN
    /\ budget \in [aborts : 0..MaxAborts, errors : 0..MaxErrors, crashes : 0..MaxCrashes]

\* The batch is a staged roll: no camera is sent the image twice, none in a
\* rehearsal, and none before all earlier rings concluded and passed, whatever
\* aborts, exceptions and restarts come between (the canary gate of _run_rings).
IsStagedRoll == Roll!Spec

\* The canary is a gate: no camera of a later ring is sent anything unless every
\* canary proved the new version (runner.py: "ring 0 runs alone").
CanaryGate ==
    \A i \in Items : uploads[i] > 0 /\ RingOf[i] > 0 =>
        \A c \in Items : RingOf[c] = 0 => result[c] = "verified"

\* A batch that says "running" has a task that runs it or an abort under way,
\* whatever coroutine raises, whichever abort comes when, and also when the halt of
\* a stopped ring fails half-way (runner.py: the rows must not be left mid-flight).
\* It may be left alone when the process died, when the start overwrote an abort,
\* and when the one write that was to replace "running" failed: the read of the
\* rings, which nothing catches, the end of the run, and the rows of the except
\* clause and of an abort.
RunningHasTask ==
    status = "running" => \/ task.pc \in Alive
                          \/ handler = "row"
                          \/ stranded
                          \/ budget.crashes < MaxCrashes

\* A batch that says "done" has a settled row for every camera, also when
\* coroutines of an earlier ring or a late abort wrote their rows meanwhile.
DoneIsComplete ==
    status = "done" => \A i \in Items : item[i] \notin {"pending", "running"}

\* Every run ends: a ring waits for its semaphore and its cameras, never for ever.
EveryRunEnds == task.pc \in Alive ~> task.pc \notin Alive

\* An abort stops a batch between items: a camera whose row it skipped is not
\* started any more.
AbortStopsItems == [][\A i \in Items : item[i] = "skipped" => item'[i] # "running"]_vars
=============================================================================
