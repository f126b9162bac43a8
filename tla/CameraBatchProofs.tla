------------------------- MODULE CameraBatchProofs -------------------------
(***************************************************************************)
(* Theorems about a camera batch, for every list of cameras, size of the   *)
(* rings, number of permits, share of failures and number of aborts,       *)
(* exceptions and restarts.                                                *)
(*                                                                         *)
(* The argument follows a batch through its task: until the task begins a  *)
(* ring no camera has been touched (FreshInv), then every ring that is     *)
(* behind it has concluded and passed (RingsInv), and that outlives the    *)
(* task, because a result once known is never changed (ItemsInv).          *)
(***************************************************************************)
EXTENDS CameraBatch, FiniteSetTheorems, TLAPS

Untouched(i) == co[i] = "none" /\ uploads[i] = 0 /\ result[i] = "none"

\* The rows wait together until the first ring begins, or were skipped together.
FreshInv ==
    /\ status = "previewed" \/ task.pc \in {"created", "guarded", "marked"} =>
           /\ \A i \in Items : Untouched(i)
           /\ (\A i \in Items : item[i] \in Waiting) \/ (\A i \in Items : item[i] = "skipped")
    /\ task.pc \in {"created", "guarded"} => status \in {"previewed", "aborted"}
    /\ task.pc \in {"marked", "between", "ring", "finishing"} \cup Settling => status # "previewed"

\* What a coroutine knows of its camera, and why it was allowed to start.
ItemsInv ==
    \A i \in Items :
        /\ co[i] \in {"queued", "started"} => uploads[i] = 0 /\ result[i] = "none"
        /\ co[i] = "sent" => uploads[i] = 1 /\ result[i] = "none"
        /\ co[i] = "done" => result[i] # "none" /\ item[i] \notin {"pending", "running"}
        /\ co[i] = "started" \/ uploads[i] > 0 => ~dry
        /\ co[i] \in {"queued", "started"} \/ uploads[i] > 0 => dry \/ Roll!Cleared(i, result)

Passed(j) == result[j] # "none" /\ (dry \/ Roll!RingPasses(RingOf[j], result))

Settled(j) == co[j] \in {"none", "done"} /\ item[j] \notin {"pending", "running"}

\* What lies ahead of the task is untouched and made of whole rings; what lies
\* behind it has concluded and passed.
RingsInv ==
    /\ task.pc \in {"between", "ring"} =>
           \A i \in task.left :
               /\ Untouched(i)
               /\ \A j \in Items : RingOf[j] >= RingOf[i] => j \in task.left
    /\ task.pc = "between" =>
           \A j \in Items \ task.left : Settled(j) /\ (task.left # {} => co[j] = "done" /\ Passed(j))
    /\ task.pc = "ring" =>
           /\ \A i \in task.left : RingOf[i] > task.ring
           /\ \E i \in Items : RingOf[i] = task.ring
           /\ \A j \in Items \ task.left :
                  \/ RingOf[j] = task.ring /\ co[j] # "none"
                  \/ RingOf[j] < task.ring /\ co[j] = "done" /\ Passed(j)
    /\ task.pc = "finishing" \/ status = "done" => \A j \in Items : Settled(j)
    /\ status = "done" => task.pc \in {"none", "ended"}

\* An abort of a task under way is heading for its row, and a run that halts gets there.
HaltInv ==
    /\ RunningHasTask
    /\ task.pc \in {"marked", "between", "ring", "finishing"} /\ task.halted /\ status = "running" =>
           handler = "row" \/ stranded \/ budget.crashes < MaxCrashes
    /\ task.pc \in {"haltItems", "failRest"} => status = "aborted"
    /\ task.pc \in Settling => task.halted
    /\ task.pc = "none" /\ status = "running" => budget.crashes < MaxCrashes
    /\ handler = "row" /\ status = "running" =>
           task.halted \/ stranded \/ budget.crashes < MaxCrashes

IInv == TypeOK /\ FreshInv /\ ItemsInv /\ RingsInv /\ HaltInv

-----------------------------------------------------------------------------
(* The rings *)

LEMMA RingsAreNumbers ==
    /\ Items = {Cameras[n] : n \in 1..Len(Cameras)}
    /\ IsFiniteSet(Items)
    /\ RingOf \in [Items -> Nat]
PROOF
<1>1. Len(Cameras) \in Nat /\ DOMAIN Cameras = 1..Len(Cameras)
  BY RollAssumption
<1>2. Items = {Cameras[n] : n \in 1..Len(Cameras)}
  BY <1>1 DEF Items
<1>3. IsFiniteSet(Items)
  <2>1. IsFiniteSet(1..Len(Cameras))
    BY <1>1, FS_Interval
  <2> QED
    <3>1. Cameras \in [1..Len(Cameras) -> Items]
      BY <1>1, <1>2, RollAssumption
    <3>2. Cameras \in Surjection(1..Len(Cameras), Items)
      BY <1>2, <3>1 DEF Surjection
    <3> QED
      BY <2>1, <3>2, FS_Surjection
<1>4. ASSUME NEW n \in 1..Len(Cameras) PROVE RingAt(n) \in Nat
  <2>1. CASE n <= CanaryCount
    BY <2>1 DEF RingAt
  <2>2. CASE ~(n <= CanaryCount)
    <3> DEFINE d == n - CanaryCount - 1
    <3>1. d \in Nat
      BY <1>1, <1>4, <2>2, RollAssumption
    <3>2. d \div RingSize \in Nat
      BY <3>1, RollAssumption
    <3> QED
      BY <2>2, <3>2 DEF RingAt
  <2> QED
    BY <2>1, <2>2
<1>5. ASSUME NEW i \in Items PROVE RingOf[i] \in Nat
  <2>1. PICK n \in 1..Len(Cameras) : Cameras[n] = i
    BY <1>2
  <2>2. (CHOOSE m \in DOMAIN Cameras : Cameras[m] = i) \in 1..Len(Cameras)
    BY <1>1, <2>1
  <2> QED
    BY <1>4, <2>2 DEF RingOf
<1> QED
  BY <1>2, <1>3, <1>5 DEF RingOf

\* Rollout counts as this module does.
LEMMA SameCardinality == \A S : Roll!Cardinality(S) = Cardinality(S)
BY DEF Cardinality, Roll!Cardinality

\* Whether a ring passes depends on the results of its own cameras.
LEMMA RingStays ==
    ASSUME NEW k,
           \A j \in Items : RingOf[j] = k => result'[j] = result[j],
           Roll!RingPasses(k, result)
    PROVE  Roll!RingPasses(k, result')
PROOF
<1>1. {i \in Roll!Ring(k) : result[i] \in {"failed", "indeterminate"}}
        = {i \in Roll!Ring(k) : result'[i] \in {"failed", "indeterminate"}}
  BY DEF Roll!Ring
<1> QED
  BY <1>1 DEF Roll!RingPasses, Roll!Ring

\* A ring that has concluded is not changed by what concludes later.
LEMMA ClearedStays ==
    ASSUME NEW i \in Items, NEW m \in Items, NEW r, result[m] = "none",
           TypeOK, result' = [result EXCEPT ![m] = r], Roll!Cleared(i, result)
    PROVE  Roll!Cleared(i, result')
PROOF
<1> SUFFICES ASSUME NEW j \in Items, RingOf[j] < RingOf[i]
             PROVE  result'[j] # "none" /\ Roll!RingPasses(RingOf[j], result')
  BY DEF Roll!Cleared
<1>1. \A h \in Items : RingOf[h] = RingOf[j] => h # m /\ result'[h] = result[h]
  BY DEF Roll!Cleared, TypeOK
<1>2. result[j] # "none" /\ Roll!RingPasses(RingOf[j], result)
  BY DEF Roll!Cleared
<1>3. Roll!RingPasses(RingOf[j], result')
  BY <1>1, <1>2, RingStays
<1> QED
  BY <1>1, <1>2, <1>3

\* What the task decides at the end of a ring is what the ring's results say.
LEMMA RingDecides ==
    ASSUME NEW k \in Nat, task.ring = k, ~RingStops, ~dry,
           \E i \in Items : RingOf[i] = k,
           \A i \in Items : RingOf[i] = k => co[i] # "none"
    PROVE  Roll!RingPasses(k, result)
PROOF
<1> DEFINE ring == {i \in Items : InRing(i)}
           bad  == {i \in ring : result[i] \in {"failed", "indeterminate"}}
<1>1. ring = Roll!Ring(k)
  BY DEF InRing, Roll!Ring
<1>2. CASE k = 0
  BY <1>1, <1>2 DEF RingStops, Roll!RingPasses
<1>3. CASE k # 0
  <2>1. IsFiniteSet(ring) /\ IsFiniteSet(bad)
    BY RingsAreNumbers, FS_Subset
  <2>2. Cardinality(ring) \in Nat \ {0} /\ Cardinality(bad) \in Nat
    BY <1>1, <2>1, FS_CardinalityType, FS_EmptySet DEF Roll!Ring
  <2>3. (Cardinality(bad) * 100) \div Cardinality(ring) \in Int
    BY <2>2
  <2>4. ~((Cardinality(bad) * 100) \div Cardinality(ring) > AbortPct)
    BY <1>3 DEF RingStops
  <2>5. (Cardinality(bad) * 100) \div Cardinality(ring) <= AbortPct
    BY <2>3, <2>4, RollAssumption
  <2> QED
    BY <1>1, <1>3, <2>5, SameCardinality DEF Roll!RingPasses
<1> QED
  BY <1>2, <1>3

-----------------------------------------------------------------------------
(* The invariant holds at the start and after every step *)

LEMMA NoTaskType == NoTask \in [pc : Alive \cup {"none", "ended"}, halted : BOOLEAN,
                               raised : BOOLEAN, left : SUBSET Items, ring : 0..Len(Cameras)]
PROOF
<1>1. 0 \in 0..Len(Cameras)
  BY RollAssumption
<1> QED
  BY <1>1 DEF NoTask

LEMMA SkippedType ==
    ASSUME TypeOK
    PROVE  Skipped(item) \in [Items -> Waiting \cup Roll!Outcomes \cup {"running", "skipped"}]
BY DEF Skipped, TypeOK

\* A ring that ends without an exception halts the run or hands it to the next ring.
LEMMA RingEnds ==
    ASSUME TypeOK, EndRing \/ TaskFails
    PROVE  /\ task.pc = "ring"
           /\ UNCHANGED <<rows, co, handler, history, budget>>
           /\ \/ /\ task'.pc = "haltRow" /\ task'.halted
                 /\ task' \in [pc : Alive \cup {"none", "ended"}, halted : BOOLEAN,
                               raised : BOOLEAN, left : SUBSET Items, ring : 0..Len(Cameras)]
              \/ EndRing /\ ~RingStops /\ task' = [task EXCEPT !.pc = "between"]
PROOF
<1> USE DEF TypeOK, Alive, Settling
<1>1. CASE TaskFails
  BY <1>1 DEF TaskFails, Halt
<1>2. CASE EndRing /\ RingStops
  BY <1>2 DEF EndRing, Halt
<1>3. CASE EndRing /\ ~RingStops
  BY <1>3 DEF EndRing
<1> QED
  BY <1>1, <1>2, <1>3

\* A statement of the run that raises sends it to the except clause, or ends it.
LEMMA Raising ==
    ASSUME TypeOK, RunRaises
    PROVE  /\ task.pc \in Alive \ {"between", "ring"}
           /\ UNCHANGED <<rows, co, handler, uploads, result>>
           /\ task' \in [pc : Alive \cup {"none", "ended"}, halted : BOOLEAN,
                         raised : BOOLEAN, left : SUBSET Items, ring : 0..Len(Cameras)]
           /\ \/ /\ task.pc \in {"haltRow", "haltItems"}
                 /\ task'.pc = "haltRow" /\ task'.halted /\ stranded' = stranded
              \/ /\ task'.pc = "ended" /\ task'.halted = task.halted
                 /\ stranded' = (stranded \/ task.pc \in {"marked", "finishing", "haltRow"})
PROOF
<1> USE DEF TypeOK, Alive, Settling
<1>1. CASE InTry
  BY <1>1 DEF RunRaises, InTry, Halt
<1>2. CASE ~InTry
  BY <1>2 DEF RunRaises
<1> QED
  BY <1>1, <1>2

LEMMA InitInv == Init => IInv
PROOF
<1> SUFFICES ASSUME Init PROVE IInv
  OBVIOUS
<1>1. TypeOK
  <2>1. [i \in Items |-> IF dry THEN "would_run" ELSE "pending"]
          \in [Items -> Waiting \cup Roll!Outcomes \cup {"running", "skipped"}]
    BY DEF Waiting
  <2>2. budget \in [aborts : 0..MaxAborts, errors : 0..MaxErrors, crashes : 0..MaxCrashes]
    BY BoundAssumption DEF Init
  <2>3. item \in [Items -> Waiting \cup Roll!Outcomes \cup {"running", "skipped"}]
    BY <2>1 DEF Init
  <2>4. task \in [pc : Alive \cup {"none", "ended"}, halted : BOOLEAN,
                  raised : BOOLEAN, left : SUBSET Items, ring : 0..Len(Cameras)]
    BY NoTaskType DEF Init
  <2> QED
    BY <2>2, <2>3, <2>4 DEF Init, TypeOK
<1>2. FreshInv
  BY DEF Init, FreshInv, Untouched, NoTask, Waiting, Settling
<1>3. ItemsInv
  BY DEF Init, ItemsInv
<1>4. RingsInv
  BY DEF Init, RingsInv, NoTask
<1>5. HaltInv
  BY DEF Init, HaltInv, RunningHasTask, NoTask, Settling
<1> QED
  BY <1>1, <1>2, <1>3, <1>4, <1>5 DEF IInv

LEMMA TypeStep == TypeOK /\ [Next]_vars => TypeOK'
PROOF
<1> SUFFICES ASSUME TypeOK, [Next]_vars PROVE TypeOK'
  OBVIOUS
<1> USE DEF TypeOK, rows, history
<1>1. CASE StartBatch
  <2>1. task' \in [pc : Alive \cup {"none", "ended"}, halted : BOOLEAN,
                   raised : BOOLEAN, left : SUBSET Items, ring : 0..Len(Cameras)]
    BY <1>1, NoTaskType DEF StartBatch, Alive
  <2> QED
    BY <1>1, <2>1 DEF StartBatch
<1>2. CASE TaskGuards \/ TaskRefused
  BY <1>2 DEF TaskGuards, TaskRefused, Alive
<1>3. CASE MarkRunning
  BY <1>3 DEF MarkRunning, Alive
<1>4. CASE ReadRings
  BY <1>4 DEF ReadRings, Alive
<1>5. ASSUME NEW k \in 0..Len(Cameras), BeginRing(k) PROVE TypeOK'
  BY <1>5 DEF BeginRing, Alive
<1>6. CASE EndRing \/ TaskFails
  BY <1>6, RingEnds DEF Alive
<1>7. CASE EndRings \/ MarkDone
  BY <1>7 DEF EndRings, MarkDone, Alive
<1>8. CASE HaltRow \/ HaltItems
  BY <1>8, SkippedType DEF HaltRow, HaltItems, Alive, Settling
<1>14. CASE FailRest
  BY <1>14 DEF FailRest, Roll!Outcomes
<1>15. CASE RunRaises
  <2>1. budget.errors - 1 \in 0..MaxErrors
    BY <1>15, BoundAssumption DEF RunRaises
  <2> QED
    BY <1>15, <2>1, Raising DEF RunRaises
<1>16. CASE AbortFails
  <2>1. budget.errors - 1 \in 0..MaxErrors
    BY <1>16, BoundAssumption DEF AbortFails
  <2> QED
    BY <1>16, <2>1 DEF AbortFails
<1>9. ASSUME NEW i \in Items, ItemStep(i) \/ ItemRaises(i) PROVE TypeOK'
  <2>1. CASE Rehearse(i) \/ NoProfile(i) \/ RefuseItem(i) \/ VerifyItem(i)
    <3>1. PICK r \in Roll!Outcomes : ItemReturns(i, r)
      BY <2>1 DEF Rehearse, NoProfile, RefuseItem, VerifyItem, Roll!Outcomes
    <3> QED
      BY <3>1 DEF ItemReturns
  <2>2. CASE StartItem(i)
    BY <2>2 DEF StartItem, Underway
  <2>3. CASE Upload(i)
    BY <2>3 DEF Upload, Underway
  <2>4. CASE ItemRaises(i)
    <3>1. budget.errors - 1 \in 0..MaxErrors
      BY <2>4, BoundAssumption DEF ItemRaises
    <3> QED
      BY <2>4, <3>1 DEF ItemRaises
  <2> QED
    BY <1>9, <2>1, <2>2, <2>3, <2>4 DEF ItemStep
<1>10. CASE RequestAbort
  <2>1. budget.aborts - 1 \in 0..MaxAborts
    BY <1>10, BoundAssumption DEF RequestAbort
  <2>2. task' \in [pc : Alive \cup {"none", "ended"}, halted : BOOLEAN,
                   raised : BOOLEAN, left : SUBSET Items, ring : 0..Len(Cameras)]
    BY <1>10 DEF RequestAbort
  <2> QED
    BY <1>10, <2>1, <2>2 DEF RequestAbort
<1>11. CASE AbortRow \/ AbortItems
  BY <1>11, SkippedType DEF AbortRow, AbortItems
<1>12. CASE Crash
  <2>1. budget' \in [aborts : 0..MaxAborts, errors : 0..MaxErrors, crashes : 0..MaxCrashes]
    <3>1. budget.crashes - 1 \in 0..MaxCrashes
      BY <1>12, BoundAssumption DEF Crash
    <3> QED
      BY <1>12, <3>1 DEF Crash
  <2>2. task' \in [pc : Alive \cup {"none", "ended"}, halted : BOOLEAN,
                   raised : BOOLEAN, left : SUBSET Items, ring : 0..Len(Cameras)]
    BY <1>12, NoTaskType DEF Crash
  <2> QED
    BY <1>12, <2>1, <2>2 DEF Crash
<1>13. CASE UNCHANGED vars
  BY <1>13 DEF vars
<1> QED
  BY <1>1, <1>2, <1>3, <1>4, <1>5, <1>6, <1>7, <1>8, <1>9, <1>10, <1>11, <1>12, <1>13,
     <1>14, <1>15, <1>16 DEF Next, Run

LEMMA FreshStep == IInv /\ [Next]_vars => FreshInv'
PROOF
<1> SUFFICES ASSUME IInv, [Next]_vars PROVE FreshInv'
  OBVIOUS
<1> USE DEF IInv, TypeOK, FreshInv, Untouched, Settling, rows, history
<1>1. CASE StartBatch \/ TaskGuards \/ TaskRefused
  BY <1>1 DEF StartBatch, TaskGuards, TaskRefused, Startable, NoTask
<1>2. CASE MarkRunning \/ ReadRings
  BY <1>2 DEF MarkRunning, ReadRings
<1>3. ASSUME NEW k \in 0..Len(Cameras), BeginRing(k) PROVE FreshInv'
  BY <1>3 DEF BeginRing
<1>4. CASE EndRing \/ TaskFails
  BY <1>4, RingEnds
<1>5. CASE EndRings \/ MarkDone
  BY <1>5 DEF EndRings, MarkDone, Settling
<1>6. CASE HaltRow \/ HaltItems \/ FailRest
  BY <1>6 DEF HaltRow, HaltItems, FailRest, Settling
<1>12. CASE RunRaises
  BY <1>12, Raising DEF Alive
<1>7. ASSUME NEW i \in Items, ItemStep(i) \/ ItemRaises(i) PROVE FreshInv'
  BY <1>7 DEF ItemStep, ItemRaises, Rehearse, NoProfile, StartItem, RefuseItem, Upload,
     VerifyItem, ItemReturns, HasPermit, Underway
<1>8. CASE RequestAbort \/ AbortRow \/ AbortFails
  BY <1>8 DEF RequestAbort, AbortRow, AbortFails
<1>9. CASE AbortItems
  BY <1>9 DEF AbortItems, Skipped
<1>10. CASE Crash
  BY <1>10 DEF Crash, NoTask
<1>11. CASE UNCHANGED vars
  BY <1>11 DEF vars
<1> QED
  BY <1>1, <1>2, <1>3, <1>4, <1>5, <1>6, <1>7, <1>8, <1>9, <1>10, <1>11, <1>12 DEF Next, Run

\* A result that comes in leaves what was cleared cleared.
LEMMA ReturnsClear ==
    ASSUME TypeOK, NEW m \in Items, NEW r \in Roll!Outcomes, ItemReturns(m, r),
           result[m] = "none", NEW i \in Items, dry \/ Roll!Cleared(i, result)
    PROVE  dry' \/ Roll!Cleared(i, result')
PROOF
<1>1. dry' = dry /\ result' = [result EXCEPT ![m] = r]
  BY DEF ItemReturns
<1> QED
  BY <1>1, ClearedStays

\* Every step of a coroutine that returns.
LEMMA Returning ==
    ASSUME NEW i \in Items, Rehearse(i) \/ NoProfile(i) \/ RefuseItem(i) \/ VerifyItem(i)
    PROVE  /\ co[i] \in {"queued", "started", "sent"}
           /\ \E r \in Roll!Outcomes : ItemReturns(i, r)
BY DEF Rehearse, NoProfile, RefuseItem, VerifyItem, HasPermit, Roll!Outcomes

LEMMA ItemsStep == IInv /\ [Next]_vars => ItemsInv'
PROOF
<1> SUFFICES ASSUME IInv, [Next]_vars PROVE ItemsInv'
  OBVIOUS
<1> USE DEF IInv, TypeOK, rows, history
<1>1. ASSUME UNCHANGED <<dry, item, co, uploads, result>> PROVE ItemsInv'
  <2>1. \A i \in Items : Roll!Cleared(i, result)' <=> Roll!Cleared(i, result)
    BY <1>1 DEF Roll!Cleared, Roll!RingPasses, Roll!Ring
  <2> QED
    BY <1>1, <2>1 DEF ItemsInv
<1>2. CASE AbortItems \/ HaltItems
  <2>1. item' = Skipped(item)
    BY <1>2 DEF AbortItems, HaltItems
  <2>2. UNCHANGED <<dry, co, uploads, result>>
    BY <1>2 DEF AbortItems, HaltItems
  <2>3. \A i \in Items : Roll!Cleared(i, result)' <=> Roll!Cleared(i, result)
    BY <2>2 DEF Roll!Cleared, Roll!RingPasses, Roll!Ring
  <2> QED
    BY <2>1, <2>2, <2>3 DEF ItemsInv, Skipped, Waiting
<1>3. ASSUME NEW k \in 0..Len(Cameras), BeginRing(k) PROVE ItemsInv'
  <2>1. ASSUME NEW i \in task.left, RingOf[i] = k PROVE dry \/ Roll!Cleared(i, result)
    <3>1. \A j \in Items : RingOf[j] < RingOf[i] => j \notin task.left
      BY <1>3, <2>1, RingsAreNumbers DEF BeginRing, FirstRing
    <3> QED
      BY <1>3, <2>1, <3>1 DEF RingsInv, BeginRing, Passed, Roll!Cleared
  <2>2. UNCHANGED <<dry, item, uploads, result>>
    BY <1>3 DEF BeginRing
  <2>3. \A i \in Items : Roll!Cleared(i, result)' <=> Roll!Cleared(i, result)
    BY <2>2 DEF Roll!Cleared, Roll!RingPasses, Roll!Ring
  <2>4. \A i \in task.left : Untouched(i)
    BY <1>3 DEF RingsInv, BeginRing
  <2> QED
    BY <1>3, <2>1, <2>2, <2>3, <2>4 DEF ItemsInv, BeginRing, Untouched
<1>4. CASE FailRest
  <2>1. UNCHANGED <<dry, co, uploads, result>>
    BY <1>4 DEF FailRest
  <2>2. \A i \in Items : Roll!Cleared(i, result)' <=> Roll!Cleared(i, result)
    BY <2>1 DEF Roll!Cleared, Roll!RingPasses, Roll!Ring
  <2> QED
    BY <1>4, <2>1, <2>2 DEF ItemsInv, FailRest
<1>5. ASSUME NEW m \in Items, Rehearse(m) \/ NoProfile(m) \/ RefuseItem(m) \/ VerifyItem(m)
      PROVE  ItemsInv'
  <2>1. PICK r \in Roll!Outcomes : ItemReturns(m, r)
    BY <1>5, Returning
  <2>2. result[m] = "none" /\ co[m] \in {"queued", "started", "sent"}
    BY <1>5, Returning DEF ItemsInv
  <2>3. \A i \in Items : dry \/ Roll!Cleared(i, result) => dry' \/ Roll!Cleared(i, result')
    BY <2>1, <2>2, ReturnsClear
  <2>4. r \notin {"none", "pending", "running"}
    BY DEF Roll!Outcomes
  <2> QED
    BY <2>1, <2>2, <2>3, <2>4 DEF ItemsInv, ItemReturns
<1>6. ASSUME NEW m \in Items, StartItem(m) \/ Upload(m) \/ ItemRaises(m) PROVE ItemsInv'
  <2>1. UNCHANGED <<dry, result>>
    BY <1>6 DEF StartItem, Upload, ItemRaises
  <2>2. \A i \in Items : Roll!Cleared(i, result)' <=> Roll!Cleared(i, result)
    BY <2>1 DEF Roll!Cleared, Roll!RingPasses, Roll!Ring
  <2>3. CASE StartItem(m)
    BY <2>1, <2>2, <2>3 DEF ItemsInv, StartItem, HasPermit
  <2>4. CASE Upload(m)
    BY <2>1, <2>2, <2>4 DEF ItemsInv, Upload
  <2>5. CASE ItemRaises(m)
    BY <2>1, <2>2, <2>5 DEF ItemsInv, ItemRaises
  <2> QED
    BY <1>6, <2>3, <2>4, <2>5
<1>7. CASE Crash
  <2>1. \A i \in Items : Roll!Cleared(i, result)' <=> Roll!Cleared(i, result)
    BY <1>7 DEF Crash, Roll!Cleared, Roll!RingPasses, Roll!Ring
  <2> QED
    BY <1>7, <2>1 DEF ItemsInv, Crash
<1> QED
  BY <1>1, <1>2, <1>3, <1>4, <1>5, <1>6, <1>7 DEF Next, Run, ItemStep, StartBatch, TaskRefused,
     TaskGuards, MarkRunning, ReadRings, EndRing, EndRings, MarkDone, TaskFails, HaltRow, RunRaises,
     RequestAbort, AbortRow, AbortFails, vars

LEMMA RingsStep == IInv /\ [Next]_vars => RingsInv'
PROOF
<1> SUFFICES ASSUME IInv, [Next]_vars PROVE RingsInv'
  OBVIOUS
<1> USE DEF rows, history
<1>0. TypeOK /\ FreshInv /\ ItemsInv /\ RingsInv
  BY DEF IInv
<1>1. ASSUME UNCHANGED result
      PROVE  \A j \in Items : Roll!RingPasses(RingOf[j], result)' <=> Roll!RingPasses(RingOf[j], result)
  BY <1>1 DEF Roll!RingPasses, Roll!Ring
<1>2. CASE StartBatch \/ TaskGuards \/ TaskRefused
  BY <1>0, <1>2 DEF StartBatch, TaskGuards, TaskRefused, Startable, NoTask, RingsInv, FreshInv, TypeOK, Alive, Settled
<1>3. CASE MarkRunning
  BY <1>0, <1>3 DEF MarkRunning, RingsInv, TypeOK
<1>4. CASE ReadRings
  BY <1>0, <1>1, <1>4 DEF ReadRings, RingsInv, FreshInv, TypeOK, Untouched, Settled, Waiting
<1>5. ASSUME NEW k \in 0..Len(Cameras), BeginRing(k) PROVE RingsInv'
  <2>1. UNCHANGED <<dry, status, item, uploads, result>>
    BY <1>5 DEF BeginRing
  <2>2. task'.pc = "ring" /\ task'.ring = k /\ task'.left = {i \in task.left : RingOf[i] # k}
    BY <1>0, <1>5 DEF BeginRing, TypeOK
  <2>3. \A i \in task.left : RingOf[i] >= k
    BY <1>5 DEF BeginRing, FirstRing
  <2>4. PICK f \in Items : f \in task.left /\ RingOf[f] = k
    BY <1>0, <1>5 DEF BeginRing, FirstRing, TypeOK
  <2>5. \A j \in Items : RingOf[j] >= k => j \in task.left
    BY <1>0, <1>5, <2>4 DEF RingsInv, BeginRing
  <2>6. \A i \in Items : RingOf[i] \in Nat
    BY RingsAreNumbers
  <2>7. ASSUME NEW i \in task'.left
        PROVE  Untouched(i)' /\ RingOf[i] > k /\ \A j \in Items : RingOf[j] >= RingOf[i] => j \in task'.left
    BY <1>0, <1>5, <2>1, <2>2, <2>3, <2>6, <2>7 DEF RingsInv, BeginRing, TypeOK, Untouched
  <2>8. ASSUME NEW j \in Items \ task'.left
        PROVE  \/ RingOf[j] = k /\ co'[j] # "none"
               \/ RingOf[j] < k /\ co'[j] = "done" /\ Passed(j)'
    <3>1. CASE j \in task.left
      BY <1>5, <2>2, <2>8, <3>1 DEF BeginRing
    <3>2. CASE j \notin task.left
      <4>1. RingOf[j] < k
        BY <2>5, <2>6, <3>2
      <4>2. co[j] = "done" /\ Passed(j)
        BY <1>0, <1>5, <2>4, <3>2 DEF RingsInv, BeginRing
      <4> QED
        BY <1>1, <1>5, <2>1, <3>2, <4>1, <4>2 DEF BeginRing, Passed
    <3> QED
      BY <3>1, <3>2
  <2>9. status' # "done"
    BY <1>0, <1>5, <2>1 DEF RingsInv, BeginRing
  <2> QED
    BY <2>2, <2>4, <2>7, <2>8, <2>9 DEF RingsInv
<1>6. CASE EndRing
  <2>1. CASE RingStops
    <3>1. task.pc = "ring" /\ task'.pc = "haltRow" /\ UNCHANGED <<status, item, co>>
      BY <1>0, <1>6, <2>1, RingEnds
    <3> QED
      BY <1>0, <3>1 DEF RingsInv, Settled
  <2>2. CASE ~RingStops
    <3>1. /\ task.pc = "ring" /\ task' = [task EXCEPT !.pc = "between"]
          /\ \A i \in Items : InRing(i) => co[i] = "done"
          /\ UNCHANGED <<dry, status, item, co, uploads, result>>
      BY <1>6, <2>2 DEF EndRing
    <3>2. \A j \in Items : RingOf[j] = task.ring => co[j] = "done"
      BY <1>0, <3>1, RingsAreNumbers DEF RingsInv, InRing, TypeOK
    <3>3. ASSUME NEW j \in Items, RingOf[j] = task.ring, ~dry
          PROVE  Roll!RingPasses(RingOf[j], result)
      <4>1. task.ring \in Nat
        BY <1>0, <3>3, RingsAreNumbers
      <4>2. \A i \in Items : RingOf[i] = task.ring => co[i] # "none"
        BY <3>2
      <4> QED
        BY <2>2, <3>3, <4>1, <4>2, RingDecides
    <3>4. \A j \in Items \ task.left : co[j] = "done" /\ Passed(j)
      BY <1>0, <3>1, <3>2, <3>3 DEF RingsInv, Passed, ItemsInv
    <3> QED
      BY <1>0, <1>1, <2>2, <3>1, <3>4 DEF RingsInv, TypeOK, Untouched, Settled, Passed, ItemsInv
  <2> QED
    BY <1>6, <2>1, <2>2 DEF EndRing
<1>7. CASE EndRings \/ MarkDone
  BY <1>0, <1>7 DEF EndRings, MarkDone, RingsInv, TypeOK, Settled
<1>8. CASE TaskFails
  <2>1. task.pc = "ring" /\ task'.pc = "haltRow" /\ UNCHANGED <<status, item, co>>
    BY <1>0, <1>8 DEF TaskFails, Halt, TypeOK
  <2> QED
    BY <1>0, <2>1 DEF RingsInv, Settled
<1>15. CASE HaltRow \/ HaltItems \/ FailRest
  <2>1. /\ task'.pc \in {"haltItems", "failRest", "ended"}
        /\ co' = co /\ (status' = status \/ status' = "aborted")
        /\ \A j \in Items : item'[j] # item[j] => item[j] \in Waiting \cup {"running"}
        /\ \A j \in Items : item'[j] # item[j] => item'[j] \in {"skipped", "failed"}
    BY <1>0, <1>15 DEF HaltRow, HaltItems, FailRest, TypeOK, Skipped
  <2> QED
    BY <1>0, <2>1, <1>15 DEF RingsInv, Settled, HaltRow, HaltItems, FailRest
<1>16. CASE RunRaises
  <2>1. task.pc \in Alive /\ task'.pc \in {"haltRow", "ended"} /\ UNCHANGED <<status, item, co>>
    BY <1>0, <1>16, Raising
  <2> QED
    BY <1>0, <2>1 DEF RingsInv, Settled, Alive, Settling
<1>9. ASSUME NEW m \in Items, ItemStep(m) \/ ItemRaises(m) PROVE RingsInv'
  <2>1. co[m] \in {"queued", "started", "sent"} /\ UNCHANGED <<dry, status, task>>
    BY <1>9 DEF ItemStep, Rehearse, NoProfile, RefuseItem, VerifyItem, StartItem, Upload, ItemRaises,
       ItemReturns, HasPermit, Underway
  <2>2. task.pc \notin {"between", "finishing"} /\ status # "done"
    BY <1>0, <2>1 DEF RingsInv, Settled, Untouched
  <2>3. task.pc = "ring" => m \notin task.left /\ RingOf[m] = task.ring
    BY <1>0, <2>1 DEF RingsInv, Untouched
  <2>4. \A i \in Items \ {m} : co'[i] = co[i] /\ uploads'[i] = uploads[i] /\ result'[i] = result[i]
    BY <1>0, <1>9 DEF ItemStep, Rehearse, NoProfile, RefuseItem, VerifyItem, StartItem, Upload, ItemRaises,
       ItemReturns, TypeOK
  <2>5. co'[m] # "none"
    BY <1>0, <1>9 DEF ItemStep, Rehearse, NoProfile, RefuseItem, VerifyItem, StartItem, Upload, ItemRaises,
       ItemReturns, TypeOK
  <2>6. ASSUME task.pc = "ring", NEW j \in Items, RingOf[j] < task.ring, Passed(j) PROVE Passed(j)'
    <3>1. \A h \in Items : RingOf[h] = RingOf[j] => result'[h] = result[h]
      BY <2>3, <2>4, <2>6, RingsAreNumbers
    <3> QED
      BY <2>1, <2>6, <3>1, RingStays DEF Passed
  <2>7. ASSUME task.pc = "ring", NEW j \in Items \ task.left
        PROVE  \/ RingOf[j] = task.ring /\ co'[j] # "none"
               \/ RingOf[j] < task.ring /\ co'[j] = "done" /\ Passed(j)'
    <3>1. CASE RingOf[j] = task.ring
      BY <1>0, <2>4, <2>5, <2>7, <3>1, RingsAreNumbers DEF RingsInv
    <3>2. CASE RingOf[j] # task.ring
      <4>1. RingOf[j] < task.ring /\ co[j] = "done" /\ Passed(j) /\ j # m
        BY <1>0, <2>3, <2>7, <3>2 DEF RingsInv
      <4> QED
        BY <2>4, <2>6, <2>7, <4>1
    <3> QED
      BY <3>1, <3>2
  <2>8. task.pc = "ring" => \A i \in task.left : Untouched(i)'
    BY <1>0, <2>3, <2>4 DEF RingsInv, Untouched, TypeOK
  <2> QED
    BY <1>0, <2>1, <2>2, <2>7, <2>8 DEF RingsInv
<1>10. CASE RequestAbort
  BY <1>0, <1>1, <1>10 DEF RequestAbort, RingsInv, TypeOK, Untouched, Settled, Passed
<1>11. CASE AbortRow \/ AbortFails
  BY <1>0, <1>1, <1>11 DEF AbortRow, AbortFails, RingsInv, TypeOK, Untouched, Settled, Passed
<1>12. CASE AbortItems
  BY <1>0, <1>1, <1>12 DEF AbortItems, RingsInv, TypeOK, Untouched, Settled, Passed, Skipped
<1>13. CASE Crash
  BY <1>0, <1>13 DEF Crash, NoTask, RingsInv, Settled
<1>14. CASE UNCHANGED vars
  BY <1>0, <1>1, <1>14 DEF vars, RingsInv, Untouched, Settled, Passed
<1> QED
  BY <1>2, <1>3, <1>4, <1>5, <1>6, <1>7, <1>8, <1>9, <1>10, <1>11, <1>12, <1>13, <1>14,
     <1>15, <1>16 DEF Next, Run

\* HaltInv speaks of the row, the task, the handler and what was spent.
LEMMA HaltStays ==
    ASSUME HaltInv, UNCHANGED <<status, task, handler, stranded>>, budget'.crashes = budget.crashes
    PROVE  HaltInv'
BY DEF HaltInv, RunningHasTask

LEMMA HaltStep == IInv /\ [Next]_vars => HaltInv'
PROOF
<1> SUFFICES ASSUME IInv, [Next]_vars PROVE HaltInv'
  OBVIOUS
<1> USE DEF IInv, TypeOK, HaltInv, RunningHasTask, Alive, Settling, rows, history
<1>1. CASE StartBatch \/ TaskGuards \/ TaskRefused
  BY <1>1 DEF StartBatch, TaskGuards, TaskRefused, Startable, NoTask, FreshInv
<1>2. CASE MarkRunning \/ ReadRings
  BY <1>2 DEF MarkRunning, ReadRings
<1>3. ASSUME NEW k \in 0..Len(Cameras), BeginRing(k) PROVE HaltInv'
  BY <1>3 DEF BeginRing
<1>4. CASE EndRing \/ TaskFails
  BY <1>4, RingEnds
<1>5. CASE EndRings \/ MarkDone
  BY <1>5 DEF EndRings, MarkDone
<1>6. CASE HaltRow \/ HaltItems \/ FailRest
  BY <1>6 DEF HaltRow, HaltItems, FailRest
<1>12. CASE RunRaises
  <2>1. budget'.crashes = budget.crashes
    BY <1>12 DEF RunRaises
  <2> QED
    BY <1>12, <2>1, Raising DEF FreshInv
<1>13. CASE AbortFails
  BY <1>13 DEF AbortFails
<1>7. ASSUME NEW i \in Items, ItemStep(i) \/ ItemRaises(i) PROVE HaltInv'
  <2>1. UNCHANGED <<status, task, handler, stranded>> /\ budget'.crashes = budget.crashes
    BY <1>7 DEF ItemStep, ItemRaises, Rehearse, NoProfile, StartItem, RefuseItem, Upload,
       VerifyItem, ItemReturns
  <2> QED
    BY <2>1, HaltStays
<1>8. CASE RequestAbort
  BY <1>8 DEF RequestAbort
<1>9. CASE AbortRow \/ AbortItems
  BY <1>9 DEF AbortRow, AbortItems
<1>10. CASE Crash
  <2>1. budget'.crashes < MaxCrashes
    BY <1>10, BoundAssumption DEF Crash
  <2> QED
    BY <1>10, <2>1 DEF Crash, NoTask
<1>11. CASE UNCHANGED vars
  BY <1>11 DEF vars
<1> QED
  BY <1>1, <1>2, <1>3, <1>4, <1>5, <1>6, <1>7, <1>8, <1>9, <1>10, <1>11, <1>12,
     <1>13 DEF Next, Run

LEMMA StepInv == IInv /\ [Next]_vars => IInv'
BY TypeStep, FreshStep, ItemsStep, RingsStep, HaltStep DEF IInv

LEMMA Invariance == Spec => []IInv
BY InitInv, StepInv, PTL DEF Spec

-----------------------------------------------------------------------------
(* Theorems *)

\* The rows, the task, the coroutines and the handler keep their types.
THEOREM TypeCorrect == Spec => []TypeOK
PROOF
<1>1. IInv => TypeOK
  BY DEF IInv
<1> QED
  BY <1>1, Invariance, PTL

\* cameras/runner.py:222-230: no camera behind the canaries is sent anything
\* unless all of them proved the new version.
THEOREM CanaryIsGate == Spec => []CanaryGate
PROOF
<1>1. ASSUME IInv, NEW i \in Items, uploads[i] > 0, RingOf[i] > 0,
             NEW c \in Items, RingOf[c] = 0
      PROVE  result[c] = "verified"
  <2>1. Roll!Cleared(i, result)
    BY <1>1 DEF IInv, ItemsInv
  <2>2. Roll!RingPasses(0, result)
    BY <1>1, <2>1 DEF Roll!Cleared
  <2> QED
    BY <1>1, <2>2 DEF Roll!RingPasses, Roll!Ring
<1>2. IInv => CanaryGate
  BY <1>1 DEF CanaryGate
<1> QED
  BY <1>2, Invariance, PTL

\* cameras/runner.py:186-209 and 258-268: a batch is left saying that it runs only by
\* the end of the process, a start over an abort, or the failure of the very write
\* that was to replace the word.
THEOREM RunningHasItsTask == Spec => []RunningHasTask
PROOF
<1>1. IInv => RunningHasTask
  BY DEF IInv, HaltInv
<1> QED
  BY <1>1, Invariance, PTL

\* cameras/runner.py:207: a batch is done when each of its cameras is.
THEOREM DoneCoversAll == Spec => []DoneIsComplete
PROOF
<1>1. IInv => DoneIsComplete
  BY DEF IInv, RingsInv, Settled, DoneIsComplete
<1> QED
  BY <1>1, Invariance, PTL

\* cameras/runner.py:213-240: the task, its coroutines, the abort handler and a
\* restart together implement a staged roll.
THEOREM ImplementsRollout == Spec => IsStagedRoll
PROOF
<1>1. Init => Roll!Init
  BY DEF Init, Roll!Init
<1>2. IInv /\ [Next]_vars => [Roll!Next]_Roll!rollVars
  <2> SUFFICES ASSUME IInv, [Next]_vars PROVE [Roll!Next]_Roll!rollVars
    OBVIOUS
  <2> USE DEF rows, history
  <2>1. ASSUME UNCHANGED <<dry, uploads, result>> PROVE [Roll!Next]_Roll!rollVars
    BY <2>1 DEF Roll!rollVars
  <2>2. ASSUME NEW i \in Items, Upload(i) PROVE Roll!Next
    <3>1. ~dry /\ uploads[i] = 0 /\ result[i] = "none" /\ Roll!Cleared(i, result)
      BY <2>2 DEF IInv, ItemsInv, Upload
    <3>2. uploads' = [uploads EXCEPT ![i] = 1] /\ UNCHANGED <<dry, result>>
      BY <2>2, <3>1 DEF Upload, IInv, TypeOK
    <3>3. Roll!Send(i)
      BY <3>1, <3>2 DEF Roll!Send
    <3> QED
      BY <3>3 DEF Roll!Next
  <2>3. ASSUME NEW i \in Items, Rehearse(i) \/ NoProfile(i) \/ RefuseItem(i) \/ VerifyItem(i)
        PROVE  Roll!Next
    <3>1. PICK r \in Roll!Outcomes :
              /\ ItemReturns(i, r)
              /\ r = "would_run" <=> dry
              /\ r \in {"verified", "indeterminate"} => co[i] = "sent"
      BY <2>3 DEF Rehearse, NoProfile, RefuseItem, VerifyItem, Roll!Outcomes, IInv, ItemsInv
    <3>2. result[i] = "none" /\ (co[i] = "sent" => uploads[i] = 1)
      BY <2>3, Returning DEF IInv, ItemsInv
    <3>3. Roll!Conclude(i, r)
      BY <3>1, <3>2 DEF Roll!Conclude, ItemReturns
    <3> QED
      BY <3>1, <3>3 DEF Roll!Next
  <2> QED
    BY <2>1, <2>2, <2>3 DEF Next, Run, ItemStep, StartBatch, TaskRefused, TaskGuards, MarkRunning,
       ReadRings, BeginRing, EndRing, EndRings, MarkDone, TaskFails, HaltRow, HaltItems,
       FailRest, RunRaises, StartItem, ItemRaises, RequestAbort, AbortRow, AbortItems, AbortFails,
       Crash, vars
<1> QED
  BY <1>1, <1>2, Invariance, PTL DEF Spec, IsStagedRoll, Roll!Spec
=============================================================================
