------------------------- MODULE AlertEngineProofs -------------------------
(***************************************************************************)
(* Theorems about the alert engine, for every set of devices, rules and    *)
(* worker threads and every value of the bounds.                           *)
(***************************************************************************)
EXTENDS AlertEngine, TLAPS

-----------------------------------------------------------------------------
(* Types *)

\* The part of TypeOK a step of a cycle can disturb, and the part it leaves.
CycleOK ==
    /\ cycle \in [Threads -> Cycle]
    /\ \A t \in Threads : LocalsOK(cycle[t])
    /\ awaited \in Threads \cup {None}

TablesOK == alert \in [Pairs -> [id : Nat, open : BOOLEAN]] /\ noted \in [Pairs -> Nat]

EnvOK ==
    /\ value \in [Keys -> Values]
    /\ unlogged \subseteq Keys
    /\ steady \subseteq Pairs
    /\ dated \subseteq Pairs
    /\ enabled \subseteq Devices
    /\ ruleOn \subseteq Rules
    /\ maint \subseteq Devices

LEMMA TypeParts ==
    TypeOK <=> /\ CycleOK /\ TablesOK /\ EnvOK
               /\ doubted \subseteq Pairs /\ budget \in [Budgets -> Nat]
BY DEF TypeOK, CycleOK, TablesOK, EnvOK

LEMMA SpendType ==
    ASSUME budget \in [Budgets -> Nat], NEW what \in Budgets, Spend(what)
    PROVE  budget' \in [Budgets -> Nat]
BY DEF Spend

\* A thread's new locals.
LEMMA Locals ==
    ASSUME CycleOK, NEW t \in Threads, NEW c \in Cycle, LocalsOK(c),
           cycle' = [cycle EXCEPT ![t] = c],
           awaited' \in Threads \cup {None}
    PROVE  CycleOK'
PROOF
<1>1. cycle' \in [Threads -> Cycle]
  BY DEF CycleOK
<1>2. ASSUME NEW u \in Threads PROVE LocalsOK(cycle'[u])
  <2>1. cycle'[u] = IF u = t THEN c ELSE cycle[u]
    BY DEF CycleOK
  <2> QED
    BY <2>1 DEF CycleOK
<1> QED
  BY <1>1, <1>2 DEF CycleOK

LEMMA IdleOK == Idle \in Cycle /\ LocalsOK(Idle)
BY DEF Idle, Cycle, Locations, LocalsOK

LEMMA LeaveOK == ASSUME CycleOK, NEW t \in Threads, Leave(t) PROVE CycleOK'
PROOF
<1>1. awaited' \in Threads \cup {None}
  BY DEF Leave, CycleOK
<1> QED
  BY <1>1, IdleOK, Locals DEF Leave

\* The locals of a thread at work on a rule, and on a device of it.
LEMMA AtWork ==
    ASSUME CycleOK, NEW t \in Threads
    PROVE  /\ cycle[t] \in Cycle
           /\ LocalsOK(cycle[t])
           /\ cycle[t].pc \in {"devices", "insert", "notify", "close"} =>
                \A d \in Devices : Pair(t, d) \in Pairs
           /\ cycle[t].pc \in {"insert", "notify"} =>
                cycle[t].dev \in Devices /\ Pair(t, cycle[t].dev) \in Pairs
PROOF
<1>1. cycle[t] \in Cycle /\ LocalsOK(cycle[t])
  BY DEF CycleOK
<1>2. /\ cycle[t].pc \in {"devices", "insert", "notify", "close"} => cycle[t].rule \in Rules
      /\ cycle[t].pc \in {"insert", "notify"} => cycle[t].dev \in Devices
  BY <1>1 DEF Cycle, LocalsOK
<1> QED
  BY <1>1, <1>2 DEF Pair, Pairs

LEMMA StepCycleOK ==
    ASSUME TypeOK, NEW t \in Threads, StartCycle(t) \/ Step(t)
    PROVE  CycleOK'
PROOF
<1>1. CycleOK /\ EnvOK /\ TablesOK /\ cycle[t] \in Cycle /\ LocalsOK(cycle[t])
  BY TypeParts, AtWork
<1> DEFINE Becomes(c) == cycle' = [cycle EXCEPT ![t] = c] /\ c \in Cycle /\ LocalsOK(c)
<1>2. ASSUME NEW c, Becomes(c), awaited' \in Threads \cup {None} PROVE CycleOK'
  BY <1>1, <1>2, Locals
<1>3. awaited \in Threads \cup {None}
  BY <1>1 DEF CycleOK
<1>4. ASSUME StartCycle(t) PROVE CycleOK'
  <2> DEFINE c == [Idle EXCEPT !.pc = "flags", !.flagged = FlaggedDown, !.ripe = dated]
  <2>1. cycle' = [cycle EXCEPT ![t] = c] /\ awaited' = t
    BY <1>4 DEF StartCycle
  <2>2. c \in Cycle /\ LocalsOK(c)
    BY <1>1 DEF Idle, Cycle, Locations, LocalsOK, EnvOK, FlaggedDown
  <2> HIDE DEF c
  <2> QED
    BY <1>2, <2>1, <2>2
<1>5. ASSUME LoadRules(t) PROVE CycleOK'
  <2> DEFINE c == [cycle[t] EXCEPT !.pc = "rules", !.queue = ruleOn]
  <2>1. cycle' = [cycle EXCEPT ![t] = c] /\ awaited' = awaited
    BY <1>1, <1>5 DEF LoadRules, CycleOK
  <2>2. c \in Cycle /\ LocalsOK(c)
    BY <1>1, <1>5 DEF LoadRules, At, Cycle, Locations, LocalsOK, EnvOK
  <2> HIDE DEF c
  <2> QED
    BY <1>2, <1>3, <2>1, <2>2
<1>6. ASSUME NEW r \in Rules, BeginRule(t, r) PROVE CycleOK'
  <2> DEFINE c == [cycle[t] EXCEPT !.pc = "devices", !.queue = @ \ {r}, !.rule = r, !.matched = {},
                                   !.todo = {d \in Devices : Matches(r, d, cycle[t].flagged)}]
  <2>1. cycle' = [cycle EXCEPT ![t] = c] /\ awaited' = awaited
    BY <1>1, <1>6 DEF BeginRule, CycleOK
  <2>2. c \in Cycle /\ LocalsOK(c)
    BY <1>1, <1>6, EngineAssumption DEF BeginRule, At, Cycle, Locations, LocalsOK
  <2> HIDE DEF c
  <2> QED
    BY <1>2, <1>3, <2>1, <2>2
<1>7. ASSUME NEW d \in Devices, NotHeld(t, d) PROVE CycleOK'
  <2> DEFINE c == [cycle[t] EXCEPT !.todo = @ \ {d}]
  <2>1. cycle' = [cycle EXCEPT ![t] = c] /\ awaited' = awaited
    BY <1>1, <1>7 DEF NotHeld, CycleOK
  <2>2. c \in Cycle /\ LocalsOK(c)
    BY <1>1 DEF Cycle, LocalsOK
  <2> HIDE DEF c
  <2> QED
    BY <1>2, <1>3, <2>1, <2>2
<1>8. ASSUME NEW d \in Devices, Held(t, d) PROVE CycleOK'
  <2> DEFINE known == alert[Pair(t, d)].open
             c == [cycle[t] EXCEPT !.todo = @ \ {d}, !.matched = @ \cup {d},
                                   !.pc = IF known THEN "devices" ELSE "insert",
                                   !.dev = IF known THEN None ELSE d]
  <2>1. cycle' = [cycle EXCEPT ![t] = c] /\ awaited' = awaited /\ cycle[t].pc = "devices"
    BY <1>1, <1>8 DEF Held, At, CycleOK
  <2> HIDE DEF known
  <2>2. d # None
    BY EngineAssumption
  <2>3. c \in Cycle /\ LocalsOK(c)
    BY <1>1, <2>1, <2>2 DEF Cycle, Locations, LocalsOK
  <2> HIDE DEF c
  <2> QED
    BY <1>2, <1>3, <2>1, <2>3
<1>9. ASSUME OpenAlert(t) PROVE CycleOK'
  <2> DEFINE c == [cycle[t] EXCEPT !.pc = "notify"]
  <2>1. cycle' = [cycle EXCEPT ![t] = c] /\ awaited' = awaited /\ cycle[t].pc = "insert"
    BY <1>1, <1>9 DEF OpenAlert, At, CycleOK
  <2>2. c \in Cycle /\ LocalsOK(c)
    BY <1>1, <2>1 DEF Cycle, Locations, LocalsOK
  <2> HIDE DEF c
  <2> QED
    BY <1>2, <1>3, <2>1, <2>2
<1>10. ASSUME Notify(t) PROVE CycleOK'
  <2> DEFINE c == [cycle[t] EXCEPT !.pc = "devices", !.dev = None]
  <2>1. cycle' = [cycle EXCEPT ![t] = c] /\ awaited' = awaited /\ cycle[t].pc = "notify"
    BY <1>1, <1>10 DEF Notify, NotificationRow, At, CycleOK
  <2>2. c \in Cycle /\ LocalsOK(c)
    BY <1>1, <2>1 DEF Cycle, Locations, LocalsOK
  <2> HIDE DEF c
  <2> QED
    BY <1>2, <1>3, <2>1, <2>2
<1>11. ASSUME BeginClose(t) \/ BeginOrphans(t) PROVE CycleOK'
  <2>1. PICK closing \in SUBSET (Pairs \X Nat), loc \in {"close", "orphans"} :
          /\ cycle' = [cycle EXCEPT ![t] = [cycle[t] EXCEPT !.pc = loc, !.closing = closing]]
          /\ awaited' = awaited
          /\ cycle[t].pc = IF loc = "close" THEN "devices" ELSE "rules"
    <3>1. CASE BeginClose(t)
      <4> DEFINE set == {<<p, alert[p].id>> :
                       p \in {q \in Pairs : /\ q[1] = cycle[t].rule
                                            /\ q[2] \notin cycle[t].matched
                                            /\ alert[q].open}}
      <4>1. set \in SUBSET (Pairs \X Nat)
        BY <1>1 DEF TablesOK
      <4>2. /\ cycle' = [cycle EXCEPT ![t] = [cycle[t] EXCEPT !.pc = "close", !.closing = set]]
            /\ awaited' = awaited /\ cycle[t].pc = "devices"
        BY <1>1, <3>1 DEF BeginClose, At, CycleOK
      <4> QED  BY <4>1, <4>2
    <3>2. CASE BeginOrphans(t)
      <4> DEFINE set == {<<p, alert[p].id>> :
                       p \in {q \in Pairs : q[1] \notin ruleOn /\ alert[q].open}}
      <4>1. set \in SUBSET (Pairs \X Nat)
        BY <1>1 DEF TablesOK
      <4>2. /\ cycle' = [cycle EXCEPT ![t] = [cycle[t] EXCEPT !.pc = "orphans", !.closing = set]]
            /\ awaited' = awaited /\ cycle[t].pc = "rules"
        BY <1>1, <3>2 DEF BeginOrphans, At, CycleOK
      <4> QED  BY <4>1, <4>2
    <3> QED  BY <1>11, <3>1, <3>2
  <2> DEFINE c == [cycle[t] EXCEPT !.pc = loc, !.closing = closing]
  <2>2. c \in Cycle /\ LocalsOK(c)
    BY <1>1, <2>1 DEF Cycle, Locations, LocalsOK
  <2> HIDE DEF c
  <2> QED
    BY <1>2, <1>3, <2>1, <2>2 DEF c
<1>12. ASSUME NEW x \in cycle[t].closing, CloseAlert(t, x[1], x[2]) PROVE CycleOK'
  <2> DEFINE c == [cycle[t] EXCEPT !.closing = @ \ {<<x[1], x[2]>>}]
  <2>1. cycle' = [cycle EXCEPT ![t] = c] /\ awaited' = awaited
        /\ cycle[t].pc \in {"close", "orphans"}
    BY <1>1, <1>12 DEF CloseAlert, CycleOK
  <2>2. c \in Cycle /\ LocalsOK(c)
    BY <1>1, <2>1 DEF Cycle, LocalsOK
  <2> HIDE DEF c
  <2> QED
    BY <1>2, <1>3, <2>1, <2>2
<1>13. ASSUME EndRule(t) PROVE CycleOK'
  <2> DEFINE c == [cycle[t] EXCEPT !.pc = "rules", !.rule = None, !.matched = {}]
  <2>1. cycle' = [cycle EXCEPT ![t] = c] /\ awaited' = awaited
        /\ cycle[t].pc = "close" /\ cycle[t].closing = {}
    BY <1>1, <1>13 DEF EndRule, At, CycleOK
  <2>2. c \in Cycle /\ LocalsOK(c)
    BY <1>1, <2>1 DEF Cycle, Locations, LocalsOK
  <2> HIDE DEF c
  <2> QED
    BY <1>2, <1>3, <2>1, <2>2
<1>14. ASSUME OpenAlertRefused(t) \/ NotifyRaises(t) \/ NotifyRefused(t) \/ EndCycle(t)
       PROVE  CycleOK'
  BY <1>1, <1>14, LeaveOK DEF OpenAlertRefused, NotifyRaises, NotifyRefused, EndCycle
<1> QED
  BY <1>4, <1>5, <1>6, <1>7, <1>8, <1>9, <1>10, <1>11, <1>12, <1>13, <1>14 DEF Step

LEMMA StepTablesOK ==
    ASSUME TypeOK, NEW t \in Threads, StartCycle(t) \/ Step(t)
    PROVE  TablesOK' /\ EnvOK' /\ budget' \in [Budgets -> Nat]
PROOF
<1>1. TablesOK /\ EnvOK /\ budget \in [Budgets -> Nat] /\ CycleOK
  BY TypeParts
<1>2. UNCHANGED env
  BY DEF StartCycle, Step, LoadRules, BeginRule, NotHeld, Held, OpenAlert, OpenAlertRefused,
     Notify, NotifyRaises, NotifyRefused, BeginClose, BeginOrphans, CloseAlert, EndRule,
     EndCycle, NotificationRow
<1>3. EnvOK'
  BY <1>1, <1>2 DEF EnvOK, env
<1>4. budget' \in [Budgets -> Nat]
  <2>1. CASE NotifyRaises(t)
    BY <1>1, <2>1, SpendType DEF NotifyRaises, Budgets
  <2>2. CASE UNCHANGED budget
    BY <1>1, <2>2
  <2> QED
    BY <2>1, <2>2 DEF StartCycle, Step, LoadRules, BeginRule, NotHeld, Held, OpenAlert,
       OpenAlertRefused, Notify, NotifyRefused, BeginClose, BeginOrphans, CloseAlert,
       EndRule, EndCycle
<1>5. TablesOK'
  <2>1. ASSUME OpenAlert(t) PROVE TablesOK'
    <3> DEFINE p == Pair(t, cycle[t].dev)
    <3>1. p \in Pairs
      BY <1>1, <2>1, AtWork DEF OpenAlert, At
    <3>2. /\ alert' = [alert EXCEPT ![p] = [id |-> alert[p].id + 1, open |-> TRUE]]
          /\ noted' = [noted EXCEPT ![p] = 0]
      BY <1>1, <2>1, <3>1 DEF OpenAlert, TablesOK
    <3> HIDE DEF p
    <3> QED
      BY <1>1, <3>1, <3>2 DEF TablesOK
  <2>2. ASSUME NotificationRow(t), UNCHANGED alert PROVE TablesOK'
    BY <1>1, <2>2, AtWork DEF NotificationRow, At, TablesOK
  <2>3. ASSUME NEW x \in cycle[t].closing, CloseAlert(t, x[1], x[2]) PROVE TablesOK'
    <3>1. alert' = [alert EXCEPT ![x[1]].open = @ /\ alert[x[1]].id # x[2]]
          /\ noted' = noted
      BY <2>3 DEF CloseAlert
    <3> QED
      BY <1>1, <3>1 DEF TablesOK
  <2>4. CASE UNCHANGED tables
    BY <1>1, <2>4 DEF TablesOK, tables
  <2> QED
    BY <2>1, <2>2, <2>3, <2>4 DEF StartCycle, Step, LoadRules, BeginRule, NotHeld, Held,
       OpenAlertRefused, Notify, NotifyRaises, NotifyRefused, BeginClose, BeginOrphans,
       EndRule, EndCycle
<1> QED
  BY <1>3, <1>4, <1>5

\* A new event reaches only the ripe pairs of a cycle.
LEMMA DatesOK ==
    ASSUME CycleOK, EnvOK, NEW dim \in Dims, NEW d \in Devices, Dates(dim, d), UNCHANGED awaited
    PROVE  CycleOK' /\ dated' \subseteq Pairs
PROOF
<1>1. \A t \in Threads : cycle'[t] = [cycle[t] EXCEPT !.ripe = @ \ PairsOf(dim, d)]
  BY DEF Dates
<1>2. ASSUME NEW t \in Threads PROVE cycle'[t] \in Cycle /\ LocalsOK(cycle'[t])
  <2> DEFINE c == cycle[t]
             young == [c EXCEPT !.ripe = @ \ PairsOf(dim, d)]
  <2>1. c \in Cycle /\ LocalsOK(c)
    BY DEF CycleOK
  <2>2. young \in Cycle /\ LocalsOK(young)
    <3> HIDE DEF c
    <3> QED  BY <2>1 DEF Cycle, LocalsOK
  <2> QED
    BY <1>1, <2>2
<1>3. cycle' \in [Threads -> Cycle]
  BY <1>2 DEF Dates
<1> QED
  BY <1>2, <1>3 DEF CycleOK, EnvOK, Dates

LEMMA OtherOK ==
    ASSUME TypeOK,
           \/ Timeout \/ Crash \/ Writers \/ Operator
           \/ \E p \in Pairs : Age(p)
    PROVE  CycleOK' /\ TablesOK' /\ EnvOK' /\ budget' \in [Budgets -> Nat]
PROOF
<1>1. TablesOK /\ EnvOK /\ budget \in [Budgets -> Nat] /\ CycleOK
  BY TypeParts
<1>2. ASSUME Timeout PROVE CycleOK' /\ TablesOK' /\ EnvOK' /\ budget' \in [Budgets -> Nat]
  <2>1. budget' \in [Budgets -> Nat]
    BY <1>1, <1>2, SpendType DEF Timeout, Budgets
  <2> QED
    BY <1>1, <1>2, <2>1 DEF Timeout, CycleOK, TablesOK, EnvOK, env, tables
<1>3. ASSUME Crash PROVE CycleOK' /\ TablesOK' /\ EnvOK' /\ budget' \in [Budgets -> Nat]
  <2>1. budget' \in [Budgets -> Nat]
    BY <1>1, <1>3, SpendType DEF Crash, Budgets
  <2>2. CycleOK'
    BY <1>3, IdleOK DEF Crash, CycleOK
  <2> QED
    BY <1>1, <1>3, <2>1, <2>2 DEF Crash, TablesOK, EnvOK, env, tables
<1>4. ASSUME Operator PROVE CycleOK' /\ TablesOK' /\ EnvOK' /\ budget' \in [Budgets -> Nat]
  <2>1. budget' \in [Budgets -> Nat]
    BY <1>1, <1>4, SpendType DEF Operator, Budgets
  <2>2. enabled' \subseteq Devices /\ ruleOn' \subseteq Rules /\ maint' \subseteq Devices
    BY <1>1, <1>4 DEF Operator, Flip, EnvOK
  <2> QED
    BY <1>1, <1>4, <2>1, <2>2 DEF Operator, CycleOK, TablesOK, EnvOK, tables
<1>5. ASSUME NEW p \in Pairs, Age(p)
      PROVE  CycleOK' /\ TablesOK' /\ EnvOK' /\ budget' \in [Budgets -> Nat]
  BY <1>1, <1>5 DEF Age, CycleOK, TablesOK, EnvOK, tables
<1>6. ASSUME NEW dim \in Dims, NEW d \in Devices, NEW v \in Values, WriteState(dim, d, v)
      PROVE  CycleOK' /\ TablesOK' /\ EnvOK' /\ budget' \in [Budgets -> Nat]
  <2>1. budget' \in [Budgets -> Nat]
    BY <1>1, <1>6, SpendType DEF WriteState, Budgets
  <2>2. CycleOK' /\ dated' \subseteq Pairs /\ unlogged' \subseteq Keys
    BY <1>1, <1>6, DatesOK DEF WriteState, CycleOK, EnvOK, Keys
  <2>3. value' \in [Keys -> Values] /\ steady' \subseteq Pairs
    BY <1>1, <1>6 DEF WriteState, EnvOK, Keys
  <2> QED
    BY <1>1, <1>6, <2>1, <2>2, <2>3 DEF WriteState, TablesOK, EnvOK, tables
<1>7. ASSUME NEW dim \in Dims, NEW d \in Devices, WriteEvent(dim, d)
      PROVE  CycleOK' /\ TablesOK' /\ EnvOK' /\ budget' \in [Budgets -> Nat]
  <2>1. CycleOK' /\ dated' \subseteq Pairs
    BY <1>1, <1>7, DatesOK DEF WriteEvent
  <2> QED
    BY <1>1, <1>7, <2>1 DEF WriteEvent, TablesOK, EnvOK, tables
<1> QED
  BY <1>2, <1>3, <1>4, <1>5, <1>6, <1>7 DEF Writers

LEMMA TypeInit == Init => TypeOK
PROOF
<1> SUFFICES ASSUME Init PROVE TypeOK
  OBVIOUS
<1>1. budget \in [Budgets -> Nat]
  BY BoundAssumption DEF Init, Budgets
<1>2. CycleOK
  BY IdleOK DEF Init, CycleOK
<1>3. TablesOK /\ EnvOK /\ doubted \subseteq Pairs
  BY DEF Init, TablesOK, EnvOK, Values
<1> QED
  BY <1>1, <1>2, <1>3, TypeParts

LEMMA TypeNext == TypeOK /\ [Next]_vars => TypeOK'
PROOF
<1> SUFFICES ASSUME TypeOK, [Next]_vars PROVE TypeOK'
  OBVIOUS
<1>1. ASSUME Next PROVE TypeOK'
  <2>1. doubted' \subseteq Pairs
    BY <1>1 DEF Next, Doubts
  <2>2. CycleOK' /\ TablesOK' /\ EnvOK' /\ budget' \in [Budgets -> Nat]
    BY <1>1, StepCycleOK, StepTablesOK, OtherOK DEF Next
  <2> QED
    BY <2>1, <2>2 DEF TypeOK, CycleOK, TablesOK, EnvOK
<1>2. CASE UNCHANGED vars
  BY <1>2 DEF vars, TypeOK
<1> QED
  BY <1>1, <1>2

\* AlertEngine.TypeOK holds however many threads overlap and whatever fails.
THEOREM TypeCorrect == Spec => []TypeOK
PROOF
<1> QED
  BY TypeInit, TypeNext, PTL DEF Spec

-----------------------------------------------------------------------------
(* The duration gate *)

\* The pairs whose key a batched writer writes: their events are as old as the
\* values they tell of, in the log and in the eyes of every cycle under way.
BatchedPairs == {p \in Pairs : <<Dim[p[1]], p[2]>> \in Batched}

GateInv ==
    /\ unlogged \cap Batched = {}
    /\ dated \cap BatchedPairs \subseteq steady
    /\ \A t \in Threads : cycle[t].ripe \cap BatchedPairs \subseteq steady

LEMMA GateInit == Init => GateInv
BY DEF Init, GateInv, Idle

LEMMA GateNext ==
    ASSUME TypeOK, GateInv, [Next]_vars
    PROVE  GateInv'
PROOF
<1>1. CycleOK /\ EnvOK /\ TablesOK
  BY TypeParts
<1>2. ASSUME NEW t \in Threads, StartCycle(t) \/ Step(t) PROVE GateInv'
  <2>1. UNCHANGED env
    BY <1>2 DEF StartCycle, Step, LoadRules, BeginRule, NotHeld, Held, OpenAlert,
       OpenAlertRefused, Notify, NotifyRaises, NotifyRefused, BeginClose, BeginOrphans,
       CloseAlert, EndRule, EndCycle, NotificationRow
  <2>2. \A u \in Threads : cycle'[u].ripe \in {cycle[u].ripe, dated, {}}
    <3>1. cycle[t] \in Cycle
      BY <1>1, AtWork
    <3>2. ASSUME NEW c, cycle' = [cycle EXCEPT ![t] = c], c.ripe \in {cycle[t].ripe, dated, {}}
          PROVE  \A u \in Threads : cycle'[u].ripe \in {cycle[u].ripe, dated, {}}
      BY <1>1, <3>2 DEF CycleOK
    <3>3. Idle.ripe = {} /\ [Idle EXCEPT !.pc = "flags", !.flagged = FlaggedDown,
                                         !.ripe = dated].ripe = dated
      BY DEF Idle
    <3>4. CASE StartCycle(t)
      BY <3>2, <3>3, <3>4 DEF StartCycle
    <3>5. CASE Leave(t)
      BY <3>2, <3>3, <3>5 DEF Leave
    <3>6. CASE LoadRules(t)
      BY <1>1, <3>1, <3>6 DEF LoadRules, CycleOK, Cycle
    <3>7. CASE \E r \in Rules : BeginRule(t, r)
      BY <1>1, <3>1, <3>7 DEF BeginRule, CycleOK, Cycle
    <3>8. CASE \E d \in Devices : NotHeld(t, d) \/ Held(t, d)
      BY <1>1, <3>1, <3>8 DEF NotHeld, Held, CycleOK, Cycle
    <3>9. CASE OpenAlert(t) \/ Notify(t)
      BY <1>1, <3>1, <3>9 DEF OpenAlert, Notify, CycleOK, Cycle
    <3>10. CASE BeginClose(t) \/ BeginOrphans(t)
      BY <1>1, <3>1, <3>10 DEF BeginClose, BeginOrphans, CycleOK, Cycle
    <3>11. CASE \E x \in cycle[t].closing : CloseAlert(t, x[1], x[2])
      BY <1>1, <3>1, <3>11 DEF CloseAlert, CycleOK, Cycle
    <3>12. CASE EndRule(t)
      BY <1>1, <3>1, <3>12 DEF EndRule, CycleOK, Cycle
    <3> QED
      BY <1>2, <3>4, <3>5, <3>6, <3>7, <3>8, <3>9, <3>10, <3>11, <3>12 DEF Step,
         OpenAlertRefused, NotifyRaises, NotifyRefused, EndCycle
  <2> QED
    BY <2>1, <2>2 DEF GateInv, env
<1>3. ASSUME NEW dim \in Dims, NEW d \in Devices, NEW v \in Values, WriteState(dim, d, v)
      PROVE  GateInv'
  <2>1. steady' = steady \ PairsOf(dim, d)
    BY <1>3 DEF WriteState
  <2>2. CASE <<dim, d>> \in Batched
    <3>1. unlogged' = unlogged /\ Dates(dim, d)
      BY <1>3, <2>2 DEF WriteState
    <3>2. \A t \in Threads : cycle'[t].ripe = cycle[t].ripe \ PairsOf(dim, d)
      BY <1>1, <3>1 DEF Dates, CycleOK, Cycle
    <3> QED
      BY <2>1, <3>1, <3>2 DEF GateInv, Dates
  <2>3. CASE <<dim, d>> \notin Batched
    <3>1. unlogged' = unlogged \cup {<<dim, d>>} /\ UNCHANGED <<dated, cycle>>
      BY <1>3, <2>3 DEF WriteState
    <3>2. PairsOf(dim, d) \cap BatchedPairs = {}
      BY <2>3 DEF PairsOf, BatchedPairs
    <3> QED
      BY <2>1, <2>3, <3>1, <3>2 DEF GateInv
  <2> QED
    BY <2>2, <2>3
<1>4. ASSUME NEW p \in Pairs, Age(p) PROVE GateInv'
  BY <1>4 DEF Age, GateInv
<1>5. CASE Timeout \/ Operator \/ UNCHANGED vars
  BY <1>5 DEF Timeout, Operator, vars, env, GateInv
<1>6. CASE Crash
  BY <1>6 DEF Crash, env, GateInv, Idle
<1>7. ASSUME NEW dim \in Dims, NEW d \in Devices, WriteEvent(dim, d) PROVE GateInv'
  <2>1. /\ unlogged' \subseteq unlogged /\ steady' = steady
        /\ dated' \subseteq dated /\ Dates(dim, d)
    BY <1>7 DEF WriteEvent, Dates
  <2>2. \A t \in Threads : cycle'[t].ripe \subseteq cycle[t].ripe
    BY <1>1, <2>1 DEF Dates, CycleOK, Cycle
  <2> QED
    BY <2>1, <2>2 DEF GateInv
<1> QED
  BY <1>2, <1>3, <1>4, <1>5, <1>6, <1>7 DEF Next, Writers

\* docs/spec/06-engine.md:20-23: where the writer stores a value together with
\* its event, no cycle, late, overlapping or restarted, sets out to open an alert
\* for a value that has not lasted, however the other writers interleave.
THEOREM GateHolds == Spec => OpensOnlyHeld
PROOF
<1> DEFINE Opens(t, d) == /\ At(t, "devices")
                          /\ cycle'[t].pc = "insert"
                          /\ cycle'[t].dev = d
                          /\ <<Dim[cycle[t].rule], d>> \in Batched
<1>1. ASSUME TypeOK, GateInv, [Next]_vars, NEW t \in Threads, NEW d \in Devices, Opens(t, d)
      PROVE  Pair(t, d) \in steady
  <2>1. CycleOK
    BY <1>1, TypeParts
  <2>2. cycle[t] \in Cycle /\ cycle[t].pc = "devices"
    BY <1>1, <2>1, AtWork DEF At
  <2>3. ASSUME NEW e \in Devices, Held(t, e) PROVE Pair(t, d) \in steady
    <3>1. cycle'[t].pc = (IF alert[Pair(t, e)].open THEN "devices" ELSE "insert")
          /\ cycle'[t].dev = (IF alert[Pair(t, e)].open THEN None ELSE e)
      BY <2>1, <2>2, <2>3 DEF Held, CycleOK, Cycle
    <3>2. e = d
      BY <1>1, <3>1
    <3>3. Pair(t, d) \in cycle[t].ripe \cap BatchedPairs
      <4>1. Pair(t, d) \in Pairs
        BY <2>1, <2>2, AtWork
      <4> QED
        BY <1>1, <2>3, <3>2, <4>1 DEF Held, HeldSince, Pair, BatchedPairs
    <3> QED
      BY <1>1, <3>3 DEF GateInv
  <2>4. ASSUME NEW u \in Threads, u # t, StartCycle(u) \/ Step(u) PROVE FALSE
    <3>1. cycle'[t] = cycle[t]
      BY <2>1, <2>4 DEF StartCycle, Step, LoadRules, BeginRule, NotHeld, Held, OpenAlert,
         OpenAlertRefused, Notify, NotifyRaises, NotifyRefused, BeginClose, BeginOrphans,
         CloseAlert, EndRule, EndCycle, NotificationRow, Leave, CycleOK
    <3> QED
      BY <1>1, <2>2, <3>1
  <2>5. ASSUME StartCycle(t) \/ Step(t), \A e \in Devices : ~ Held(t, e) PROVE FALSE
    BY <1>1, <2>1, <2>2, <2>5 DEF StartCycle, Step, LoadRules, BeginRule, NotHeld, OpenAlert,
       OpenAlertRefused, Notify, NotifyRaises, NotifyRefused, BeginClose, BeginOrphans,
       CloseAlert, EndRule, EndCycle, NotificationRow, Leave, At, CycleOK, Cycle
  <2>6. ASSUME Timeout \/ Crash \/ Operator \/ UNCHANGED vars \/ \E p \in Pairs : Age(p)
        PROVE  FALSE
    <3>1. CASE Crash
      BY <1>1, <3>1 DEF Crash, Idle
    <3>2. CASE Timeout \/ Operator \/ UNCHANGED vars \/ \E p \in Pairs : Age(p)
      <4>1. cycle' = cycle
        BY <3>2 DEF Timeout, Operator, Age, vars
      <4> QED
        BY <1>1, <2>2, <4>1
    <3> QED
      BY <2>6, <3>1, <3>2
  <2>7. ASSUME Writers PROVE FALSE
    <3>1. cycle'[t].pc = cycle[t].pc
      <4>1. ASSUME NEW dim \in Dims, NEW e \in Devices, Dates(dim, e)
            PROVE  cycle'[t].pc = cycle[t].pc
        BY <2>2, <4>1 DEF Dates, Cycle
      <4> QED
        BY <2>7, <4>1 DEF Writers, WriteState, WriteEvent
    <3> QED
      BY <1>1, <2>2, <3>1
  <2> QED
    BY <1>1, <2>3, <2>4, <2>5, <2>6, <2>7 DEF Next
<1>2. TypeOK /\ GateInv /\ [Next]_vars =>
        \A t \in Threads, d \in Devices : Opens(t, d) => Pair(t, d) \in steady
  BY <1>1
<1>3. TypeOK /\ GateInv /\ [Next]_vars => GateInv'
  BY GateNext
<1> QED
  BY <1>2, <1>3, TypeCorrect, GateInit, PTL DEF Spec, OpensOnlyHeld

-----------------------------------------------------------------------------
(* One thread at work *)

\* Only the awaited thread works.
Solo == \A t \in Threads : ~ At(t, "idle") => awaited = t

\* What StartCycle, or a step of the cycle, leaves to the other threads: they
\* are idle and stay so.
LEMMA AloneStep ==
    ASSUME TypeOK, Solo, NEW t \in Threads, StartCycle(t) \/ Step(t)
    PROVE  /\ \A u \in Threads : u # t => cycle'[u] = cycle[u] /\ cycle[u].pc = "idle"
           /\ awaited = IF StartCycle(t) THEN None ELSE t
           /\ Solo'
PROOF
<1>1. CycleOK /\ cycle[t] \in Cycle /\ LocalsOK(cycle[t])
  BY TypeParts, AtWork
<1>2. \A u \in Threads : u # t => cycle'[u] = cycle[u]
  BY <1>1 DEF StartCycle, Step, LoadRules, BeginRule, NotHeld, Held, OpenAlert,
     OpenAlertRefused, Notify, NotifyRaises, NotifyRefused, BeginClose, BeginOrphans,
     CloseAlert, EndRule, EndCycle, Leave, CycleOK
<1>3. /\ awaited = IF StartCycle(t) THEN None ELSE t
      /\ awaited' = t \/ cycle'[t] = Idle
  <2>1. CASE StartCycle(t)
    BY <2>1 DEF StartCycle
  <2>2. CASE Step(t)
    <3>1. cycle[t].pc # "idle"
      BY <1>1, <2>2 DEF Step, LoadRules, BeginRule, NotHeld, Held, OpenAlert,
         OpenAlertRefused, Notify, NotifyRaises, NotifyRefused, NotificationRow,
         BeginClose, BeginOrphans, CloseAlert, EndRule, EndCycle, At, LocalsOK
    <3>2. awaited = t /\ ~ StartCycle(t)
      BY <3>1 DEF Solo, At, StartCycle
    <3>3. awaited' = awaited \/ Leave(t)
      BY <2>2 DEF Step, LoadRules, BeginRule, NotHeld, Held, OpenAlert,
         OpenAlertRefused, Notify, NotifyRaises, NotifyRefused, BeginClose,
         BeginOrphans, CloseAlert, EndRule, EndCycle
    <3> QED
      BY <1>1, <3>2, <3>3 DEF Leave, CycleOK
  <2> QED
    BY <2>1, <2>2
<1>4. \A u \in Threads : u # t => cycle[u].pc = "idle"
  BY <1>3, EngineAssumption DEF Solo, At
<1> QED
  BY <1>2, <1>3, <1>4 DEF Solo, At, Idle

\* What the writers, the clock and the operators leave of a cycle and of the
\* tables: a new event only makes pairs less ripe.
LEMMA AsideStep ==
    ASSUME TypeOK, Writers \/ Operator \/ UNCHANGED vars \/ \E p \in Pairs : Age(p)
    PROVE  /\ UNCHANGED <<alert, noted, awaited>>
           /\ \A t \in Threads : \E ripe \in SUBSET cycle[t].ripe :
                cycle'[t] = [cycle[t] EXCEPT !.ripe = ripe]
PROOF
<1>1. UNCHANGED <<alert, noted, awaited>>
  BY DEF Writers, WriteState, WriteEvent, Age, Operator, vars, tables
<1>2. ASSUME NEW t \in Threads
      PROVE  \E ripe \in SUBSET cycle[t].ripe : cycle'[t] = [cycle[t] EXCEPT !.ripe = ripe]
  <2>1. ASSUME NEW dim \in Dims, NEW d \in Devices, Dates(dim, d)
        PROVE  cycle'[t] = [cycle[t] EXCEPT !.ripe = @ \ PairsOf(dim, d)]
    BY <2>1 DEF Dates
  <2>2. CASE UNCHANGED cycle
    <3>1. cycle[t] \in Cycle
      BY TypeParts, AtWork
    <3>2. cycle[t] = [cycle[t] EXCEPT !.ripe = cycle[t].ripe]
      BY <3>1 DEF Cycle
    <3> QED
      BY <2>2, <3>2
  <2> QED
    BY <2>1, <2>2 DEF Writers, WriteState, WriteEvent, Age, Operator, vars
<1> QED
  BY <1>1, <1>2

-----------------------------------------------------------------------------
(* Notifications, when no cycle is cut short or overtaken *)

\* Only the awaited thread works, so nobody closes or notifies an alert between
\* its insert and its notification.
NoteInv ==
    /\ budget["crashes"] = 0
    /\ budget["timeouts"] = 0
    /\ Solo
    /\ NotifiedOnce
    /\ \A p \in Pairs : Notifying(p) => noted[p] = 0

LEMMA NoteInit == ASSUME MaxCrashes = 0, MaxTimeouts = 0 PROVE Init => NoteInv
BY DEF Init, NoteInv, Solo, At, Idle, NotifiedOnce, Notifying, Budgets

\* A step of a lone thread that neither inserts nor notifies.
LEMMA QuietStep ==
    ASSUME TypeOK, NoteInv, NEW t \in Threads,
           awaited = t \/ awaited = None,
           UNCHANGED noted,
           \A p \in Pairs : alert'[p].open => alert[p].open,
           cycle[t].pc = "notify" => ~ alert[Pair(t, cycle[t].dev)].open,
           cycle'[t].pc # "notify",
           \A u \in Threads : u # t => cycle'[u] = cycle[u]
    PROVE  NotifiedOnce' /\ \A p \in Pairs : Notifying(p)' => noted'[p] = 0
PROOF
<1>1. \A u \in Threads : u # t => cycle[u].pc = "idle"
  BY EngineAssumption DEF NoteInv, Solo, At
<1>2. \A p \in Pairs : ~ Notifying(p)'
  BY <1>1 DEF Notifying, At
<1>3. \A p \in Pairs : Notifying(p) => ~ alert[p].open
  BY <1>1 DEF Notifying, At
<1> QED
  BY <1>2, <1>3 DEF NoteInv, NotifiedOnce

LEMMA NoteNext ==
    ASSUME TypeOK, NoteInv, [Next]_vars
    PROVE  NoteInv'
PROOF
<1>1. /\ CycleOK /\ EnvOK /\ TablesOK /\ budget \in [Budgets -> Nat]
      /\ budget["crashes"] = 0 /\ budget["timeouts"] = 0
  BY TypeParts DEF NoteInv
<1>2. ~ Timeout /\ ~ Crash
  BY <1>1 DEF Timeout, Crash, Spend
<1>3. budget'["crashes"] = 0 /\ budget'["timeouts"] = 0
  <2>1. \A what \in Budgets : Spend(what) /\ what \notin {"crashes", "timeouts"} =>
          budget'["crashes"] = 0 /\ budget'["timeouts"] = 0
    BY <1>1 DEF Spend, Budgets
  <2>2. ASSUME NEW t \in Threads, StartCycle(t) \/ Step(t)
        PROVE  UNCHANGED budget \/ Spend("smtp")
    BY <2>2 DEF StartCycle, Step, LoadRules, BeginRule, NotHeld, Held, OpenAlert,
       OpenAlertRefused, Notify, NotifyRaises, NotifyRefused, BeginClose, BeginOrphans,
       CloseAlert, EndRule, EndCycle
  <2>3. ASSUME Writers \/ Operator \/ UNCHANGED vars \/ \E p \in Pairs : Age(p)
        PROVE  UNCHANGED budget \/ Spend("changes") \/ Spend("operator")
    BY <2>3 DEF Writers, WriteState, WriteEvent, Age, Operator, vars
  <2>4. UNCHANGED budget \/ Spend("smtp") \/ Spend("changes") \/ Spend("operator")
    BY <1>2, <2>2, <2>3 DEF Next
  <2> QED
    BY <1>1, <2>1, <2>4 DEF Budgets
<1>4. ASSUME NEW t \in Threads, StartCycle(t) \/ Step(t)
      PROVE  /\ Solo'
             /\ NotifiedOnce'
             /\ \A p \in Pairs : Notifying(p)' => noted'[p] = 0
  <2>1. cycle[t] \in Cycle /\ LocalsOK(cycle[t])
    BY <1>1, AtWork
  <2>2. /\ \A u \in Threads : u # t => cycle'[u] = cycle[u] /\ cycle[u].pc = "idle"
        /\ awaited = IF StartCycle(t) THEN None ELSE t
        /\ Solo'
    BY <1>4, AloneStep DEF NoteInv
  <2>3. ASSUME OpenAlert(t)
        PROVE  NotifiedOnce' /\ \A p \in Pairs : Notifying(p)' => noted'[p] = 0
    <3> DEFINE o == Pair(t, cycle[t].dev)
    <3>1. o \in Pairs /\ cycle[t].pc = "insert"
      BY <1>1, <2>3, AtWork DEF OpenAlert, At
    <3>2. /\ alert' = [alert EXCEPT ![o] = [id |-> alert[o].id + 1, open |-> TRUE]]
          /\ noted' = [noted EXCEPT ![o] = 0]
      BY <1>1, <2>3, <3>1 DEF OpenAlert, TablesOK
    <3>3. /\ cycle'[t].pc = "notify" /\ cycle'[t].rule = cycle[t].rule
          /\ cycle'[t].dev = cycle[t].dev
      BY <1>1, <2>1, <2>3 DEF OpenAlert, CycleOK, Cycle
    <3>4. \A p \in Pairs : ~ Notifying(p) /\ (Notifying(p)' <=> p = o)
      BY <2>2, <3>1, <3>3 DEF Notifying, At, Pair
    <3> HIDE DEF o
    <3>5. \A p \in Pairs : p # o => alert'[p] = alert[p] /\ noted'[p] = noted[p]
      BY <1>1, <3>2 DEF TablesOK
    <3>6. noted'[o] = 0
      BY <1>1, <3>1, <3>2 DEF TablesOK
    <3> QED
      BY <3>4, <3>5, <3>6 DEF NoteInv, NotifiedOnce
  <2>4. ASSUME Notify(t) \/ NotifyRaises(t)
        PROVE  NotifiedOnce' /\ \A p \in Pairs : Notifying(p)' => noted'[p] = 0
    <3> DEFINE o == Pair(t, cycle[t].dev)
    <3>1. o \in Pairs /\ cycle[t].pc = "notify"
          /\ noted' = [noted EXCEPT ![o] = @ + 1] /\ alert' = alert
      BY <1>1, <2>4, AtWork DEF Notify, NotifyRaises, NotificationRow, At
    <3>2. cycle'[t].pc # "notify"
      BY <1>1, <2>1, <2>4 DEF Notify, NotifyRaises, Leave, Idle, CycleOK, Cycle
    <3>3. \A p \in Pairs : ~ Notifying(p)' /\ (Notifying(p) <=> p = o)
      BY <2>2, <3>1, <3>2 DEF Notifying, At
    <3> HIDE DEF o
    <3>4. noted[o] = 0
      BY <3>1, <3>3 DEF NoteInv
    <3>5. noted'[o] = 1 /\ \A p \in Pairs : p # o => noted'[p] = noted[p]
      BY <1>1, <3>1, <3>4 DEF TablesOK
    <3> QED
      BY <3>1, <3>3, <3>5 DEF NoteInv, NotifiedOnce
  <2>5. ASSUME ~ OpenAlert(t), ~ Notify(t), ~ NotifyRaises(t)
        PROVE  NotifiedOnce' /\ \A p \in Pairs : Notifying(p)' => noted'[p] = 0
    <3>1. UNCHANGED noted
      BY <1>4, <2>5 DEF StartCycle, Step, LoadRules, BeginRule, NotHeld, Held,
         OpenAlertRefused, NotifyRefused, BeginClose, BeginOrphans, CloseAlert, EndRule,
         EndCycle, tables
    <3>2. \A p \in Pairs : alert'[p].open => alert[p].open
      <4>1. ASSUME NEW x \in cycle[t].closing, CloseAlert(t, x[1], x[2]), NEW p \in Pairs,
                   alert'[p].open
            PROVE  alert[p].open
        BY <1>1, <4>1 DEF CloseAlert, TablesOK
      <4> QED
        BY <1>4, <2>5, <4>1 DEF StartCycle, Step, LoadRules, BeginRule, NotHeld, Held,
           OpenAlertRefused, NotifyRefused, BeginClose, BeginOrphans, EndRule, EndCycle,
           tables
    <3>3. cycle[t].pc = "notify" => ~ alert[Pair(t, cycle[t].dev)].open
      BY <2>1, <1>4, <2>5 DEF StartCycle, Step, LoadRules, BeginRule, NotHeld, Held,
         OpenAlertRefused, NotifyRefused, BeginClose, BeginOrphans, CloseAlert, EndRule,
         EndCycle, At
    <3>4. cycle'[t].pc # "notify"
      <4>1. CASE StartCycle(t)
        BY <1>1, <4>1 DEF StartCycle, CycleOK, Idle
      <4>2. CASE Leave(t)
        BY <1>1, <4>2 DEF Leave, CycleOK, Idle
      <4>3. ASSUME LoadRules(t) \/ \E r \in Rules : BeginRule(t, r)
            PROVE  cycle'[t].pc # "notify"
        <5>1. CASE LoadRules(t)
          BY <1>1, <2>1, <5>1 DEF LoadRules, CycleOK, Cycle
        <5>2. ASSUME NEW r \in Rules, BeginRule(t, r) PROVE cycle'[t].pc # "notify"
          BY <1>1, <2>1, <5>2 DEF BeginRule, CycleOK, Cycle
        <5> QED
          BY <4>3, <5>1, <5>2
      <4>4. ASSUME NEW d \in Devices, NotHeld(t, d) \/ Held(t, d)
            PROVE  cycle'[t].pc # "notify"
        <5>1. CASE NotHeld(t, d)
          BY <1>1, <2>1, <5>1 DEF NotHeld, At, CycleOK, Cycle
        <5>2. CASE Held(t, d)
          BY <1>1, <2>1, <5>2 DEF Held, CycleOK, Cycle
        <5> QED
          BY <4>4, <5>1, <5>2
      <4>5. CASE BeginClose(t) \/ BeginOrphans(t) \/ EndRule(t)
        BY <1>1, <2>1, <4>5 DEF BeginClose, BeginOrphans, EndRule, CycleOK, Cycle
      <4>6. CASE \E x \in cycle[t].closing : CloseAlert(t, x[1], x[2])
        BY <1>1, <2>1, <4>6 DEF CloseAlert, CycleOK, Cycle
      <4> QED
        BY <1>4, <2>5, <4>1, <4>2, <4>3, <4>4, <4>5, <4>6 DEF Step, OpenAlertRefused,
           NotifyRefused, EndCycle
    <3> QED
      BY <2>2, <3>1, <3>2, <3>3, <3>4, QuietStep
  <2> QED
    BY <2>2, <2>3, <2>4, <2>5
<1>5. ASSUME Writers \/ Operator \/ UNCHANGED vars \/ \E p \in Pairs : Age(p)
      PROVE  /\ Solo'
             /\ NotifiedOnce'
             /\ \A p \in Pairs : Notifying(p)' => noted'[p] = 0
  <2>1. /\ UNCHANGED <<alert, noted, awaited>>
        /\ \A t \in Threads : \E ripe \in SUBSET cycle[t].ripe :
             cycle'[t] = [cycle[t] EXCEPT !.ripe = ripe]
    BY <1>5, AsideStep
  <2>2. \A t \in Threads : /\ cycle'[t].pc = cycle[t].pc
                           /\ cycle'[t].rule = cycle[t].rule
                           /\ cycle'[t].dev = cycle[t].dev
    <3>1. \A t \in Threads : cycle[t] \in Cycle
      BY <1>1, AtWork
    <3> QED
      BY <2>1, <3>1 DEF Cycle
  <2>3. \A p \in Pairs : Notifying(p)' <=> Notifying(p)
    BY <2>2 DEF Notifying, At, Pair
  <2> QED
    BY <2>1, <2>2, <2>3 DEF NoteInv, Solo, At, NotifiedOnce
<1> QED
  BY <1>2, <1>3, <1>4, <1>5 DEF Next, NoteInv

\* docs/spec/06-engine.md:29: unless the process dies or a cycle is abandoned at
\* its timeout, an alert is notified exactly once, whatever mails are refused
\* and whatever collectors and operators do meanwhile.
THEOREM AlertsNotifiedOnce ==
    ASSUME MaxCrashes = 0, MaxTimeouts = 0 PROVE Spec => []NotifiedOnce
PROOF
<1>1. NoteInv => NotifiedOnce
  BY DEF NoteInv
<1>2. TypeOK /\ NoteInv /\ [Next]_vars => NoteInv'
  BY NoteNext
<1> QED
  BY <1>1, <1>2, TypeCorrect, NoteInit, PTL DEF Spec

-----------------------------------------------------------------------------
(* Closing, when no cycle is overtaken *)

\* The cycle of t has yet to decide whether the pair's alert closes: its rule is
\* to come, or is being worked on and has not matched the device.
Ahead(t, p) ==
    /\ cycle[t].pc # "idle"
    /\ \/ cycle[t].pc = "flags"
       \/ p[1] \in cycle[t].queue
       \/ cycle[t].rule = p[1] /\ p[2] \notin cycle[t].matched

\* What the cycle has read so far leads it to close the alert: the event was too
\* young, the flags did not confirm the device, or the rule passed it over.
Missed(t, p) ==
    \/ p \notin cycle[t].ripe
    \/ /\ Dim[p[1]] = "source_status"
       /\ Is("source_status", p[2], "down")
       /\ p[2] \notin cycle[t].flagged
    \/ cycle[t].rule = p[1] /\ p[2] \notin cycle[t].todo

\* An alert a cycle will close, and one it has listed to close, was not due at
\* some moment; the cycle opens alerts only for devices it has matched.
ThreadInv(t) ==
    /\ \A p \in Pairs : Ahead(t, p) /\ Missed(t, p) /\ alert[p].open => p \in doubted
    /\ \A c \in cycle[t].closing :
         alert[c[1]].open /\ alert[c[1]].id = c[2] => c[1] \in doubted
    /\ cycle[t].dev # None => cycle[t].dev \in cycle[t].matched
    /\ cycle[t].rule \notin cycle[t].queue

\* An open alert that is not due now has been not due.
DoubtInv == \A p \in Pairs : alert[p].open /\ ~ Due(p) => p \in doubted

ResolvedInv ==
    /\ budget["timeouts"] = 0
    /\ Solo
    /\ DoubtInv
    /\ \A t \in Threads : ThreadInv(t)

\* The locals of a thread that is not at work promise nothing.
LEMMA IdleThread ==
    ASSUME CycleOK, NEW t \in Threads, cycle[t].pc = "idle"
    PROVE  ThreadInv(t)
PROOF
<1>1. cycle[t] \in Cycle /\ LocalsOK(cycle[t])
  BY AtWork
<1>2. cycle[t].closing = {} /\ cycle[t].dev = None /\ cycle[t].rule = None
  BY <1>1 DEF LocalsOK
<1>3. None \notin cycle[t].queue
  BY <1>1, EngineAssumption DEF Cycle
<1> QED
  BY <1>2, <1>3 DEF ThreadInv, Ahead

LEMMA IdleThreadNext ==
    ASSUME CycleOK', NEW t \in Threads, cycle'[t].pc = "idle"
    PROVE  ThreadInv(t)'
PROOF
<1>1. cycle'[t] \in Cycle /\ LocalsOK(cycle'[t])
  BY DEF CycleOK
<1>2. cycle'[t].closing = {} /\ cycle'[t].dev = None /\ cycle'[t].rule = None
  BY <1>1 DEF LocalsOK
<1>3. None \notin cycle'[t].queue
  BY <1>1, EngineAssumption DEF Cycle
<1> QED
  BY <1>2, <1>3 DEF ThreadInv, Ahead

\* An alert enters the doubted ones when it is not due, and leaves them only
\* with its id.
LEMMA Doubting ==
    ASSUME Doubts, NEW p \in Pairs, alert'[p].open,
           ~ Due(p)' \/ (p \in doubted /\ alert'[p].id = alert[p].id)
    PROVE  p \in doubted'
BY DEF Doubts

\* A pair the flags do not confirm, or whose value the rule does not select, is
\* not due.
LEMMA NotDue ==
    ASSUME NEW p \in Pairs,
           \/ p \notin dated
           \/ p[1] \notin ruleOn
           \/ ~ Matches(p[1], p[2], FlaggedDown)
    PROVE  ~ Due(p)
BY DEF Due

LEMMA ResolvedInit == ASSUME MaxTimeouts = 0 PROVE Init => ResolvedInv
PROOF
<1> SUFFICES ASSUME Init PROVE ResolvedInv
  OBVIOUS
<1>1. \A t \in Threads : cycle[t].pc = "idle"
  BY DEF Init, Idle
<1>2. CycleOK
  BY TypeInit, TypeParts
<1>3. budget["timeouts"] = 0 /\ DoubtInv
  BY DEF Init, Budgets, DoubtInv
<1> QED
  BY <1>1, <1>2, <1>3, IdleThread DEF ResolvedInv, Solo, At

\* A step that changes locals of the thread and no table but, perhaps, by
\* closing alerts: what the cycle has yet to decide and has missed, it had yet
\* to decide and had missed, or is not due now, or was not.
LEMMA Decided ==
    ASSUME TypeOK, Doubts, DoubtInv, NEW t \in Threads, ThreadInv(t),
           \A p \in Pairs : alert'[p].open => alert[p].open /\ alert'[p].id = alert[p].id,
           \A p \in Pairs : Ahead(t, p)' /\ Missed(t, p)' =>
                              ~ Due(p)' \/ ~ Due(p) \/ (Ahead(t, p) /\ Missed(t, p)),
           \A c \in cycle'[t].closing :
             \/ c \in cycle[t].closing
             \/ c[1] \in Pairs /\ (~ Due(c[1])' \/ (Ahead(t, c[1]) /\ Missed(t, c[1]))),
           cycle'[t].dev # None => cycle'[t].dev \in cycle'[t].matched,
           cycle'[t].rule \notin cycle'[t].queue
    PROVE  ThreadInv(t)'
PROOF
<1>1. ASSUME NEW p \in Pairs, Ahead(t, p)', Missed(t, p)', alert'[p].open
      PROVE  p \in doubted'
  BY <1>1, Doubting DEF ThreadInv, DoubtInv
<1>2. ASSUME NEW c \in cycle'[t].closing, alert'[c[1]].open, alert'[c[1]].id = c[2]
      PROVE  c[1] \in doubted'
  <2>1. c[1] \in Pairs
    <3>1. cycle[t] \in Cycle
      BY TypeParts, AtWork
    <3> QED
      BY <3>1 DEF Cycle
  <2> QED
    BY <1>2, <2>1, Doubting DEF ThreadInv
<1> QED
  BY <1>1, <1>2 DEF ThreadInv

\* What is due depends on nothing a cycle writes.
LEMMA SameDue == ASSUME UNCHANGED env PROVE \A p \in Pairs : Due(p)' <=> Due(p)
BY DEF env, Due, Matches, FlaggedDown, DeviceDown, Is

LEMMA DecidedStep ==
    ASSUME TypeOK, Doubts, DoubtInv, NEW t \in Threads, ThreadInv(t), StartCycle(t) \/ Step(t)
    PROVE  ThreadInv(t)'
PROOF
<1>1. CycleOK /\ EnvOK /\ TablesOK /\ cycle[t] \in Cycle /\ LocalsOK(cycle[t])
  BY TypeParts, AtWork
<1>2. CycleOK'
  BY StepCycleOK
<1>3. UNCHANGED env
  BY DEF StartCycle, Step, LoadRules, BeginRule, NotHeld, Held, OpenAlert,
     OpenAlertRefused, Notify, NotifyRaises, NotifyRefused, BeginClose, BeginOrphans,
     CloseAlert, EndRule, EndCycle, NotificationRow
<1>4. \A p \in Pairs : Due(p)' <=> Due(p)
  BY <1>3, SameDue
<1>5. /\ cycle[t].rule \in Rules \cup {None} /\ cycle[t].queue \subseteq Rules
      /\ None \notin cycle[t].queue /\ ruleOn \subseteq Rules /\ None \notin ruleOn
      /\ None \notin Devices \cup Rules
  BY <1>1, EngineAssumption DEF Cycle, EnvOK
<1>6. \A p \in Pairs : p[1] \in Rules /\ p[2] \in Devices /\ p = <<p[1], p[2]>>
  BY DEF Pairs
\* What the cycle reads of the state, before and after the step.
<1> DEFINE Unflagged(p) == /\ Dim[p[1]] = "source_status"
                           /\ Is("source_status", p[2], "down")
<1>7. \A p \in Pairs : Unflagged(p)' <=> Unflagged(p)
  BY <1>3 DEF env, Is
<1>8. ASSUME StartCycle(t) PROVE ThreadInv(t)'
  <2>1. cycle'[t] = [Idle EXCEPT !.pc = "flags", !.flagged = FlaggedDown, !.ripe = dated]
    BY <1>1, <1>8 DEF StartCycle, CycleOK
  <2>2. /\ cycle'[t].flagged = FlaggedDown /\ cycle'[t].ripe = dated
        /\ cycle'[t].rule = None /\ cycle'[t].closing = {} /\ cycle'[t].dev = None
        /\ cycle'[t].queue = {}
    BY <2>1 DEF Idle
  <2>3. ASSUME NEW p \in Pairs, Missed(t, p)' PROVE ~ Due(p)
    <3>1. \/ p \notin dated
          \/ Unflagged(p) /\ p[2] \notin FlaggedDown
      BY <1>5, <1>6, <1>7, <2>2, <2>3 DEF Missed
    <3> QED
      BY <3>1, NotDue DEF Matches
  <2>4. UNCHANGED alert
    BY <1>8 DEF StartCycle, tables
  <2> QED
    BY <1>4, <2>2, <2>3, <2>4, Decided
<1>9. ASSUME LoadRules(t) PROVE ThreadInv(t)'
  <2>1. /\ cycle'[t].flagged = cycle[t].flagged /\ cycle'[t].ripe = cycle[t].ripe
        /\ cycle'[t].rule = cycle[t].rule /\ cycle'[t].closing = cycle[t].closing
        /\ cycle'[t].dev = cycle[t].dev /\ cycle'[t].todo = cycle[t].todo
        /\ cycle'[t].queue = ruleOn /\ cycle[t].pc = "flags"
    BY <1>1, <1>9 DEF LoadRules, At, CycleOK, Cycle
  <2>2. cycle[t].rule = None /\ cycle[t].dev = None
    BY <1>1, <2>1 DEF LocalsOK
  <2>3. \A p \in Pairs : Ahead(t, p) /\ (Missed(t, p)' <=> Missed(t, p))
    BY <1>7, <2>1 DEF Ahead, Missed
  <2>4. UNCHANGED alert
    BY <1>9 DEF LoadRules, tables
  <2> QED
    BY <1>5, <2>1, <2>2, <2>3, <2>4, Decided
<1>10. ASSUME NEW r \in Rules, BeginRule(t, r) PROVE ThreadInv(t)'
  <2>1. /\ cycle'[t].flagged = cycle[t].flagged /\ cycle'[t].ripe = cycle[t].ripe
        /\ cycle'[t].rule = r /\ cycle'[t].closing = cycle[t].closing
        /\ cycle'[t].dev = cycle[t].dev /\ cycle'[t].pc = "devices"
        /\ cycle'[t].todo = {d \in Devices : Matches(r, d, cycle[t].flagged)}
        /\ cycle'[t].queue = cycle[t].queue \ {r} /\ r \in cycle[t].queue
        /\ cycle[t].pc = "rules"
    BY <1>1, <1>10 DEF BeginRule, At, CycleOK, Cycle
  <2>2. cycle[t].dev = None
    BY <1>1, <2>1 DEF LocalsOK
  <2>3. ASSUME NEW p \in Pairs, Ahead(t, p)', Missed(t, p)'
        PROVE  ~ Due(p)' \/ (Ahead(t, p) /\ Missed(t, p))
    <3>1. Ahead(t, p)
      BY <2>1, <2>3 DEF Ahead
    <3>2. CASE p \notin cycle[t].ripe \/ (Unflagged(p) /\ p[2] \notin cycle[t].flagged)
      BY <3>1, <3>2 DEF Missed
    <3>3. CASE p[1] = r /\ ~ Matches(r, p[2], cycle[t].flagged)
      <4>1. CASE ~ Matches(r, p[2], FlaggedDown)
        BY <1>4, <3>3, <4>1, NotDue
      <4>2. CASE Matches(r, p[2], FlaggedDown)
        <5>1. Unflagged(p) /\ p[2] \notin cycle[t].flagged
          BY <3>3, <4>2 DEF Matches
        <5> QED
          BY <3>2, <5>1
      <4> QED
        BY <4>1, <4>2
    <3> QED
      BY <1>6, <1>7, <2>1, <2>3, <3>2, <3>3 DEF Missed
  <2>4. UNCHANGED alert
    BY <1>10 DEF BeginRule, tables
  <2> QED
    BY <2>1, <2>2, <2>3, <2>4, Decided
<1>11. ASSUME NEW d \in Devices, NotHeld(t, d) PROVE ThreadInv(t)'
  <2>1. /\ cycle'[t] = [cycle[t] EXCEPT !.todo = cycle[t].todo \ {d}]
        /\ cycle[t].pc = "devices" /\ <<cycle[t].rule, d>> \notin cycle[t].ripe
    BY <1>1, <1>11 DEF NotHeld, HeldSince, Pair, At, CycleOK
  <2>2. /\ cycle'[t].flagged = cycle[t].flagged /\ cycle'[t].ripe = cycle[t].ripe
        /\ cycle'[t].rule = cycle[t].rule /\ cycle'[t].closing = cycle[t].closing
        /\ cycle'[t].dev = cycle[t].dev /\ cycle'[t].matched = cycle[t].matched
        /\ cycle'[t].queue = cycle[t].queue /\ cycle'[t].pc = cycle[t].pc
        /\ cycle'[t].todo = cycle[t].todo \ {d}
    BY <1>1, <2>1 DEF Cycle
  <2>3. \A p \in Pairs : (Ahead(t, p)' <=> Ahead(t, p)) /\ (Missed(t, p)' => Missed(t, p))
    BY <1>6, <1>7, <2>1, <2>2 DEF Ahead, Missed
  <2>4. UNCHANGED alert
    BY <1>11 DEF NotHeld, tables
  <2> QED
    BY <2>2, <2>3, <2>4, Decided DEF ThreadInv
<1>12. ASSUME NEW d \in Devices, Held(t, d) PROVE ThreadInv(t)'
  <2>1. /\ cycle'[t].flagged = cycle[t].flagged /\ cycle'[t].ripe = cycle[t].ripe
        /\ cycle'[t].rule = cycle[t].rule /\ cycle'[t].closing = cycle[t].closing
        /\ cycle'[t].dev \in {None, d} /\ cycle'[t].matched = cycle[t].matched \cup {d}
        /\ cycle'[t].queue = cycle[t].queue /\ cycle'[t].pc \in {"devices", "insert"}
        /\ cycle'[t].todo = cycle[t].todo \ {d} /\ cycle[t].pc = "devices"
    BY <1>1, <1>12 DEF Held, At, CycleOK, Cycle
  <2>2. \A p \in Pairs : Ahead(t, p)' => Ahead(t, p) /\ (Missed(t, p)' => Missed(t, p))
    BY <1>5, <1>6, <1>7, <2>1 DEF Ahead, Missed, ThreadInv
  <2>3. UNCHANGED alert
    BY <1>12 DEF Held, tables
  <2> QED
    BY <2>1, <2>2, <2>3, Decided DEF ThreadInv
<1>13. ASSUME OpenAlert(t) PROVE ThreadInv(t)'
  <2> DEFINE o == Pair(t, cycle[t].dev)
  <2>1. /\ o \in Pairs /\ o = <<cycle[t].rule, cycle[t].dev>>
        /\ cycle[t].pc = "insert" /\ cycle[t].closing = {} /\ cycle[t].dev # None
        /\ cycle'[t] = [cycle[t] EXCEPT !.pc = "notify"]
        /\ \A p \in Pairs : p # o => alert'[p] = alert[p]
    BY <1>1, <1>5, <1>13, AtWork DEF OpenAlert, At, Pair, CycleOK, LocalsOK, TablesOK
  <2>2. /\ cycle'[t].flagged = cycle[t].flagged /\ cycle'[t].ripe = cycle[t].ripe
        /\ cycle'[t].rule = cycle[t].rule /\ cycle'[t].closing = {}
        /\ cycle'[t].dev = cycle[t].dev /\ cycle'[t].matched = cycle[t].matched
        /\ cycle'[t].queue = cycle[t].queue /\ cycle'[t].pc = "notify"
        /\ cycle'[t].todo = cycle[t].todo
    BY <1>1, <2>1 DEF Cycle
  <2>3. \A p \in Pairs : p = <<cycle[t].rule, cycle[t].dev>> => ~ Ahead(t, p)'
    BY <2>1, <2>2 DEF Ahead, ThreadInv
  <2>4. \A p \in Pairs : (Ahead(t, p)' <=> Ahead(t, p)) /\ (Missed(t, p)' <=> Missed(t, p))
    BY <1>7, <2>1, <2>2 DEF Ahead, Missed
  <2> HIDE DEF o
  <2>5. ASSUME NEW p \in Pairs, Ahead(t, p)', Missed(t, p)', alert'[p].open
        PROVE  p \in doubted'
    BY <2>1, <2>3, <2>4, <2>5, Doubting DEF ThreadInv
  <2> QED
    BY <2>2, <2>5 DEF ThreadInv
<1>14. ASSUME Notify(t) PROVE ThreadInv(t)'
  <2>1. /\ cycle'[t].flagged = cycle[t].flagged /\ cycle'[t].ripe = cycle[t].ripe
        /\ cycle'[t].rule = cycle[t].rule /\ cycle'[t].closing = cycle[t].closing
        /\ cycle'[t].dev = None /\ cycle'[t].matched = cycle[t].matched
        /\ cycle'[t].queue = cycle[t].queue /\ cycle'[t].pc = "devices"
        /\ cycle'[t].todo = cycle[t].todo /\ cycle[t].pc = "notify"
    BY <1>1, <1>14 DEF Notify, NotificationRow, At, CycleOK, Cycle
  <2>2. \A p \in Pairs : (Ahead(t, p)' <=> Ahead(t, p)) /\ (Missed(t, p)' <=> Missed(t, p))
    BY <1>7, <2>1 DEF Ahead, Missed
  <2>3. UNCHANGED alert
    BY <1>14 DEF Notify
  <2> QED
    BY <2>1, <2>2, <2>3, Decided DEF ThreadInv
<1>15. ASSUME BeginClose(t) PROVE ThreadInv(t)'
  <2>1. /\ cycle'[t].flagged = cycle[t].flagged /\ cycle'[t].ripe = cycle[t].ripe
        /\ cycle'[t].rule = cycle[t].rule /\ cycle'[t].matched = cycle[t].matched
        /\ cycle'[t].dev = cycle[t].dev /\ cycle'[t].queue = cycle[t].queue
        /\ cycle'[t].pc = "close" /\ cycle'[t].todo = cycle[t].todo
        /\ cycle[t].todo = {} /\ cycle[t].pc = "devices"
        /\ cycle'[t].closing = {<<p, alert[p].id>> :
             p \in {q \in Pairs : /\ q[1] = cycle[t].rule
                                  /\ q[2] \notin cycle[t].matched
                                  /\ alert[q].open}}
    BY <1>1, <1>15 DEF BeginClose, At, CycleOK, Cycle
  <2>2. \A p \in Pairs : (Ahead(t, p)' <=> Ahead(t, p)) /\ (Missed(t, p)' <=> Missed(t, p))
    BY <1>7, <2>1 DEF Ahead, Missed
  <2>3. \A c \in cycle'[t].closing : c[1] \in Pairs /\ Ahead(t, c[1]) /\ Missed(t, c[1])
    BY <2>1 DEF Ahead, Missed
  <2>4. UNCHANGED alert
    BY <1>15 DEF BeginClose, tables
  <2> QED
    BY <2>1, <2>2, <2>3, <2>4, Decided DEF ThreadInv
<1>16. ASSUME BeginOrphans(t) PROVE ThreadInv(t)'
  <2>1. /\ cycle'[t].flagged = cycle[t].flagged /\ cycle'[t].ripe = cycle[t].ripe
        /\ cycle'[t].rule = cycle[t].rule /\ cycle'[t].matched = cycle[t].matched
        /\ cycle'[t].dev = cycle[t].dev /\ cycle'[t].queue = cycle[t].queue
        /\ cycle'[t].pc = "orphans" /\ cycle'[t].todo = cycle[t].todo
        /\ cycle[t].pc = "rules"
        /\ cycle'[t].closing = {<<p, alert[p].id>> :
             p \in {q \in Pairs : q[1] \notin ruleOn /\ alert[q].open}}
    BY <1>1, <1>16 DEF BeginOrphans, At, CycleOK, Cycle
  <2>2. \A p \in Pairs : (Ahead(t, p)' <=> Ahead(t, p)) /\ (Missed(t, p)' <=> Missed(t, p))
    BY <1>7, <2>1 DEF Ahead, Missed
  <2>3. \A c \in cycle'[t].closing : c[1] \in Pairs /\ c[1][1] \notin ruleOn
    BY <2>1
  <2>4. \A c \in cycle'[t].closing : c[1] \in Pairs /\ ~ Due(c[1])'
    BY <1>4, <2>3, NotDue
  <2>5. UNCHANGED alert
    BY <1>16 DEF BeginOrphans, tables
  <2> QED
    BY <2>1, <2>2, <2>4, <2>5, Decided DEF ThreadInv
<1>17. ASSUME NEW x \in cycle[t].closing, CloseAlert(t, x[1], x[2]) PROVE ThreadInv(t)'
  <2>1. /\ cycle'[t].flagged = cycle[t].flagged /\ cycle'[t].ripe = cycle[t].ripe
        /\ cycle'[t].rule = cycle[t].rule /\ cycle'[t].matched = cycle[t].matched
        /\ cycle'[t].dev = cycle[t].dev /\ cycle'[t].queue = cycle[t].queue
        /\ cycle'[t].pc = cycle[t].pc /\ cycle'[t].todo = cycle[t].todo
        /\ cycle'[t].closing \subseteq cycle[t].closing
    BY <1>1, <1>17 DEF CloseAlert, CycleOK, Cycle
  <2>2. \A p \in Pairs : (Ahead(t, p)' <=> Ahead(t, p)) /\ (Missed(t, p)' <=> Missed(t, p))
    BY <1>7, <2>1 DEF Ahead, Missed
  <2>3. \A p \in Pairs : alert'[p].open => alert[p].open /\ alert'[p].id = alert[p].id
    BY <1>1, <1>17 DEF CloseAlert, TablesOK
  <2> QED
    BY <2>1, <2>2, <2>3, Decided DEF ThreadInv
<1>18. ASSUME EndRule(t) PROVE ThreadInv(t)'
  <2>1. /\ cycle'[t].flagged = cycle[t].flagged /\ cycle'[t].ripe = cycle[t].ripe
        /\ cycle'[t].rule = None /\ cycle'[t].dev = cycle[t].dev
        /\ cycle'[t].queue = cycle[t].queue /\ cycle'[t].pc = "rules"
        /\ cycle'[t].closing = cycle[t].closing /\ cycle[t].pc = "close"
    BY <1>1, <1>18 DEF EndRule, At, CycleOK, Cycle
  <2>2. cycle[t].dev = None
    BY <1>1, <2>1 DEF LocalsOK
  <2>3. \A p \in Pairs : p[1] # None
    BY <1>6, EngineAssumption
  <2>4. \A p \in Pairs : Ahead(t, p)' => Ahead(t, p) /\ (Missed(t, p)' => Missed(t, p))
    BY <1>7, <2>1, <2>3 DEF Ahead, Missed
  <2>5. UNCHANGED alert
    BY <1>18 DEF EndRule, tables
  <2> QED
    BY <1>5, <2>1, <2>2, <2>4, <2>5, Decided
<1>19. ASSUME OpenAlertRefused(t) \/ NotifyRaises(t) \/ NotifyRefused(t) \/ EndCycle(t)
       PROVE  ThreadInv(t)'
  <2>1. cycle'[t].pc = "idle"
    BY <1>1, <1>19 DEF OpenAlertRefused, NotifyRaises, NotifyRefused, EndCycle, Leave, Idle,
       CycleOK
  <2> QED
    BY <1>2, <2>1, IdleThreadNext
<1> QED
  BY <1>8, <1>9, <1>10, <1>11, <1>12, <1>13, <1>14, <1>15, <1>16, <1>17, <1>18, <1>19 DEF Step

\* A status that turns to down under a rule's condition either was not what the
\* condition asks, or comes with its event.
DownIsNews ==
    \A r \in Rules, d \in Devices :
        Dim[r] = "source_status" /\ {"up", "down"} \subseteq Cond[r] =>
          <<"source_status", d>> \in Batched

\* Meanwhile values, events and registry change: an event that makes a pair less
\* ripe makes its alert not due, and a status that turns to down is no due match
\* before the turn or after it.
LEMMA DecidedAside ==
    ASSUME DownIsNews, TypeOK, Doubts, DoubtInv, NEW t \in Threads, ThreadInv(t),
           Writers \/ Operator \/ \E p \in Pairs : Age(p)
    PROVE  ThreadInv(t)'
PROOF
<1>1. cycle[t] \in Cycle /\ EnvOK
  BY TypeParts, AtWork
<1>2. /\ UNCHANGED alert
      /\ \E ripe \in SUBSET cycle[t].ripe : cycle'[t] = [cycle[t] EXCEPT !.ripe = ripe]
  BY AsideStep
<1>3. /\ cycle'[t].flagged = cycle[t].flagged /\ cycle'[t].rule = cycle[t].rule
      /\ cycle'[t].closing = cycle[t].closing /\ cycle'[t].dev = cycle[t].dev
      /\ cycle'[t].matched = cycle[t].matched /\ cycle'[t].queue = cycle[t].queue
      /\ cycle'[t].pc = cycle[t].pc /\ cycle'[t].todo = cycle[t].todo
  BY <1>1, <1>2 DEF Cycle
<1>4. \A p \in Pairs : Ahead(t, p)' <=> Ahead(t, p)
  BY <1>3 DEF Ahead
<1>5. ASSUME NEW p \in Pairs, p \in cycle[t].ripe, p \notin cycle'[t].ripe
      PROVE  ~ Due(p)'
  <2>1. PICK dim \in Dims, d \in Devices : Dates(dim, d)
    <3>1. cycle' # cycle
      BY <1>5
    <3> QED
      BY <3>1 DEF Writers, WriteState, WriteEvent, Operator, Age
  <2>2. cycle'[t].ripe = cycle[t].ripe \ PairsOf(dim, d) /\ dated' = dated \ PairsOf(dim, d)
    BY <1>1, <2>1 DEF Dates, Cycle
  <2>3. p \notin dated'
    BY <1>5, <2>2
  <2> QED
    BY <2>3 DEF Due
<1>6. ASSUME NEW p \in Pairs, Dim[p[1]] = "source_status",
             Is("source_status", p[2], "down")', ~ Is("source_status", p[2], "down")
      PROVE  ~ Due(p)' \/ ~ Due(p)
  <2>1. value' # value
    BY <1>6 DEF Is
  <2>2. PICK dim \in Dims, d \in Devices, v \in Values : WriteState(dim, d, v)
    BY <2>1 DEF Writers, WriteEvent, Operator, Age
  <2>3. dim = "source_status" /\ d = p[2]
    <3>1. value' = [value EXCEPT ![<<dim, d>>] = v]
      BY <2>2 DEF WriteState
    <3>2. <<"source_status", p[2]>> \in Keys /\ <<dim, d>> \in Keys
      BY <2>2 DEF Keys, Dims, Pairs
    <3>3. <<"source_status", p[2]>> = <<dim, d>>
      BY <1>1, <1>6, <3>1, <3>2 DEF EnvOK, Is
    <3> QED
      BY <3>3
  <2>4. CASE <<dim, d>> \in Batched
    <3>1. dated' = dated \ PairsOf(dim, d)
      BY <2>2, <2>4 DEF WriteState, Dates
    <3>2. p \in PairsOf(dim, d)
      BY <1>6, <2>3 DEF PairsOf
    <3>3. p \notin dated'
      BY <3>1, <3>2
    <3> QED
      BY <3>3 DEF Due
  <2>5. CASE <<dim, d>> \notin Batched
    <3>1. p[1] \in Rules /\ p[2] \in Devices /\ Cond[p[1]] \subseteq {"up", "down"}
      BY EngineAssumption DEF Pairs
    <3>2. ~ ({"up", "down"} \subseteq Cond[p[1]])
      BY <1>6, <2>3, <2>5, <3>1 DEF DownIsNews
    <3>3. CASE "down" \notin Cond[p[1]]
      BY <1>6, <3>3 DEF Due, Matches, Is
    <3>4. CASE "up" \notin Cond[p[1]]
      <4>1. value[<<"source_status", p[2]>>] \notin Cond[p[1]]
        BY <1>6, <3>1, <3>4 DEF Is
      <4> QED
        BY <1>6, <4>1 DEF Due, Matches
    <3> QED
      BY <3>2, <3>3, <3>4
  <2> QED
    BY <2>4, <2>5
<1>7. ASSUME NEW p \in Pairs, Missed(t, p)'
      PROVE  ~ Due(p)' \/ ~ Due(p) \/ Missed(t, p)
  BY <1>3, <1>5, <1>6, <1>7 DEF Missed
<1> QED
  BY <1>2, <1>3, <1>4, <1>7, Decided DEF ThreadInv

LEMMA ResolvedNext ==
    ASSUME DownIsNews, TypeOK, ResolvedInv, [Next]_vars
    PROVE  ResolvedInv'
PROOF
<1>1. CycleOK /\ budget \in [Budgets -> Nat] /\ budget["timeouts"] = 0
  BY TypeParts DEF ResolvedInv
<1>2. CycleOK'
  BY TypeNext, TypeParts DEF TypeOK, CycleOK
<1>3. ~ Timeout
  BY <1>1 DEF Timeout, Spend
<1>4. budget'["timeouts"] = 0
  <2>1. \A what \in Budgets : Spend(what) /\ what # "timeouts" => budget'["timeouts"] = 0
    BY <1>1 DEF Spend, Budgets
  <2>2. ASSUME NEW t \in Threads, StartCycle(t) \/ Step(t)
        PROVE  UNCHANGED budget \/ Spend("smtp")
    BY <2>2 DEF StartCycle, Step, LoadRules, BeginRule, NotHeld, Held, OpenAlert,
       OpenAlertRefused, Notify, NotifyRaises, NotifyRefused, BeginClose, BeginOrphans,
       CloseAlert, EndRule, EndCycle
  <2>3. ASSUME Crash \/ Writers \/ Operator \/ UNCHANGED vars \/ \E p \in Pairs : Age(p)
        PROVE  UNCHANGED budget \/ Spend("changes") \/ Spend("operator") \/ Spend("crashes")
    BY <2>3 DEF Crash, Writers, WriteState, WriteEvent, Age, Operator, vars
  <2>4. \/ UNCHANGED budget \/ Spend("smtp") \/ Spend("changes") \/ Spend("operator")
        \/ Spend("crashes")
    BY <1>3, <2>2, <2>3 DEF Next
  <2> QED
    BY <1>1, <2>1, <2>4 DEF Budgets
<1>5. ASSUME NEW t \in Threads, StartCycle(t) \/ Step(t), Doubts
      PROVE  Solo' /\ \A u \in Threads : ThreadInv(u)'
  <2>1. /\ \A u \in Threads : u # t => cycle'[u] = cycle[u] /\ cycle[u].pc = "idle"
        /\ Solo'
    BY <1>5, AloneStep DEF ResolvedInv
  <2>2. ThreadInv(t)'
    BY <1>5, DecidedStep DEF ResolvedInv
  <2>3. ASSUME NEW u \in Threads, u # t PROVE ThreadInv(u)'
    BY <1>2, <2>1, <2>3, IdleThreadNext
  <2> QED
    BY <2>1, <2>2, <2>3
<1>6. ASSUME Writers \/ Operator \/ \E p \in Pairs : Age(p), Doubts
      PROVE  Solo' /\ \A u \in Threads : ThreadInv(u)'
  <2>1. /\ UNCHANGED awaited
        /\ \A t \in Threads : \E ripe \in SUBSET cycle[t].ripe :
             cycle'[t] = [cycle[t] EXCEPT !.ripe = ripe]
    BY <1>6, AsideStep
  <2>2. \A t \in Threads : cycle[t] \in Cycle
    BY <1>1, AtWork
  <2>3. Solo'
    BY <2>1, <2>2 DEF ResolvedInv, Solo, At, Cycle
  <2> QED
    BY <1>6, <2>3, DecidedAside DEF ResolvedInv
<1>7. ASSUME Crash PROVE Solo' /\ \A u \in Threads : ThreadInv(u)'
  <2>1. \A t \in Threads : cycle'[t].pc = "idle"
    BY <1>7 DEF Crash, Idle
  <2> QED
    BY <1>2, <2>1, IdleThreadNext DEF Solo, At
<1>8. ASSUME UNCHANGED vars PROVE Solo' /\ \A u \in Threads : ThreadInv(u)'
  BY <1>8 DEF vars, ResolvedInv, Solo, At, ThreadInv, Ahead, Missed, Is
<1>9. DoubtInv'
  <2>1. CASE Doubts
    BY <2>1 DEF Doubts, DoubtInv
  <2>2. CASE UNCHANGED vars
    <3>1. UNCHANGED env /\ alert' = alert /\ doubted' = doubted
      BY <2>2 DEF vars, env
    <3> QED
      BY <3>1, SameDue DEF ResolvedInv, DoubtInv
  <2> QED
    BY <2>1, <2>2 DEF Next
<1> QED
  BY <1>3, <1>4, <1>5, <1>6, <1>7, <1>8, <1>9 DEF Next, ResolvedInv

\* The statements that write the two tables.
LEMMA TableMoves ==
    ASSUME [Next]_vars
    PROVE  \/ UNCHANGED <<alert, noted>>
           \/ \E t \in Threads : OpenAlert(t)
           \/ \E t \in Threads : NotificationRow(t) /\ UNCHANGED alert
           \/ \E t \in Threads : \E x \in cycle[t].closing : CloseAlert(t, x[1], x[2])
PROOF
<1>1. ASSUME NEW t \in Threads, StartCycle(t) \/ Step(t), ~ OpenAlert(t)
      PROVE  \/ UNCHANGED <<alert, noted>>
             \/ NotificationRow(t) /\ UNCHANGED alert
             \/ \E x \in cycle[t].closing : CloseAlert(t, x[1], x[2])
  BY <1>1 DEF StartCycle, Step, LoadRules, BeginRule, NotHeld, Held, OpenAlertRefused,
     Notify, NotifyRaises, NotifyRefused, BeginClose, BeginOrphans, EndRule, EndCycle,
     tables
<1>2. ASSUME \/ Timeout \/ Crash \/ Writers \/ Operator \/ UNCHANGED vars
             \/ \E p \in Pairs : Age(p)
      PROVE  UNCHANGED <<alert, noted>>
  BY <1>2 DEF Timeout, Crash, Writers, WriteState, WriteEvent, Age, Operator, vars, tables
<1> QED
  BY <1>1, <1>2 DEF Next

\* docs/spec/06-engine.md:25-26: unless a cycle is abandoned at its timeout and
\* overtaken, a cycle closes an alert only when, at some moment since it opened,
\* the device did not match or the rule was off, whatever mails are refused,
\* whoever changes the state, the rules and the registry between its queries, and
\* wherever the process dies.
THEOREM ClosedOnlyWhenResolved ==
    ASSUME DownIsNews, MaxTimeouts = 0 PROVE Spec => ClosesOnlyResolved
PROOF
<1> DEFINE Closes == \A p \in Pairs : alert[p].open /\ ~ alert'[p].open => p \in doubted
<1>1. ASSUME TypeOK, ResolvedInv, [Next]_vars PROVE Closes
  <2>1. CycleOK /\ TablesOK
    BY <1>1, TypeParts
  <2>2. ASSUME NEW t \in Threads, NEW x \in cycle[t].closing, CloseAlert(t, x[1], x[2]),
               NEW p \in Pairs, alert[p].open, ~ alert'[p].open
        PROVE  p \in doubted
    <3>1. p = x[1] /\ alert[p].id = x[2]
      BY <2>1, <2>2 DEF CloseAlert, TablesOK
    <3> QED
      BY <1>1, <2>2, <3>1 DEF ResolvedInv, ThreadInv
  <2>3. ASSUME NEW t \in Threads, OpenAlert(t), NEW p \in Pairs, alert[p].open
        PROVE  alert'[p].open
    BY <2>1, <2>3, AtWork DEF OpenAlert, At, TablesOK
  <2> QED
    BY <1>1, <2>2, <2>3, TableMoves
<1>2. TypeOK /\ ResolvedInv /\ [Next]_vars => Closes
  BY <1>1
<1>3. TypeOK /\ ResolvedInv /\ [Next]_vars => ResolvedInv'
  BY ResolvedNext
<1> QED
  BY <1>2, <1>3, TypeCorrect, ResolvedInit, PTL DEF Spec, ClosesOnlyResolved

-----------------------------------------------------------------------------
(* The abstract specification, when no cycle is cut short or overtaken *)

\* The statement that closes an alert closes one that was told of, for nobody
\* is about to notify, and whose reason has been gone.
LEMMA CloseIsBooked ==
    ASSUME TypeOK, NoteInv, ResolvedInv,
           NEW t \in Threads, NEW x \in cycle[t].closing, CloseAlert(t, x[1], x[2])
    PROVE  (\E p \in Pairs : Book!Close(p)) \/ UNCHANGED <<alert, noted>>
PROOF
<1>1. CycleOK /\ TablesOK /\ cycle[t] \in Cycle
  BY TypeParts, AtWork
<1>2. PICK p \in Pairs, id \in Nat : x = <<p, id>>
  BY <1>1 DEF Cycle
<1>3. /\ cycle[t].pc \in {"close", "orphans"}
      /\ alert' = [alert EXCEPT ![p].open = @ /\ alert[p].id # id]
      /\ UNCHANGED noted
  BY <1>2 DEF CloseAlert
<1>4. CASE alert[p].open /\ alert[p].id = id
  <2>1. p \in doubted
    BY <1>2, <1>4 DEF ResolvedInv, ThreadInv
  <2>2. ~ Notifying(p)
    BY <1>3, EngineAssumption DEF NoteInv, Solo, Notifying, At
  <2>3. noted[p] = 1
    BY <1>4, <2>2 DEF NoteInv, NotifiedOnce
  <2>4. alert' = [alert EXCEPT ![p].open = FALSE]
    BY <1>1, <1>3, <1>4 DEF TablesOK
  <2> QED
    BY <1>3, <1>4, <2>1, <2>3, <2>4 DEF Book!Close
<1>5. CASE ~ (alert[p].open /\ alert[p].id = id)
  <2>1. (alert[p].open /\ alert[p].id # id) = alert[p].open
    BY <1>1, <1>5 DEF TablesOK
  <2>2. alert' = alert
    BY <1>1, <1>3, <2>1 DEF TablesOK
  <2> QED
    BY <1>3, <2>2
<1> QED
  BY <1>4, <1>5

\* The insert, the notification and the two updates of a cycle are the moves of
\* the book; all else leaves the tables alone.
LEMMA TablesKeepBook ==
    ASSUME TypeOK, NoteInv, ResolvedInv, [Next]_vars
    PROVE  \/ \E p \in Pairs : Book!Open(p) \/ Book!Tell(p) \/ Book!Close(p)
           \/ UNCHANGED <<alert, noted>>
PROOF
<1>1. CycleOK /\ TablesOK
  BY TypeParts
<1>2. ASSUME NEW t \in Threads, OpenAlert(t) PROVE \E p \in Pairs : Book!Open(p)
  BY <1>1, <1>2, AtWork DEF OpenAlert, At, Book!Open
<1>3. ASSUME NEW t \in Threads, NotificationRow(t), UNCHANGED alert
      PROVE  \E p \in Pairs : Book!Tell(p)
  <2> DEFINE p == Pair(t, cycle[t].dev)
  <2>1. p \in Pairs /\ cycle[t].pc = "notify"
    BY <1>1, <1>3, AtWork DEF NotificationRow, At
  <2>2. noted[p] = 0
    BY <2>1 DEF NoteInv, Notifying, At
  <2>3. noted' = [noted EXCEPT ![p] = 1]
    BY <1>1, <1>3, <2>1, <2>2 DEF NotificationRow, TablesOK
  <2> QED
    BY <1>3, <2>1, <2>2, <2>3 DEF NotificationRow, Book!Tell
<1>4. ASSUME NEW t \in Threads, NEW x \in cycle[t].closing, CloseAlert(t, x[1], x[2])
      PROVE  (\E p \in Pairs : Book!Close(p)) \/ UNCHANGED <<alert, noted>>
  BY <1>4, CloseIsBooked
<1> QED
  BY <1>2, <1>3, <1>4, TableMoves

\* docs/spec/06-engine.md:25-29: unless the process dies or a cycle is abandoned
\* at its timeout, the engine implements AlertBook: initial states map to initial
\* states, and every statement of a cycle and every step of a writer or an
\* operator to one move of the book or to none.
THEOREM ImplementsAlertBook ==
    ASSUME DownIsNews, MaxCrashes = 0, MaxTimeouts = 0 PROVE Spec => IsAlertBook
PROOF
<1>1. Init => Book!Init
  BY DEF Init, Book!Init
<1>2. ASSUME TypeOK, NoteInv, ResolvedInv, [Next]_vars
      PROVE  [Book!Next]_(Book!bookVars)
  <2>1. CASE Doubts
    <3>1. Book!World
      BY <1>2, <2>1, TypeParts DEF Doubts, Book!World
    <3> QED
      BY <1>2, <3>1, TablesKeepBook DEF Book!Next
  <2>2. CASE UNCHANGED vars
    BY <2>2 DEF vars, Book!bookVars
  <2> QED
    BY <1>2, <2>1, <2>2 DEF Next
<1>3. TypeOK /\ NoteInv /\ ResolvedInv /\ [Next]_vars => [Book!Next]_(Book!bookVars)
  BY <1>2
<1>4. TypeOK /\ NoteInv /\ [Next]_vars => NoteInv'
  BY NoteNext
<1>5. TypeOK /\ ResolvedInv /\ [Next]_vars => ResolvedInv'
  BY ResolvedNext
<1> QED
  BY <1>1, <1>3, <1>4, <1>5, TypeCorrect, NoteInit, ResolvedInit,
     PTL DEF Spec, IsAlertBook, Book!Spec
=============================================================================
