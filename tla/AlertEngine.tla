---------------------------- MODULE AlertEngine ----------------------------
(***************************************************************************)
(* The alert engine: netmon/engine/engine.py, engine/notify.py and the     *)
(* tiebreaker of netmon/state.py.                                          *)
(*                                                                         *)
(* A cycle runs in a worker thread (asyncio.to_thread) and every database  *)
(* call of it is a transaction of its own, so writers of device_state,     *)
(* operators and, after a timeout, another cycle all run between two calls.*)
(* The supervisor awaits one cycle at a time; its timeout abandons the     *)
(* awaited thread without stopping it, and the next cycle overlaps it.     *)
(*                                                                         *)
(* Durations are abstracted to what the gate tells apart: whether the      *)
(* newest state_events row of a (rule, device) is older than the rule's    *)
(* min_duration_s.  A cycle compares with the clock it read at its start.  *)
(***************************************************************************)
EXTENDS Integers, FiniteSets

CONSTANTS
    Devices,      \* devices with state
    Rules,        \* alert_rules
    Threads,      \* worker threads a cycle can run in
    None,         \* no thread
    Dim,          \* [Rules -> Dims]: the dimension of a rule
    Cond,         \* [Rules -> SUBSET Values]: the values its condition matches
    Scope,        \* [Rules -> SUBSET Devices]: the rule's device_types
    Contested,    \* devices whose mgmt_ip another physical device claims
    Batched,      \* keys whose writer stores value and event in a transaction
                  \*   (write_states); the others insert the event afterwards
    Live,         \* [engine] shadow = false
    MaxChanges,   \* bound: changes of device_state
    MaxOperator,  \* bound: changes of rules, registry and maintenance windows
    MaxTimeouts,  \* bound: cycles the supervisor abandons
    MaxCrashes,   \* bound: process crashes
    MaxSmtp       \* bound: messages the SMTP server refuses

Dims   == {"ping", "snmp", "source_status"}
Values == {"absent", "up", "down"}
Pairs  == Rules \X Devices
Keys   == Dims \X Devices

ASSUME EngineAssumption ==
    /\ None \notin Threads \cup Devices \cup Rules
    /\ Dim \in [Rules -> Dims]
    /\ Cond \in [Rules -> SUBSET {"up", "down"}]
    /\ Scope \in [Rules -> SUBSET Devices]
    /\ Contested \subseteq Devices
    /\ Batched \subseteq Keys
    /\ Live \in BOOLEAN

ASSUME BoundAssumption ==
    /\ MaxChanges \in Nat
    /\ MaxOperator \in Nat
    /\ MaxTimeouts \in Nat
    /\ MaxCrashes \in Nat
    /\ MaxSmtp \in Nat

VARIABLES
    value,     \* [Keys -> Values]: device_state.value
    unlogged,  \* SUBSET Keys: value stored, its event not yet inserted
    steady,    \* SUBSET Pairs: the current value really lasts min_duration_s
    dated,     \* SUBSET Pairs: the newest event is older than min_duration_s
    enabled,   \* SUBSET Devices: devices.enabled
    ruleOn,    \* SUBSET Rules: enabled; a rule outside is disabled or deleted
    maint,     \* SUBSET Devices: covered by an active maintenance window
    alert,     \* [Pairs -> [id : Nat, open : BOOLEAN]]: the newest alert
    noted,     \* [Pairs -> Nat]: notifications rows of the newest alert
    cycle,     \* [Threads -> Cycle]: the local variables of _run_cycle
    awaited,   \* the thread the supervisor awaits, or None
    doubted,   \* history: open alerts not due at some moment since they opened
    budget     \* what is left of the bounds

vars == <<value, unlogged, steady, dated, enabled, ruleOn, maint, alert, noted,
          cycle, awaited, doubted, budget>>

env    == <<value, unlogged, steady, dated, enabled, ruleOn, maint>>
tables == <<alert, noted>>

Book == INSTANCE AlertBook WITH resolved <- doubted

Locations == {"idle", "flags", "rules", "devices", "insert", "notify", "close", "orphans"}
Budgets   == {"changes", "operator", "timeouts", "crashes", "smtp"}

Cycle == [pc : Locations, flagged : SUBSET Devices, ripe : SUBSET Pairs,
          queue : SUBSET Rules, rule : Rules \cup {None}, todo : SUBSET Devices,
          matched : SUBSET Devices, dev : Devices \cup {None},
          closing : SUBSET (Pairs \X Nat)]

Spend(what) == budget[what] > 0 /\ budget' = [budget EXCEPT ![what] = @ - 1]

-----------------------------------------------------------------------------
(* state.py *)

Is(dim, d, v) == value[<<dim, d>>] = v

\* device_down: native ping says so, or the source says so and no native probe
\* contradicts it; on a contested address only the source counts.
DeviceDown(d) ==
    IF d \in Contested
      THEN Is("source_status", d, "down")
      ELSE \/ Is("ping", d, "down")
           \/ /\ Is("source_status", d, "down")
              /\ ~ Is("ping", d, "up")
              /\ ~ Is("snmp", d, "up")

\* _reachability_flags, folded with device_down: flags exist for enabled
\* devices only, and device_down of no flags is False.
FlaggedDown == {d \in enabled : DeviceDown(d)}

\* The rule's query and condition select the device, its source_status down
\* confirmed by the tiebreaker over the flags.
Matches(r, d, flagged) ==
    /\ d \in Scope[r]
    /\ value[<<Dim[r], d>>] \in Cond[r]
    /\ Dim[r] = "source_status" /\ Is("source_status", d, "down") => d \in flagged

\* What the engine should report now: the rule is on, it matches, and the
\* match has lasted.
Due(p) == p[1] \in ruleOn /\ Matches(p[1], p[2], FlaggedDown) /\ p \in dated

-----------------------------------------------------------------------------
(* The cycle *)

Idle == [pc |-> "idle", flagged |-> {}, ripe |-> {}, queue |-> {}, rule |-> None,
         todo |-> {}, matched |-> {}, dev |-> None, closing |-> {}]

Init ==
    /\ value = [k \in Keys |-> "absent"]
    /\ unlogged = {}
    /\ steady = {}
    /\ dated = {}
    /\ enabled = Devices
    /\ ruleOn = Rules
    /\ maint = {}
    /\ alert = [p \in Pairs |-> [id |-> 0, open |-> FALSE]]
    /\ noted = [p \in Pairs |-> 0]
    /\ cycle = [t \in Threads |-> Idle]
    /\ awaited = None
    /\ doubted = {}
    /\ budget = [what \in Budgets |->
                   CASE what = "changes"  -> MaxChanges
                     [] what = "operator" -> MaxOperator
                     [] what = "timeouts" -> MaxTimeouts
                     [] what = "crashes"  -> MaxCrashes
                     [] what = "smtp"     -> MaxSmtp]

At(t, loc) == cycle[t].pc = loc

Pair(t, d) == <<cycle[t].rule, d>>

\* The thread returns or raises; only an awaited thread frees the supervisor.
Leave(t) ==
    /\ cycle' = [cycle EXCEPT ![t] = Idle]
    /\ awaited' = IF awaited = t THEN None ELSE awaited

\* run_once: the supervisor's next cycle reads the clock and the flags.
StartCycle(t) ==
    /\ awaited = None
    /\ At(t, "idle")
    /\ awaited' = t
    /\ cycle' = [cycle EXCEPT ![t] =
                   [Idle EXCEPT !.pc = "flags", !.flagged = FlaggedDown, !.ripe = dated]]
    /\ UNCHANGED <<env, tables, budget>>

\* _rules: the enabled rules.
LoadRules(t) ==
    /\ At(t, "flags")
    /\ cycle' = [cycle EXCEPT ![t].pc = "rules", ![t].queue = ruleOn]
    /\ UNCHANGED <<env, tables, awaited, budget>>

\* The next rule of the loop: _states and the tests that need no other query.
BeginRule(t, r) ==
    /\ At(t, "rules")
    /\ r \in cycle[t].queue
    /\ cycle' = [cycle EXCEPT ![t].pc = "devices",
                              ![t].queue = @ \ {r},
                              ![t].rule = r,
                              ![t].matched = {},
                              ![t].todo = {d \in Devices : Matches(r, d, cycle[t].flagged)}]
    /\ UNCHANGED <<env, tables, awaited, budget>>

\* Mutant of HeldSince: the duration gate is left out.
MutantHeldSince(t, d) == TRUE

\* _held_since: the newest event of the key is min_duration_s older than now.
HeldSince(t, d) == Pair(t, d) \in cycle[t].ripe

\* The match is not old enough, the device is skipped.
NotHeld(t, d) ==
    /\ At(t, "devices")
    /\ d \in cycle[t].todo
    /\ ~ HeldSince(t, d)
    /\ cycle' = [cycle EXCEPT ![t].todo = @ \ {d}]
    /\ UNCHANGED <<env, tables, awaited, budget>>

\* Mutant of Held: without the continue, an open alert is notified again.
MutantHeldAgain(t, d) ==
    /\ At(t, "devices")
    /\ d \in cycle[t].todo
    /\ HeldSince(t, d)
    /\ cycle' = [cycle EXCEPT
                   ![t].todo = @ \ {d},
                   ![t].matched = @ \cup {d},
                   ![t].pc = IF alert[Pair(t, d)].open THEN "notify" ELSE "insert",
                   ![t].dev = d]
    /\ UNCHANGED <<env, tables, awaited, budget>>

\* Mutant of Held: matched.add comes after the continue.
MutantHeldLate(t, d) ==
    /\ At(t, "devices")
    /\ d \in cycle[t].todo
    /\ HeldSince(t, d)
    /\ cycle' = [cycle EXCEPT
                   ![t].todo = @ \ {d},
                   ![t].matched = IF alert[Pair(t, d)].open THEN @ ELSE @ \cup {d},
                   ![t].pc = IF alert[Pair(t, d)].open THEN "devices" ELSE "insert",
                   ![t].dev = IF alert[Pair(t, d)].open THEN None ELSE d]
    /\ UNCHANGED <<env, tables, awaited, budget>>

\* The match has held; _open_alert_id finds an alert and last_seen_at moves, or
\* finds none and one is to be opened.
Held(t, d) ==
    /\ At(t, "devices")
    /\ d \in cycle[t].todo
    /\ HeldSince(t, d)
    /\ cycle' = [cycle EXCEPT
                   ![t].todo = @ \ {d},
                   ![t].matched = @ \cup {d},
                   ![t].pc = IF alert[Pair(t, d)].open THEN "devices" ELSE "insert",
                   ![t].dev = IF alert[Pair(t, d)].open THEN None ELSE d]
    /\ UNCHANGED <<env, tables, awaited, budget>>

\* INSERT INTO alerts.
OpenAlert(t) ==
    LET p == Pair(t, cycle[t].dev)
    IN  /\ At(t, "insert")
        /\ ~ alert[p].open
        /\ alert' = [alert EXCEPT ![p] = [id |-> @.id + 1, open |-> TRUE]]
        /\ noted' = [noted EXCEPT ![p] = 0]
        /\ cycle' = [cycle EXCEPT ![t].pc = "notify"]
        /\ UNCHANGED <<env, awaited, budget>>

\* The open_key index refuses a second open alert: the cycle raises.
OpenAlertRefused(t) ==
    /\ At(t, "insert")
    /\ alert[Pair(t, cycle[t].dev)].open
    /\ Leave(t)
    /\ UNCHANGED <<env, tables, budget>>

\* record_notification writes a row against the open alert of the pair; without
\* one the row has no alert to refer to and the foreign key raises.
NotificationRow(t) ==
    /\ At(t, "notify")
    /\ alert[Pair(t, cycle[t].dev)].open
    /\ noted' = [noted EXCEPT ![Pair(t, cycle[t].dev)] = @ + 1]

\* The row is written and, outside maintenance and shadow, the mail goes out.
Notify(t) ==
    /\ NotificationRow(t)
    /\ cycle' = [cycle EXCEPT ![t].pc = "devices", ![t].dev = None]
    /\ UNCHANGED <<env, alert, awaited, budget>>

\* The row is written, the mail is refused, and the cycle raises.
NotifyRaises(t) ==
    /\ Live
    /\ cycle[t].dev \notin maint
    /\ NotificationRow(t)
    /\ Spend("smtp")
    /\ Leave(t)
    /\ UNCHANGED <<env, alert>>

NotifyRefused(t) ==
    /\ At(t, "notify")
    /\ ~ alert[Pair(t, cycle[t].dev)].open
    /\ Leave(t)
    /\ UNCHANGED <<env, tables, budget>>

\* _close_resolved reads the rule's open alerts: those not matched will close.
BeginClose(t) ==
    /\ At(t, "devices")
    /\ cycle[t].todo = {}
    /\ cycle' = [cycle EXCEPT
                   ![t].pc = "close",
                   ![t].closing = {<<p, alert[p].id>> :
                       p \in {q \in Pairs : /\ q[1] = cycle[t].rule
                                            /\ q[2] \notin cycle[t].matched
                                            /\ alert[q].open}}]
    /\ UNCHANGED <<env, tables, awaited, budget>>

\* Mutant of BeginOrphans: the engine before _close_orphaned was added.
MutantNoOrphans(t) ==
    /\ At(t, "rules")
    /\ cycle[t].queue = {}
    /\ cycle' = [cycle EXCEPT ![t].pc = "orphans", ![t].closing = {}]
    /\ UNCHANGED <<env, tables, awaited, budget>>

\* _close_orphaned reads the open alerts whose rule is disabled or gone.
BeginOrphans(t) ==
    /\ At(t, "rules")
    /\ cycle[t].queue = {}
    /\ cycle' = [cycle EXCEPT
                   ![t].pc = "orphans",
                   ![t].closing = {<<p, alert[p].id>> :
                       p \in {q \in Pairs : q[1] \notin ruleOn /\ alert[q].open}}]
    /\ UNCHANGED <<env, tables, awaited, budget>>

\* UPDATE alerts SET closed_at WHERE id: an older alert may have given way to a
\* newer one, which the id spares.
CloseAlert(t, p, id) ==
    /\ cycle[t].pc \in {"close", "orphans"}
    /\ <<p, id>> \in cycle[t].closing
    /\ alert' = [alert EXCEPT ![p].open = @ /\ alert[p].id # id]
    /\ cycle' = [cycle EXCEPT ![t].closing = @ \ {<<p, id>>}]
    /\ UNCHANGED <<env, noted, awaited, budget>>

\* Mutant of EndRule: the matched set survives its rule.
MutantEndRule(t) ==
    /\ At(t, "close")
    /\ cycle[t].closing = {}
    /\ cycle' = [cycle EXCEPT ![t].pc = "rules", ![t].rule = None]
    /\ UNCHANGED <<env, tables, awaited, budget>>

EndRule(t) ==
    /\ At(t, "close")
    /\ cycle[t].closing = {}
    /\ cycle' = [cycle EXCEPT ![t].pc = "rules", ![t].rule = None, ![t].matched = {}]
    /\ UNCHANGED <<env, tables, awaited, budget>>

EndCycle(t) ==
    /\ At(t, "orphans")
    /\ cycle[t].closing = {}
    /\ Leave(t)
    /\ UNCHANGED <<env, tables, budget>>

\* The supervisor's wait_for gives up, or a settings change restarts its tasks:
\* the coroutine is cancelled, the thread is not.
Timeout ==
    /\ awaited # None
    /\ Spend("timeouts")
    /\ awaited' = None
    /\ UNCHANGED <<env, tables, cycle>>

\* The process dies between two database calls.
Crash ==
    /\ \E t \in Threads : ~ At(t, "idle")
    /\ Spend("crashes")
    /\ cycle' = [t \in Threads |-> Idle]
    /\ awaited' = None
    /\ UNCHANGED <<env, tables>>

-----------------------------------------------------------------------------
(* What the engine reads and does not write *)

PairsOf(dim, d) == {p \in Pairs : Dim[p[1]] = dim /\ p[2] = d}

\* A new event of the key: to no rule has its value held, now or against the
\* clock of a cycle under way.
Dates(dim, d) ==
    /\ dated' = dated \ PairsOf(dim, d)
    /\ cycle' = [t \in Threads |-> [cycle[t] EXCEPT !.ripe = @ \ PairsOf(dim, d)]]

\* A collector or the poller stores a new value, and its event with it or next.
WriteState(dim, d, v) ==
    /\ v \notin {value[<<dim, d>>], "absent"}
    /\ <<dim, d>> \notin unlogged
    /\ Spend("changes")
    /\ value' = [value EXCEPT ![<<dim, d>>] = v]
    /\ steady' = steady \ PairsOf(dim, d)
    /\ IF <<dim, d>> \in Batched
         THEN Dates(dim, d) /\ UNCHANGED unlogged
         ELSE unlogged' = unlogged \cup {<<dim, d>>} /\ UNCHANGED <<dated, cycle>>
    /\ UNCHANGED <<enabled, ruleOn, maint, tables, awaited>>

WriteEvent(dim, d) ==
    /\ <<dim, d>> \in unlogged
    /\ unlogged' = unlogged \ {<<dim, d>>}
    /\ Dates(dim, d)
    /\ UNCHANGED <<value, steady, enabled, ruleOn, maint, tables, awaited, budget>>

\* Time passes: the value of the pair's key has lasted the rule's min_duration_s.
Age(p) ==
    LET key == <<Dim[p[1]], p[2]>>
    IN  /\ value[key] # "absent"
        /\ key \notin unlogged
        /\ p \notin steady \cap dated
        /\ steady' = steady \cup {p}
        /\ dated' = dated \cup {p}
        /\ UNCHANGED <<value, unlogged, enabled, ruleOn, maint, tables, cycle,
                       awaited, budget>>

\* An operator, a migration or a window's end flips one thing.
Flip(set, x) == IF x \in set THEN set \ {x} ELSE set \cup {x}

Operator ==
    /\ Spend("operator")
    /\ \/ \E d \in Devices : enabled' = Flip(enabled, d) /\ UNCHANGED <<ruleOn, maint>>
       \/ \E r \in Rules : ruleOn' = Flip(ruleOn, r) /\ UNCHANGED <<enabled, maint>>
       \/ \E d \in Devices : maint' = Flip(maint, d) /\ UNCHANGED <<enabled, ruleOn>>
    /\ UNCHANGED <<value, unlogged, steady, dated, tables, cycle, awaited>>

-----------------------------------------------------------------------------

Step(t) ==
    \/ LoadRules(t)
    \/ \E r \in Rules : BeginRule(t, r)
    \/ \E d \in Devices : NotHeld(t, d) \/ Held(t, d)
    \/ OpenAlert(t) \/ OpenAlertRefused(t)
    \/ Notify(t) \/ NotifyRaises(t) \/ NotifyRefused(t)
    \/ BeginClose(t) \/ BeginOrphans(t)
    \/ \E c \in cycle[t].closing : CloseAlert(t, c[1], c[2])
    \/ EndRule(t) \/ EndCycle(t)

Writers ==
    \/ \E dim \in Dims, d \in Devices, v \in Values : WriteState(dim, d, v)
    \/ \E dim \in Dims, d \in Devices : WriteEvent(dim, d)

\* The history: which open alerts had a moment, since they opened, when they
\* were not due.
Doubts ==
    doubted' = {p \in Pairs :
        /\ alert'[p].open
        /\ ~ Due(p)' \/ (p \in doubted /\ alert'[p].id = alert[p].id)}

Next ==
    /\ \/ \E t \in Threads : StartCycle(t) \/ Step(t)
       \/ Timeout
       \/ Crash
       \/ Writers
       \/ \E p \in Pairs : Age(p)
       \/ Operator
    /\ Doubts

Spec == Init /\ [][Next]_vars

\* The supervisor starts a cycle again and again, a thread that runs goes on
\* running, a writer that stored a value inserts its event, and time passes.
Fairness ==
    /\ WF_vars((\E t \in Threads : StartCycle(t)) /\ Doubts)
    /\ \A t \in Threads : WF_vars(Step(t) /\ Doubts)
    /\ WF_vars((\E dim \in Dims, d \in Devices : WriteEvent(dim, d)) /\ Doubts)
    /\ \A p \in Pairs : WF_vars(Age(p) /\ Doubts)

LiveSpec == Spec /\ Fairness

-----------------------------------------------------------------------------
(* Properties *)

\* The locals a location has in use.
LocalsOK(c) ==
    /\ c.dev # None <=> c.pc \in {"insert", "notify"}
    /\ c.rule # None <=> c.pc \in {"devices", "insert", "notify", "close"}
    /\ c.matched # {} => c.rule # None
    /\ c.closing # {} => c.pc \in {"close", "orphans"}

TypeOK ==
    /\ value \in [Keys -> Values]
    /\ unlogged \subseteq Keys
    /\ steady \subseteq Pairs
    /\ dated \subseteq Pairs
    /\ enabled \subseteq Devices
    /\ ruleOn \subseteq Rules
    /\ maint \subseteq Devices
    /\ alert \in [Pairs -> [id : Nat, open : BOOLEAN]]
    /\ noted \in [Pairs -> Nat]
    /\ cycle \in [Threads -> Cycle]
    /\ \A t \in Threads : LocalsOK(cycle[t])
    /\ awaited \in Threads \cup {None}
    /\ doubted \subseteq Pairs
    /\ budget \in [Budgets -> Nat]

\* A cycle that has opened the pair's alert is about to notify.
Notifying(p) == \E t \in Threads : At(t, "notify") /\ Pair(t, cycle[t].dev) = p

\* docs/spec/06-engine.md:29: a newly opened alert has a notifications row, and
\* but one however often the cycle raises or bumps it afterwards.
NotifiedOnce ==
    \A p \in Pairs :
        /\ noted[p] <= 1
        /\ alert[p].open /\ ~ Notifying(p) => noted[p] = 1

\* docs/spec/06-engine.md:20-23, the duration gate: a cycle sets out to open an
\* alert only for a value that really has lasted min_duration_s, if its writer
\* stores a value and its event together.
OpensOnlyHeld ==
    [][\A t \in Threads, d \in Devices :
         /\ At(t, "devices")
         /\ cycle'[t].pc = "insert"
         /\ cycle'[t].dev = d
         /\ <<Dim[cycle[t].rule], d>> \in Batched
         => Pair(t, d) \in steady]_vars

\* docs/spec/06-engine.md:25-26: an alert closes because the device no longer
\* matches or the rule is off, so at some moment since it opened it was not due.
ClosesOnlyResolved ==
    [][\A p \in Pairs : alert[p].open /\ ~ alert'[p].open => p \in doubted]_vars

\* docs/spec/06-engine.md:25-29: the cycle and its single statements keep the book
\* of alerts: none is opened beside an open one, none closes untold or before its
\* reason went, and none is told of twice.
IsAlertBook == Book!Spec

\* Whatever was missed, raised, crashed or overlapped, when things stay as they
\* are the open alerts become exactly the ones that are due.
AlertsFollowState == <>[](\A p \in Pairs : alert[p].open <=> Due(p))
=============================================================================
