------------------------------- MODULE Poller -------------------------------
(***************************************************************************)
(* The native poller: netmon/poller/poller.py and poller/hysteresis.py.    *)
(*                                                                         *)
(* Each dimension ("ping", "snmp") is a coroutine that reads the registry, *)
(* awaits a prober, and then applies the verdicts one device row at a      *)
(* time: observe in the in-memory tracker, upsert device_state, and, on a  *)
(* transition, insert into state_events.  The last two are transactions of *)
(* their own, so a step here is one statement that reaches the database    *)
(* (the memory-only observe shares the step of the upsert that follows     *)
(* it).  Between the read of the registry and the first verdict lies an    *)
(* await, where the registry may change, the supervisor may time the sweep *)
(* out and the other coroutine may run.  Past the await nothing yields:    *)
(* only a crash or an exception of a database call can end the sweep.      *)
(***************************************************************************)
EXTENDS Integers, FiniteSets

CONSTANTS
    Devices,        \* rows of the devices table
    Addrs,          \* management addresses
    Dims,           \* the dimensions swept, one coroutine each
    None,           \* no address (a disabled row, or no mgmt_ip), no device
    Swept,          \* [Dims -> SUBSET Devices]: snmp_capable rows for snmp,
                    \*   rows whose type is not excluded for ping
    Configured,     \* SUBSET Dims: snmp only when snmp_community is set
    Hardware,       \* [Devices -> physical devices]
    FailThreshold,  \* consecutive failures that settle "down"
    OkThreshold,    \* consecutive successes that settle "up"
    Window,         \* length of the verdict history; streaks saturate there
    MaxEdits,       \* bound: registry edits
    MaxCrashes,     \* bound: process crashes
    MaxTimeouts,    \* bound: sweeps the supervisor cancels
    MaxDbErrors     \* bound: database calls of _write that raise

ASSUME ThresholdAssumption ==
    /\ FailThreshold \in Nat \ {0}
    /\ OkThreshold \in Nat \ {0}
    /\ Window \in Nat
    /\ FailThreshold <= Window
    /\ OkThreshold <= Window

ASSUME BoundAssumption ==
    /\ MaxEdits \in Nat
    /\ MaxCrashes \in Nat
    /\ MaxTimeouts \in Nat
    /\ MaxDbErrors \in Nat

ASSUME RegistryAssumption ==
    /\ None \notin Addrs \cup Devices
    /\ Swept \in [Dims -> SUBSET Devices]
    /\ Configured \subseteq Dims
    /\ Hardware \in [Devices -> Devices]

VARIABLES
    registry,  \* [Devices -> Addrs or None]: the rows a sweep selects
    alive,     \* [Addrs -> BOOLEAN]: does the host at the address answer
    tracker,   \* [Dims -> [Devices -> Entry]]: HysteresisTracker._state
    loaded,    \* Poller._loaded
    pc,        \* [Dims -> Locations]: where the sweep of the dimension is
    targets,   \* [Dims -> [Devices -> Addrs or None]]: rows the sweep read
    results,   \* [Dims -> [Addrs -> Verdicts]]: what the prober returned
    todo,      \* [Dims -> SUBSET Devices]: rows _apply has yet to visit
    pending,   \* [Dims -> Devices or None]: row upserted on a Transition,
               \*   its event not inserted yet
    row,       \* [Dims -> [Devices -> Values]]: device_state.value
    logged,    \* [Dims -> [Devices -> Values]]: new_value of the last event
    health,    \* [Dims -> Healths]: what collector_health last recorded
    seen,      \* history: the verdicts observed since the process started,
               \*   newest first
    budget     \* how many edits, crashes, timeouts and errors remain

vars == <<registry, alive, tracker, loaded, pc, targets, results, todo,
          pending, row, logged, health, seen, budget>>

Verdicts  == {"alive", "dead", "none"}
Settled   == {"unknown", "up", "down"}
Values    == {"absent", "up", "down"}
Healths   == {"never", "ok", "failed"}
Locations == {"idle", "probing", "apply"}
Budgets   == {"edits", "crashes", "timeouts", "errors"}
Slots     == 1..Window
Entry     == [settled : Settled, ok : 0..Window, fail : 0..Window]

-----------------------------------------------------------------------------
(* HysteresisTracker *)

\* A device the tracker has no entry for behaves as a fresh _Entry().
FreshEntry == [settled |-> "unknown", ok |-> 0, fail |-> 0]

\* seed: a persisted value other than up and down primes "unknown".
Seed(value) == [FreshEntry EXCEPT !.settled = IF value = "absent" THEN "unknown" ELSE value]

\* The streak counters, saturating at Window, which no threshold exceeds.
Bump(n) == IF n < Window THEN n + 1 ELSE n

\* Mutant of Count: the opposite streak survives a contrary verdict.
MutantCount(e, verdict) ==
    IF verdict = "alive" THEN [e EXCEPT !.ok = Bump(e.ok)] ELSE [e EXCEPT !.fail = Bump(e.fail)]

\* The verdict lengthens its streak and ends the opposite one.
Count(e, verdict) ==
    IF verdict = "alive" THEN [e EXCEPT !.ok = Bump(e.ok), !.fail = 0]
                         ELSE [e EXCEPT !.fail = Bump(e.fail), !.ok = 0]

\* Mutant of Flips: one verdict early.
MutantFlips(e, verdict) ==
    IF verdict = "alive"
      THEN e.settled # "up" /\ (e.settled = "unknown" \/ e.ok + 1 >= OkThreshold)
      ELSE e.settled # "down" /\ (e.settled = "unknown" \/ e.fail + 1 >= FailThreshold)

\* Does the entry, its streaks already counted, flip to the verdict's side?
Flips(e, verdict) ==
    IF verdict = "alive"
      THEN e.settled # "up" /\ (e.settled = "unknown" \/ e.ok >= OkThreshold)
      ELSE e.settled # "down" /\ (e.settled = "unknown" \/ e.fail >= FailThreshold)

\* Mutant of Target: the probe's verdict is stored for the settled state.
MutantTarget(verdict) == verdict

Target(verdict) == IF verdict = "alive" THEN "up" ELSE "down"

\* observe: count, then settle on the target if the entry flips.
Observe(e, verdict) ==
    LET counted == Count(e, verdict)
    IN  IF Flips(counted, verdict)
          THEN [counted EXCEPT !.settled = Target(verdict)]
          ELSE counted

-----------------------------------------------------------------------------
(* Poller *)

\* _devices: the rows of the registry this dimension selects.
Selected(dim) == [d \in Devices |-> IF d \in Swept[dim] THEN registry[d] ELSE None]

\* Mutant of AmbiguousAddrs: the guard before the 2026-07-28 incident.
MutantAmbiguousAddrs(rows) == {}

\* _ambiguous_ips: addresses claimed by more than one physical device among
\* the rows the sweep read.
AmbiguousAddrs(rows) ==
    {a \in Addrs : \E d, e \in Devices :
        rows[d] = a /\ rows[e] = a /\ Hardware[d] # Hardware[e]}

\* The rows _apply writes: a verdict came back for an uncontested address.
Writable(dim, verdicts) ==
    {d \in Devices :
        /\ targets[dim][d] \in Addrs
        /\ verdicts[targets[dim][d]] # "none"
        /\ targets[dim][d] \notin AmbiguousAddrs(targets[dim])}

\* Past its await a sweep holds the event loop until it returns.
LoopFree == \A dim \in Dims : pc[dim] # "apply"

Spend(what) == budget[what] > 0 /\ budget' = [budget EXCEPT ![what] = @ - 1]

NoVerdicts == [a \in Addrs |-> "none"]
NoTargets  == [d \in Devices |-> None]

Init ==
    /\ registry \in [Devices -> Addrs \cup {None}]
    /\ alive \in [Addrs -> BOOLEAN]
    /\ tracker = [dim \in Dims |-> [d \in Devices |-> FreshEntry]]
    /\ loaded = FALSE
    /\ pc = [dim \in Dims |-> "idle"]
    /\ targets = [dim \in Dims |-> NoTargets]
    /\ results = [dim \in Dims |-> NoVerdicts]
    /\ todo = [dim \in Dims |-> {}]
    /\ pending = [dim \in Dims |-> None]
    /\ row = [dim \in Dims |-> [d \in Devices |-> "absent"]]
    /\ logged = [dim \in Dims |-> [d \in Devices |-> "absent"]]
    /\ health = [dim \in Dims |-> "never"]
    /\ seen = [dim \in Dims |-> [d \in Devices |-> [i \in Slots |-> "none"]]]
    /\ budget = [what \in Budgets |->
                   CASE what = "edits"    -> MaxEdits
                     [] what = "crashes"  -> MaxCrashes
                     [] what = "timeouts" -> MaxTimeouts
                     [] what = "errors"   -> MaxDbErrors]

\* Mutant of LoadInitialState: a restart forgets what device_state holds.
MutantLoadNothing == tracker' = tracker /\ loaded' = TRUE

\* Mutant of LoadInitialState: _loaded is never set, every sweep reseeds.
MutantLoadAlways ==
    /\ tracker' = [dim \in Dims |-> [d \in Devices |->
                      IF row[dim][d] = "absent" THEN tracker[dim][d] ELSE Seed(row[dim][d])]]
    /\ loaded' = FALSE

\* _load_initial_state: once per process, prime the tracker from device_state.
LoadInitialState ==
    /\ tracker' = IF loaded
                    THEN tracker
                    ELSE [dim \in Dims |-> [d \in Devices |->
                           IF row[dim][d] = "absent" THEN tracker[dim][d]
                                                     ELSE Seed(row[dim][d])]]
    /\ loaded' = TRUE

\* sweep_ping, sweep_snmp up to the await: seed, read the registry, probe.
StartSweep(dim) ==
    /\ dim \in Configured
    /\ pc[dim] = "idle"
    /\ LoopFree
    /\ LoadInitialState
    /\ targets' = [targets EXCEPT ![dim] = Selected(dim)]
    /\ pc' = [pc EXCEPT ![dim] = "probing"]
    /\ UNCHANGED <<registry, alive, results, todo, pending, row, logged, health,
                   seen, budget>>

\* sweep_snmp without a community: a warning, and 0 rows written successfully.
SkipSweep(dim) ==
    /\ dim \notin Configured
    /\ LoopFree
    /\ LoadInitialState
    /\ health' = [health EXCEPT ![dim] = "ok"]
    /\ UNCHANGED <<registry, alive, pc, targets, results, todo, pending, row,
                   logged, seen, budget>>

\* The sweep returns, raises or is cancelled: its local variables are gone.
EndSweep(dim) ==
    /\ pc' = [pc EXCEPT ![dim] = "idle"]
    /\ targets' = [targets EXCEPT ![dim] = NoTargets]
    /\ results' = [results EXCEPT ![dim] = NoVerdicts]
    /\ todo' = [todo EXCEPT ![dim] = {}]
    /\ pending' = [pending EXCEPT ![dim] = None]

\* What the prober can return: for every address asked, whether its host
\* answered, or nothing; never anything for an address not asked.
Answers(dim, heard) ==
    [a \in Addrs |->
        IF a \in heard /\ \E d \in Devices : targets[dim][d] = a
          THEN IF alive[a] THEN "alive" ELSE "dead"
          ELSE "none"]

\* Mutant of Blind: the check for verdicts is missing.
MutantBlind(dim, verdicts) == FALSE

\* _require_verdicts: targets were asked and not one verdict came back.
Blind(dim, verdicts) ==
    /\ \E d \in Devices : targets[dim][d] # None
    /\ \A a \in Addrs : verdicts[a] = "none"

\* The await returns verdicts and _apply begins.
ProbeReturns(dim, heard) ==
    LET verdicts == Answers(dim, heard)
    IN  /\ pc[dim] = "probing"
        /\ LoopFree
        /\ ~ Blind(dim, verdicts)
        /\ results' = [results EXCEPT ![dim] = verdicts]
        /\ todo' = [todo EXCEPT ![dim] = Writable(dim, verdicts)]
        /\ pc' = [pc EXCEPT ![dim] = "apply"]
        /\ UNCHANGED <<registry, alive, tracker, loaded, targets, pending, row,
                       logged, health, seen, budget>>

\* The prober raises, or returns nothing for a non-empty list and
\* _require_verdicts raises: _guarded records the error.
ProbeFails(dim) ==
    /\ pc[dim] = "probing"
    /\ LoopFree
    /\ \E d \in Devices : targets[dim][d] # None
    /\ health' = [health EXCEPT ![dim] = "failed"]
    /\ EndSweep(dim)
    /\ UNCHANGED <<registry, alive, tracker, loaded, row, logged, seen, budget>>

\* The supervisor's timeout cancels the sweep in its await.  CancelledError is
\* not an Exception: nothing is recorded.
Timeout(dim) ==
    /\ pc[dim] = "probing"
    /\ LoopFree
    /\ Spend("timeouts")
    /\ EndSweep(dim)
    /\ UNCHANGED <<registry, alive, tracker, loaded, row, logged, health, seen>>

\* An exception of a database call leaves _apply through _guarded, which
\* records the error; the rows not yet visited are skipped.
Raise(dim) ==
    /\ Spend("errors")
    /\ health' = [health EXCEPT ![dim] = "failed"]
    /\ EndSweep(dim)

\* A verdict joins the history, the oldest drops out of the window.
Newest(history, verdict) ==
    [i \in Slots |-> IF i = 1 THEN verdict ELSE history[i - 1]]

\* _write, tracker.observe: the tracker counts the verdict of the row.
ObserveRow(dim, d) ==
    LET verdict == results[dim][targets[dim][d]]
    IN  /\ tracker' = [tracker EXCEPT ![dim][d] = Observe(@, verdict)]
        /\ seen' = [seen EXCEPT ![dim][d] = Newest(@, verdict)]

\* observe returned a Transition: the settled value moved.
Transition(dim, d) == tracker'[dim][d].settled # tracker[dim][d].settled

\* _write for one row of _apply's loop: observe, then upsert device_state.
Write(dim, d) ==
    /\ pc[dim] = "apply"
    /\ pending[dim] = None
    /\ d \in todo[dim]
    /\ ObserveRow(dim, d)
    /\ row' = [row EXCEPT ![dim][d] = tracker'[dim][d].settled]
    /\ todo' = [todo EXCEPT ![dim] = @ \ {d}]
    /\ pending' = [pending EXCEPT ![dim] = IF Transition(dim, d) THEN d ELSE None]
    /\ UNCHANGED <<registry, alive, loaded, pc, targets, results, logged, health,
                   budget>>

\* The upsert raises after the tracker has observed.
WriteRaises(dim, d) ==
    /\ pc[dim] = "apply"
    /\ pending[dim] = None
    /\ d \in todo[dim]
    /\ ObserveRow(dim, d)
    /\ Raise(dim)
    /\ UNCHANGED <<registry, alive, loaded, row, logged>>

\* _write, transition is not None: insert the event, in its own transaction;
\* transition.new is the value the upsert has just stored.
LogEvent(dim) ==
    /\ pending[dim] # None
    /\ logged' = [logged EXCEPT ![dim][pending[dim]] = row[dim][pending[dim]]]
    /\ pending' = [pending EXCEPT ![dim] = None]
    /\ UNCHANGED <<registry, alive, tracker, loaded, pc, targets, results, todo,
                   row, health, seen, budget>>

\* The insert raises: device_state keeps the new value.
LogRaises(dim) ==
    /\ pending[dim] # None
    /\ Raise(dim)
    /\ UNCHANGED <<registry, alive, tracker, loaded, row, logged, seen>>

\* _apply returns and _guarded records success.
FinishSweep(dim) ==
    /\ pc[dim] = "apply"
    /\ todo[dim] = {}
    /\ pending[dim] = None
    /\ health' = [health EXCEPT ![dim] = "ok"]
    /\ EndSweep(dim)
    /\ UNCHANGED <<registry, alive, tracker, loaded, row, logged, seen, budget>>

\* The process dies and a new Poller is built: memory is gone, tables stay.
Crash ==
    /\ Spend("crashes")
    /\ tracker' = [dim \in Dims |-> [d \in Devices |-> FreshEntry]]
    /\ loaded' = FALSE
    /\ pc' = [dim \in Dims |-> "idle"]
    /\ targets' = [dim \in Dims |-> NoTargets]
    /\ results' = [dim \in Dims |-> NoVerdicts]
    /\ todo' = [dim \in Dims |-> {}]
    /\ pending' = [dim \in Dims |-> None]
    /\ seen' = [dim \in Dims |-> [d \in Devices |-> [i \in Slots |-> "none"]]]
    /\ UNCHANGED <<registry, alive, row, logged, health>>

\* The registry is edited through the API or a collector, at any time.
EditRegistry(d, a) ==
    /\ registry[d] # a
    /\ Spend("edits")
    /\ registry' = [registry EXCEPT ![d] = a]
    /\ UNCHANGED <<alive, tracker, loaded, pc, targets, results, todo, pending,
                   row, logged, health, seen>>

\* A host comes up or goes away.
HostChanges(a) ==
    /\ alive' = [alive EXCEPT ![a] = ~ @]
    /\ UNCHANGED <<registry, tracker, loaded, pc, targets, results, todo, pending,
                   row, logged, health, seen, budget>>

Sweep(dim) ==
    \/ StartSweep(dim)
    \/ SkipSweep(dim)
    \/ \E heard \in SUBSET Addrs : ProbeReturns(dim, heard)
    \/ \E d \in Devices : Write(dim, d)
    \/ LogEvent(dim)
    \/ FinishSweep(dim)

Fault(dim) ==
    \/ ProbeFails(dim)
    \/ Timeout(dim)
    \/ \E d \in Devices : WriteRaises(dim, d)
    \/ LogRaises(dim)

Environment ==
    \/ \E d \in Devices, a \in Addrs \cup {None} : EditRegistry(d, a)
    \/ \E a \in Addrs : HostChanges(a)

Next ==
    \/ \E dim \in Dims : Sweep(dim) \/ Fault(dim)
    \/ Crash
    \/ Environment

Spec == Init /\ [][Next]_vars

\* The supervisor runs a task again once its interval is over, the event loop
\* does not starve a coroutine that is ready, and a sweep that has its verdicts
\* runs to its end.  The prober may miss any host in any one
\* sweep, but a sweep that hears from every host comes again and again.
Fairness ==
    \A dim \in Dims :
        /\ SF_vars(StartSweep(dim))
        /\ SF_vars(ProbeReturns(dim, Addrs))
        /\ WF_vars(\E d \in Devices : Write(dim, d))
        /\ WF_vars(LogEvent(dim))
        /\ WF_vars(FinishSweep(dim))

LiveSpec == Spec /\ Fairness

-----------------------------------------------------------------------------
(* Properties *)

TypeOK ==
    /\ registry \in [Devices -> Addrs \cup {None}]
    /\ alive \in [Addrs -> BOOLEAN]
    /\ tracker \in [Dims -> [Devices -> Entry]]
    /\ loaded \in BOOLEAN
    /\ pc \in [Dims -> Locations]
    /\ targets \in [Dims -> [Devices -> Addrs \cup {None}]]
    /\ results \in [Dims -> [Addrs -> Verdicts]]
    /\ todo \in [Dims -> SUBSET Devices]
    /\ pending \in [Dims -> Devices \cup {None}]
    /\ row \in [Dims -> [Devices -> Values]]
    /\ logged \in [Dims -> [Devices -> Values]]
    /\ health \in [Dims -> Healths]
    /\ seen \in [Dims -> [Devices -> [Slots -> Verdicts]]]
    /\ budget \in [Budgets -> Nat]

\* The last n verdicts observed for the device all say v.
LastSay(dim, d, n, v) == \A i \in 1..n : seen[dim][d][i] = v

\* hysteresis.py:3-6: the tracker changes sides exactly on a full run of contrary
\* verdicts.  A full run always leaves the device on its side, and a device that is
\* up or down crosses over on nothing less, whatever was missed, raised, cancelled
\* or restarted in between, and also when the write that follows fails.
SettlesExactly ==
    [][\A dim \in Dims, d \in Devices :
         LET before == tracker[dim][d].settled
             after  == tracker'[dim][d].settled
         IN  /\ LastSay(dim, d, FailThreshold, "dead")' => after = "down"
             /\ LastSay(dim, d, OkThreshold, "alive")' => after = "up"
             /\ before = "up" /\ after = "down" => LastSay(dim, d, FailThreshold, "dead")'
             /\ before = "down" /\ after = "up" => LastSay(dim, d, OkThreshold, "alive")']_vars

\* hysteresis.py:3-6, no flap: between up and down device_state moves only when
\* a full threshold of verdicts, all observed by this process and all agreeing,
\* ends with the one just applied, whatever crashes came before.
RowDamped ==
    [][\A dim \in Dims, d \in Devices :
         /\ row[dim][d] = "up" /\ row'[dim][d] = "down" =>
              \A i \in 1..FailThreshold : seen'[dim][d][i] = "dead"
         /\ row[dim][d] = "down" /\ row'[dim][d] = "up" =>
              \A i \in 1..OkThreshold : seen'[dim][d][i] = "alive"]_vars

\* poller.py:78-88 and 193-206: the tracker and device_state never disagree, so
\* a restart that reseeds from device_state resumes where the process died.
RowIsSettled ==
    \A dim \in Dims, d \in Devices :
        loaded => Seed(row[dim][d]).settled = tracker[dim][d].settled

\* docs/spec/02-poller.md:25-27: a change of the settled value appends one row
\* to state_events, so outside _write the newest event of a device names the
\* value device_state holds.
LogMatchesRow ==
    \A dim \in Dims, d \in Devices :
        pending[dim] # d => logged[dim][d] = row[dim][d]

\* poller.py:149-155 and 169-184: device_state never takes a verdict for an
\* address that two physical devices claimed when the sweep read the registry,
\* whichever of the two answered.
ContestedRefused ==
    [][\A dim \in Dims, d, e \in Devices :
         row'[dim][d] # row[dim][d] /\ targets[dim][d] = targets[dim][e] =>
           Hardware[d] = Hardware[e]]_vars

\* poller.py:30-39, blind must never record as healthy: collector_health turns
\* to success only at the end of a sweep that asked nobody or heard somebody.
BlindNotHealthy ==
    [][\A dim \in Dims : health'[dim] = "ok" /\ pc[dim] = "apply" /\ pc'[dim] = "idle" =>
         \/ targets[dim] = NoTargets
         \/ \E a \in Addrs : results[dim][a] # "none"]_vars

\* A device whose address no other physical device claims and whose host stays
\* up (or stays silent) ends up so in device_state and stays there, in spite of
\* crashes, timeouts, sweeps that raise and sweeps that miss the host.
Settles(dim, d, a, v) ==
    registry[d] = a /\ alive[a] = (v = "up") /\ a \notin AmbiguousAddrs(Selected(dim))

Converges ==
    \A dim \in Configured, a \in Addrs, v \in {"up", "down"} : \A d \in Swept[dim] :
        <>[]Settles(dim, d, a, v) => <>[](row[dim][d] = v)
=============================================================================
