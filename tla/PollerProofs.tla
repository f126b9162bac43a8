---------------------------- MODULE PollerProofs ----------------------------
(***************************************************************************)
(* Theorems about the poller, for every registry, every threshold and any  *)
(* number of crashes, timeouts and registry edits.                         *)
(*                                                                         *)
(* The inductive invariant ties the two streak counters of a tracker entry *)
(* to the verdict history of its device (Streaks), the settled value to    *)
(* the streaks (SettledByStreaks) and a tracker that has not been primed   *)
(* to an empty sweep (Unprimed).                                           *)
(***************************************************************************)
EXTENDS Poller, TLAPS

\* Each streak counts exactly the newest verdicts of its kind in the history.
Streaks(e, history) ==
    \A n \in Slots :
        /\ e.ok >= n <=> \A i \in 1..n : history[i] = "alive"
        /\ e.fail >= n <=> \A i \in 1..n : history[i] = "dead"

\* A streak that has reached its threshold has settled the entry.
SettledByStreaks(e) ==
    /\ e.ok >= OkThreshold => e.settled = "up"
    /\ e.fail >= FailThreshold => e.settled = "down"

EntryInv ==
    \A dim \in Dims, d \in Devices :
        /\ Streaks(tracker[dim][d], seen[dim][d])
        /\ SettledByStreaks(tracker[dim][d])

\* Before the first sweep of a process its tracker is empty and nothing runs.
Unprimed ==
    ~ loaded => \A dim \in Dims :
        /\ pc[dim] = "idle"
        /\ \A d \in Devices : tracker[dim][d] = FreshEntry

\* The rows left to visit have a verdict; only _apply has rows to visit or an
\* event to insert.
Visits ==
    \A dim \in Dims :
        /\ pc[dim] # "apply" => todo[dim] = {} /\ pending[dim] = None
        /\ \A d \in todo[dim] :
             /\ targets[dim][d] \in Addrs
             /\ results[dim][targets[dim][d]] \in {"alive", "dead"}

IInv == TypeOK /\ EntryInv /\ Unprimed /\ Visits

-----------------------------------------------------------------------------
(* The tracker *)

LEMMA ObserveType ==
    ASSUME NEW e \in Entry, NEW v \in {"alive", "dead"}
    PROVE  Count(e, v) \in Entry /\ Observe(e, v) \in Entry
PROOF
<1>1. Bump(e.ok) \in 0..Window /\ Bump(e.fail) \in 0..Window /\ 0 \in 0..Window
  BY ThresholdAssumption DEF Entry, Bump
<1>2. Count(e, v) \in Entry
  BY <1>1 DEF Entry, Count
<1>3. Target(v) \in Settled
  BY DEF Target, Settled
<1> QED
  BY <1>2, <1>3 DEF Entry, Observe

LEMMA ObserveStreaks ==
    ASSUME NEW e \in Entry, NEW v \in {"alive", "dead"},
           NEW h \in [Slots -> Verdicts], Streaks(e, h)
    PROVE  Streaks(Observe(e, v), Newest(h, v))
PROOF
<1> DEFINE o == Observe(e, v)  g == Newest(h, v)
<1> SUFFICES ASSUME NEW n \in Slots
             PROVE  /\ o.ok >= n <=> \A i \in 1..n : g[i] = "alive"
                    /\ o.fail >= n <=> \A i \in 1..n : g[i] = "dead"
  BY DEF Streaks
<1>1. /\ v = "alive" => o.ok = Bump(e.ok) /\ o.fail = 0
      /\ v = "dead" => o.fail = Bump(e.fail) /\ o.ok = 0
  BY DEF Entry, Observe, Flips, Count, Target
<1>2. g[1] = v /\ \A i \in 2..n : g[i] = h[i - 1]
  BY ThresholdAssumption DEF Newest, Slots
<1>3. \A i \in 1..(n - 1) : g[i + 1] = h[i]
  BY <1>2, ThresholdAssumption DEF Slots
<1>4. \A w \in {"alive", "dead"} :
        (\A i \in 1..n : g[i] = w) <=> v = w /\ \A i \in 1..(n - 1) : h[i] = w
  BY <1>2, <1>3 DEF Slots
<1>5. n > 1 =>
        (/\ e.ok >= n - 1 <=> \A i \in 1..(n - 1) : h[i] = "alive"
         /\ e.fail >= n - 1 <=> \A i \in 1..(n - 1) : h[i] = "dead")
  BY ThresholdAssumption DEF Streaks, Slots
<1>6. /\ Bump(e.ok) >= n <=> e.ok >= n - 1
      /\ Bump(e.fail) >= n <=> e.fail >= n - 1
  BY ThresholdAssumption DEF Bump, Entry, Slots
<1>7. n = 1 => /\ Bump(e.ok) >= n /\ Bump(e.fail) >= n
               /\ \A w \in {"alive", "dead"} : \A i \in 1..(n - 1) : h[i] = w
  BY ThresholdAssumption DEF Bump, Entry
<1>8. CASE n = 1
  BY <1>1, <1>4, <1>7, <1>8
<1>9. CASE n > 1
  <2>1. CASE v = "alive"
    <3>1. o.ok >= n <=> \A i \in 1..n : g[i] = "alive"
      BY <1>1, <1>4, <1>5, <1>6, <1>9, <2>1
    <3>2. ~ (o.fail >= n) /\ ~ \A i \in 1..n : g[i] = "dead"
      BY <1>1, <1>4, <1>9, <2>1 DEF Slots
    <3> QED  BY <3>1, <3>2
  <2>2. CASE v = "dead"
    <3>1. o.fail >= n <=> \A i \in 1..n : g[i] = "dead"
      BY <1>1, <1>4, <1>5, <1>6, <1>9, <2>2
    <3>2. ~ (o.ok >= n) /\ ~ \A i \in 1..n : g[i] = "alive"
      BY <1>1, <1>4, <1>9, <2>2 DEF Slots
    <3> QED  BY <3>1, <3>2
  <2> QED  BY <2>1, <2>2
<1> QED
  BY <1>8, <1>9, ThresholdAssumption DEF Slots

LEMMA ObserveSettles ==
    ASSUME NEW e \in Entry, NEW v \in {"alive", "dead"}, SettledByStreaks(e)
    PROVE  SettledByStreaks(Observe(e, v))
BY ThresholdAssumption
   DEF SettledByStreaks, Entry, Settled, Observe, Flips, Count, Bump, Target

LEMMA SeedInv ==
    ASSUME NEW value \in Values, NEW h \in [Slots -> Verdicts], Streaks(FreshEntry, h)
    PROVE  /\ Seed(value) \in Entry
           /\ Streaks(Seed(value), h)
           /\ SettledByStreaks(Seed(value))
BY ThresholdAssumption
   DEF Values, Seed, FreshEntry, Entry, Settled, Streaks, SettledByStreaks

LEMMA FreshInv ==
    /\ FreshEntry \in Entry
    /\ Streaks(FreshEntry, [i \in Slots |-> "none"])
    /\ SettledByStreaks(FreshEntry)
BY ThresholdAssumption DEF FreshEntry, Entry, Settled, Streaks, SettledByStreaks, Slots
-----------------------------------------------------------------------------
(* The sweeps *)

LEMMA InitInv == Init => IInv
PROOF
<1> SUFFICES ASSUME Init PROVE IInv
  OBVIOUS
<1>1. TypeOK
  BY FreshInv, BoundAssumption
     DEF Init, TypeOK, NoTargets, NoVerdicts, Verdicts, Values, Healths, Locations,
         Budgets
<1>2. EntryInv
  BY FreshInv DEF Init, EntryInv
<1>3. Unprimed /\ Visits
  BY DEF Init, Unprimed, Visits
<1> QED
  BY <1>1, <1>2, <1>3 DEF IInv

LEMMA EndSweepInv ==
    ASSUME IInv, NEW dim \in Dims, EndSweep(dim),
           pc[dim] # "idle",
           UNCHANGED loaded
    PROVE  /\ pc' \in [Dims -> Locations]
           /\ targets' \in [Dims -> [Devices -> Addrs \cup {None}]]
           /\ results' \in [Dims -> [Addrs -> Verdicts]]
           /\ todo' \in [Dims -> SUBSET Devices]
           /\ pending' \in [Dims -> Devices \cup {None}]
           /\ Visits'
           /\ loaded /\ Unprimed'
BY DEF IInv, TypeOK, EndSweep, NoTargets, NoVerdicts, Verdicts, Locations, Visits, Unprimed

LEMMA ObserveRowInv ==
    ASSUME IInv, NEW dim \in Dims, NEW d \in todo[dim], ObserveRow(dim, d)
    PROVE  /\ tracker' \in [Dims -> [Devices -> Entry]]
           /\ seen' \in [Dims -> [Devices -> [Slots -> Verdicts]]]
           /\ tracker'[dim][d].settled \in {"up", "down"}
           /\ EntryInv'
PROOF
<1> DEFINE v == results[dim][targets[dim][d]]
<1>1. v \in {"alive", "dead"} /\ d \in Devices
  BY DEF IInv, TypeOK, Visits
<1>2. /\ tracker \in [Dims -> [Devices -> Entry]]
      /\ seen \in [Dims -> [Devices -> [Slots -> Verdicts]]]
      /\ EntryInv
  BY DEF IInv, TypeOK
<1>3. /\ tracker' = [tracker EXCEPT ![dim][d] = Observe(tracker[dim][d], v)]
      /\ seen' = [seen EXCEPT ![dim][d] = Newest(seen[dim][d], v)]
  BY DEF ObserveRow
<1>4. Observe(tracker[dim][d], v) \in Entry
  BY <1>1, <1>2, ObserveType
<1>5. Newest(seen[dim][d], v) \in [Slots -> Verdicts]
  BY <1>1, <1>2, ThresholdAssumption DEF Newest, Slots, Verdicts
<1>6. /\ Streaks(Observe(tracker[dim][d], v), Newest(seen[dim][d], v))
      /\ SettledByStreaks(Observe(tracker[dim][d], v))
  BY <1>1, <1>2, ObserveStreaks, ObserveSettles DEF EntryInv
<1>7. EntryInv'
  BY <1>1, <1>2, <1>3, <1>6 DEF EntryInv
<1>8. Observe(tracker[dim][d], v).settled \in {"up", "down"}
  BY <1>1, <1>2 DEF Observe, Count, Flips, Target, Entry, Settled
<1> QED
  BY <1>1, <1>2, <1>3, <1>4, <1>5, <1>7, <1>8

LEMMA LoadInv ==
    ASSUME IInv, LoadInitialState, UNCHANGED seen
    PROVE  /\ tracker' \in [Dims -> [Devices -> Entry]]
           /\ EntryInv'
           /\ loaded' = TRUE
PROOF
<1>1. CASE loaded
  BY <1>1 DEF LoadInitialState, IInv, TypeOK, EntryInv
<1>2. CASE ~ loaded
  <2>1. \A k \in Dims, d \in Devices :
          tracker'[k][d] \in {FreshEntry, Seed(row[k][d])}
    BY <1>2 DEF LoadInitialState, IInv, Unprimed
  <2>2. \A k \in Dims, d \in Devices :
          /\ row[k][d] \in Values
          /\ seen[k][d] \in [Slots -> Verdicts]
          /\ Streaks(FreshEntry, seen[k][d])
    BY <1>2 DEF IInv, TypeOK, EntryInv, Unprimed
  <2>3. \A k \in Dims, d \in Devices :
          /\ tracker'[k][d] \in Entry
          /\ Streaks(tracker'[k][d], seen[k][d])
          /\ SettledByStreaks(tracker'[k][d])
    BY <2>1, <2>2, SeedInv, FreshInv
  <2>4. tracker' \in [Dims -> [Devices -> Entry]]
    BY <1>2, <2>3 DEF LoadInitialState
  <2> QED
    BY <2>3, <2>4 DEF LoadInitialState, EntryInv
<1> QED
  BY <1>1, <1>2

LEMMA SpendType ==
    ASSUME TypeOK, NEW what \in Budgets, Spend(what)
    PROVE  budget' \in [Budgets -> Nat]
BY DEF TypeOK, Spend

LEMMA NextInv == IInv /\ [Next]_vars => IInv'
PROOF
<1> SUFFICES ASSUME IInv, [Next]_vars PROVE IInv'
  OBVIOUS
<1> USE DEF IInv
<1>1. ASSUME NEW dim \in Dims, StartSweep(dim) PROVE IInv'
  <2>1. tracker' \in [Dims -> [Devices -> Entry]] /\ EntryInv' /\ loaded' = TRUE
    BY <1>1, LoadInv DEF StartSweep
  <2>2. Selected(dim) \in [Devices -> Addrs \cup {None}]
    BY DEF Selected, TypeOK
  <2>3. TypeOK'
    BY <1>1, <2>1, <2>2 DEF StartSweep, TypeOK, Locations
  <2>4. todo[dim] = {} /\ pending[dim] = None
    BY <1>1 DEF StartSweep, Visits
  <2>5. Visits' /\ Unprimed'
    BY <1>1, <2>1, <2>4 DEF StartSweep, Visits, Unprimed, TypeOK
  <2> QED
    BY <2>1, <2>3, <2>5
<1>2. ASSUME NEW dim \in Dims, SkipSweep(dim) PROVE IInv'
  <2>1. tracker' \in [Dims -> [Devices -> Entry]] /\ EntryInv' /\ loaded' = TRUE
    BY <1>2, LoadInv DEF SkipSweep
  <2> QED
    BY <1>2, <2>1 DEF SkipSweep, TypeOK, Healths, Visits, Unprimed
<1>3. ASSUME NEW dim \in Dims, NEW heard \in SUBSET Addrs, ProbeReturns(dim, heard)
      PROVE  IInv'
  <2> DEFINE verdicts == Answers(dim, heard)
  <2>1. verdicts \in [Addrs -> Verdicts]
    BY DEF Answers, Verdicts
  <2>2. \A d \in Writable(dim, verdicts) :
          /\ d \in Devices
          /\ targets[dim][d] \in Addrs
          /\ verdicts[targets[dim][d]] \in {"alive", "dead"}
    BY <2>1 DEF Writable, Verdicts
  <2>3. TypeOK'
    BY <1>3, <2>1, <2>2 DEF ProbeReturns, TypeOK, Locations
  <2>4. Visits'
    BY <1>3, <2>1, <2>2 DEF ProbeReturns, Visits, TypeOK
  <2>5. Unprimed'
    BY <1>3 DEF ProbeReturns, Unprimed
  <2>6. EntryInv'
    BY <1>3 DEF ProbeReturns, EntryInv
  <2> QED
    BY <2>3, <2>4, <2>5, <2>6
<1>4. ASSUME NEW dim \in Dims, NEW d \in Devices, Write(dim, d) PROVE IInv'
  <2>1. /\ tracker' \in [Dims -> [Devices -> Entry]]
        /\ seen' \in [Dims -> [Devices -> [Slots -> Verdicts]]]
        /\ tracker'[dim][d].settled \in {"up", "down"}
        /\ EntryInv'
    BY <1>4, ObserveRowInv DEF Write
  <2>2. TypeOK'
    BY <1>4, <2>1 DEF Write, TypeOK, Values
  <2>3. Visits'
    BY <1>4 DEF Write, Visits, TypeOK
  <2>4. Unprimed'
    BY <1>4 DEF Write, Unprimed
  <2> QED
    BY <2>1, <2>2, <2>3, <2>4
<1>5. ASSUME NEW dim \in Dims, NEW d \in Devices, WriteRaises(dim, d) PROVE IInv'
  <2>1. /\ tracker' \in [Dims -> [Devices -> Entry]]
        /\ seen' \in [Dims -> [Devices -> [Slots -> Verdicts]]]
        /\ EntryInv'
    BY <1>5, ObserveRowInv DEF WriteRaises
  <2>2. EndSweep(dim) /\ pc[dim] # "idle" /\ UNCHANGED loaded
    BY <1>5 DEF WriteRaises, Raise
  <2>3. budget' \in [Budgets -> Nat]
    BY <1>5, SpendType DEF Budgets, WriteRaises, Raise
  <2> QED
    BY <1>5, <2>1, <2>2, <2>3, EndSweepInv DEF WriteRaises, Raise, TypeOK, Healths
<1>6. ASSUME NEW dim \in Dims, LogEvent(dim) PROVE IInv'
  <2>1. pending[dim] \in Devices /\ pc[dim] = "apply"
    BY <1>6 DEF LogEvent, TypeOK, Visits
  <2>2. row[dim][pending[dim]] \in Values
    BY <2>1 DEF TypeOK
  <2>3. TypeOK'
    BY <1>6, <2>1, <2>2 DEF LogEvent, TypeOK
  <2> QED
    BY <1>6, <2>3 DEF LogEvent, EntryInv, Unprimed, Visits, TypeOK
<1>7. ASSUME NEW dim \in Dims, LogRaises(dim) PROVE IInv'
  <2>1. EndSweep(dim) /\ pc[dim] # "idle" /\ UNCHANGED loaded
    BY <1>7 DEF LogRaises, Raise, Visits
  <2>2. budget' \in [Budgets -> Nat]
    BY <1>7, SpendType DEF Budgets, LogRaises, Raise
  <2>3. EntryInv'
    BY <1>7 DEF LogRaises, EntryInv
  <2> QED
    BY <1>7, <2>1, <2>2, <2>3, EndSweepInv DEF LogRaises, Raise, TypeOK, Healths
<1>8. ASSUME NEW dim \in Dims, FinishSweep(dim) PROVE IInv'
  <2>1. EndSweep(dim) /\ pc[dim] # "idle" /\ UNCHANGED loaded
    BY <1>8 DEF FinishSweep
  <2>2. EntryInv'
    BY <1>8 DEF FinishSweep, EntryInv
  <2> QED
    BY <1>8, <2>1, <2>2, EndSweepInv DEF FinishSweep, TypeOK, Healths
<1>9. ASSUME NEW dim \in Dims, ProbeFails(dim) PROVE IInv'
  <2>1. EndSweep(dim) /\ pc[dim] # "idle" /\ UNCHANGED loaded
    BY <1>9 DEF ProbeFails
  <2>2. EntryInv'
    BY <1>9 DEF ProbeFails, EntryInv
  <2> QED
    BY <1>9, <2>1, <2>2, EndSweepInv DEF ProbeFails, TypeOK, Healths
<1>10. ASSUME NEW dim \in Dims, Timeout(dim) PROVE IInv'
  <2>1. EndSweep(dim) /\ pc[dim] # "idle" /\ UNCHANGED loaded
    BY <1>10 DEF Timeout
  <2>2. budget' \in [Budgets -> Nat]
    BY <1>10, SpendType DEF Budgets, Timeout
  <2>3. EntryInv'
    BY <1>10 DEF Timeout, EntryInv
  <2> QED
    BY <1>10, <2>1, <2>2, <2>3, EndSweepInv DEF Timeout, TypeOK
<1>11. ASSUME Crash PROVE IInv'
  <2>1. budget' \in [Budgets -> Nat]
    BY <1>11, SpendType DEF Budgets, Crash
  <2>2. TypeOK'
    BY <1>11, <2>1, FreshInv DEF Crash, TypeOK, Locations, NoTargets, NoVerdicts, Verdicts
  <2>3. EntryInv'
    BY <1>11, FreshInv DEF Crash, EntryInv
  <2>4. Unprimed' /\ Visits'
    BY <1>11 DEF Crash, Unprimed, Visits
  <2> QED
    BY <2>2, <2>3, <2>4
<1>12. ASSUME Environment PROVE IInv'
  <2>1. CASE \E d \in Devices, a \in Addrs \cup {None} : EditRegistry(d, a)
    <3>1. budget' \in [Budgets -> Nat]
      BY <2>1, SpendType DEF Budgets, EditRegistry
    <3> QED
      BY <2>1, <3>1 DEF EditRegistry, TypeOK, EntryInv, Unprimed, Visits
  <2>2. CASE \E a \in Addrs : HostChanges(a)
    BY <2>2 DEF HostChanges, TypeOK, EntryInv, Unprimed, Visits
  <2> QED
    BY <1>12, <2>1, <2>2 DEF Environment
<1>13. CASE UNCHANGED vars
  BY <1>13 DEF vars, TypeOK, EntryInv, Unprimed, Visits
<1> QED
  BY <1>1, <1>2, <1>3, <1>4, <1>5, <1>6, <1>7, <1>8, <1>9, <1>10, <1>11, <1>12, <1>13
     DEF Next, Sweep, Fault
\* The strengthened invariant holds of every behaviour.
THEOREM Invariance == Spec => []IInv
PROOF
<1> QED
  BY InitInv, NextInv, PTL DEF Spec

\* Poller.TypeOK holds whatever is registered and whatever fails.
THEOREM TypeCorrect == Spec => []TypeOK
PROOF
<1>1. IInv => TypeOK
  BY DEF IInv
<1> QED
  BY <1>1, Invariance, PTL

\* What an observed verdict moves it moves at the threshold.
LEMMA ObserveFlip ==
    ASSUME NEW e \in Entry, NEW v \in {"alive", "dead"}
    PROVE  /\ e.settled = "up" /\ Observe(e, v).settled = "down"
                => Observe(e, v).fail >= FailThreshold
           /\ e.settled = "down" /\ Observe(e, v).settled = "up"
                => Observe(e, v).ok >= OkThreshold
BY ThresholdAssumption DEF Entry, Settled, Observe, Flips, Count, Bump, Target

\* hysteresis.py:3-6: whatever the thresholds, whatever fails and however often the
\* process restarts, a tracker changes sides exactly on a full run of contrary verdicts.
THEOREM ThresholdsSettle == Spec => SettlesExactly
PROOF
<1> DEFINE FullRun(dim, d) ==
             /\ LastSay(dim, d, FailThreshold, "dead") => tracker[dim][d].settled = "down"
             /\ LastSay(dim, d, OkThreshold, "alive") => tracker[dim][d].settled = "up"
           Crosses(dim, d) ==
             /\ tracker[dim][d].settled = "up" /\ tracker'[dim][d].settled = "down" =>
                    LastSay(dim, d, FailThreshold, "dead")'
             /\ tracker[dim][d].settled = "down" /\ tracker'[dim][d].settled = "up" =>
                    LastSay(dim, d, OkThreshold, "alive")'
           Exact(dim, d) ==
             /\ LastSay(dim, d, FailThreshold, "dead")' => tracker'[dim][d].settled = "down"
             /\ LastSay(dim, d, OkThreshold, "alive")' => tracker'[dim][d].settled = "up"
             /\ tracker[dim][d].settled = "up" /\ tracker'[dim][d].settled = "down" =>
                    LastSay(dim, d, FailThreshold, "dead")'
             /\ tracker[dim][d].settled = "down" /\ tracker'[dim][d].settled = "up" =>
                    LastSay(dim, d, OkThreshold, "alive")'
<1>1. FailThreshold \in Slots /\ OkThreshold \in Slots
  BY ThresholdAssumption DEF Slots
<1>2. ASSUME IInv, [Next]_vars, NEW dim \in Dims, NEW d \in Devices PROVE Crosses(dim, d)
  <2>1. CASE tracker'[dim][d] = tracker[dim][d]
    BY <2>1
  <2>2. ASSUME NEW k \in Dims, NEW e \in Devices, Write(k, e) \/ WriteRaises(k, e)
        PROVE  Crosses(dim, d)
    <3>1. ObserveRow(k, e) /\ e \in todo[k]
      BY <2>2 DEF Write, WriteRaises
    <3>2. CASE <<k, e>> # <<dim, d>>
      BY <1>2, <3>1, <3>2, <2>1 DEF ObserveRow, IInv, TypeOK
    <3>3. CASE k = dim /\ e = d
      <4> DEFINE v == results[dim][targets[dim][d]]
      <4>1. v \in {"alive", "dead"}
        BY <1>2, <3>1, <3>3 DEF IInv, Visits
      <4>2. tracker[dim][d] \in Entry /\ tracker'[dim][d] = Observe(tracker[dim][d], v)
        BY <1>2, <3>1, <3>3 DEF ObserveRow, IInv, TypeOK
      <4>3. Streaks(tracker'[dim][d], seen'[dim][d])
        BY <1>2, NextInv DEF IInv, EntryInv
      <4> QED
        BY <1>1, <4>1, <4>2, <4>3, ObserveFlip DEF Streaks, LastSay
    <3> QED
      BY <3>2, <3>3
  <2>3. ASSUME LoadInitialState PROVE Crosses(dim, d)
    <3>1. CASE loaded
      BY <2>1, <2>3, <3>1 DEF LoadInitialState
    <3>2. CASE ~ loaded
      BY <1>2, <3>2 DEF IInv, Unprimed, FreshEntry
    <3> QED
      BY <3>1, <3>2
  <2>4. CASE Crash
    BY <2>4 DEF Crash, FreshEntry
  <2> QED
    BY <1>2, <2>1, <2>2, <2>3, <2>4 DEF Next, Sweep, Fault, Environment, StartSweep, SkipSweep,
       ProbeReturns, LogEvent, FinishSweep, ProbeFails, Timeout, LogRaises, EditRegistry,
       HostChanges, vars
<1>3. ASSUME IInv, [Next]_vars, NEW dim \in Dims, NEW d \in Devices PROVE Exact(dim, d)
  <2>1. Streaks(tracker'[dim][d], seen'[dim][d]) /\ SettledByStreaks(tracker'[dim][d])
    BY <1>3, NextInv DEF IInv, EntryInv
  <2>2. FullRun(dim, d)'
    BY <1>1, <2>1 DEF Streaks, SettledByStreaks, LastSay
  <2> QED
    BY <1>2, <1>3, <2>2
<1>4. IInv /\ [Next]_vars => \A dim \in Dims, d \in Devices : Exact(dim, d)
  BY <1>3
<1> QED
  BY <1>4, Invariance, PTL DEF Spec, SettlesExactly

-----------------------------------------------------------------------------
(* device_state, when the database calls of _write do not raise *)

\* Together with IInv inductive: no error is left to happen, and the tracker
\* agrees with device_state.
RowInv == IInv /\ budget["errors"] = 0 /\ RowIsSettled

LEMMA RowInit == ASSUME MaxDbErrors = 0 PROVE Init => RowInv
BY InitInv DEF Init, RowInv, RowIsSettled, Budgets

LEMMA RowNext == RowInv /\ [Next]_vars => RowInv'
PROOF
<1> SUFFICES ASSUME RowInv, [Next]_vars PROVE RowInv'
  OBVIOUS
<1> USE DEF RowInv
<1>1. IInv'
  BY NextInv
<1>2. budget["errors"] = 0 /\ budget \in [Budgets -> Nat]
  BY DEF IInv, TypeOK
<1>3. ~ Spend("errors")
  BY <1>2 DEF Spend
<1>4. (budget["errors"] = 0)'
  BY <1>2, <1>3 DEF Next, Sweep, Fault, Environment, StartSweep, SkipSweep, ProbeReturns,
     Write, LogEvent, FinishSweep, ProbeFails, Timeout, WriteRaises, LogRaises, Raise,
     Crash, EditRegistry, HostChanges, Spend, Budgets, vars
<1>5. RowIsSettled'
  <2>1. ASSUME LoadInitialState, UNCHANGED row PROVE RowIsSettled'
    <3>1. CASE loaded
      BY <2>1, <3>1 DEF LoadInitialState, RowIsSettled
    <3>2. CASE ~ loaded
      <4>1. \A k \in Dims, d \in Devices :
              tracker'[k][d] = IF row[k][d] = "absent" THEN FreshEntry ELSE Seed(row[k][d])
        BY <2>1, <3>2 DEF LoadInitialState, IInv, Unprimed
      <4>2. \A value : Seed(value).settled = IF value = "absent" THEN "unknown" ELSE value
        BY DEF Seed, FreshEntry
      <4>3. FreshEntry.settled = "unknown"
        BY DEF FreshEntry
      <4> QED
        BY <2>1, <4>1, <4>2, <4>3 DEF RowIsSettled
    <3> QED
      BY <3>1, <3>2
  <2>2. ASSUME NEW dim \in Dims, NEW d \in Devices, Write(dim, d) PROVE RowIsSettled'
    <3>1. tracker'[dim][d].settled \in {"up", "down"}
      BY <2>2, ObserveRowInv DEF Write
    <3>2. row' = [row EXCEPT ![dim][d] = tracker'[dim][d].settled] /\ loaded' = loaded
      BY <2>2 DEF Write
    <3>3. \A k \in Dims, e \in Devices : <<k, e>> # <<dim, d>> =>
            tracker'[k][e] = tracker[k][e] /\ row'[k][e] = row[k][e]
      BY <2>2 DEF Write, ObserveRow, IInv, TypeOK
    <3>4. Seed(row'[dim][d]).settled = tracker'[dim][d].settled
      BY <3>1, <3>2 DEF Seed, FreshEntry, IInv, TypeOK
    <3> QED
      BY <3>2, <3>3, <3>4 DEF RowIsSettled
  <2>3. ASSUME NEW dim \in Dims, StartSweep(dim) \/ SkipSweep(dim) PROVE RowIsSettled'
    BY <2>1, <2>3 DEF StartSweep, SkipSweep
  <2>4. CASE Crash
    BY <2>4 DEF Crash, RowIsSettled
  <2>5. ASSUME UNCHANGED <<tracker, row, loaded>> PROVE RowIsSettled'
    BY <2>5 DEF RowIsSettled
  <2> QED
    BY <1>3, <2>2, <2>3, <2>4, <2>5 DEF Next, Sweep, Fault, Environment, ProbeReturns,
       LogEvent, FinishSweep, ProbeFails, Timeout, WriteRaises, LogRaises, Raise,
       EditRegistry, HostChanges, vars
<1> QED
  BY <1>1, <1>4, <1>5

\* poller.py:78-88: while no database call raises, the tracker and device_state
\* agree, so a restart resumes exactly where the process died.
THEOREM RestartResumes == ASSUME MaxDbErrors = 0 PROVE Spec => []RowIsSettled
PROOF
<1>1. RowInv => RowIsSettled
  BY DEF RowInv
<1> QED
  BY <1>1, RowInit, RowNext, PTL DEF Spec

\* hysteresis.py:3-6: while no database call raises, device_state moves between
\* up and down only at the end of a full threshold of agreeing verdicts, however
\* many crashes, timeouts and registry edits a behaviour has.
THEOREM RowIsDamped == ASSUME MaxDbErrors = 0 PROVE Spec => RowDamped
PROOF
<1> DEFINE Damped(dim, d) ==
      /\ row[dim][d] = "up" /\ row'[dim][d] = "down" =>
           \A i \in 1..FailThreshold : seen'[dim][d][i] = "dead"
      /\ row[dim][d] = "down" /\ row'[dim][d] = "up" =>
           \A i \in 1..OkThreshold : seen'[dim][d][i] = "alive"
<1>1. ASSUME RowInv, [Next]_vars, NEW dim \in Dims, NEW d \in Devices
      PROVE  Damped(dim, d)
  <2>1. CASE UNCHANGED row
    BY <2>1
  <2>2. ASSUME NEW k \in Dims, NEW e \in Devices, Write(k, e) PROVE Damped(dim, d)
    <3>1. row' = [row EXCEPT ![k][e] = tracker'[k][e].settled]
      BY <2>2 DEF Write
    <3>2. CASE <<k, e>> # <<dim, d>>
      BY <1>1, <3>1, <3>2 DEF RowInv, IInv, TypeOK
    <3>3. CASE k = dim /\ e = d
      <4> DEFINE v == results[dim][targets[dim][d]]
      <4>1. v \in {"alive", "dead"} /\ loaded
        BY <1>1, <2>2, <3>3 DEF Write, RowInv, IInv, Visits, Unprimed
      <4>2. /\ tracker[dim][d] \in Entry
            /\ row[dim][d] \in Values
            /\ tracker'[dim][d] = Observe(tracker[dim][d], v)
        BY <1>1, <2>2, <3>3 DEF Write, ObserveRow, RowInv, IInv, TypeOK
      <4>3. row[dim][d] # "absent" => row[dim][d] = tracker[dim][d].settled
        BY <1>1, <4>1 DEF RowInv, RowIsSettled, Seed, FreshEntry
      <4>4. row'[dim][d] = tracker'[dim][d].settled
        BY <1>1, <3>1, <3>3 DEF RowInv, IInv, TypeOK
      <4>5. Streaks(tracker'[dim][d], seen'[dim][d])
        BY <1>1, NextInv DEF RowInv, IInv, EntryInv
      <4>6. FailThreshold \in Slots /\ OkThreshold \in Slots
        BY ThresholdAssumption DEF Slots
      <4> QED
        BY <4>1, <4>2, <4>3, <4>4, <4>5, <4>6, ObserveFlip DEF Streaks
    <3> QED
      BY <3>2, <3>3
  <2> QED
    BY <1>1, <2>1, <2>2 DEF Next, Sweep, Fault, Environment, StartSweep, SkipSweep,
       ProbeReturns, LogEvent, FinishSweep, ProbeFails, Timeout, WriteRaises, LogRaises,
       Raise, Crash, EditRegistry, HostChanges, vars
<1>2. RowInv /\ [Next]_vars => \A dim \in Dims, d \in Devices : Damped(dim, d)
  BY <1>1
<1>3. Spec => []RowInv
  BY RowInit, RowNext, PTL DEF Spec
<1> QED
  BY <1>2, <1>3, PTL DEF Spec, RowDamped

-----------------------------------------------------------------------------
(* What a sweep applies *)

\* A sweep that applies verdicts heard somebody, or had nobody to ask, and the
\* rows it has left to visit are on uncontested addresses.
AppliedInv ==
    \A dim \in Dims :
        /\ pc[dim] = "apply" => \/ targets[dim] = NoTargets
                                \/ \E a \in Addrs : results[dim][a] # "none"
        /\ pc[dim] # "apply" => todo[dim] = {}
        /\ \A d \in todo[dim] :
             /\ targets[dim][d] \in Addrs
             /\ targets[dim][d] \notin AmbiguousAddrs(targets[dim])

LEMMA AppliedInit == Init => AppliedInv
BY DEF Init, AppliedInv

LEMMA AppliedNext ==
    ASSUME TypeOK, AppliedInv, [Next]_vars
    PROVE  AppliedInv'
PROOF
<1> DEFINE Local(dim) == <<pc[dim], targets[dim], results[dim], todo[dim]>>
           Applied(dim) ==
             /\ pc[dim] = "apply" => \/ targets[dim] = NoTargets
                                     \/ \E a \in Addrs : results[dim][a] # "none"
             /\ pc[dim] # "apply" => todo[dim] = {}
             /\ \A d \in todo[dim] :
                  /\ targets[dim][d] \in Addrs
                  /\ targets[dim][d] \notin AmbiguousAddrs(targets[dim])
<1> SUFFICES ASSUME NEW dim \in Dims PROVE Applied(dim)'
  BY DEF AppliedInv
<1>1. Applied(dim)
  BY DEF AppliedInv
<1>2. CASE Local(dim)' = Local(dim)
  BY <1>1, <1>2
<1>3. ASSUME NEW k \in Dims, EndSweep(k) PROVE Applied(dim)'
  <2>1. CASE k = dim
    BY <1>3, <2>1 DEF EndSweep, TypeOK
  <2>2. CASE k # dim
    BY <1>2, <1>3, <2>2 DEF EndSweep, TypeOK
  <2> QED  BY <2>1, <2>2
<1>4. ASSUME NEW k \in Dims, StartSweep(k) PROVE Applied(dim)'
  <2>1. CASE k = dim
    <3>1. todo'[dim] = {} /\ pc'[dim] = "probing"
      BY <1>1, <1>4, <2>1 DEF StartSweep, TypeOK
    <3> QED
      BY <3>1
  <2>2. CASE k # dim
    BY <1>2, <1>4, <2>2 DEF StartSweep, TypeOK
  <2> QED  BY <2>1, <2>2
<1>5. ASSUME NEW k \in Dims, NEW heard \in SUBSET Addrs, ProbeReturns(k, heard)
      PROVE  Applied(dim)'
  <2> DEFINE verdicts == Answers(k, heard)
  <2>1. CASE k = dim
    <3>1. /\ results'[dim] = verdicts /\ targets'[dim] = targets[dim]
          /\ todo'[dim] = Writable(dim, verdicts) /\ pc'[dim] = "apply"
      BY <1>5, <2>1 DEF ProbeReturns, TypeOK
    <3>2. targets[dim] = NoTargets \/ \E a \in Addrs : verdicts[a] # "none"
      <4>1. CASE \E d \in Devices : targets[dim][d] # None
        BY <1>5, <2>1, <4>1 DEF ProbeReturns, Blind
      <4>2. CASE \A d \in Devices : targets[dim][d] = None
        <5>1. targets[dim] = [d \in Devices |-> targets[dim][d]]
          BY DEF TypeOK
        <5> QED  BY <4>2, <5>1 DEF NoTargets
      <4> QED  BY <4>1, <4>2
    <3>3. \A d \in Writable(dim, verdicts) :
            /\ targets[dim][d] \in Addrs
            /\ targets[dim][d] \notin AmbiguousAddrs(targets[dim])
      BY DEF Writable
    <3> HIDE DEF verdicts
    <3> QED
      BY <3>1, <3>2, <3>3
  <2>2. CASE k # dim
    BY <1>2, <1>5, <2>2 DEF ProbeReturns, TypeOK
  <2> QED  BY <2>1, <2>2
<1>6. ASSUME NEW k \in Dims, NEW d \in Devices, Write(k, d) PROVE Applied(dim)'
  <2>1. /\ UNCHANGED <<pc, targets, results>>
        /\ todo'[dim] \subseteq todo[dim]
    BY <1>6 DEF Write, TypeOK
  <2> QED
    BY <1>1, <2>1
<1>7. CASE Crash
  BY <1>7 DEF Crash
<1>8. CASE UNCHANGED <<pc, targets, results, todo>>
  BY <1>1, <1>8
<1> QED
  BY <1>3, <1>4, <1>5, <1>6, <1>7, <1>8 DEF Next, Sweep, Fault, Environment, SkipSweep,
     LogEvent, FinishSweep, ProbeFails, Timeout, WriteRaises, LogRaises, Raise,
     EditRegistry, HostChanges, vars

LEMMA Applied == Spec => [](TypeOK /\ AppliedInv)
PROOF
<1>1. TypeOK /\ AppliedInv /\ [Next]_vars => AppliedInv'
  BY AppliedNext
<1> QED
  BY <1>1, AppliedInit, TypeCorrect, PTL DEF Spec

\* poller.py:149-155 and 169-184: however the registry is edited while probes
\* are out, no verdict of an address contested when the sweep began is stored.
THEOREM ContestedNeverWritten == Spec => ContestedRefused
PROOF
<1> DEFINE Refused(dim, d, e) ==
      row'[dim][d] # row[dim][d] /\ targets[dim][d] = targets[dim][e] =>
        Hardware[d] = Hardware[e]
<1>1. ASSUME TypeOK, AppliedInv, [Next]_vars, NEW dim \in Dims, NEW d \in Devices,
             NEW e \in Devices, row'[dim][d] # row[dim][d], targets[dim][d] = targets[dim][e]
      PROVE  Hardware[d] = Hardware[e]
  <2>1. ~ UNCHANGED row
    BY <1>1
  <2>2. PICK k \in Dims, x \in Devices : Write(k, x)
    BY <1>1, <2>1 DEF Next, Sweep, Fault, Environment, StartSweep, SkipSweep,
       ProbeReturns, LogEvent, FinishSweep, ProbeFails, Timeout, WriteRaises, LogRaises,
       Crash, EditRegistry, HostChanges, vars
  <2>3. k = dim /\ x = d
    BY <1>1, <2>2 DEF Write, TypeOK
  <2>4. d \in todo[dim]
    BY <2>2, <2>3 DEF Write
  <2>5. targets[dim][d] \notin AmbiguousAddrs(targets[dim])
    BY <1>1, <2>4 DEF AppliedInv
  <2>6. targets[dim][d] \in Addrs
    BY <1>1, <2>4 DEF AppliedInv
  <2> QED
    BY <1>1, <2>5, <2>6 DEF AmbiguousAddrs
<1>2. TypeOK /\ AppliedInv /\ [Next]_vars =>
        \A dim \in Dims, d, e \in Devices : Refused(dim, d, e)
  BY <1>1
<1> QED
  BY <1>2, Applied, PTL DEF Spec, ContestedRefused

\* poller.py:30-39: whatever probes, crashes and database calls do, no sweep
\* that asked somebody and heard nobody ends as healthy.
THEOREM BlindNeverHealthy == Spec => BlindNotHealthy
PROOF
<1> DEFINE Heard(dim) ==
      health'[dim] = "ok" /\ pc[dim] = "apply" /\ pc'[dim] = "idle" =>
         \/ targets[dim] = NoTargets
         \/ \E a \in Addrs : results[dim][a] # "none"
<1>1. TypeOK /\ AppliedInv => \A dim \in Dims : Heard(dim)
  BY DEF AppliedInv
<1> QED
  BY <1>1, Applied, PTL DEF Spec, BlindNotHealthy
=============================================================================
