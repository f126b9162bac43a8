------------------------------ MODULE Rollout ------------------------------
(***************************************************************************)
(* What a staged firmware roll promises, whatever runs it: every camera is *)
(* sent the image at most once, a rehearsal sends nothing, and a camera is *)
(* sent it only when every ring before its own has concluded and passed.   *)
(* Ring 0 holds the canaries, and passes only if all of them proved the    *)
(* new version.                                                            *)
(***************************************************************************)
EXTENDS Integers, FiniteSets

CONSTANTS Items,        \* the cameras of the roll
          RingOf,       \* the ring each of them is in
          AbortPct      \* a later ring passes with at most this share of failures

VARIABLES dry,          \* the roll is a rehearsal
          uploads,      \* how often each camera was sent the image
          result        \* what became of each camera, "none" while unknown

rollVars == <<dry, uploads, result>>

Outcomes == {"verified", "indeterminate", "failed", "would_run"}

Ring(k) == {i \in Items : RingOf[i] = k}

\* Whether ring k, all of it concluded, lets the next ring begin.
RingPasses(k, res) ==
    LET bad == {i \in Ring(k) : res[i] \in {"failed", "indeterminate"}}
    IN  IF k = 0
        THEN \A i \in Ring(0) : res[i] = "verified"
        ELSE (Cardinality(bad) * 100) \div Cardinality(Ring(k)) <= AbortPct

Cleared(i, res) ==
    \A j \in Items : RingOf[j] < RingOf[i] =>
        /\ res[j] # "none"
        /\ RingPasses(RingOf[j], res)

Init ==
    /\ dry \in BOOLEAN
    /\ uploads = [i \in Items |-> 0]
    /\ result = [i \in Items |-> "none"]

Send(i) ==
    /\ ~dry
    /\ uploads[i] = 0
    /\ result[i] = "none"
    /\ Cleared(i, result)
    /\ uploads' = [uploads EXCEPT ![i] = 1]
    /\ UNCHANGED <<dry, result>>

\* Only a camera that was sent the image can be found to run it.
Conclude(i, r) ==
    /\ result[i] = "none"
    /\ r = "would_run" <=> dry
    /\ r \in {"verified", "indeterminate"} => uploads[i] = 1
    /\ result' = [result EXCEPT ![i] = r]
    /\ UNCHANGED <<dry, uploads>>

Next == \E i \in Items : Send(i) \/ \E r \in Outcomes : Conclude(i, r)

Spec == Init /\ [][Next]_rollVars
=============================================================================
