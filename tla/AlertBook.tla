----------------------------- MODULE AlertBook -----------------------------
(***************************************************************************)
(* What the alert engine promises about the alerts of each matter it       *)
(* watches, whatever computes it: one alert at a time, told of exactly     *)
(* once, and kept until its reason has been gone at some moment.           *)
(***************************************************************************)
EXTENDS Integers

CONSTANT Pairs        \* the matters watched

VARIABLES alert,      \* the newest alert of each, open or closed
          noted,      \* how often the newest alert was told of
          resolved    \* open alerts whose reason has been gone at some moment

bookVars == <<alert, noted, resolved>>

Init ==
    /\ alert = [p \in Pairs |-> [id |-> 0, open |-> FALSE]]
    /\ noted = [p \in Pairs |-> 0]
    /\ resolved = {}

\* The reason of an open alert may go at any moment; that it went is not undone
\* while the alert is open.
World ==
    /\ resolved' \subseteq {p \in Pairs : alert'[p].open}
    /\ \A p \in resolved :
         alert'[p].open /\ alert'[p].id = alert[p].id => p \in resolved'

Open(p) ==
    /\ ~ alert[p].open
    /\ alert' = [alert EXCEPT ![p] = [id |-> @.id + 1, open |-> TRUE]]
    /\ noted' = [noted EXCEPT ![p] = 0]

Tell(p) ==
    /\ alert[p].open
    /\ noted[p] = 0
    /\ noted' = [noted EXCEPT ![p] = 1]
    /\ UNCHANGED alert

\* Nobody is left untold of an alert that came and went.
Close(p) ==
    /\ alert[p].open
    /\ noted[p] = 1
    /\ p \in resolved
    /\ alert' = [alert EXCEPT ![p].open = FALSE]
    /\ UNCHANGED noted

Next ==
    /\ World
    /\ \/ \E p \in Pairs : Open(p) \/ Tell(p) \/ Close(p)
       \/ UNCHANGED <<alert, noted>>

Spec == Init /\ [][Next]_bookVars
=============================================================================
