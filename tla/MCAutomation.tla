---------------------------- MODULE MCAutomation ----------------------------
(***************************************************************************)
(* Workflow graphs on which TLC checks the runner.                         *)
(***************************************************************************)
EXTENDS Automation, TLC

CONSTANTS d1, d2, onNetwork, refresh, settle, recheck, reboot, havePort, poe, escalate,
          end, q1, q2

\* automation/seed.py: camera_down_remediation, with its branches on the
\* remembered port and on its switch, and their escalations, folded into one.
CameraWorkflow ==
    LET N == {onNetwork, refresh, settle, recheck, reboot, havePort, poe, escalate, end}
    IN  [first |-> onNetwork,
         kind  |-> [n \in N |->
            CASE n \in {onNetwork, recheck, havePort} -> "branch"
              [] n = refresh            -> "act"
              [] n = settle             -> "wait"
              [] n \in {reboot, poe}    -> "propose"
              [] n = escalate           -> "alert"
              [] n = end                -> "stop"],
         next  |-> [n \in N |->
            CASE n = onNetwork -> refresh
              [] n = refresh   -> settle
              [] n = settle    -> recheck
              [] n = recheck   -> reboot
              [] n = havePort  -> poe
              [] n \in {poe, escalate} -> end
              [] n \in {reboot, end}   -> None],
         no    |-> [n \in N |->
            CASE n = onNetwork -> havePort
              [] n = recheck   -> end
              [] n = havePort  -> escalate
              [] OTHER         -> None]]

\* One disruptive action, and nothing else.
PoeWorkflow == [first |-> poe, kind |-> [n \in {poe} |-> "propose"],
                next |-> [n \in {poe} |-> None], no |-> [n \in {poe} |-> None]]

\* Act, wait, propose.
RetryWorkflow ==
    LET N == {refresh, settle, reboot}
    IN  [first |-> refresh,
         kind  |-> [n \in N |-> CASE n = refresh -> "act"
                                  [] n = settle  -> "wait"
                                  [] n = reboot  -> "propose"],
         next  |-> [n \in N |-> CASE n = refresh -> settle
                                  [] n = settle  -> reboot
                                  [] n = reboot  -> None],
         no    |-> [n \in N |-> None]]

\* Act, wait, and tell the operators: nothing acts after the action.
RefreshThenAlert ==
    LET N == {refresh, settle, escalate}
    IN  [first |-> refresh,
         kind  |-> [n \in N |-> CASE n = refresh  -> "act"
                                  [] n = settle   -> "wait"
                                  [] n = escalate -> "alert"],
         next  |-> [n \in N |-> CASE n = refresh  -> settle
                                  [] n = settle   -> escalate
                                  [] n = escalate -> None],
         no    |-> [n \in N |-> None]]

PoeOnly       == {PoeWorkflow}
OneAction     == {RefreshThenAlert, PoeWorkflow}
RetryOnly     == {RetryWorkflow}
CameraThenPoe == {CameraWorkflow, PoeWorkflow}

\* No graph, property or fairness tells the devices apart.
DeviceSymmetry == Permutations({d1, d2})
=============================================================================
