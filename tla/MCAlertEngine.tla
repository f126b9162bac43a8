--------------------------- MODULE MCAlertEngine ---------------------------
(***************************************************************************)
(* Small estates and seeded rules on which TLC checks the alert engine.    *)
(***************************************************************************)
EXTENDS AlertEngine

CONSTANTS d1, d2, sourceDown, pingDown, t1, t2

\* device_source_down and device_down, the two reachability rules seeded by
\* migrations 002 and 003.
SeededDim  == [r \in Rules |-> IF r = sourceDown THEN "source_status" ELSE "ping"]
SeededCond == [r \in Rules |-> {"down"}]
FleetWide  == [r \in Rules |-> Devices]

\* The Milestone cycle and the live subscription store the status of cameras in
\* batches; the poller stores row by row.
CameraStatus == {"source_status"} \X Devices
=============================================================================
