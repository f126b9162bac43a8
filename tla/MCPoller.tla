------------------------------ MODULE MCPoller ------------------------------
(***************************************************************************)
(* Small estates on which TLC checks the poller.                           *)
(***************************************************************************)
EXTENDS Poller

CONSTANTS d1, d2, d3, ping, snmp

\* Every device is swept in every dimension.
SweepAll == [dim \in Dims |-> Devices]

\* d1 and d2 are channels of one camera; d3, alone in answering SNMP, is not.
CameraAndSwitch == [d \in Devices |-> IF d = d2 THEN d1 ELSE d]
PingAllSnmpOne  == [dim \in Dims |-> IF dim = snmp THEN {d3} ELSE Devices]
=============================================================================
