---------------------------- MODULE MCEthSwitch ----------------------------
(* Instances of EthSwitch: where the stations are. *)
EXTENDS EthSwitch

CONSTANTS c1, c2, c3, m1, m2, m3

\* Every client has one station.
OneStationEach == [m \in Macs |-> CASE m = m1 -> {c1} [] m = m2 -> {c2} [] m = m3 -> {c3}]

\* Client c1 has two, as a virtual machine behind a bridge of its own would.
TwoStations == [m \in Macs |-> IF m = m3 THEN {c2} ELSE {c1}]
============================================================================
