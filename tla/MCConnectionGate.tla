--------------------------- MODULE MCConnectionGate ---------------------------
(* Small instances of ConnectionGate: windows of a few instants, so that       *)
(* attempts and failures age, blocks end and the table of sources overflows.   *)
EXTENDS ConnectionGate, TLC

CONSTANTS home, cafe, r1, r2, r3
=============================================================================
