---------------------------- MODULE MCLocalTransport ----------------------------
(* Small instances of LocalTransport. *)
EXTENDS LocalTransport, TLC

CONSTANTS l1, l2, l3
=============================================================================
