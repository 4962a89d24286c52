---------------------------- MODULE MCRemoteTransport ----------------------------
(* Small instances of RemoteTransport. *)
EXTENDS RemoteTransport, TLC

CONSTANTS i1, i2, h1, h2
=============================================================================
