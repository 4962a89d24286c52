---------------------------- MODULE MCEventReplay ----------------------------
(* Small instances of EventReplay: a ring and a replay limit shorter than the *)
(* run, so that cursors fall out of the ring and replays become too long.     *)
EXTENDS EventReplay, TLC

CONSTANTS chat
=============================================================================
