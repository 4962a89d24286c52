-------------------------- MODULE MCLiveActivityPush --------------------------
(* Small instances of LiveActivityPush: phones that follow the rounds of one *)
(* session. A model value names a phone.                                     *)
EXTENDS LiveActivityPush, TLC

CONSTANTS phone1, phone2
=============================================================================
