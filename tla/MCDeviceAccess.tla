---------------------------- MODULE MCDeviceAccess ----------------------------
(* Small instances of DeviceAccess. *)
EXTENDS DeviceAccess, TLC

CONSTANTS phone, tablet, s1, s2, s3

MCSymmetry == Permutations({phone, tablet}) \cup Permutations({s1, s2, s3})
=============================================================================
