--------------------------- MODULE MCDeviceRegistry ---------------------------
(* Small instances of DeviceRegistry. *)
EXTENDS DeviceRegistry, TLC

CONSTANTS phone, tablet, old, notify

\* The one scope stands for those that were added later: a device paired before
\* them has a legacy full set without it.
MCLegacy == {{}}
MCSymmetry == Permutations({phone, tablet})
=============================================================================
