------------------------- MODULE MCDispatchJournal -------------------------
(* Small instances of DispatchJournal: identities sent at different times,  *)
(* so that one retires and is swept while another is still in its window.   *)
EXTENDS DispatchJournal, TLC

CONSTANTS early, middle, late, one, other, here, there, busy, internal

MCBirth == [i \in Id |-> IF i = early THEN 0 ELSE IF i = middle THEN 2 ELSE 4]
MCSessionOf == [c \in Content |-> IF c = one THEN here ELSE there]
=============================================================================
