---------------------------- MODULE MCSessionMirror ---------------------------
(* A small instance of SessionMirror: one session with an approval and a       *)
(* question, two phones that answer, and two readings that may overtake each   *)
(* other.                                                                      *)
EXTENDS SessionMirror, TLC

CONSTANTS chat, approval, question, phone1, phone2, reading1, reading2

MCSessionOf == [q \in {approval, question} |-> chat]
MCKind == (approval :> "approval") @@ (question :> "question")
Symmetry == Permutations({phone1, phone2}) \cup Permutations({reading1, reading2})
=============================================================================
