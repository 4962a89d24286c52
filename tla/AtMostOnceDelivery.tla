------------------------- MODULE AtMostOnceDelivery -------------------------
(***************************************************************************)
(* What a phone may rely on when it sends a request under an identity (the *)
(* promptDelivery contract): one identity reaches the upstream at most     *)
(* once, a receipt moves from "unknown" to one final answer, and trouble   *)
(* (crash, unreadable file) may lower what is known about a request that   *)
(* was called to "unknown", but never erase it before the identity retires.*)
(***************************************************************************)
EXTENDS Naturals

CONSTANTS Id,        \* request identities: (device, client id) pairs
          Content    \* what a request asks for

VARIABLES receipt,   \* what the journal knows about each identity
          calls,     \* how often the upstream was called, per identity and content
          retired,   \* identities too old ever to be called again
          serving    \* the journal is accepting new identities

vars == <<receipt, calls, retired, serving>>

Answer == {"accepted", "rejected"}
Receipt == Answer \cup {"none", "unknown"}

Called(i) == \E c \in Content : calls[i][c] > 0

\* r2 is r1 with the receipts of some retired identities dropped.
Pruned(r1, r2) ==
    \A i \in Id : r2[i] = r1[i] \/ (i \in retired /\ r2[i] = "none")

Init ==
    /\ receipt = [i \in Id |-> "none"]
    /\ calls = [i \in Id |-> [c \in Content |-> 0]]
    /\ retired \in SUBSET Id
    /\ serving = TRUE

\* The identity is remembered although the upstream was not called for it.
Remember(i) ==
    /\ serving
    /\ receipt[i] = "none"
    /\ receipt'[i] = "unknown"
    /\ Pruned([receipt EXCEPT ![i] = "unknown"], receipt')
    /\ UNCHANGED <<calls, retired, serving>>

\* The one call of the identity.
Call(i, c) ==
    /\ serving
    /\ i \notin retired
    /\ receipt[i] = "none"
    /\ ~Called(i)
    /\ receipt'[i] = "unknown"
    /\ Pruned([receipt EXCEPT ![i] = "unknown"], receipt')
    /\ calls' = [calls EXCEPT ![i][c] = 1]
    /\ UNCHANGED <<retired, serving>>

\* The upstream's answer to that call becomes the receipt.
Settle(i, answer) ==
    /\ serving
    /\ Called(i)
    /\ receipt[i] = "unknown"
    /\ receipt' = [receipt EXCEPT ![i] = answer]
    /\ UNCHANGED <<calls, retired, serving>>

Prune ==
    /\ Pruned(receipt, receipt')
    /\ UNCHANGED <<calls, retired, serving>>

Retire ==
    /\ retired' \in SUBSET Id
    /\ retired \subseteq retired'
    /\ UNCHANGED <<receipt, calls, serving>>

\* A crash, a restart or a damaged file.
Interrupt ==
    /\ serving' \in BOOLEAN
    /\ receipt' \in [Id -> Receipt]
    /\ \A i \in Id :
          \/ receipt'[i] \in {receipt[i], "unknown"}
          \/ ~Called(i) /\ receipt'[i] = "none"
          \/ i \in retired
    /\ UNCHANGED <<calls, retired>>

Next ==
    \/ \E i \in Id : Remember(i)
    \/ \E i \in Id, c \in Content : Call(i, c)
    \/ \E i \in Id, answer \in Answer : Settle(i, answer)
    \/ Prune
    \/ Retire
    \/ Interrupt

Spec == Init /\ [][Next]_vars
=============================================================================
