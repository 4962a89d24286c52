---------------------------- MODULE DeviceAccess ----------------------------
(***************************************************************************)
(* What a phone may do, and until when: the registry of paired devices     *)
(* (token.ts) says it, each socket copies it when it authenticates         *)
(* (connection-gate.ts), and whoever changes the registry drops the        *)
(* sockets that hold the old copy, if index.ts still lists them.  A socket *)
(* that was closed in order answers nothing, but its frames are handled    *)
(* until the close is complete.                                            *)
(*                                                                         *)
(* A definition named X_Fault is X with a fault, kept to show that the     *)
(* properties can tell them apart; the specification does not use it.      *)
(***************************************************************************)
CONSTANTS Device, NoDevice, Scope,
          Socket        \* sockets at a time

ASSUME AccessAssumption == NoDevice \notin Device

VARIABLES registry, \* DeviceStore.devices
          sockets,  \* each connection and its gate
          unbound,  \* history: devices that unbound themselves and did not pair again
          repaired  \* history: devices that paired while known, until their sockets are dropped

history == <<unbound, repaired>>
accessVars == <<registry, sockets, history>>

Absent == [status |-> "absent", scopes |-> {}]
Active(d) == registry[d].status = "active"

\* "device" and "scopes" are what the gate copied; "silent" is its revoked flag.
NoSocket == [state |-> "none", device |-> NoDevice, scopes |-> {}, silent |-> FALSE,
             listed |-> FALSE]

AccessInit ==
    /\ registry = [d \in Device |-> Absent]
    /\ sockets = [s \in Socket |-> NoSocket]
    /\ unbound = {} /\ repaired = {}

\* The sockets a change of d drops: index.ts finds them in its list.
Terminated(d) ==
    [s \in Socket |-> IF sockets[s].listed /\ sockets[s].device = d
                      THEN NoSocket ELSE sockets[s]]

-----------------------------------------------------------------------------
\* register(), after a valid code: no socket is dropped.
Pair(d, scopes) ==
    /\ registry' = [registry EXCEPT ![d] = [status |-> "active", scopes |-> scopes]]
    /\ unbound' = unbound \ {d}
    /\ repaired' = IF registry[d] = Absent THEN repaired ELSE repaired \cup {d}
    /\ UNCHANGED sockets

\* setDeviceScopes of the settings page.
SetScopes_NextTime(d, scopes) ==
    /\ Active(d)
    /\ registry' = [registry EXCEPT ![d].scopes = scopes]
    /\ UNCHANGED <<sockets, history>>
SetScopes(d, scopes) ==
    /\ Active(d)
    /\ registry' = [registry EXCEPT ![d].scopes = scopes]
    /\ sockets' = Terminated(d)
    /\ repaired' = repaired \ {d}
    /\ UNCHANGED unbound

\* revokeDevice(): the sockets are dropped if this call revoked the device.
RevokeDevice(d) ==
    /\ Active(d)
    /\ registry' = [registry EXCEPT ![d].status = "revoked"]
    /\ sockets' = Terminated(d)
    /\ repaired' = repaired \ {d}
    /\ UNCHANGED unbound

\* c2s.device.revoke: the device is revoked first, so that the revokeDevice() that
\* follows finds nothing to revoke; the answer goes out and the socket closes.
Unbind(s) ==
    LET d == sockets[s].device
    IN  /\ d # NoDevice /\ ~sockets[s].silent
        /\ registry' = [registry EXCEPT ![d].status = IF @ = "active" THEN "revoked" ELSE @]
        /\ sockets' = [sockets EXCEPT ![s].silent = TRUE, ![s].state = "closing"]
        /\ unbound' = unbound \cup {d}
        /\ UNCHANGED repaired

-----------------------------------------------------------------------------
\* handleUpgrade() brought a socket up.
Opens(s) ==
    /\ sockets[s] = NoSocket
    /\ sockets' = [sockets EXCEPT ![s].state = "open", ![s].listed = TRUE]
    /\ UNCHANGED <<registry, history>>

\* authenticate(): also when the socket is closing, also when it has authenticated.
MayProve(s, d) ==
    sockets[s].state # "none" /\ ~sockets[s].silent /\ Active(d)
Prove(s, d) ==
    /\ MayProve(s, d)
    /\ sockets' = [sockets EXCEPT ![s].device = d, ![s].scopes = registry[d].scopes]
    /\ UNCHANGED <<registry, history>>

\* The sweep, or the end of the bridge: the socket is closed in order and forgotten.
Forgets(s) ==
    /\ sockets[s].listed
    /\ sockets' = [sockets EXCEPT ![s].state = "closing", ![s].listed = FALSE]
    /\ UNCHANGED <<registry, history>>

\* A slow client or an invalid proof: the socket is closed in order.
Closes(s) ==
    /\ sockets[s].state = "open"
    /\ sockets' = [sockets EXCEPT ![s].state = "closing"]
    /\ UNCHANGED <<registry, history>>

\* The socket has closed: onClosed of index.ts.
Closed(s) ==
    /\ sockets[s].state # "none"
    /\ sockets' = [sockets EXCEPT ![s] = NoSocket]
    /\ UNCHANGED <<registry, history>>

AccessNext ==
    \/ \E d \in Device :
          \/ \E scopes \in SUBSET Scope : Pair(d, scopes) \/ SetScopes(d, scopes)
          \/ RevokeDevice(d)
          \/ \E s \in Socket : Prove(s, d)
    \/ \E s \in Socket : Unbind(s) \/ Opens(s) \/ Forgets(s) \/ Closes(s) \/ Closed(s)

AccessSpec == AccessInit /\ [][AccessNext]_accessVars

-----------------------------------------------------------------------------
(***************************************************************************)
(* Properties.                                                             *)
(***************************************************************************)

AccessTypeOK ==
    /\ registry \in [Device -> [status : {"absent", "active", "revoked"}, scopes : SUBSET Scope]]
    /\ sockets \in [Socket -> [state : {"none", "open", "closing"},
                               device : Device \cup {NoDevice}, scopes : SUBSET Scope,
                               silent : BOOLEAN, listed : BOOLEAN]]
    /\ unbound \subseteq Device /\ repaired \subseteq Device
    /\ \A s \in Socket : sockets[s].state = "none" => sockets[s] = NoSocket

\* scopeRejection(): the frames of this socket are handled with the scopes it copied.
HasAuthority(s) == sockets[s].device # NoDevice /\ ~sockets[s].silent
IsCurrent(s) ==
    LET record == registry[sockets[s].device]
    IN  record.status = "active" /\ sockets[s].scopes = record.scopes

\* A socket that is up acts with the rights its device has now: a change of scopes or
\* a revocation leaves no socket behind that copied the old ones.  Two ways are known
\* around it: a phone that unbinds itself (SiblingsAreDropped) and one that pairs again.
AuthorityIsCurrent ==
    \A s \in Socket :
        /\ HasAuthority(s) /\ sockets[s].state = "open"
        /\ sockets[s].device \notin unbound \cup repaired
        => IsCurrent(s)

\* The same of every socket whose frames are still handled, closing ones included.
NoFrameWithOldAuthority == \A s \in Socket : HasAuthority(s) => IsCurrent(s)

\* Once a phone has unbound itself no other socket of its device has authority.
SiblingsAreDropped ==
    \A s \in Socket : HasAuthority(s) /\ sockets[s].state = "open"
        => sockets[s].device \notin unbound

=============================================================================
