--------------------------- MODULE SessionMirror ----------------------------
(***************************************************************************)
(* What the bridge mirrors of the Host (host-bridge.ts, dsh-api-proxy.ts): *)
(* the session list, which events and whole readings of the list change    *)
(* side by side, and the approvals and questions that wait for an answer.  *)
(* Phones hold a copy of the list, made of the rows they were sent, and    *)
(* the cards of what waits.                                                *)
(*                                                                         *)
(* Host frames are handled in the task that raises them; the frames of the *)
(* interactions pass a queue, and every await of the bridge is a place     *)
(* where anything else may happen.                                         *)
(*                                                                         *)
(* A definition named X_Fault is X with a fault, kept to show that the     *)
(* properties can tell them apart; the specification does not use it.      *)
(***************************************************************************)
EXTENDS Naturals, Sequences, FiniteSets

CONSTANTS Session, NoRow,
          Request,         \* approvals and questions
          SessionOf, Kind, \* of each request, its session and which of the two it is
          Phone,
          Reading,         \* bound: refreshSummaries() under way at a time
          TransportFails,  \* requests for which apiProxy.respond may be rejected
          FirstStates,     \* bound: the states of the sessions when the bridge starts
          MaxChanges       \* bound: changes of the Host's sessions

ASSUME MirrorAssumption ==
    /\ SessionOf \in [Request -> Session]
    /\ Kind \in [Request -> {"approval", "question"}]
    /\ IsFiniteSet(Request)
    /\ TransportFails \subseteq Request
    /\ FirstStates \subseteq {"absent", "idle", "running", "archived"}
    /\ MaxChanges \in Nat

VARIABLES host,         \* the sessions as the Host has them
          changes,      \* how often they changed
          summaries, archivedIds, \* the bridge's mirror of them
          pushed,       \* summaryPushed: the row sent last
          timers,       \* summaryStatsTimers
          readings,     \* refreshSummaries() under way
          phoneList,    \* the rows a phone has, from the deltas it was sent
          mistaken,     \* sessions a list that was out of date was applied to
          interactions, \* DshApiProxy.interactions
          muxFrames,    \* the queue of mux()
          pending,      \* approvals and questions of the bridge
          loading,      \* loadApprovalArguments() under way
          claims,       \* what each phone is answering
          cards,        \* the requests phones show
          asked,        \* requests the Host has made so far
          unbumped,     \* sessions whose badge was left alone when it might have changed
          stranded      \* requests given back after the Host had settled them

mirrorVars == <<host, changes, archivedIds, readings, mistaken>>
listVars == <<summaries, pushed, timers, phoneList>>
requestVars == <<interactions, muxFrames, pending, loading, claims, cards, asked, stranded>>
vars == <<mirrorVars, listVars, requestVars, unbumped>>

Row == [running : BOOLEAN, flags : SUBSET {"approval", "question"}, stats : 0..1]
HostRow == [state : {"absent", "idle", "running", "archived"}, stats : 0..1]
NoReading == [at |-> "none", rows |-> <<>>, archived |-> {}, behind |-> {}]
NoClaim == [on |-> {}, receipt |-> "none"]
Archived == {s \in Session : host[s].state = "archived"}

ASSUME NoRowAssumption == NoRow \notin Row

\* The flags of a row are those of what waits for an answer at that moment.
Flags(s, waiting) == {Kind[q] : q \in {r \in waiting : SessionOf[r] = s}}
ToSummary(s, row) ==
    [running |-> row.state = "running", flags |-> Flags(s, pending), stats |-> row.stats]

Init ==
    /\ host \in [Session -> [state : FirstStates, stats : {0}]]
    /\ changes = 0
    /\ archivedIds = {}
    /\ \E r \in Reading :
          readings = [x \in Reading |-> IF x = r THEN [NoReading EXCEPT !.at = "list"] ELSE NoReading]
    /\ mistaken = Session
    /\ summaries = [s \in Session |-> NoRow]
    /\ pushed = [s \in Session |-> NoRow]
    /\ timers = {}
    /\ phoneList = [s \in Session |-> NoRow]
    /\ interactions = {} /\ muxFrames = <<>> /\ pending = {} /\ loading = {} /\ cards = {}
    /\ claims = [p \in Phone |-> NoClaim]
    /\ asked = {}
    /\ unbumped = {} /\ stranded = {}

-----------------------------------------------------------------------------
(* pushSummary(): a row that differs from the one sent last is sent, but a *)
(* change of the statistics alone may wait for a timer.                    *)

WithoutStats(row) == [row EXCEPT !.stats = 0]

PushSummary(s, row, armed) ==
    /\ summaries' = [summaries EXCEPT ![s] = row]
    /\ \/ /\ row = pushed[s]
          /\ timers' = armed
          /\ UNCHANGED <<pushed, phoneList>>
       \/ /\ row # pushed[s] /\ pushed[s] # NoRow
          /\ WithoutStats(row) = WithoutStats(pushed[s])
          /\ timers' = armed \cup {s}
          /\ UNCHANGED <<pushed, phoneList>>
       \/ /\ row # pushed[s]
          /\ timers' = armed \ {s}
          /\ pushed' = [pushed EXCEPT ![s] = row]
          /\ phoneList' = [phoneList EXCEPT ![s] = row]

\* A change of a row the mirror has.
Update(s, row) ==
    IF summaries[s] = NoRow THEN UNCHANGED listVars ELSE PushSummary(s, row, timers)

TimerFires(s) ==
    /\ s \in timers
    /\ IF summaries[s] = NoRow
       THEN timers' = timers \ {s} /\ UNCHANGED <<summaries, pushed, phoneList>>
       ELSE PushSummary(s, summaries[s], timers \ {s})
    /\ UNCHANGED <<mirrorVars, requestVars, unbumped>>

-----------------------------------------------------------------------------
(* The Host, and onHostFrame()/onMuxFrame() for its frames.                *)

HostBecomes(s, row) ==
    /\ changes < MaxChanges
    /\ changes' = changes + 1
    /\ host' = [host EXCEPT ![s] = row]

\* Whoever has read the list does not know of a change of s.
Outdated(s) == [r \in Reading |->
    IF readings[r].at \in {"workspace", "apply"}
    THEN [readings[r] EXCEPT !.behind = @ \cup {s}] ELSE readings[r]]

WithRefresh(old, new) ==
    \E r \in Reading : old[r].at = "none" /\ new = [old EXCEPT ![r] = [NoReading EXCEPT !.at = "list"]]

\* host/session-added, host/session-removed
SessionComesOrGoes(s) ==
    /\ \/ host[s].state = "absent" /\ HostBecomes(s, [state |-> "idle", stats |-> 0])
       \/ host[s].state = "idle" /\ HostBecomes(s, [state |-> "absent", stats |-> 0])
    /\ WithRefresh(Outdated(s), readings')
    /\ mistaken' = mistaken \cup {s}
    /\ UNCHANGED <<archivedIds, listVars, requestVars, unbumped>>

\* host/archived-sessions-changed
ArchiveChanges(s) ==
    /\ \/ host[s].state = "idle" /\ HostBecomes(s, [host[s] EXCEPT !.state = "archived"])
       \/ host[s].state = "archived" /\ HostBecomes(s, [host[s] EXCEPT !.state = "idle"])
    /\ archivedIds' = Archived'
    /\ WithRefresh(Outdated(s), readings')
    /\ mistaken' = mistaken \cup {s}
    /\ UNCHANGED <<listVars, requestVars, unbumped>>

\* The answer to a phone's archiveSession(), behind the frame of the change.
ArchiveAnswered(s) ==
    /\ host[s].state = "archived" /\ summaries[s] # NoRow
    /\ archivedIds' = Archived
    /\ summaries' = [summaries EXCEPT ![s] = NoRow]
    /\ pushed' = [pushed EXCEPT ![s] = NoRow]
    /\ timers' = timers \ {s}
    /\ phoneList' = [phoneList EXCEPT ![s] = NoRow]
    /\ UNCHANGED <<host, changes, readings, mistaken, requestVars, unbumped>>

\* host/session-status
StatusChanges(s) ==
    /\ \/ host[s].state = "idle" /\ HostBecomes(s, [host[s] EXCEPT !.state = "running"])
       \/ host[s].state = "running" /\ HostBecomes(s, [host[s] EXCEPT !.state = "idle"])
    /\ readings' = Outdated(s)
    /\ Update(s, [summaries[s] EXCEPT !.running = host'[s].state = "running"])
    /\ UNCHANGED <<archivedIds, mistaken, requestVars, unbumped>>

\* session/projection with sessionStats or tokenUsage
StatsChange(s) ==
    /\ host[s].state = "running"
    /\ HostBecomes(s, [host[s] EXCEPT !.stats = 1 - @])
    /\ readings' = Outdated(s)
    /\ Update(s, [summaries[s] EXCEPT !.stats = host'[s].stats])
    /\ UNCHANGED <<archivedIds, mistaken, requestVars, unbumped>>

\* api-session/activity, or a change of the workspaces
NewsOfTheList ==
    /\ WithRefresh(readings, readings')
    /\ UNCHANGED <<host, changes, archivedIds, mistaken, listVars, requestVars, unbumped>>

-----------------------------------------------------------------------------
(* refreshSummaries(): the list is read, then the workspaces, and both are *)
(* applied when the second answer is there. Whatever happens on the way is *)
(* not in what was read.                                                   *)

ListRead(r) ==
    /\ readings[r].at = "list"
    /\ readings' = [readings EXCEPT ![r] = [NoReading EXCEPT !.at = "workspace", !.rows = host]]
    /\ UNCHANGED <<host, changes, archivedIds, mistaken, listVars, requestVars, unbumped>>

\* Either answer is an error or does not come: the mirror stays as it is.
ReadingFails(r) ==
    /\ readings[r].at \in {"list", "workspace"}
    /\ readings' = [readings EXCEPT ![r] = NoReading]
    /\ UNCHANGED <<host, changes, archivedIds, mistaken, listVars, requestVars, unbumped>>

WorkspaceRead(r) ==
    /\ readings[r].at = "workspace"
    /\ readings' = [readings EXCEPT ![r].at = "apply", ![r].archived = Archived]
    /\ UNCHANGED <<host, changes, archivedIds, mistaken, listVars, requestVars, unbumped>>

\* The rows of the list that are shown: an archived session is kept apart.
NextSummaries_AllRows(rows, archived) == [s \in Session |->
    IF rows[s].state = "absent" THEN NoRow ELSE ToSummary(s, rows[s])]
NextSummaries(rows, archived) == [s \in Session |->
    IF rows[s].state = "absent" \/ s \in archived THEN NoRow ELSE ToSummary(s, rows[s])]

\* summaryPushed after a whole list: noteSummaryPushed() and forgetSummaryPush().
NotePushed_Not(next) == [s \in Session |-> IF next[s] = NoRow THEN NoRow ELSE pushed[s]]
NotePushed(next) == next

ApplyReading(r, archived, unknown) ==
    /\ archivedIds' = archived
    /\ summaries' = NextSummaries(readings[r].rows, archived)
    /\ pushed' = NotePushed(summaries')
    /\ phoneList' = summaries'
    /\ timers' = {s \in timers : summaries[s] = NoRow /\ summaries'[s] = NoRow}
    /\ mistaken' = readings[r].behind \cup unknown
    /\ unbumped' = {}
    /\ readings' = [readings EXCEPT ![r] = NoReading]
    /\ UNCHANGED <<host, changes, requestVars>>

Apply(r) == readings[r].at = "apply" /\ ApplyReading(r, readings[r].archived, {})

\* workspaces.list is not offered, or its result is an error.
ApplyWithoutWorkspace(r) ==
    readings[r].at = "workspace" /\ ApplyReading(r, archivedIds, mistaken)

-----------------------------------------------------------------------------
(* Approvals and questions. Official clients are told of the same requests *)
(* and the first to answer settles one.                                    *)

\* answerApproval(), answerQuestion()
HostAsks(q) ==
    /\ q \notin asked
    /\ asked' = asked \cup {q}
    /\ interactions' = interactions \cup {q}
    /\ muxFrames' = Append(muxFrames, [type |-> "requested", request |-> q])
    /\ UNCHANGED <<mirrorVars, listVars, pending, loading, claims, cards, stranded, unbumped>>

\* The promise of the request is settled, and its finally() runs.
Settle(q) ==
    /\ interactions' = interactions \ {q}
    /\ muxFrames' = Append(muxFrames, [type |-> "resolved", request |-> q])

\* Another client answered, or the turn was cancelled: the signal is aborted.
Aborted(q) ==
    /\ q \in interactions
    /\ Settle(q)
    /\ UNCHANGED <<mirrorVars, listVars, pending, loading, claims, cards, asked, stranded, unbumped>>

\* bumpPendingFlags(), when the requests of the bridge are `waiting`
BumpPendingFlags(s, waiting) ==
    /\ Update(s, [summaries[s] EXCEPT !.flags = Flags(s, waiting)])
    /\ unbumped' = unbumped \ {s}

Requested(q) ==
    /\ pending' = pending \cup {q}
    /\ cards' = cards \cup {q}
    /\ \/ loading' = loading
       \/ Kind[q] = "approval" /\ loading' = loading \cup {q} \* it names a call
    /\ BumpPendingFlags(SessionOf[q], pending')

Resolved(q) ==
    /\ pending' = pending \ {q}
    /\ cards' = cards \ {q}
    /\ loading' = loading
    /\ IF q \in pending THEN BumpPendingFlags(SessionOf[q], pending')
       ELSE UNCHANGED <<listVars, unbumped>>

\* onMuxFrame(): approval/requested, question/requested, .../resolved
MuxFrame ==
    /\ muxFrames # <<>>
    /\ muxFrames' = Tail(muxFrames)
    /\ \/ Head(muxFrames).type = "requested" /\ Requested(Head(muxFrames).request)
       \/ Head(muxFrames).type = "resolved" /\ Resolved(Head(muxFrames).request)
    /\ UNCHANGED <<mirrorVars, interactions, claims, asked, stranded>>

\* loadApprovalArguments() asks for the request itself, not for its name.
StillPending_Unchecked(q) == TRUE
StillPending(q) == q \in pending

ArgumentsArrive(q) ==
    /\ q \in loading
    /\ loading' = loading \ {q}
    /\ \/ cards' = cards \* no arguments, or the history cannot be read
       \/ StillPending(q) /\ cards' = cards \cup {q}
    /\ UNCHANGED <<mirrorVars, listVars, interactions, muxFrames, pending, claims, asked, stranded, unbumped>>

\* respondApproval(), respondQuestion(): claim the request, then hand in the answer.
Respond(p, q) ==
    /\ claims[p] = NoClaim
    /\ q \in pending
    /\ pending' = pending \ {q}
    /\ \/ /\ q \in interactions
          /\ Settle(q)
          /\ claims' = [claims EXCEPT ![p] = [on |-> {q}, receipt |-> "accepted"]]
       \/ /\ q \notin interactions
          /\ claims' = [claims EXCEPT ![p] = [on |-> {q}, receipt |-> "not-pending"]]
          /\ UNCHANGED <<interactions, muxFrames>>
       \/ /\ q \in TransportFails
          /\ claims' = [claims EXCEPT ![p] = [on |-> {q}, receipt |-> "transport"]]
          /\ UNCHANGED <<interactions, muxFrames>>
    /\ UNCHANGED <<mirrorVars, listVars, loading, cards, asked, stranded, unbumped>>

\* What is given back for another try: a request that is final is not.
GivenBack(claim) == IF claim.receipt = "transport" THEN claim.on ELSE {}

ToldOf(q) == \E i \in DOMAIN muxFrames : muxFrames[i].request = q

\* Whether the flags are computed again when the answer was handed in.
Bumps_Never(claim) == FALSE
Bumps(claim) == claim.receipt = "accepted"

Receipt(p, q) ==
    /\ claims[p].on = {q}
    /\ claims' = [claims EXCEPT ![p] = NoClaim]
    /\ pending' = pending \cup GivenBack(claims[p])
    /\ stranded' = stranded \cup
          {r \in {q} : claims[p].receipt = "transport" /\ r \notin interactions /\ ~ToldOf(r)}
    /\ IF Bumps(claims[p]) THEN BumpPendingFlags(SessionOf[q], pending')
       ELSE /\ unbumped' = unbumped \cup
                   (IF claims[p].receipt = "accepted" THEN {} ELSE {SessionOf[q]})
            /\ UNCHANGED listVars
    /\ UNCHANGED <<mirrorVars, interactions, muxFrames, loading, cards, asked>>

-----------------------------------------------------------------------------
Next ==
    \/ \E s \in Session : \/ TimerFires(s) \/ SessionComesOrGoes(s) \/ ArchiveChanges(s)
                           \/ ArchiveAnswered(s) \/ StatusChanges(s) \/ StatsChange(s)
    \/ NewsOfTheList
    \/ \E r \in Reading : \/ ListRead(r) \/ ReadingFails(r) \/ WorkspaceRead(r)
                           \/ Apply(r) \/ ApplyWithoutWorkspace(r)
    \/ MuxFrame
    \/ \E q \in Request : \/ HostAsks(q) \/ Aborted(q) \/ ArgumentsArrive(q)
                           \/ \E p \in Phone : Respond(p, q) \/ Receipt(p, q)

Spec == Init /\ [][Next]_vars

-----------------------------------------------------------------------------
(* Properties                                                              *)

\* The rows of the list, the readings and the requests have the types of
\* SessionSummary, PendingApproval and PendingQuestion.
TypeOK ==
    /\ host \in [Session -> HostRow] /\ changes \in Nat
    /\ summaries \in [Session -> Row \cup {NoRow}] /\ pushed \in [Session -> Row \cup {NoRow}]
    /\ phoneList \in [Session -> Row \cup {NoRow}]
    /\ timers \subseteq Session /\ archivedIds \subseteq Session
    /\ mistaken \subseteq Session /\ unbumped \subseteq Session
    /\ readings \in [Reading -> [at : {"none", "list"}, rows : {<<>>}, archived : SUBSET Session,
                                  behind : SUBSET Session]
                        \cup [at : {"workspace", "apply"}, rows : [Session -> HostRow],
                              archived : SUBSET Session, behind : SUBSET Session]]
    /\ interactions \subseteq Request /\ pending \subseteq Request /\ loading \subseteq Request
    /\ cards \subseteq Request /\ asked \subseteq Request /\ stranded \subseteq Request
    /\ muxFrames \in Seq([type : {"requested", "resolved"}, request : Request])
    /\ claims \in [Phone -> [on : SUBSET Request,
                              receipt : {"none", "accepted", "not-pending", "transport"}]]

NothingUnderWay ==
    /\ \A r \in Reading : readings[r].at = "none"
    /\ muxFrames = <<>>
    /\ \A p \in Phone : claims[p] = NoClaim

\* The record of what was sent last (summaryPushed) is what the phones have:
\* however single rows, throttled statistics and whole lists follow each
\* other, a phone that applies the deltas has the rows of the mirror, except
\* for statistics a timer is going to send.
PhoneMirrorsList == \A s \in Session :
    \/ phoneList[s] = summaries[s]
    \/ /\ s \in timers /\ phoneList[s] # NoRow /\ summaries[s] # NoRow
       /\ WithoutStats(phoneList[s]) = WithoutStats(summaries[s])

\* However events and whole readings of the list follow each other, the mirror
\* shows the sessions that exist and are not archived, in their present state:
\* all but those that came, went or were archived since the list applied last
\* was read, or changed while it was on its way. (Such a list leaves the mirror
\* wrong until the next one: see the README.)
MirrorCatchesUp == \A s \in Session \ mistaken :
    IF host[s].state \in {"absent", "archived"} THEN summaries[s] = NoRow
    ELSE /\ summaries[s] # NoRow
         /\ summaries[s].running = (host[s].state = "running")
         /\ summaries[s].stats = host[s].stats

\* When the frames are handled and no answer is under way, the phones show
\* the requests that the Host waits for, and every one of them can be
\* answered: it is pending. What is left beyond that was given back, after an
\* answer that did not reach the Host, when the Host had settled it.
CardsAreAnswerable == NothingUnderWay =>
    /\ cards \ stranded = interactions
    /\ pending \ stranded = interactions

\* The flags of a row (the badge, the widget's count) are those of the
\* requests that wait for the session, whichever of two clients answered and
\* in whatever order frame and receipt came; except after an answer that was
\* refused, which leaves the flags as they are.
BadgeIsRight == NothingUnderWay =>
    \A s \in Session \ unbumped :
        summaries[s] # NoRow => summaries[s].flags = Flags(s, pending)
=============================================================================
