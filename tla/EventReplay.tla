----------------------------- MODULE EventReplay -----------------------------
(***************************************************************************)
(* Event delivery to one phone across reconnects: the ring of HostBridge   *)
(* (src/host-bridge.ts), the interest filter and the open buffers of       *)
(* BridgeConnection (src/connection.ts) and the handlers of                *)
(* c2s.session.open, close and watch (src/wire-session.ts).                *)
(*                                                                         *)
(* The host appends events to sessions; the bridge learns of them later,   *)
(* numbers them and pushes them.  A phone keeps copies of sessions, opens  *)
(* them for a history tail, and resumes from its cursor after a drop.      *)
(*                                                                         *)
(* A definition named X_Fault is X with a fault, kept to show that the     *)
(* properties can tell them apart; the specification does not use it.      *)
(***************************************************************************)
EXTENDS Integers, Sequences, FiniteSets, Functions

CONSTANTS Session,
          RingMax,       \* historyBufferMax
          ReplayLimit,   \* REPLAY_RESYNC_BYTES, in frames
          MaxQueue,      \* MAX_OUTBOUND_BUFFER_BYTES, in frames
          MaxEvents,     \* bound: events of each session
          MaxFrames,     \* bound: frames recorded in one bridge lifetime
          MaxOpens,      \* bound: open requests of a run
          MaxConns,      \* bound: connections of a run
          MaxLives       \* bound: bridge lifetimes of a run

ASSUME SessionAssumption == IsFiniteSet(Session)
ASSUME LimitAssumption ==
    /\ RingMax \in Nat \ {0} /\ ReplayLimit \in Nat /\ MaxQueue \in Nat
ASSUME BoundsAssumption ==
    /\ MaxEvents \in Nat /\ MaxFrames \in Nat /\ MaxOpens \in Nat
    /\ MaxConns \in Nat /\ MaxLives \in Nat \ {0}

VARIABLES
    appended,    \* host: events of each session
    life,        \* the number of the HostBridge instance
    recorded,    \* events of each session the bridge has learnt of
    log,         \* every frame record() numbered in this life; ring is its end
    status,      \* of the connection: "none", "open" or "closing"
    watch,       \* watchedSessions
    opened,      \* openSessions
    opening,     \* openingSessionEvents: whose buffer, and the frames in it
    reads,       \* open handlers waiting for the history of their session
    toPhone,     \* frames on their way to the phone
    cursor,      \* phone: what it resumes from
    copy,        \* phone: copy[s] is the event its copy of s goes up to
    page,        \* phone: its page of a session is "none", "asked" for or "live"
    conns,       \* bound: connections so far
    opens,       \* bound: open requests so far
    base,        \* history: the phone is owed the frames after base
    got,         \* history: the frames of this life that the phone has
    discarded,   \* history: sessions whose held-back events were thrown away
    overtaken,   \* history: sessions with an event lost behind newer frames
    replaced,    \* history: sessions opened or closed while an open was not answered
    mistaken     \* history: a cursor of another life was resumed from

bridge == <<life, recorded, log>>
connection == <<status, watch, opened, opening, reads, toPhone>>
phone == <<cursor, copy, page, base, got>>
losses == <<discarded, overtaken, replaced>>
replayVars == <<appended, bridge, connection, phone, conns, opens, losses, mistaken>>

NoCopy == -1
NoCursor == [life |-> 0, seq |-> 0]
NoBuffer == [open |-> 0, frames |-> <<>>]
Opening == {s \in Session : opening[s] # NoBuffer}

-----------------------------------------------------------------------------
\* Frames to the phone; n is an event, the end of a tail, or a cursor.

Global(seq) == [kind |-> "global", seq |-> seq, n |-> 0]
Event(s, e, seq) == [kind |-> "event", seq |-> seq, n |-> e, session |-> s]
TailFrame(s, e) == [kind |-> "tail", seq |-> 0, n |-> e, session |-> s]
NotFound(s) == [kind |-> "failed", seq |-> 0, n |-> 0, session |-> s]
Welcome(upTo) == [kind |-> "welcome", seq |-> 0, n |-> upTo]
Resync(upTo) == [kind |-> "resync", seq |-> 0, n |-> upTo]
ResumeDone == [kind |-> "done", seq |-> 0, n |-> 0]

\* accepts(): a session's events pass if the session is open, opening or watched.
Accepts_OnlyWatched(f, interest) == f.kind = "event" => f.session \in interest
Accepts(f, interest) == f.kind = "event" => f.session \in opened \cup Opening \cup interest

-----------------------------------------------------------------------------
\* The connection's output: what it is at, and what is under way.

Link == [status |-> status, queue |-> toPhone]

\* send(): a connection whose buffer is full is closed, and the frame is lost.
Send(link, f) ==
    IF link.status # "open" THEN link
    ELSE IF Len(link.queue) >= MaxQueue THEN [link EXCEPT !.status = "closing"]
    ELSE [link EXCEPT !.queue = Append(@, f)]

SendAll(link, frames) ==
    LET sent[i \in 0..Len(frames)] == IF i = 0 THEN link ELSE Send(sent[i - 1], frames[i])
    IN  sent[Len(frames)]

Output(link) == status' = link.status /\ toPhone' = link.queue

\* push(): events of a session being opened wait behind its tail.
Push_NotHeld(f) ==
    IF status = "none" \/ ~Accepts(f, watch)
    THEN UNCHANGED <<status, toPhone, opening>>
    ELSE Output(Send(Link, f)) /\ UNCHANGED opening
Push(f) ==
    IF status = "none" \/ ~Accepts(f, watch)
    THEN UNCHANGED <<status, toPhone, opening>>
    ELSE IF f.kind = "event" /\ f.session \in Opening
    THEN /\ opening' = [opening EXCEPT ![f.session].frames = Append(@, f)]
         /\ UNCHANGED <<status, toPhone>>
    ELSE /\ Output(Send(Link, f))
         /\ UNCHANGED opening

-----------------------------------------------------------------------------
ReplayInit ==
    /\ appended = [s \in Session |-> 0]
    /\ life = 1 /\ recorded = appended /\ log = <<>>
    /\ status = "none" /\ watch = {} /\ opened = {}
    /\ opening = [s \in Session |-> NoBuffer]
    /\ reads = {} /\ toPhone = <<>>
    /\ cursor = NoCursor
    /\ copy = [s \in Session |-> NoCopy] /\ page = [s \in Session |-> "none"]
    /\ conns = 0 /\ opens = 0
    /\ base = 0 /\ got = {}
    /\ discarded = {} /\ overtaken = {} /\ replaced = {} /\ mistaken = FALSE

\* The host appends an event to a session.
HostAppends(s) ==
    /\ appended[s] < MaxEvents
    /\ appended' = [appended EXCEPT ![s] = @ + 1]
    /\ UNCHANGED <<bridge, connection, phone, conns, opens, losses, mistaken>>

\* record(): the frame is numbered, kept in the ring and pushed.
Record(f) ==
    /\ Len(log) < MaxFrames
    /\ log' = Append(log, f)
    /\ Push(f)

\* The next event of a session reaches the bridge.
RecordEvent(s) ==
    /\ recorded[s] < appended[s]
    /\ recorded' = [recorded EXCEPT ![s] = @ + 1]
    /\ Record(Event(s, recorded'[s], Len(log) + 1))
    /\ UNCHANGED <<appended, life, watch, opened, reads, phone, conns, opens, losses,
                   mistaken>>

\* A frame that is not about one session's events: a list delta, a pending
\* interaction, a notice.
RecordGlobal ==
    /\ Record(Global(Len(log) + 1))
    /\ UNCHANGED <<appended, life, recorded, watch, opened, reads, phone, conns, opens,
                   losses, mistaken>>

-----------------------------------------------------------------------------
\* An answer to an open of the session is under way, or in the frames of a queue.
Awaited(s, queue) ==
    \/ \E r \in reads : r.session = s
    \/ \E i \in DOMAIN queue :
          queue[i].kind \in {"tail", "failed"} /\ queue[i].session = s

\* The phone keeps a copy only of sessions that it watches or whose page is live.
NoteReplaced(s) == replaced' = IF Awaited(s, toPhone) THEN replaced \cup {s} ELSE replaced

Shown == {s \in Session : page[s] # "none"}
KeptCopies(watching, pages) ==
    [s \in Session |-> IF s \in watching \/ pages[s] = "live" THEN copy[s] ELSE NoCopy]

\* The buffer of the session is replaced or dropped, with what it holds.
SetBuffer(s, buffer) ==
    /\ opening' = [opening EXCEPT ![s] = buffer]
    /\ discarded' = IF opening[s].frames = <<>> THEN discarded ELSE discarded \cup {s}

\* c2s.session.open up to its await: bufferOpenEvents().
PhoneOpens(s) ==
    /\ status # "none"
    /\ opens < MaxOpens
    /\ NoteReplaced(s)
    /\ opens' = opens + 1
    /\ page' = [page EXCEPT ![s] = IF @ = "none" THEN "asked" ELSE @]
    /\ SetBuffer(s, [open |-> opens', frames |-> <<>>])
    /\ reads' = reads \cup {[open |-> opens', session |-> s, upTo |-> NoCopy]}
    /\ UNCHANGED <<appended, bridge, status, watch, opened, toPhone, cursor, copy, base,
                   got, conns, overtaken, mistaken>>

\* The host takes the snapshot that answers the history call.
HostReads(r) ==
    /\ r.upTo = NoCopy
    /\ reads' = (reads \ {r}) \cup {[r EXCEPT !.upTo = appended[r.session]]}
    /\ UNCHANGED <<appended, bridge, status, watch, opened, opening, toPhone, phone,
                   conns, opens, losses, mistaken>>

\* The buffer under the session is still the one of this open.
OwnsBuffer_Unchecked(r) == TRUE
OwnsBuffer(r) == opening[r.session].open = r.open

\* openSession() pushes the tail; then flushOpenBuffer().
OpenReplies(r) ==
    LET tailed == Send(Link, TailFrame(r.session, r.upTo))
        flushed == SendAll(tailed, opening[r.session].frames)
    IN  /\ r.upTo # NoCopy
        /\ reads' = reads \ {r}
        /\ IF OwnsBuffer(r)
           THEN /\ opened' = opened \cup {r.session}
                /\ opening' = [opening EXCEPT ![r.session] = NoBuffer]
                /\ Output(flushed)
                /\ overtaken' = IF flushed.status = "open" \/ opening[r.session].frames = <<>>
                                THEN overtaken ELSE overtaken \cup {r.session}
           ELSE /\ Output(tailed)
                /\ UNCHANGED <<opened, opening, overtaken>>
        /\ UNCHANGED <<appended, bridge, watch, phone, conns, opens, discarded, replaced,
                       mistaken>>

\* The history call failed: discardOpenBuffer() and s2c.error.
OpenFails(r) ==
    /\ reads' = reads \ {r}
    /\ IF OwnsBuffer(r)
       THEN SetBuffer(r.session, NoBuffer)
       ELSE UNCHANGED <<opening, discarded>>
    /\ Output(Send(Link, NotFound(r.session)))
    /\ UNCHANGED <<appended, bridge, watch, opened, phone, conns, opens, overtaken,
                   replaced, mistaken>>

\* c2s.session.close: closeOpenSession().
PhoneCloses(s) ==
    /\ status # "none"
    /\ s \in Shown
    /\ NoteReplaced(s)
    /\ opened' = opened \ {s}
    /\ SetBuffer(s, NoBuffer)
    /\ page' = [page EXCEPT ![s] = "none"]
    /\ copy' = KeptCopies(watch, page')
    /\ UNCHANGED <<appended, bridge, status, watch, reads, toPhone, cursor, base, got,
                   conns, opens, overtaken, mistaken>>

\* c2s.session.watch: setWatchedSessions().
PhoneWatches(w) ==
    /\ status # "none"
    /\ watch' = w
    /\ copy' = KeptCopies(w, page)
    /\ UNCHANGED <<appended, bridge, status, opened, opening, reads, toPhone, cursor,
                   page, base, got, conns, opens, losses, mistaken>>

-----------------------------------------------------------------------------
\* onClose(): the sink and everything of the connection go; frames under way are lost.
Disconnect ==
    /\ status' = "none"
    /\ watch' = {} /\ opened' = {}
    /\ opening' = [s \in Session |-> NoBuffer]
    /\ reads' = {} /\ toPhone' = <<>>
    /\ LET unread == Range(toPhone) \cup UNION {Range(opening[s].frames) : s \in Session}
           behind == {f \in unread : f.kind = "event" /\ f.seq <= cursor.seq}
       IN  overtaken' = overtaken \cup {f.session : f \in behind}
    /\ page' = [s \in Session |-> "none"]

Drop ==
    /\ status # "none"
    /\ Disconnect
    /\ UNCHANGED <<appended, bridge, cursor, copy, base, got, conns, opens, discarded,
                   replaced, mistaken>>

\* The bridge is rebuilt: its numbers start again, and it learns of new events only.
Restart ==
    /\ life < MaxLives
    /\ life' = life + 1
    /\ recorded' = appended
    /\ log' = <<>>
    /\ base' = 0 /\ got' = {}
    /\ Disconnect
    /\ UNCHANGED <<appended, cursor, copy, conns, opens, discarded, replaced,
                   mistaken>>

\* The ring holds the last RingMax frames.
Oldest == IF Len(log) > RingMax THEN Len(log) - RingMax + 1 ELSE 1

CanResumeFrom_OffByOne(seq) == seq <= Len(log) /\ seq + 2 >= Oldest
CanResumeFrom(seq) == seq <= Len(log) /\ seq + 1 >= Oldest

\* resumeFrom(): the frames of the ring after seq that pass the filter, or a resync when
\* they are too many.
Missed(seq, interest) ==
    LET passed[i \in 0..Len(log)] ==
            IF i <= seq \/ i < Oldest THEN <<>>
            ELSE IF Accepts(log[i], interest) THEN Append(passed[i - 1], log[i])
            ELSE passed[i - 1]
    IN  passed[Len(log)]
Replay(seq, interest) ==
    IF Len(Missed(seq, interest)) > ReplayLimit THEN <<Resync(Len(log))>>
    ELSE Append(Missed(seq, interest), ResumeDone)

\* onAuthenticated(): the watched sessions apply, then welcome, then the replay.
Connect(w) ==
    LET resumed == CanResumeFrom(cursor.seq)
        answer == IF cursor = NoCursor THEN <<>>
                  ELSE IF resumed THEN Replay(cursor.seq, w) ELSE <<Resync(Len(log))>>
    IN  /\ status = "none"
        /\ conns < MaxConns
        /\ conns' = conns + 1
        /\ watch' = w
        /\ Output(SendAll([status |-> "open", queue |-> <<>>],
                          <<Welcome(Len(log))>> \o answer))
        /\ copy' = KeptCopies(w, page)
        /\ mistaken' = (mistaken \/ (cursor # NoCursor /\ resumed /\ cursor.life # life))
        /\ UNCHANGED <<appended, bridge, opened, opening, reads, cursor, page, base,
                       got, opens, losses>>

\* The phone takes the next frame.  A welcome gives a first cursor, a resync a new
\* one; an event extends a copy that ends just before it; a tail replaces a copy.
PhoneReceives ==
    /\ toPhone # <<>>
    /\ toPhone' = Tail(toPhone)
    /\ LET f == Head(toPhone)
           renewed == f.kind = "resync" \/ (f.kind = "welcome" /\ cursor = NoCursor)
       IN  /\ cursor' = IF renewed THEN [life |-> life, seq |-> f.n]
                        ELSE IF f.seq > cursor.seq THEN [life |-> life, seq |-> f.seq]
                        ELSE cursor
           /\ base' = IF renewed THEN f.n ELSE base
           /\ got' = IF renewed THEN {} ELSE IF f.seq = 0 THEN got ELSE got \cup {f.seq}
           /\ copy' = IF f.kind = "resync" THEN [s \in Session |-> NoCopy]
                      ELSE IF f.kind = "tail" /\ f.session \in watch \cup Shown
                      THEN [copy EXCEPT ![f.session] = f.n]
                      ELSE IF f.kind = "event" /\ copy[f.session] = f.n - 1
                      THEN [copy EXCEPT ![f.session] = f.n]
                      ELSE copy
           /\ page' = IF f.kind = "tail" /\ f.session \in Shown
                      THEN [page EXCEPT ![f.session] = "live"]
                      ELSE IF f.kind = "failed" /\ page[f.session] = "asked"
                              /\ ~Awaited(f.session, toPhone')
                      THEN [page EXCEPT ![f.session] = "none"]
                      ELSE page
    /\ UNCHANGED <<appended, bridge, status, watch, opened, opening, reads, conns, opens,
                   losses, mistaken>>

ReplayNext ==
    \/ \E s \in Session :
          HostAppends(s) \/ RecordEvent(s) \/ PhoneOpens(s) \/ PhoneCloses(s)
    \/ RecordGlobal
    \/ \E r \in reads : HostReads(r) \/ OpenReplies(r) \/ OpenFails(r)
    \/ \E w \in SUBSET Session : PhoneWatches(w) \/ Connect(w)
    \/ Drop
    \/ Restart
    \/ PhoneReceives

ReplaySpec == ReplayInit /\ [][ReplayNext]_replayVars

-----------------------------------------------------------------------------
(***************************************************************************)
(* Properties.                                                             *)
(***************************************************************************)

FrameOK(f) ==
    /\ f.kind \in {"global", "event", "tail", "failed", "welcome", "resync", "done"}
    /\ f.seq \in 0..MaxFrames /\ f.n \in Nat
    /\ f.kind \in {"event", "tail", "failed"} => f.session \in Session

TypeOK ==
    /\ appended \in [Session -> Nat] /\ recorded \in [Session -> Nat]
    /\ life \in Nat /\ conns \in Nat /\ opens \in Nat
    /\ \A i \in DOMAIN log : FrameOK(log[i])
    /\ status \in {"none", "open", "closing"}
    /\ watch \subseteq Session /\ opened \subseteq Session
    /\ page \in [Session -> {"none", "asked", "live"}]
    /\ \A s \in Session : \A i \in DOMAIN opening[s].frames :
          opening[s].frames[i].session = s
    /\ \A r \in reads : r.open \in 1..MaxOpens /\ r.upTo \in Nat \cup {NoCopy}
    /\ \A i \in DOMAIN toPhone : FrameOK(toPhone[i])
    /\ cursor \in [life : Nat, seq : 0..MaxFrames]
    /\ copy \in [Session -> Nat \cup {NoCopy}]

\* The phone has every list delta, pending interaction and notice it is owed.
HasAllGlobals == \A i \in base + 1..Len(log) : log[i].kind = "global" => i \in got

\* No copy the phone keeps of one of the sessions is behind what the bridge knows.
CopiesCurrent(sessions) ==
    \A s \in sessions : copy[s] # NoCopy => copy[s] >= recorded[s]

\* The phone has taken all that was sent, and no open is under way.
CaughtUp == status = "open" /\ toPhone = <<>>
Quiet == CaughtUp /\ reads = {}

\* However often the connection drops and resumes, a phone that has read its frames
\* has every list delta, pending interaction and notice since its last resync.
GlobalsReachPhone == CaughtUp /\ ~mistaken => HasAllGlobals

\* A copy the phone keeps is never behind the events the bridge knows, across drops,
\* replays and opens, unless events held back for an open of it were thrown away or
\* overtaken, or an older tail of a replaced open rolled it back.
CopiesUpToDate ==
    Quiet /\ ~mistaken => CopiesCurrent(Session \ (discarded \cup overtaken \cup replaced))

\* PROTOCOL.md, sessionInterest: a session that is open or being opened gets its
\* events, so an open that fails costs a watched session nothing.
FailedOpenLosesNothing ==
    Quiet /\ ~mistaken => CopiesCurrent(Session \ (overtaken \cup replaced))

\* PROTOCOL.md, section 7: a resume sends again every frame that the phone misses,
\* those included that were held back for an open while newer ones were sent.
ResumeLosesNothing ==
    Quiet /\ ~mistaken => CopiesCurrent(Session \ (discarded \cup replaced))

\* src/host-bridge.ts, canResumeFrom: a cursor of an older bridge lifetime is a
\* gap, so a resume never skips frames of this lifetime.
ResumeSkipsNothing == CaughtUp => HasAllGlobals

\* A phone that has seen an event is never rolled back by an older tail, unless it
\* opened or closed the session again before it had the tail.
NoRollback ==
    toPhone # <<>> =>
        LET f == Head(toPhone)
        IN  f.kind = "tail" /\ f.session \in (watch \cup Shown) \ replaced
            => f.n >= copy[f.session]

\* A history answer that comes after the phone left the page does not bring the
\* session's live delivery back.
NoRevival == status = "open" => opened \subseteq Shown
=============================================================================
