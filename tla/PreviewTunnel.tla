---------------------------- MODULE PreviewTunnel ----------------------------
(***************************************************************************)
(* The local preview tunnel (src/preview-tunnel.ts): one phone connection  *)
(* carries many streams, each joined to a TCP socket on the computer's     *)
(* loopback address, with credit windows in both directions.               *)
(*                                                                         *)
(* One unit of data is one full chunk (PREVIEW_MAX_CHUNK).  Frames to the  *)
(* phone wait in toPhone, in order; frames from the phone are handled when *)
(* they are sent, which loses nothing: the delay of one direction already  *)
(* lets each side act on an old view of the other.                         *)
(*                                                                         *)
(* A definition named X_Fault is X with a fault, kept to show that the     *)
(* properties can tell them apart; the specification does not use it.      *)
(***************************************************************************)
EXTENDS Integers, Sequences, FiniteSets, FiniteSetsExt

CONSTANTS Stream,        \* stream ids the phone uses
          Port, Reserved,\* local ports, and those the plugin uses itself
          MaxStreams,    \* PREVIEW_MAX_STREAMS
          Window,        \* PREVIEW_INITIAL_WINDOW
          MaxSendWindow, \* MAX_SEND_WINDOW
          HighWater,     \* WRITABLE_HIGH_WATER
          Honesty,       \* the kinds of phone: whether it keeps to windows and free ids
          Cancels,       \* the phone may close a stream it is still waiting for
          MaxOpens,      \* bound: open requests of a run
          MaxBytes,      \* bound: units a local service sends on a stream
          MaxQueue       \* bound: frames under way when a phone overruns

ASSUME WindowAssumption ==
    /\ Window \in Nat \ {0} /\ MaxSendWindow \in Nat /\ HighWater \in Nat \ {0}
    /\ Window <= MaxSendWindow
ASSUME LimitAssumption ==
    /\ IsFiniteSet(Stream) /\ Reserved \subseteq Port
    /\ MaxStreams \in Nat /\ MaxOpens \in Nat /\ MaxBytes \in Nat /\ MaxQueue \in Nat
    /\ Honesty \subseteq BOOLEAN /\ Cancels \in BOOLEAN

VARIABLES
    enabled,     \* the setting "allow phones to preview local pages"
    disposed,    \* PreviewTunnel.disposed
    authorizing, \* ports whose mention in the session is being looked up
    grants,      \* PreviewTunnel.grants
    connecting,  \* connecting[s]: connects under way for stream id s
    streams,     \* PreviewTunnel.streams
    timer,       \* flushTimer is set
    writes,      \* writes[s][n]: units written for stream n, callback not run
    sockets,     \* connected sockets that nobody destroyed
    toPhone,     \* frames on their way to the phone
    honest,      \* phone: it keeps to its windows and to free ids
    asks,        \* phone: open requests without an answer
    view,        \* phone: the stream it has under each id
    opens,       \* bound: open requests made so far
    born,        \* history: streams opened so far
    cancelled,   \* history: ids whose last frame from the phone was a close
    emitted,     \* history: units the local service sent on each stream
    arrived      \* history: units the phone got of each stream

grantVars == <<authorizing, grants>>
phone == <<honest, asks, view, cancelled>>
history == <<emitted, arrived>>
vars == <<enabled, disposed, grantVars, connecting, streams, timer, writes, sockets,
          toPhone, phone, opens, born, history>>

\* Streams are numbered in the order they open: 0 is no stream.
Serial == 0..MaxOpens

NoStream == [serial |-> 0, sendWindow |-> 0, recvWindow |-> 0, pending |-> 0,
             ended |-> FALSE, paused |-> FALSE]
NewStream(n) == [NoStream EXCEPT !.serial = n, !.sendWindow = Window, !.recvWindow = Window]
NoView == [serial |-> 0, window |-> 0, unread |-> 0]

IsOpen(s) == streams[s] # NoStream
OpenStreams == {s \in Stream : IsOpen(s)}
Reason == {"eof", "error", "flow-control", "disabled"}

-----------------------------------------------------------------------------
\* Frames to the phone.  A stream's serial is not on the wire: with it the
\* properties tell a stream from a later one of the same id.

Opened(s, n) == [kind |-> "opened", stream |-> s, serial |-> n, units |-> 0]
Data(s, n, units) == [kind |-> "data", stream |-> s, serial |-> n, units |-> units]
CreditBack(s, n) == [kind |-> "credit", stream |-> s, serial |-> n, units |-> 1]
Closed(s, n, why) == [kind |-> why, stream |-> s, serial |-> n, units |-> 0]
Failed(s) == [kind |-> "failed", stream |-> s, serial |-> 0, units |-> 0]

\* The sum of a sequence of numbers.
Total(numbers) ==
    LET sum[i \in 0..Len(numbers)] == IF i = 0 THEN 0 ELSE sum[i - 1] + numbers[i]
    IN  sum[Len(numbers)]

\* Units that the frames of a kind carry in a queue, for the streams with some serials.
Units(queue, kind, serials) ==
    Total([i \in 1..Len(queue) |->
              IF queue[i].kind = kind /\ queue[i].serial \in serials THEN queue[i].units ELSE 0])

\* The send buffer of the connection (ws.bufferedAmount).
Buffered(queue) == Units(queue, "data", Serial)

-----------------------------------------------------------------------------
\* The private methods of the tunnel are functions of this part of its state.

Now == [streams |-> streams, queue |-> toPhone, timer |-> timer, sockets |-> sockets]

Commit(st) ==
    /\ streams' = st.streams /\ toPhone' = st.queue
    /\ timer' = st.timer /\ sockets' = st.sockets

Send(st, frame) == [st EXCEPT !.queue = Append(@, frame)]

\* closeStream(): drops what is pending and destroys the socket.
CloseStream(st, s, why, notify) ==
    LET gone == [st EXCEPT !.streams[s] = NoStream, !.sockets = @ - 1]
    IN  IF notify THEN Send(gone, Closed(s, st.streams[s].serial, why)) ELSE gone

\* What data, window and send buffer allow to send now.
Sendable(st, r) ==
    Min({r.pending, r.sendWindow, Max({0, HighWater - Buffered(st.queue)})})

\* flush(), data left over: the socket pauses, and the timer is set unless credit
\* will come.
Stall_EndsAtOnce(st, s) ==
    IF st.streams[s].ended THEN CloseStream(st, s, "eof", TRUE)
    ELSE [st EXCEPT !.streams[s].paused = TRUE, !.timer = @ \/ st.streams[s].sendWindow > 0]
Stall(st, s) ==
    [st EXCEPT !.streams[s].paused = TRUE, !.timer = @ \/ st.streams[s].sendWindow > 0]

\* flush(), nothing left: the end of the service is reported, or the socket resumes.
Drain(st, s) ==
    IF st.streams[s].ended THEN CloseStream(st, s, "eof", TRUE)
    ELSE [st EXCEPT !.streams[s].paused = FALSE]

Flush(st, s) ==
    LET r == st.streams[s]
        n == Sendable(st, r)
        sent == IF n = 0 THEN st ELSE Send(st, Data(s, r.serial, n))
        left == [sent EXCEPT !.streams[s].pending = @ - n, !.streams[s].sendWindow = @ - n]
    IN  IF r.pending > n THEN Stall(left, s) ELSE Drain(left, s)

-----------------------------------------------------------------------------
Init ==
    /\ enabled = TRUE /\ disposed = FALSE
    /\ authorizing = {} /\ grants = {}
    /\ connecting = [s \in Stream |-> 0]
    /\ streams = [s \in Stream |-> NoStream]
    /\ timer = FALSE /\ sockets = 0
    /\ writes = [s \in Stream |-> [n \in Serial |-> 0]]
    /\ toPhone = <<>>
    /\ honest \in Honesty
    /\ asks = [s \in Stream |-> 0] /\ view = [s \in Stream |-> NoView]
    /\ opens = 0 /\ born = 0 /\ cancelled = {}
    /\ emitted = [n \in Serial |-> 0] /\ arrived = [n \in Serial |-> 0]

\* authorize(), up to the lookup of the session's messages.
Authorize(p) ==
    /\ ~disposed /\ enabled
    /\ p \notin Reserved
    /\ authorizing' = authorizing \cup {p}
    /\ UNCHANGED <<enabled, disposed, grants, connecting, streams, timer, writes,
                   sockets, toPhone, phone, opens, born, history>>

\* The grants after the lookup.
Granted(p, mentioned) == IF mentioned /\ ~disposed THEN grants \cup {p} ELSE grants

\* authorize(), after the lookup; a refusal only answers the request.
AuthorizeAnswered(p, mentioned) ==
    /\ p \in authorizing
    /\ authorizing' = authorizing \ {p}
    /\ grants' = Granted(p, mentioned)
    /\ UNCHANGED <<enabled, disposed, connecting, streams, timer, writes, sockets,
                   toPhone, phone, opens, born, history>>

\* What open() checks before it connects.
MayConnect(s, p) ==
    /\ enabled
    /\ p \in grants
    /\ ~IsOpen(s)
    /\ Cardinality(OpenStreams) < MaxStreams

\* The phone asks for a stream; open() runs up to its await.
Open(s, p) ==
    /\ ~disposed
    /\ opens < MaxOpens
    /\ honest => view[s] = NoView /\ asks[s] = 0
    /\ opens' = opens + 1
    /\ asks' = [asks EXCEPT ![s] = @ + 1]
    /\ cancelled' = cancelled \ {s}
    /\ \/ /\ MayConnect(s, p)
          /\ connecting' = [connecting EXCEPT ![s] = @ + 1]
          /\ UNCHANGED toPhone
       \/ /\ ~MayConnect(s, p)
          /\ toPhone' = Append(toPhone, Failed(s))
          /\ UNCHANGED connecting
    /\ UNCHANGED <<enabled, disposed, grantVars, streams, timer, writes, sockets,
                   honest, view, born, history>>

\* What open() does with the result of connectFirst().
AfterConnect_LeavesSocket(s, ok) ==
    IF disposed THEN IF ok THEN [Now EXCEPT !.sockets = @ + 1] ELSE Now
    ELSE IF ~ok \/ IsOpen(s) THEN Send(Now, Failed(s))
    ELSE Send([Now EXCEPT !.streams[s] = NewStream(born + 1), !.sockets = @ + 1],
              Opened(s, born + 1))
AfterConnect(s, ok) ==
    IF disposed THEN Now
    ELSE IF ~ok \/ IsOpen(s) THEN Send(Now, Failed(s))
    ELSE Send([Now EXCEPT !.streams[s] = NewStream(born + 1), !.sockets = @ + 1],
              Opened(s, born + 1))

\* open(), from its await on.
Connected(s, ok) ==
    /\ connecting[s] > 0
    /\ connecting' = [connecting EXCEPT ![s] = @ - 1]
    /\ Commit(AfterConnect(s, ok))
    /\ born' = IF streams' = streams THEN born ELSE born + 1
    /\ UNCHANGED <<enabled, disposed, grantVars, writes, phone, opens, history>>

\* credit(): the window grows, and what waited for it is sent.
Widened(s, n) == [Now EXCEPT !.streams[s].sendWindow = Min({MaxSendWindow, @ + n})]
AfterCredit_OnlyAdds(s, n) == IF IsOpen(s) THEN Widened(s, n) ELSE Now
AfterCredit(s, n) == IF IsOpen(s) THEN Flush(Widened(s, n), s) ELSE Now

\* The phone gives back n units of what it has read.
Credit(s, n) ==
    /\ ~disposed
    /\ IF honest THEN n <= view[s].unread ELSE Len(toPhone) < MaxQueue
    /\ view' = [view EXCEPT ![s].unread = Max({0, @ - n})]
    /\ Commit(AfterCredit(s, n))
    /\ UNCHANGED <<enabled, disposed, grantVars, connecting, writes, honest, asks, cancelled,
                   opens, born, history>>

\* close(): the phone closes a stream it has, or one it is still waiting for.
Close(s) ==
    /\ ~disposed
    /\ view[s] # NoView \/ (Cancels /\ asks[s] > 0) \/ ~honest
    /\ view' = [view EXCEPT ![s] = NoView]
    /\ cancelled' = cancelled \cup {s}
    /\ Commit(IF IsOpen(s) THEN CloseStream(Now, s, "eof", FALSE) ELSE Now)
    /\ UNCHANGED <<enabled, disposed, grantVars, connecting, writes, honest, asks, opens,
                   born, history>>

\* What data() accepts of a stream.
FitsWindow(r) == r.recvWindow > 0

\* data(): the phone sends one unit up a stream.
DataUp(s) ==
    /\ ~disposed
    /\ IF honest THEN view[s].window > 0 ELSE Len(toPhone) < MaxQueue
    /\ view' = [view EXCEPT ![s].window = Max({0, @ - 1})]
    /\ LET r == streams[s]
           taken == IsOpen(s) /\ enabled /\ FitsWindow(r)
       IN  /\ Commit(IF ~IsOpen(s) THEN Now
                     ELSE IF ~enabled THEN CloseStream(Now, s, "disabled", TRUE)
                     ELSE IF ~taken THEN CloseStream(Now, s, "flow-control", TRUE)
                     ELSE [Now EXCEPT !.streams[s].recvWindow = @ - 1])
           /\ writes' = IF taken THEN [writes EXCEPT ![s][r.serial] = @ + 1] ELSE writes
    /\ UNCHANGED <<enabled, disposed, grantVars, connecting, honest, asks, cancelled, opens,
                   born, history>>

\* The callback of socket.write for a unit of stream n that had the id s.
AfterWrite_AnyStream(s, n) ==
    LET sent == Send(Now, CreditBack(s, n))
    IN  IF streams[s].serial = n THEN [sent EXCEPT !.streams[s].recvWindow = @ + 1] ELSE sent
AfterWrite_NoCredit(s, n) ==
    IF streams[s].serial = n THEN [Now EXCEPT !.streams[s].recvWindow = @ + 1] ELSE Now
AfterWrite(s, n) ==
    IF streams[s].serial = n
    THEN Send([Now EXCEPT !.streams[s].recvWindow = @ + 1], CreditBack(s, n))
    ELSE Now

WriteDone(s, n) ==
    /\ writes[s][n] > 0
    /\ writes' = [writes EXCEPT ![s][n] = @ - 1]
    /\ Commit(AfterWrite(s, n))
    /\ UNCHANGED <<enabled, disposed, grantVars, connecting, phone, opens, born, history>>

\* A write to a socket whose service has ended fails: no credit goes back.
WriteFails(s, n) ==
    /\ writes[s][n] > 0
    /\ streams[s].serial = n /\ streams[s].ended
    /\ writes' = [writes EXCEPT ![s][n] = @ - 1]
    /\ Commit(Now)
    /\ UNCHANGED <<enabled, disposed, grantVars, connecting, phone, opens, born, history>>

\* What onSocketData() does with one unit.
AfterSocketData(s) ==
    IF enabled THEN Flush([Now EXCEPT !.streams[s].pending = @ + 1], s)
    ELSE CloseStream(Now, s, "disabled", TRUE)

\* The local service sends; a paused socket emits nothing.
ServiceSends(s) ==
    /\ IsOpen(s) /\ ~streams[s].ended /\ ~streams[s].paused
    /\ emitted[streams[s].serial] < MaxBytes
    /\ emitted' = [emitted EXCEPT ![streams[s].serial] = @ + 1]
    /\ Commit(AfterSocketData(s))
    /\ UNCHANGED <<enabled, disposed, grantVars, connecting, writes, phone, opens, born,
                   arrived>>

\* The service ends its side: 'end' may come with the last chunk, on a paused
\* socket too.
ServiceEnds(s) ==
    /\ IsOpen(s) /\ ~streams[s].ended
    /\ Commit(Flush([Now EXCEPT !.streams[s].ended = TRUE], s))
    /\ UNCHANGED <<enabled, disposed, grantVars, connecting, writes, phone, opens, born,
                   history>>

\* The socket reports an error, or closes without an end.
ServiceResets(s) ==
    /\ IsOpen(s)
    /\ Commit(CloseStream(Now, s, "error", TRUE))
    /\ UNCHANGED <<enabled, disposed, grantVars, connecting, writes, phone, opens, born,
                   history>>

\* Every stream is flushed, in the order they opened.
FlushAll(st) ==
    LET flushed[n \in Serial] ==
            IF n = 0 THEN st
            ELSE IF \E s \in Stream : streams[s].serial = n
            THEN Flush(flushed[n - 1], CHOOSE s \in Stream : streams[s].serial = n)
            ELSE flushed[n - 1]
    IN  flushed[MaxOpens]

\* The retry of scheduleFlush().
FlushTimer ==
    /\ timer
    /\ Commit(FlushAll([Now EXCEPT !.timer = FALSE]))
    /\ UNCHANGED <<enabled, disposed, grantVars, connecting, writes, phone, opens, born,
                   history>>

\* The setting is switched.
Switch ==
    /\ enabled' = ~enabled
    /\ UNCHANGED <<disposed, grantVars, connecting, streams, timer, writes, sockets,
                   toPhone, phone, opens, born, history>>

\* dispose(): the connection closed, and what was under way to the phone is lost.
Dispose ==
    /\ ~disposed
    /\ disposed' = TRUE
    /\ timer' = FALSE
    /\ sockets' = sockets - Cardinality(OpenStreams)
    /\ streams' = [s \in Stream |-> NoStream]
    /\ grants' = {}
    /\ toPhone' = <<>>
    /\ asks' = [s \in Stream |-> 0] /\ view' = [s \in Stream |-> NoView]
    /\ UNCHANGED <<enabled, authorizing, connecting, writes, honest, cancelled, opens,
                   born, history>>

\* How the phone sees stream id f.stream after frame f; a phone that is not
\* honest does not care.
ViewAfter(f) ==
    LET v == view[f.stream]
    IN  IF ~honest THEN NoView ELSE
        CASE f.kind = "opened" -> [serial |-> f.serial, window |-> Window, unread |-> 0]
          [] f.kind \in Reason -> NoView
          [] f.kind = "data" /\ v # NoView -> [v EXCEPT !.unread = @ + f.units]
          [] f.kind = "credit" /\ v # NoView -> [v EXCEPT !.window = @ + f.units]
          [] OTHER -> v

\* The phone takes the next frame; frames of a stream it does not have are dropped.
PhoneReceives ==
    /\ toPhone # <<>>
    /\ LET f == Head(toPhone)
       IN  /\ view' = [view EXCEPT ![f.stream] = ViewAfter(f)]
           /\ asks' = IF f.kind \in {"opened", "failed"}
                      THEN [asks EXCEPT ![f.stream] = @ - 1] ELSE asks
           /\ arrived' = IF f.kind = "data" /\ view[f.stream] # NoView
                         THEN [arrived EXCEPT ![view[f.stream].serial] = @ + f.units]
                         ELSE arrived
    /\ toPhone' = Tail(toPhone)
    /\ UNCHANGED <<enabled, disposed, grantVars, connecting, streams, timer, writes,
                   sockets, honest, cancelled, opens, born, emitted>>

Settle(s) == \E ok \in BOOLEAN : Connected(s, ok)
Answer(s, n) == WriteDone(s, n) \/ WriteFails(s, n)
GiveCredit(s) == \E n \in 1..MaxSendWindow : Credit(s, n)

Next ==
    \/ \E p \in Port : \/ Authorize(p)
                       \/ \E mentioned \in BOOLEAN : AuthorizeAnswered(p, mentioned)
                       \/ \E s \in Stream : Open(s, p)
    \/ \E s \in Stream :
          \/ Settle(s) \/ GiveCredit(s) \/ Close(s) \/ DataUp(s)
          \/ ServiceSends(s) \/ ServiceEnds(s) \/ ServiceResets(s)
          \/ \E n \in Serial : WriteDone(s, n) \/ WriteFails(s, n)
    \/ FlushTimer
    \/ Switch
    \/ Dispose
    \/ PhoneReceives

Spec == Init /\ [][Next]_vars

\* The timer fires, a connect ends (connectOne has a timeout), a write ends, and
\* the phone reads its frames and returns credit for what it read.
Fairness ==
    /\ WF_vars(FlushTimer)
    /\ WF_vars(PhoneReceives)
    /\ \A s \in Stream : WF_vars(Settle(s)) /\ WF_vars(GiveCredit(s))
    /\ \A s \in Stream, n \in Serial : WF_vars(Answer(s, n))

FairSpec == Spec /\ Fairness

-----------------------------------------------------------------------------
(***************************************************************************)
(* Properties.                                                             *)
(***************************************************************************)

StreamState == [serial : Serial, sendWindow : 0..MaxSendWindow, recvWindow : 0..Window,
                pending : Nat, ended : BOOLEAN, paused : BOOLEAN]
ViewState == [serial : Serial, window : Nat, unread : Nat]
Frame == [kind : {"opened", "data", "credit", "failed"} \cup Reason,
          stream : Stream, serial : Serial, units : Nat]

TypeOK ==
    /\ enabled \in BOOLEAN /\ disposed \in BOOLEAN /\ timer \in BOOLEAN
    /\ authorizing \subseteq Port /\ grants \subseteq Port
    /\ honest \in BOOLEAN
    /\ connecting \in [Stream -> Nat] /\ asks \in [Stream -> Nat]
    /\ streams \in [Stream -> StreamState] /\ view \in [Stream -> ViewState]
    /\ writes \in [Stream -> [Serial -> Nat]] /\ sockets \in Int
    /\ toPhone \in Seq(Frame)
    /\ opens \in Nat /\ born \in Serial /\ cancelled \subseteq Stream
    /\ emitted \in [Serial -> Nat] /\ arrived \in [Serial -> Nat]

\* Both windows of a stream are conserved: what a side may still send, what is on
\* its way and what the other side has not given back make up the initial window.
WindowsConserved ==
    honest => \A s \in OpenStreams :
        LET r == streams[s]
            v == view[s]
            known == v.serial = r.serial
            data == Units(toPhone, "data", {r.serial})
            credit == Units(toPhone, "credit", {r.serial})
        IN  /\ r.sendWindow + data + (IF known THEN v.unread ELSE 0) = Window
            /\ ~r.ended => r.recvWindow + writes[s][r.serial] = Window
            /\ known => v.window + credit = r.recvWindow

\* The phone never takes a frame of a stream for one of another with the same id,
\* however it closes and reopens ids while frames are under way.
StreamsDoNotMix ==
    honest /\ toPhone # <<>> =>
        LET f == Head(toPhone)
        IN  f.kind \in {"data", "credit"} \cup Reason
              => view[f.stream].serial \in {0, f.serial}

\* When the phone reads "eof", it has all that the service sent before it ended.
EofMeansComplete ==
    toPhone # <<>> =>
        LET f == Head(toPhone)
        IN  f.kind = "eof" /\ view[f.stream].serial = f.serial
              => arrived[f.serial] = emitted[f.serial]

\* Every connected socket belongs to an open stream: a connect that comes too late,
\* after dispose or for an id taken meanwhile, leaves none behind.
NoSocketLeaks == sockets = Cardinality(OpenStreams)

\* Flow control never wedges: a socket that was paused, because the window or the
\* send buffer was used up, is read again when credit or the timer comes, and a
\* service's end is sent behind all data, unless the stream closes otherwise.
FlowGoesOn ==
    \A s \in Stream, n \in Serial :
        streams[s].serial = n /\ (streams[s].paused \/ streams[s].ended)
            ~> streams[s].serial # n \/ ~(streams[s].paused \/ streams[s].ended)

\* src/preview-tunnel.ts, PREVIEW_MAX_STREAMS: the limit on the streams one
\* preview connection has open at the same time.
StreamLimit == Cardinality(OpenStreams) <= MaxStreams

\* PROTOCOL.md, c2s.preview.close: the bridge destroys the socket at once.
CloseDestroys == \A s \in cancelled : ~IsOpen(s)

\* src/preview-tunnel.ts, isEnabled: read again for every request and every batch
\* of data, so no data leaves while the setting is off.
NothingLeavesWhileDisabled ==
    [][~enabled => Buffered(toPhone') <= Buffered(toPhone)]_vars
=============================================================================
