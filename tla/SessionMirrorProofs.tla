------------------------ MODULE SessionMirrorProofs ------------------------
(***************************************************************************)
(* Theorems about the mirror of the session list, for every set of         *)
(* sessions, requests and phones, and any number of readings that overlap. *)
(***************************************************************************)
EXTENDS SessionMirror, TLAPS

Rows == [Session -> Row \cup {NoRow}]
Idle == [at : {"none", "list"}, rows : {<<>>}, archived : SUBSET Session, behind : SUBSET Session]
Read == [at : {"workspace", "apply"}, rows : [Session -> HostRow], archived : SUBSET Session,
         behind : SUBSET Session]
Frame == [type : {"requested", "resolved"}, request : Request]
Claim == [on : SUBSET Request, receipt : {"none", "accepted", "not-pending", "transport"}]

\* summaryPushed is what the phones have, and the mirror is that but for
\* statistics that a timer is going to send.
RowInv(s) ==
    /\ pushed[s] = phoneList[s]
    /\ \/ phoneList[s] = summaries[s]
       \/ /\ s \in timers /\ phoneList[s] # NoRow /\ summaries[s] # NoRow
          /\ WithoutStats(phoneList[s]) = WithoutStats(summaries[s])

\* The mirror has session s as the Host has it.
Right(s) ==
    IF host[s].state \in {"absent", "archived"} THEN summaries[s] = NoRow
    ELSE /\ summaries[s] # NoRow
         /\ summaries[s].running = (host[s].state = "running")
         /\ summaries[s].stats = host[s].stats

SeenInv(s) == s \notin mistaken => Right(s) /\ (s \in archivedIds <=> host[s].state = "archived")

\* What was read of session s is still so, unless s changed behind its back.
ReadInv(s) == \A r \in Reading : s \notin readings[r].behind =>
    /\ readings[r].at \in {"workspace", "apply"} => readings[r].rows[s] = host[s]
    /\ readings[r].at = "apply" => (s \in readings[r].archived <=> host[s].state = "archived")

IInv == TypeOK /\ \A s \in Session : RowInv(s) /\ SeenInv(s) /\ ReadInv(s)

-----------------------------------------------------------------------------
LEMMA StartFact == Init => IInv
<1> SUFFICES ASSUME Init PROVE IInv
  OBVIOUS
<1>1. NoReading \in Idle /\ [NoReading EXCEPT !.at = "list"] \in Idle
  BY DEF NoReading, Idle
<1>2. readings \in [Reading -> Idle]
  BY <1>1 DEF Init
<1>3. TypeOK
  <2>1. host \in [Session -> HostRow]
    BY MirrorAssumption DEF Init, HostRow
  <2>2. claims \in [Phone -> Claim]
    BY DEF Init, NoClaim, Claim
  <2>3. QED
    BY <1>2, <2>1, <2>2 DEF Init, TypeOK, Idle, Claim
<1>4. \A s \in Session : RowInv(s) /\ SeenInv(s) /\ ReadInv(s)
  BY <1>2 DEF Init, RowInv, SeenInv, ReadInv, Idle
<1>5. QED
  BY <1>3, <1>4 DEF IInv

\* One row of the list changes: what the phones have follows, or a timer is armed.
LEMMA PushFact ==
    ASSUME IInv, NEW s \in Session, NEW row \in Row, NEW armed \in SUBSET Session,
           timers \ {s} \subseteq armed, PushSummary(s, row, armed)
    PROVE  /\ summaries' = [summaries EXCEPT ![s] = row] /\ summaries' \in Rows
           /\ pushed' \in Rows /\ phoneList' \in Rows /\ timers' \subseteq Session
           /\ \A t \in Session : RowInv(t)'
<1> USE DEF IInv
<1>1. row # NoRow
  BY NoRowAssumption
<1>2. /\ summaries' = [summaries EXCEPT ![s] = row] /\ timers' \subseteq Session
      /\ timers \ {s} \subseteq timers'
      /\ \/ row = pushed[s] /\ UNCHANGED <<pushed, phoneList>>
         \/ /\ pushed[s] # NoRow /\ WithoutStats(row) = WithoutStats(pushed[s])
            /\ s \in timers' /\ UNCHANGED <<pushed, phoneList>>
         \/ /\ pushed' = [pushed EXCEPT ![s] = row]
            /\ phoneList' = [phoneList EXCEPT ![s] = row]
  BY DEF PushSummary
<1>3. summaries' \in Rows /\ pushed' \in Rows /\ phoneList' \in Rows
  BY <1>2 DEF TypeOK, Rows
<1>4. ASSUME NEW t \in Session, t # s PROVE RowInv(t)'
  <2>1. /\ summaries'[t] = summaries[t] /\ pushed'[t] = pushed[t] /\ phoneList'[t] = phoneList[t]
        /\ t \in timers => t \in timers'
    BY <1>2, <1>4 DEF TypeOK
  <2>2. QED
    BY <2>1 DEF RowInv, WithoutStats
<1>5. RowInv(s)'
  <2>1. summaries'[s] = row /\ pushed[s] = phoneList[s]
    BY <1>2 DEF TypeOK, RowInv
  <2>2. CASE pushed' = [pushed EXCEPT ![s] = row] /\ phoneList' = [phoneList EXCEPT ![s] = row]
    BY <2>1, <2>2 DEF TypeOK, RowInv
  <2>3. CASE UNCHANGED <<pushed, phoneList>>
    BY <1>1, <1>2, <2>1, <2>2, <2>3 DEF RowInv, WithoutStats
  <2>4. QED
    BY <1>2, <2>2, <2>3
<1>6. QED
  BY <1>2, <1>3, <1>4, <1>5

LEMMA UpdateFact ==
    ASSUME IInv, NEW s \in Session, NEW row, summaries[s] # NoRow => row \in Row, Update(s, row)
    PROVE  /\ summaries' \in Rows /\ pushed' \in Rows /\ phoneList' \in Rows
           /\ timers' \subseteq Session
           /\ \A t \in Session : RowInv(t)'
           /\ summaries' = IF summaries[s] = NoRow THEN summaries ELSE [summaries EXCEPT ![s] = row]
<1>1. CASE summaries[s] = NoRow
  BY <1>1 DEF Update, IInv, TypeOK, Rows, RowInv, listVars, WithoutStats
<1>2. CASE summaries[s] # NoRow
  <2>1. timers \in SUBSET Session /\ timers \ {s} \subseteq timers
    BY DEF IInv, TypeOK
  <2>2. PushSummary(s, row, timers)
    BY <1>2 DEF Update
  <2>3. QED
    BY <1>2, <2>1, <2>2, PushFact
<1>3. QED
  BY <1>1, <1>2

-----------------------------------------------------------------------------
(* Readings of the list.                                                   *)

\* Each reading is as before or starts anew.
Restarted(old, new) ==
    /\ new \in [Reading -> Idle \cup Read]
    /\ \A r \in Reading : new[r] = old[r] \/ new[r].at \in {"none", "list"}

LEMMA OutdatedFact ==
    ASSUME TypeOK, NEW s \in Session
    PROVE  /\ Outdated(s) \in [Reading -> Idle \cup Read]
           /\ \A r \in Reading :
                \/ Outdated(s)[r].at \in {"none", "list"}
                \/ /\ s \in Outdated(s)[r].behind
                   /\ Outdated(s)[r].at = readings[r].at
                   /\ Outdated(s)[r].rows = readings[r].rows
                   /\ Outdated(s)[r].archived = readings[r].archived
                   /\ readings[r].behind \subseteq Outdated(s)[r].behind
                   /\ Outdated(s)[r].behind \subseteq readings[r].behind \cup {s}
<1> DEFINE new(r) == [readings[r] EXCEPT !.behind = @ \cup {s}]
<1>1. \A r \in Reading : readings[r] \in Idle \/ readings[r] \in Read
  BY DEF TypeOK, Idle, Read
<1>2. ASSUME NEW r \in Reading, readings[r].at \in {"workspace", "apply"}
      PROVE  /\ new(r) \in Read
             /\ new(r).behind = readings[r].behind \cup {s}
             /\ new(r).at = readings[r].at /\ new(r).rows = readings[r].rows
             /\ new(r).archived = readings[r].archived
  <2>1. readings[r] \in Read
    BY <1>1, <1>2 DEF Idle
  <2>2. QED
    BY <2>1 DEF Read
<1>3. \A r \in Reading : Outdated(s)[r] =
          IF readings[r].at \in {"workspace", "apply"} THEN new(r) ELSE readings[r]
  BY DEF Outdated
<1>4. Outdated(s) = [r \in Reading |-> Outdated(s)[r]]
  BY DEF Outdated
<1> HIDE DEF new
<1>5. ASSUME NEW r \in Reading, readings[r].at \notin {"workspace", "apply"}
      PROVE  Outdated(s)[r] \in Idle /\ Outdated(s)[r].at \in {"none", "list"}
  BY <1>1, <1>3, <1>5 DEF Idle, Read
<1>6. \A r \in Reading : Outdated(s)[r] \in Idle \cup Read
  BY <1>2, <1>3, <1>5
<1>7. QED
  BY <1>2, <1>3, <1>4, <1>5, <1>6

LEMMA RefreshFact ==
    ASSUME NEW old \in [Reading -> Idle \cup Read], NEW new, WithRefresh(old, new)
    PROVE  Restarted(old, new)
<1>1. [NoReading EXCEPT !.at = "list"] \in Idle /\ [NoReading EXCEPT !.at = "list"].at = "list"
  BY DEF NoReading, Idle
<1> DEFINE start == [NoReading EXCEPT !.at = "list"]
<1>2. PICK r \in Reading : new = [old EXCEPT ![r] = start]
  BY DEF WithRefresh
<1>3. start \in Idle /\ start.at = "list"
  BY <1>1
<1> HIDE DEF start
<1>4. QED
  BY <1>2, <1>3 DEF Restarted

\* A change of session s, of which every reading under way is told: what was
\* read of the others is still so.
LEMMA ChangeFact ==
    ASSUME IInv, NEW s \in Session, \A t \in Session \ {s} : host'[t] = host[t],
           Restarted(Outdated(s), readings')
    PROVE  \A t \in Session : ReadInv(t)'
<1> SUFFICES ASSUME NEW t \in Session, NEW r \in Reading, t \notin readings'[r].behind,
                    readings'[r].at \in {"workspace", "apply"}
             PROVE  /\ readings'[r].rows[t] = host'[t]
                    /\ readings'[r].at = "apply" =>
                           (t \in readings'[r].archived <=> host'[t].state = "archived")
  BY DEF ReadInv
<1>1. readings'[r] = Outdated(s)[r]
  BY DEF Restarted
<1>2. /\ s \in readings'[r].behind
      /\ readings'[r].at = readings[r].at /\ readings'[r].rows = readings[r].rows
      /\ readings'[r].archived = readings[r].archived
      /\ readings[r].behind \subseteq readings'[r].behind
  BY <1>1, OutdatedFact DEF IInv
<1>3. t # s /\ t \notin readings[r].behind
  BY <1>2
<1>4. ReadInv(t)
  BY DEF IInv
<1>5. QED
  BY <1>2, <1>3, <1>4 DEF ReadInv

LEMMA FlagsFact ==
    ASSUME NEW s \in Session, NEW waiting \in SUBSET Request
    PROVE  Flags(s, waiting) \in SUBSET {"approval", "question"}
BY MirrorAssumption DEF Flags

-----------------------------------------------------------------------------
(* The Host, and its list.                                                 *)

\* A session comes, goes, or moves to or from the archive: the list that is read
\* next will say so.
LEMMA MovesStep ==
    ASSUME IInv, NEW s \in Session, SessionComesOrGoes(s) \/ ArchiveChanges(s)
    PROVE  IInv'
<1> USE DEF IInv
<1>1. /\ UNCHANGED <<summaries, pushed, timers, phoneList, requestVars, unbumped>>
      /\ mistaken' = mistaken \cup {s}
      /\ WithRefresh(Outdated(s), readings')
      /\ archivedIds' = archivedIds \/ archivedIds' = Archived'
  BY DEF SessionComesOrGoes, ArchiveChanges, listVars
<1>2. PICK row \in HostRow : HostBecomes(s, row)
  <2>1. host[s] \in HostRow
    BY DEF TypeOK
  <2>2. /\ [host[s] EXCEPT !.state = "archived"] \in HostRow
        /\ [host[s] EXCEPT !.state = "idle"] \in HostRow
        /\ [state |-> "idle", stats |-> 0] \in HostRow /\ [state |-> "absent", stats |-> 0] \in HostRow
    BY <2>1 DEF HostRow
  <2>3. QED
    BY <2>2 DEF SessionComesOrGoes, ArchiveChanges
<1>3. /\ host' \in [Session -> HostRow] /\ changes' \in Nat
      /\ \A t \in Session \ {s} : host'[t] = host[t]
  BY <1>2 DEF HostBecomes, TypeOK
<1>4. Restarted(Outdated(s), readings')
  BY <1>1, OutdatedFact, RefreshFact
<1>5. \A t \in Session : ReadInv(t)'
  BY <1>3, <1>4, ChangeFact
<1>6. TypeOK'
  BY <1>1, <1>3, <1>4 DEF TypeOK, Restarted, Idle, Read, Archived, requestVars
<1>7. \A t \in Session : RowInv(t)'
  BY <1>1 DEF RowInv, WithoutStats
<1>8. \A t \in Session : SeenInv(t)'
  <2>1. SUFFICES ASSUME NEW t \in Session \ {s}, t \notin mistaken
                 PROVE  Right(t)' /\ (t \in archivedIds' <=> host'[t].state = "archived")
    BY <1>1 DEF SeenInv
  <2>2. Right(t) /\ (t \in archivedIds <=> host[t].state = "archived")
    BY <2>1 DEF SeenInv
  <2>3. QED
    BY <1>1, <1>3, <2>1, <2>2 DEF Right, Archived
<1>9. QED
  BY <1>5, <1>6, <1>7, <1>8

LEMMA ArchivedStep == ASSUME IInv, NEW s \in Session, ArchiveAnswered(s) PROVE IInv'
<1> USE DEF IInv
<1>1. /\ host[s].state = "archived"
      /\ archivedIds' = Archived
      /\ summaries' = [summaries EXCEPT ![s] = NoRow]
      /\ pushed' = [pushed EXCEPT ![s] = NoRow]
      /\ timers' = timers \ {s}
      /\ phoneList' = [phoneList EXCEPT ![s] = NoRow]
      /\ UNCHANGED <<host, changes, readings, mistaken, requestVars, unbumped>>
  BY DEF ArchiveAnswered
<1>2. TypeOK'
  BY <1>1 DEF TypeOK, Archived, requestVars
<1>3. ASSUME NEW t \in Session PROVE RowInv(t)'
  <2>1. CASE t = s
    BY <1>1, <2>1 DEF RowInv, TypeOK
  <2>2. CASE t # s
    BY <1>1, <2>2 DEF RowInv, TypeOK, WithoutStats
  <2>3. QED
    BY <2>1, <2>2
<1>4. ASSUME NEW t \in Session PROVE SeenInv(t)'
  BY <1>1 DEF SeenInv, Right, TypeOK, Archived
<1>5. \A t \in Session : ReadInv(t)'
  BY <1>1 DEF ReadInv
<1>6. QED
  BY <1>2, <1>3, <1>4, <1>5

\* An event of a session changes its row, if the mirror has one: a row that was
\* right is right again.
LEMMA EventStep ==
    ASSUME IInv, NEW s \in Session, NEW row \in HostRow, HostBecomes(s, row),
           host[s].state \in {"idle", "running"}, row.state \in {"idle", "running"},
           UNCHANGED <<archivedIds, mistaken, requestVars, unbumped>>, readings' = Outdated(s),
           NEW new, Update(s, new), summaries[s] # NoRow => new \in Row,
           summaries[s] # NoRow /\ summaries[s].running = (host[s].state = "running")
               /\ summaries[s].stats = host[s].stats
               => new.running = (row.state = "running") /\ new.stats = row.stats
    PROVE  IInv'
<1> USE DEF IInv
<1>1. /\ host' \in [Session -> HostRow] /\ changes' \in Nat /\ host'[s] = row
      /\ \A t \in Session \ {s} : host'[t] = host[t]
  BY DEF HostBecomes, TypeOK
<1>2. Restarted(Outdated(s), readings')
  BY OutdatedFact DEF Restarted
<1>3. \A t \in Session : ReadInv(t)'
  BY <1>1, <1>2, ChangeFact
<1>4. /\ summaries' \in Rows /\ pushed' \in Rows /\ phoneList' \in Rows
      /\ timers' \subseteq Session
      /\ \A t \in Session : RowInv(t)'
      /\ summaries' = IF summaries[s] = NoRow THEN summaries ELSE [summaries EXCEPT ![s] = new]
  BY UpdateFact
<1>5. TypeOK'
  BY <1>1, <1>2, <1>4 DEF TypeOK, Restarted, Rows, Idle, Read, requestVars
<1>6. ASSUME NEW t \in Session PROVE SeenInv(t)'
  <2>1. SUFFICES ASSUME t \notin mistaken
                 PROVE  Right(t)' /\ (t \in archivedIds' <=> host'[t].state = "archived")
    BY DEF SeenInv
  <2>2. Right(t) /\ (t \in archivedIds <=> host[t].state = "archived")
    BY <2>1 DEF SeenInv
  <2>3. CASE t # s
    <3>1. summaries'[t] = summaries[t]
      BY <1>4, <2>3 DEF TypeOK
    <3>2. QED
      BY <1>1, <2>2, <2>3, <3>1 DEF Right
  <2>4. CASE t = s
    <3>1. /\ summaries[s] # NoRow /\ summaries[s].running = (host[s].state = "running")
          /\ summaries[s].stats = host[s].stats
      BY <2>2, <2>4 DEF Right
    <3>2. summaries'[s] = new /\ new # NoRow
      BY <1>4, <3>1, NoRowAssumption DEF TypeOK
    <3>3. QED
      BY <1>1, <2>2, <2>4, <3>1, <3>2 DEF Right
  <2>5. QED
    BY <2>3, <2>4
<1>7. QED
  BY <1>3, <1>4, <1>5, <1>6

LEMMA StatusStep == ASSUME IInv, NEW s \in Session, StatusChanges(s) PROVE IInv'
<1>1. host[s] \in HostRow /\ (summaries[s] # NoRow => summaries[s] \in Row)
  BY DEF IInv, TypeOK
<1>2. PICK state \in {"idle", "running"} :
          host[s].state \in {"idle", "running"} /\ HostBecomes(s, [host[s] EXCEPT !.state = state])
  BY DEF StatusChanges
<1> DEFINE row == [host[s] EXCEPT !.state = state]
           new == [summaries[s] EXCEPT !.running = (state = "running")]
<1>3. row \in HostRow /\ row.state = state /\ row.stats = host[s].stats
  BY <1>1 DEF HostRow
<1>4. host'[s].state = state
  BY <1>2, <1>3 DEF HostBecomes, IInv, TypeOK
<1>5. Update(s, new)
  BY <1>4 DEF StatusChanges
<1>6. summaries[s] # NoRow => new \in Row /\ new.running = (state = "running")
                              /\ new.stats = summaries[s].stats
  BY <1>1 DEF Row
<1>7. UNCHANGED <<archivedIds, mistaken, requestVars, unbumped>> /\ readings' = Outdated(s)
  BY DEF StatusChanges
<1>8. HostBecomes(s, row)
  BY <1>2
<1> HIDE DEF row, new
<1>9. QED
  BY <1>2, <1>3, <1>5, <1>6, <1>7, <1>8, EventStep

LEMMA StatsStep == ASSUME IInv, NEW s \in Session, StatsChange(s) PROVE IInv'
<1>1. host[s] \in HostRow /\ (summaries[s] # NoRow => summaries[s] \in Row)
  BY DEF IInv, TypeOK
<1> DEFINE row == [host[s] EXCEPT !.stats = 1 - @]
           new == [summaries[s] EXCEPT !.stats = row.stats]
<1>2. HostBecomes(s, row) /\ host[s].state = "running"
  BY DEF StatsChange
<1>3. row \in HostRow /\ row.state = host[s].state /\ row.stats \in 0..1
  BY <1>1 DEF HostRow
<1>4. host'[s] = row
  BY <1>2 DEF HostBecomes, IInv, TypeOK
<1>5. Update(s, new)
  BY <1>4 DEF StatsChange
<1>6. summaries[s] # NoRow => new \in Row /\ new.running = summaries[s].running
                              /\ new.stats = row.stats
  BY <1>1, <1>3 DEF Row
<1>7. UNCHANGED <<archivedIds, mistaken, requestVars, unbumped>> /\ readings' = Outdated(s)
  BY DEF StatsChange
<1> HIDE DEF row, new
<1>8. QED
  BY <1>2, <1>3, <1>5, <1>6, <1>7, EventStep

-----------------------------------------------------------------------------
(* refreshSummaries()                                                      *)

\* A reading that is not applied yet changes nothing but itself.
LEMMA ReadingStep ==
    ASSUME IInv, UNCHANGED <<host, changes, archivedIds, mistaken, listVars, requestVars, unbumped>>,
           readings' \in [Reading -> Idle \cup Read], \A t \in Session : ReadInv(t)'
    PROVE  IInv'
<1>1. TypeOK'
  BY DEF IInv, TypeOK, Idle, Read, listVars, requestVars
<1>2. \A t \in Session : RowInv(t)' /\ SeenInv(t)'
  BY DEF IInv, RowInv, SeenInv, Right, listVars, WithoutStats
<1>3. QED
  BY <1>1, <1>2 DEF IInv

LEMMA ListStep ==
    ASSUME IInv,
           NewsOfTheList \/ \E r \in Reading : ListRead(r) \/ ReadingFails(r) \/ WorkspaceRead(r)
    PROVE  IInv'
<1>1. /\ readings \in [Reading -> Idle \cup Read] /\ TypeOK
      /\ \A t \in Session : ReadInv(t)
      /\ UNCHANGED <<host, changes, archivedIds, mistaken, listVars, requestVars, unbumped>>
  BY DEF IInv, TypeOK, Idle, Read, NewsOfTheList, ListRead, ReadingFails, WorkspaceRead
<1>2. NoReading \in Idle /\ NoReading.at = "none"
  BY DEF NoReading, Idle
<1>3. ASSUME NEW r \in Reading, NEW reading \in Idle \cup Read,
             readings' = [readings EXCEPT ![r] = reading],
             reading.at \in {"workspace", "apply"} => \A t \in Session : t \notin reading.behind =>
                 /\ reading.rows[t] = host[t]
                 /\ reading.at = "apply" => (t \in reading.archived <=> host[t].state = "archived")
      PROVE  IInv'
  <2>1. readings' \in [Reading -> Idle \cup Read]
    BY <1>1, <1>3
  <2>2. \A t \in Session : ReadInv(t)'
    BY <1>1, <1>3 DEF ReadInv
  <2>3. QED
    BY <1>1, <2>1, <2>2, ReadingStep
<1>4. CASE NewsOfTheList
  <2>1. Restarted(readings, readings')
    BY <1>1, <1>4, RefreshFact DEF NewsOfTheList
  <2>2. \A t \in Session : ReadInv(t)'
    BY <1>1, <2>1 DEF ReadInv, Restarted
  <2>3. QED
    BY <1>1, <2>1, <2>2, ReadingStep DEF Restarted
<1>5. ASSUME NEW r \in Reading, ListRead(r) PROVE IInv'
  <2> DEFINE reading == [NoReading EXCEPT !.at = "workspace", !.rows = host]
  <2>1. reading \in Read /\ reading.rows = host /\ reading.at = "workspace"
    BY <1>1 DEF NoReading, Read, TypeOK
  <2>2. readings' = [readings EXCEPT ![r] = reading]
    BY <1>5 DEF ListRead
  <2> HIDE DEF reading
  <2>3. QED
    BY <1>3, <2>1, <2>2
<1>6. ASSUME NEW r \in Reading, ReadingFails(r) PROVE IInv'
  BY <1>2, <1>3, <1>6 DEF ReadingFails
<1>7. ASSUME NEW r \in Reading, WorkspaceRead(r) PROVE IInv'
  <2>1. readings[r] \in Read
    BY <1>1, <1>7 DEF WorkspaceRead, Idle
  <2> DEFINE reading == [readings[r] EXCEPT !.at = "apply", !.archived = Archived]
  <2>2. /\ reading \in Read /\ reading.rows = readings[r].rows /\ reading.archived = Archived
        /\ reading.behind = readings[r].behind
    BY <2>1 DEF Read, Archived
  <2>3. readings' = [readings EXCEPT ![r] = reading]
    BY <1>1, <1>7, <2>1 DEF WorkspaceRead, Read
  <2>4. readings[r].at = "workspace"
    BY <1>7 DEF WorkspaceRead
  <2> HIDE DEF reading
  <2>5. \A t \in Session : t \notin reading.behind =>
            reading.rows[t] = host[t] /\ (t \in reading.archived <=> host[t].state = "archived")
    BY <1>1, <2>2, <2>4 DEF ReadInv, Archived
  <2>6. QED
    BY <1>3, <2>2, <2>3, <2>5
<1>8. QED
  BY <1>4, <1>5, <1>6, <1>7

LEMMA NextSummariesFact ==
    ASSUME NEW rows \in [Session -> HostRow], NEW archived, pending \subseteq Request
    PROVE  /\ NextSummaries(rows, archived) \in Rows
           /\ \A s \in Session :
                IF rows[s].state = "absent" \/ s \in archived
                THEN NextSummaries(rows, archived)[s] = NoRow
                ELSE /\ NextSummaries(rows, archived)[s] # NoRow
                     /\ NextSummaries(rows, archived)[s].running = (rows[s].state = "running")
                     /\ NextSummaries(rows, archived)[s].stats = rows[s].stats
<1>1. ASSUME NEW s \in Session
      PROVE  /\ ToSummary(s, rows[s]) \in Row
             /\ ToSummary(s, rows[s]).running = (rows[s].state = "running")
             /\ ToSummary(s, rows[s]).stats = rows[s].stats
  <2>1. rows[s].stats \in 0..1
    BY DEF HostRow
  <2>2. Flags(s, pending) \in SUBSET {"approval", "question"}
    BY FlagsFact
  <2>3. QED
    BY <2>1, <2>2 DEF ToSummary, Row
<1>2. QED
  BY <1>1, NoRowAssumption DEF NextSummaries, Rows

\* A whole list is applied: the phones get it, and it is right about every
\* session that did not change while it was on its way.
LEMMA ApplyStep ==
    ASSUME IInv, NEW r \in Reading, Apply(r) \/ ApplyWithoutWorkspace(r)
    PROVE  IInv'
<1> USE DEF IInv
<1>1. readings[r] \in Read
  BY DEF Apply, ApplyWithoutWorkspace, TypeOK, Idle, Read
<1>2. PICK archived \in SUBSET Session, unknown \in SUBSET Session :
          /\ ApplyReading(r, archived, unknown)
          /\ \A s \in Session : s \notin readings[r].behind \cup unknown =>
                 (s \in archived <=> host[s].state = "archived")
  <2>1. CASE Apply(r)
    <3>1. readings[r].archived \in SUBSET Session
      BY <1>1 DEF Read
    <3>2. QED
      BY <2>1, <3>1 DEF Apply, ReadInv
  <2>2. CASE ApplyWithoutWorkspace(r)
    <3>1. archivedIds \in SUBSET Session /\ mistaken \in SUBSET Session
      BY DEF TypeOK
    <3>2. QED
      BY <2>2, <3>1 DEF ApplyWithoutWorkspace, SeenInv
  <2>3. QED
    BY <2>1, <2>2
<1>3. /\ archivedIds' = archived
      /\ summaries' = NextSummaries(readings[r].rows, archived)
      /\ pushed' = summaries' /\ phoneList' = summaries'
      /\ timers' \subseteq timers
      /\ mistaken' = readings[r].behind \cup unknown
      /\ unbumped' = {}
      /\ readings' = [readings EXCEPT ![r] = NoReading]
      /\ UNCHANGED <<host, changes, requestVars>>
  BY <1>2 DEF ApplyReading, NotePushed
<1>4. readings[r].rows \in [Session -> HostRow] /\ pending \subseteq Request
  BY <1>1 DEF Read, TypeOK
<1>5. NoReading \in Idle /\ NoReading.at = "none"
  BY DEF NoReading, Idle
<1>6. TypeOK'
  <2>1. summaries' \in Rows
    BY <1>3, <1>4, NextSummariesFact
  <2>2. readings' \in [Reading -> Idle \cup Read]
    BY <1>3, <1>5 DEF TypeOK, Idle, Read
  <2>3. mistaken' \subseteq Session
    BY <1>1, <1>3 DEF Read
  <2>4. QED
    BY <1>3, <2>1, <2>2, <2>3 DEF TypeOK, Rows, Idle, Read, requestVars
<1>7. \A t \in Session : RowInv(t)'
  BY <1>3 DEF RowInv
<1>8. ASSUME NEW t \in Session PROVE SeenInv(t)'
  <2>1. SUFFICES ASSUME t \notin readings[r].behind \cup unknown
                 PROVE  Right(t)' /\ (t \in archivedIds' <=> host'[t].state = "archived")
    BY <1>3 DEF SeenInv
  <2>2. t \in archived <=> host[t].state = "archived"
    BY <1>2, <2>1
  <2>3. readings[r].rows[t] = host[t]
    BY <1>1, <2>1 DEF ReadInv, Read
  <2>4. QED
    BY <1>3, <1>4, <2>2, <2>3, NextSummariesFact DEF Right
<1>9. \A t \in Session : ReadInv(t)'
  BY <1>3, <1>5 DEF ReadInv, TypeOK
<1>10. QED
  BY <1>6, <1>7, <1>8, <1>9

LEMMA TimerStep == ASSUME IInv, NEW s \in Session, TimerFires(s) PROVE IInv'
<1> USE DEF IInv
<1>1. UNCHANGED <<mirrorVars, requestVars, unbumped>>
  BY DEF TimerFires
<1>2. /\ summaries' = summaries /\ pushed' \in Rows /\ phoneList' \in Rows
      /\ timers' \subseteq Session /\ \A t \in Session : RowInv(t)'
  <2>1. CASE summaries[s] = NoRow
    <3>1. timers' = timers \ {s} /\ UNCHANGED <<summaries, pushed, phoneList>>
      BY <2>1 DEF TimerFires
    <3>2. QED
      BY <2>1, <3>1 DEF TypeOK, Rows, RowInv, WithoutStats
  <2>2. CASE summaries[s] # NoRow
    <3>1. PushSummary(s, summaries[s], timers \ {s}) /\ summaries[s] \in Row
      BY <2>2 DEF TimerFires, TypeOK
    <3>2. timers \ {s} \in SUBSET Session
      BY DEF TypeOK
    <3>3. [summaries EXCEPT ![s] = summaries[s]] = summaries
      BY DEF TypeOK
    <3>4. QED
      BY <3>1, <3>2, <3>3, PushFact
  <2>3. QED
    BY <2>1, <2>2
<1>3. TypeOK'
  BY <1>1, <1>2 DEF TypeOK, Rows, mirrorVars, requestVars
<1>4. \A t \in Session : SeenInv(t)' /\ ReadInv(t)'
  BY <1>1, <1>2 DEF SeenInv, Right, ReadInv, mirrorVars
<1>5. QED
  BY <1>2, <1>3, <1>4

-----------------------------------------------------------------------------
(* Approvals and questions: they change the flags of rows and nothing else.*)

RequestTypes ==
    /\ interactions \subseteq Request /\ pending \subseteq Request /\ loading \subseteq Request
    /\ cards \subseteq Request /\ asked \subseteq Request /\ stranded \subseteq Request
    /\ muxFrames \in Seq(Frame)
    /\ claims \in [Phone -> Claim]
    /\ unbumped \subseteq Session

LEMMA FlagsStep ==
    ASSUME IInv, UNCHANGED mirrorVars, RequestTypes',
           \/ UNCHANGED listVars
           \/ \E s \in Session, waiting \in SUBSET Request : BumpPendingFlags(s, waiting)
    PROVE  IInv'
<1> USE DEF IInv
<1>1. CASE UNCHANGED listVars
  <2>1. TypeOK'
    BY <1>1 DEF TypeOK, RequestTypes, Frame, Claim, mirrorVars, listVars
  <2>2. \A t \in Session : RowInv(t)' /\ SeenInv(t)' /\ ReadInv(t)'
    BY <1>1 DEF RowInv, SeenInv, Right, ReadInv, mirrorVars, listVars, WithoutStats
  <2>3. QED
    BY <2>1, <2>2
<1>2. ASSUME NEW s \in Session, NEW waiting \in SUBSET Request, BumpPendingFlags(s, waiting)
      PROVE  IInv'
  <2> DEFINE new == [summaries[s] EXCEPT !.flags = Flags(s, waiting)]
  <2>1. Update(s, new)
    BY <1>2 DEF BumpPendingFlags
  <2>2. Flags(s, waiting) \in SUBSET {"approval", "question"}
    BY FlagsFact
  <2>3. summaries[s] # NoRow => /\ new \in Row /\ new.running = summaries[s].running
                                /\ new.stats = summaries[s].stats
    BY <2>2 DEF TypeOK, Row
  <2> HIDE DEF new
  <2>4. /\ summaries' \in Rows /\ pushed' \in Rows /\ phoneList' \in Rows
        /\ timers' \subseteq Session /\ \A t \in Session : RowInv(t)'
        /\ summaries' = IF summaries[s] = NoRow THEN summaries ELSE [summaries EXCEPT ![s] = new]
    BY <2>1, <2>3, UpdateFact
  <2>5. TypeOK'
    BY <2>4 DEF TypeOK, Rows, RequestTypes, Frame, Claim, mirrorVars
  <2>6. \A t \in Session : ReadInv(t)'
    BY DEF ReadInv, mirrorVars
  <2>7. ASSUME NEW t \in Session PROVE SeenInv(t)'
    <3>1. CASE t = s
      BY <2>3, <2>4, <3>1, NoRowAssumption DEF SeenInv, Right, TypeOK, mirrorVars
    <3>2. CASE t # s
      BY <2>4, <3>2 DEF SeenInv, Right, TypeOK, mirrorVars
    <3>3. QED
      BY <3>1, <3>2
  <2>8. QED
    BY <2>4, <2>5, <2>6, <2>7
<1>3. QED
  BY <1>1, <1>2

LEMMA RequestStep ==
    ASSUME IInv, NEW q \in Request,
           HostAsks(q) \/ Aborted(q) \/ ArgumentsArrive(q) \/ \E p \in Phone : Respond(p, q)
    PROVE  IInv'
<1>1. RequestTypes
  BY DEF IInv, TypeOK, RequestTypes, Frame, Claim
<1>2. UNCHANGED <<mirrorVars, listVars, unbumped>>
  BY DEF HostAsks, Aborted, ArgumentsArrive, Respond
<1>3. /\ [type |-> "requested", request |-> q] \in Frame
      /\ [type |-> "resolved", request |-> q] \in Frame
  BY DEF Frame
<1>4. CASE HostAsks(q)
  BY <1>1, <1>2, <1>3, <1>4, FlagsStep DEF HostAsks, RequestTypes
<1>5. CASE Aborted(q)
  BY <1>1, <1>2, <1>3, <1>5, FlagsStep DEF Aborted, Settle, RequestTypes
<1>6. CASE ArgumentsArrive(q)
  BY <1>1, <1>2, <1>6, FlagsStep DEF ArgumentsArrive, RequestTypes
<1>7. ASSUME NEW p \in Phone, Respond(p, q) PROVE IInv'
  <2>1. PICK claim \in Claim : claims' = [claims EXCEPT ![p] = claim]
    <3>1. \A receipt \in {"accepted", "not-pending", "transport"} :
              [on |-> {q}, receipt |-> receipt] \in Claim
      BY DEF Claim
    <3>2. QED
      BY <1>7, <3>1 DEF Respond
  <2>2. claims' \in [Phone -> Claim]
    BY <1>1, <2>1 DEF RequestTypes
  <2>3. interactions' \subseteq Request /\ muxFrames' \in Seq(Frame)
    BY <1>1, <1>3, <1>7 DEF Respond, Settle, RequestTypes
  <2>4. pending' \subseteq Request /\ UNCHANGED <<loading, cards, asked, stranded>>
    BY <1>1, <1>7 DEF Respond, RequestTypes
  <2>5. RequestTypes'
    BY <1>1, <1>2, <2>2, <2>3, <2>4 DEF RequestTypes
  <2>6. QED
    BY <1>2, <2>5, FlagsStep
<1>8. QED
  BY <1>4, <1>5, <1>6, <1>7

LEMMA FrameStep == ASSUME IInv, MuxFrame PROVE IInv'
<1>1. RequestTypes
  BY DEF IInv, TypeOK, RequestTypes, Frame, Claim
<1>2. PICK frame \in Frame :
          /\ muxFrames' = Tail(muxFrames) /\ muxFrames' \in Seq(Frame)
          /\ Requested(frame.request) \/ Resolved(frame.request)
  BY <1>1 DEF MuxFrame, RequestTypes
<1> DEFINE q == frame.request
<1>3. q \in Request /\ SessionOf[q] \in Session
  BY MirrorAssumption DEF Frame
<1>4. UNCHANGED <<mirrorVars, interactions, claims, asked, stranded>>
  BY DEF MuxFrame
<1> HIDE DEF q
<1>5. /\ pending' \in SUBSET Request /\ cards' \subseteq Request /\ loading' \subseteq Request
      /\ unbumped' \subseteq Session
      /\ UNCHANGED listVars \/ BumpPendingFlags(SessionOf[q], pending')
  <2>1. CASE Requested(q)
    BY <1>1, <1>3, <2>1 DEF Requested, BumpPendingFlags, RequestTypes
  <2>2. CASE Resolved(q)
    BY <1>1, <1>3, <2>2 DEF Resolved, BumpPendingFlags, RequestTypes
  <2>3. QED
    BY <1>2, <2>1, <2>2 DEF q
<1>6. RequestTypes'
  BY <1>1, <1>2, <1>4, <1>5 DEF RequestTypes
<1>7. QED
  BY <1>3, <1>4, <1>5, <1>6, FlagsStep

LEMMA ReceiptStep ==
    ASSUME IInv, NEW q \in Request, NEW p \in Phone, Receipt(p, q)
    PROVE  IInv'
<1>1. RequestTypes /\ SessionOf[q] \in Session
  BY MirrorAssumption DEF IInv, TypeOK, RequestTypes, Frame, Claim
<1>2. UNCHANGED <<mirrorVars, interactions, muxFrames, loading, cards, asked>>
  BY DEF Receipt
<1>3. claims' \in [Phone -> Claim]
  BY <1>1 DEF Receipt, RequestTypes, NoClaim, Claim
<1>4. claims[p].on = {q}
  BY DEF Receipt
<1>5. pending' \in SUBSET Request /\ stranded' \subseteq Request
  BY <1>1, <1>4 DEF Receipt, RequestTypes, GivenBack
<1>6. /\ unbumped' \subseteq Session
      /\ UNCHANGED listVars \/ BumpPendingFlags(SessionOf[q], pending')
  BY <1>1 DEF Receipt, BumpPendingFlags, RequestTypes
<1>7. RequestTypes'
  BY <1>1, <1>2, <1>3, <1>5, <1>6 DEF RequestTypes
<1>8. QED
  BY <1>1, <1>2, <1>5, <1>6, <1>7, FlagsStep

-----------------------------------------------------------------------------
LEMMA SafeStep == IInv /\ [Next]_vars => IInv'
<1> SUFFICES ASSUME IInv, [Next]_vars PROVE IInv'
  OBVIOUS
<1>1. CASE UNCHANGED vars
  <2>1. UNCHANGED <<mirrorVars, listVars>> /\ RequestTypes'
    BY <1>1 DEF vars, requestVars, IInv, TypeOK, RequestTypes, Frame, Claim
  <2>2. QED
    BY <2>1, FlagsStep
<1>2. ASSUME NEW s \in Session,
             TimerFires(s) \/ SessionComesOrGoes(s) \/ ArchiveChanges(s) \/ ArchiveAnswered(s)
      PROVE  IInv'
  BY <1>2, TimerStep, MovesStep, ArchivedStep
<1>3. ASSUME NEW s \in Session, StatusChanges(s) \/ StatsChange(s) PROVE IInv'
  BY <1>3, StatusStep, StatsStep
<1>4. CASE NewsOfTheList
  BY <1>4, ListStep
<1>5. ASSUME NEW r \in Reading, ListRead(r) \/ ReadingFails(r) \/ WorkspaceRead(r) PROVE IInv'
  BY <1>5, ListStep
<1>6. ASSUME NEW r \in Reading, Apply(r) \/ ApplyWithoutWorkspace(r) PROVE IInv'
  BY <1>6, ApplyStep
<1>7. CASE MuxFrame
  BY <1>7, FrameStep
<1>8. ASSUME NEW q \in Request, HostAsks(q) \/ Aborted(q) \/ ArgumentsArrive(q) PROVE IInv'
  BY <1>8, RequestStep
<1>9. ASSUME NEW q \in Request, NEW p \in Phone, Respond(p, q) \/ Receipt(p, q) PROVE IInv'
  BY <1>9, RequestStep, ReceiptStep
<1>10. QED
  BY <1>1, <1>2, <1>3, <1>4, <1>5, <1>6, <1>7, <1>8, <1>9 DEF Next

LEMMA SafeSpec == Spec => []IInv
BY StartFact, SafeStep, PTL DEF Spec

\* Rows, readings, requests and the receipts of answers keep their types.
THEOREM MirrorTypes == Spec => []TypeOK
BY SafeSpec, PTL DEF IInv

\* A phone that applies the deltas has the rows of the mirror, but for the
\* statistics that a timer is going to send.
THEOREM PhonesMirrorTheList == Spec => []PhoneMirrorsList
<1>1. IInv => PhoneMirrorsList
  BY DEF IInv, RowInv, PhoneMirrorsList
<1>2. QED
  BY <1>1, SafeSpec, PTL

\* The mirror is right about every session that no list was overtaken by,
\* however many readings overlap with each other and with events.
THEOREM MirrorIsRight == Spec => []MirrorCatchesUp
<1>1. IInv => MirrorCatchesUp
  BY DEF IInv, SeenInv, Right, MirrorCatchesUp
<1>2. QED
  BY <1>1, SafeSpec, PTL
-----------------------------------------------------------------------------
(***************************************************************************)
(* The life of a request, and the flags of the rows.                       *)
(***************************************************************************)

\* A frame about q is in the queue of mux(); an answer to q is under way; one of those
\* has failed and q will be given back.
Waits(q) == \E i \in DOMAIN muxFrames : muxFrames[i] = [type |-> "requested", request |-> q]
Settled(q) == \E i \in DOMAIN muxFrames : muxFrames[i] = [type |-> "resolved", request |-> q]
Claimed(q) == \E p \in Phone : q \in claims[p].on
Returns(q) == \E p \in Phone : claims[p] = [on |-> {q}, receipt |-> "transport"]

\* The queue has at most one frame of each kind for a request, in their order.
QueueInv == \A i, j \in DOMAIN muxFrames :
    i < j /\ muxFrames[i].request = muxFrames[j].request
        => muxFrames[i].type = "requested" /\ muxFrames[j].type = "resolved"

\* A request is asked once, and nobody has it before its frame is handled.  While the Host
\* waits for it then, phones show it, and it is pending or on its way back from an answer
\* that failed.  When the frame of its settling is handled too, whoever still has it was
\* given it back too late.
CardInv(q) ==
    /\ q \in interactions \cup pending \cup cards \cup loading \cup stranded => q \in asked
    /\ Waits(q) \/ Settled(q) \/ Claimed(q) => q \in asked
    /\ Waits(q) => q \notin pending \cup cards \cup loading \cup stranded /\ ~Claimed(q)
    /\ q \in interactions => ~Settled(q) /\ q \notin stranded
    /\ q \in interactions /\ ~Waits(q) => q \in cards /\ (q \in pending \/ Returns(q))
    /\ Settled(q) => q \notin stranded
    /\ q \notin interactions /\ ~Settled(q) =>
          ~Waits(q) /\ (q \in cards \cup pending => q \in stranded)

\* The flags of a row are right unless an answer to a request of its session is under way.
BadgeInv(s) ==
    s \notin unbumped /\ summaries[s] # NoRow
        /\ (\A q \in Request : Claimed(q) => SessionOf[q] # s)
    => summaries[s].flags = Flags(s, pending)

RequestInv == QueueInv /\ \A q \in Request : CardInv(q)

LEMMA QueueAppends ==
    ASSUME muxFrames \in Seq(Frame), QueueInv, NEW frame \in Frame,
           muxFrames' = Append(muxFrames, frame),
           ~Settled(frame.request),
           frame.type = "requested" => ~Waits(frame.request)
    PROVE  /\ QueueInv'
           /\ \A q \in Request : Waits(q)' <=>
                  Waits(q) \/ frame = [type |-> "requested", request |-> q]
           /\ \A q \in Request : Settled(q)' <=>
                  Settled(q) \/ frame = [type |-> "resolved", request |-> q]
<1> DEFINE n == Len(muxFrames)
<1>1. /\ n \in Nat /\ DOMAIN muxFrames = 1..n /\ DOMAIN muxFrames' = 1..(n + 1)
      /\ \A i \in 1..n : muxFrames'[i] = muxFrames[i] /\ muxFrames[i] \in Frame
      /\ muxFrames'[n + 1] = frame
  OBVIOUS
<1>2. \A i \in 1..(n + 1) : i \in 1..n \/ i = n + 1
  BY <1>1
<1>3. \A i \in 1..n : i \in 1..(n + 1) /\ i < n + 1 /\ n + 1 \in 1..(n + 1)
  BY <1>1
<1> HIDE DEF n
<1>4. ASSUME NEW q \in Request, NEW type \in {"requested", "resolved"}
      PROVE  (\E i \in 1..(n + 1) : muxFrames'[i] = [type |-> type, request |-> q])
             <=> \/ \E i \in 1..n : muxFrames[i] = [type |-> type, request |-> q]
                 \/ frame = [type |-> type, request |-> q]
  BY <1>1, <1>2, <1>3
<1>5. \A i \in 1..n : muxFrames[i].request = frame.request =>
          muxFrames[i].type = "requested" /\ frame.type = "resolved"
  <2>1. ASSUME NEW i \in 1..n, muxFrames[i].request = frame.request
        PROVE  muxFrames[i].type = "requested" /\ frame.type = "resolved"
    <3>1. muxFrames[i] = [type |-> muxFrames[i].type, request |-> frame.request]
      BY <1>1, <2>1 DEF Frame
    <3>2. muxFrames[i].type \in {"requested", "resolved"} /\ frame.type \in {"requested", "resolved"}
      BY <1>1 DEF Frame
    <3>3. QED
      BY <1>1, <3>1, <3>2 DEF Waits, Settled
  <2>2. QED
    BY <2>1
<1>6. QueueInv'
  <2>1. SUFFICES ASSUME NEW i \in 1..(n + 1), NEW j \in 1..(n + 1), i < j,
                        muxFrames'[i].request = muxFrames'[j].request
                 PROVE  muxFrames'[i].type = "requested" /\ muxFrames'[j].type = "resolved"
    BY <1>1 DEF QueueInv
  <2>2. i \in 1..n
    BY <1>1, <2>1
  <2>3. CASE j = n + 1
    BY <1>1, <1>5, <2>1, <2>2, <2>3
  <2>4. CASE j \in 1..n
    BY <1>1, <2>1, <2>2, <2>4 DEF QueueInv
  <2>5. QED
    BY <1>2, <2>3, <2>4
<1>7. QED
  BY <1>1, <1>4, <1>6 DEF Waits, Settled

LEMMA QueueMovesOn ==
    ASSUME muxFrames \in Seq(Frame), QueueInv, muxFrames # <<>>, muxFrames' = Tail(muxFrames),
           NEW head, head = Head(muxFrames)
    PROVE  /\ head \in Frame
           /\ head.type = "requested" => Waits(head.request)
           /\ head.type = "resolved" => Settled(head.request)
           /\ QueueInv'
           /\ \A q \in Request : q # head.request =>
                  (Waits(q)' <=> Waits(q)) /\ (Settled(q)' <=> Settled(q))
           /\ ~Waits(head.request)'
           /\ head.type = "requested" => (Settled(head.request)' <=> Settled(head.request))
           /\ head.type = "resolved" => ~Settled(head.request)'
<1> DEFINE n == Len(muxFrames)
<1>1. /\ n \in Nat \ {0} /\ DOMAIN muxFrames = 1..n /\ DOMAIN muxFrames' = 1..(n - 1)
      /\ \A i \in 1..n : muxFrames[i] \in Frame
      /\ \A i \in 1..(n - 1) : muxFrames'[i] = muxFrames[i + 1]
      /\ muxFrames[1] = head
  OBVIOUS
<1>2. /\ \A i \in 1..(n - 1) : i + 1 \in 1..n /\ 1 < i + 1
      /\ \A i \in 1..n : i = 1 \/ (i - 1 \in 1..(n - 1) /\ (i - 1) + 1 = i)
      /\ \A i, j \in 1..(n - 1) : i < j => i + 1 < j + 1
      /\ 1 \in 1..n
  BY <1>1
<1>3. /\ head \in Frame
      /\ head = [type |-> head.type, request |-> head.request]
      /\ head.type \in {"requested", "resolved"} /\ head.request \in Request
  BY <1>1, <1>2 DEF Frame
<1> HIDE DEF n
<1>4. ASSUME NEW frame
      PROVE  (\E i \in 1..n : muxFrames[i] = frame)
             <=> head = frame \/ \E i \in 1..(n - 1) : muxFrames'[i] = frame
  <2>1. ASSUME NEW i \in 1..n, muxFrames[i] = frame, i # 1
        PROVE  \E j \in 1..(n - 1) : muxFrames'[j] = frame
    <3>1. i - 1 \in 1..(n - 1) /\ muxFrames'[i - 1] = frame
      BY <1>1, <1>2, <2>1
    <3>2. QED
      BY <3>1
  <2>2. QED
    BY <1>1, <1>2, <2>1
<1>5. \A i \in 1..(n - 1) : muxFrames'[i].request = head.request =>
          head.type = "requested" /\ muxFrames'[i].type = "resolved"
  BY <1>1, <1>2 DEF QueueInv
<1>6. QueueInv'
  BY <1>1, <1>2 DEF QueueInv
<1>7. ~Waits(head.request)' /\ (head.type = "resolved" => ~Settled(head.request)')
  BY <1>1, <1>5 DEF Waits, Settled
<1>8. \A q \in Request : Waits(q) <=> head = [type |-> "requested", request |-> q] \/ Waits(q)'
  BY <1>1, <1>4 DEF Waits
<1>9. \A q \in Request : Settled(q) <=> head = [type |-> "resolved", request |-> q] \/ Settled(q)'
  BY <1>1, <1>4 DEF Settled
<1>10. \A q \in Request : q # head.request =>
           (Waits(q)' <=> Waits(q)) /\ (Settled(q)' <=> Settled(q))
  BY <1>8, <1>9
<1>11. head.type = "requested" =>
           Waits(head.request) /\ (Settled(head.request)' <=> Settled(head.request))
  BY <1>3, <1>8, <1>9
<1>12. head.type = "resolved" => Settled(head.request)
  BY <1>3, <1>9
<1>13. QED
  BY <1>3, <1>6, <1>7, <1>10, <1>11, <1>12

\* Nothing of what CardInv says of q changes.
Same(q) ==
    /\ q \in interactions' <=> q \in interactions
    /\ q \in pending' <=> q \in pending
    /\ q \in cards' <=> q \in cards
    /\ q \in loading' <=> q \in loading
    /\ q \in asked' <=> q \in asked
    /\ q \in stranded' <=> q \in stranded
    /\ Waits(q)' <=> Waits(q)
    /\ Settled(q)' <=> Settled(q)
    /\ Claimed(q)' <=> Claimed(q)
    /\ Returns(q)' <=> Returns(q)

LEMMA SameFact == ASSUME NEW q, CardInv(q), Same(q) PROVE CardInv(q)'
BY DEF CardInv, Same

LEMMA ClaimsSame ==
    ASSUME NEW q, UNCHANGED claims PROVE (Claimed(q)' <=> Claimed(q)) /\ (Returns(q)' <=> Returns(q))
BY DEF Claimed, Returns

LEMMA QueueSame ==
    ASSUME UNCHANGED muxFrames
    PROVE  /\ QueueInv' <=> QueueInv
           /\ \A q \in Request : (Waits(q)' <=> Waits(q)) /\ (Settled(q)' <=> Settled(q))
BY DEF QueueInv, Waits, Settled

LEMMA FrameFact ==
    ASSUME NEW q \in Request, NEW type \in {"requested", "resolved"}
    PROVE  /\ [type |-> type, request |-> q] \in Frame
           /\ \A r, t : [type |-> type, request |-> q] = [type |-> t, request |-> r] <=>
                  type = t /\ q = r
BY DEF Frame

\* The request is settled and its frame joins the queue; what the phones hold stays.
LEMMA SettleFact ==
    ASSUME TypeOK, RequestInv, NEW q \in Request, q \in interactions, Settle(q)
    PROVE  /\ QueueInv' /\ Settled(q)' /\ q \notin interactions'
           /\ \A r \in Request : Waits(r)' <=> Waits(r)
           /\ \A r \in Request \ {q} :
                /\ Settled(r)' <=> Settled(r)
                /\ r \in interactions' <=> r \in interactions
<1> DEFINE frame == [type |-> "resolved", request |-> q]
<1>1. /\ frame \in Frame /\ frame.request = q /\ frame.type = "resolved"
      /\ \A r, t : frame = [type |-> t, request |-> r] <=> "resolved" = t /\ q = r
  BY FrameFact
<1>2. muxFrames' = Append(muxFrames, frame) /\ interactions' = interactions \ {q}
  BY DEF Settle
<1>3. muxFrames \in Seq(Frame) /\ QueueInv /\ ~Settled(q)
  BY DEF TypeOK, Frame, RequestInv, CardInv
<1> HIDE DEF frame
<1>4. /\ QueueInv'
      /\ \A r \in Request : Waits(r)' <=> Waits(r) \/ frame = [type |-> "requested", request |-> r]
      /\ \A r \in Request : Settled(r)' <=> Settled(r) \/ frame = [type |-> "resolved", request |-> r]
  BY <1>1, <1>2, <1>3, QueueAppends
<1>5. QED
  BY <1>1, <1>2, <1>4

LEMMA AskedStep ==
    ASSUME TypeOK, RequestInv, NEW q \in Request, HostAsks(q)
    PROVE  RequestInv'
<1> DEFINE frame == [type |-> "requested", request |-> q]
<1>1. /\ frame \in Frame /\ frame.request = q /\ frame.type = "requested"
      /\ \A r, t : frame = [type |-> t, request |-> r] <=> "requested" = t /\ q = r
  BY FrameFact
<1>2. /\ q \notin asked /\ asked' = asked \cup {q} /\ interactions' = interactions \cup {q}
      /\ muxFrames' = Append(muxFrames, frame)
      /\ UNCHANGED <<pending, loading, claims, cards, stranded>>
  BY DEF HostAsks
<1>3. /\ muxFrames \in Seq(Frame) /\ QueueInv /\ CardInv(q)
      /\ ~Settled(q) /\ ~Waits(q) /\ ~Claimed(q)
      /\ q \notin pending \cup cards \cup loading \cup stranded
  BY <1>2 DEF TypeOK, Frame, RequestInv, CardInv
<1> HIDE DEF frame
<1>4. /\ QueueInv'
      /\ \A r \in Request : Waits(r)' <=> Waits(r) \/ frame = [type |-> "requested", request |-> r]
      /\ \A r \in Request : Settled(r)' <=> Settled(r) \/ frame = [type |-> "resolved", request |-> r]
  BY <1>1, <1>2, <1>3, QueueAppends
<1>5. ASSUME NEW r \in Request PROVE CardInv(r)'
  <2>1. (Claimed(r)' <=> Claimed(r)) /\ (Returns(r)' <=> Returns(r)) /\ CardInv(r)
    BY <1>2, ClaimsSame DEF RequestInv
  <2>2. CASE r = q
    <3>1. Waits(q)' /\ ~Settled(q)' /\ ~Claimed(q)'
      BY <1>1, <1>3, <1>4, <2>1, <2>2
    <3>2. /\ q \in asked' /\ q \in interactions'
          /\ q \notin pending' \cup cards' \cup loading' \cup stranded'
      BY <1>2, <1>3
    <3>3. QED
      BY <2>2, <3>1, <3>2 DEF CardInv
  <2>3. CASE r # q
    BY <1>1, <1>2, <1>4, <2>1, <2>3, SameFact DEF Same
  <2>4. QED
    BY <2>2, <2>3
<1>6. QED
  BY <1>4, <1>5 DEF RequestInv

LEMMA AbortedStep ==
    ASSUME TypeOK, RequestInv, NEW q \in Request, Aborted(q)
    PROVE  RequestInv'
<1>1. q \in interactions /\ Settle(q) /\ UNCHANGED <<pending, loading, claims, cards, asked, stranded>>
  BY DEF Aborted
<1>2. /\ QueueInv' /\ Settled(q)' /\ q \notin interactions'
      /\ \A r \in Request : Waits(r)' <=> Waits(r)
      /\ \A r \in Request \ {q} :
           /\ Settled(r)' <=> Settled(r)
           /\ r \in interactions' <=> r \in interactions
  BY <1>1, SettleFact
<1>3. ASSUME NEW r \in Request PROVE CardInv(r)'
  <2>1. (Claimed(r)' <=> Claimed(r)) /\ (Returns(r)' <=> Returns(r)) /\ CardInv(r)
    BY <1>1, ClaimsSame DEF RequestInv
  <2>2. CASE r = q
    BY <1>1, <1>2, <2>1, <2>2 DEF CardInv
  <2>3. CASE r # q
    BY <1>1, <1>2, <2>1, <2>3, SameFact DEF Same
  <2>4. QED
    BY <2>2, <2>3
<1>4. QED
  BY <1>2, <1>3 DEF RequestInv

LEMMA ArgumentsStep ==
    ASSUME TypeOK, RequestInv, NEW q \in Request, ArgumentsArrive(q)
    PROVE  RequestInv'
<1>1. /\ q \in loading /\ loading' = loading \ {q}
      /\ cards' = cards \/ (q \in pending /\ cards' = cards \cup {q})
      /\ UNCHANGED <<interactions, muxFrames, pending, claims, asked, stranded>>
  BY DEF ArgumentsArrive, StillPending
<1>2. QueueInv'
  BY <1>1, QueueSame DEF RequestInv
<1>3. ASSUME NEW r \in Request PROVE CardInv(r)'
  <2>1. /\ Claimed(r)' <=> Claimed(r)
        /\ Returns(r)' <=> Returns(r)
        /\ Waits(r)' <=> Waits(r)
        /\ Settled(r)' <=> Settled(r)
        /\ CardInv(r)
    BY <1>1, ClaimsSame, QueueSame DEF RequestInv
  <2>2. CASE r = q
    BY <1>1, <2>1, <2>2 DEF CardInv
  <2>3. CASE r # q
    BY <1>1, <2>1, <2>3, SameFact DEF Same
  <2>4. QED
    BY <2>2, <2>3
<1>4. QED
  BY <1>2, <1>3 DEF RequestInv

\* A phone claims the request and hands in its answer.
LEMMA RespondStep ==
    ASSUME TypeOK, RequestInv, NEW q \in Request, NEW p \in Phone, Respond(p, q)
    PROVE  RequestInv'
<1>1. /\ claims[p] = NoClaim /\ q \in pending /\ pending' = pending \ {q}
      /\ UNCHANGED <<loading, cards, asked, stranded>>
  BY DEF Respond
<1>2. PICK receipt \in {"accepted", "not-pending", "transport"} :
          /\ claims' = [claims EXCEPT ![p] = [on |-> {q}, receipt |-> receipt]]
          /\ \/ receipt = "accepted" /\ q \in interactions /\ Settle(q)
             \/ receipt = "not-pending" /\ q \notin interactions /\ UNCHANGED <<interactions, muxFrames>>
             \/ receipt = "transport" /\ UNCHANGED <<interactions, muxFrames>>
  BY DEF Respond
<1>3. /\ QueueInv'
      /\ \A r \in Request : Waits(r)' <=> Waits(r)
      /\ \A r \in Request \ {q} :
           /\ Settled(r)' <=> Settled(r)
           /\ r \in interactions' <=> r \in interactions
      /\ receipt = "accepted" => Settled(q)' /\ q \notin interactions'
      /\ receipt # "accepted" => /\ Settled(q)' <=> Settled(q)
                                 /\ q \in interactions' <=> q \in interactions
  <2>1. CASE receipt = "accepted"
    BY <1>2, <2>1, SettleFact
  <2>2. CASE receipt # "accepted"
    BY <1>2, <2>2, QueueSame DEF RequestInv
  <2>3. QED
    BY <2>1, <2>2
<1> DEFINE claim == [on |-> {q}, receipt |-> receipt]
<1>4. /\ claims \in [Phone -> Claim] /\ claims'[p] = claim /\ claim.on = {q}
      /\ \A o \in Phone \ {p} : claims'[o] = claims[o]
      /\ claims[p].on = {}
  BY <1>1, <1>2 DEF TypeOK, Claim, NoClaim
<1>5. \A r \in Request \ {q} :
          claim # [on |-> {r}, receipt |-> "transport"] /\ claims[p] # [on |-> {r}, receipt |-> "transport"]
  BY <1>4
<1> HIDE DEF claim
<1>6. ASSUME NEW r \in Request \ {q}
      PROVE  (Claimed(r)' <=> Claimed(r)) /\ (Returns(r)' <=> Returns(r))
  <2>1. Claimed(r)' <=> Claimed(r)
    BY <1>4 DEF Claimed
  <2>2. Returns(r)' <=> Returns(r)
    BY <1>4, <1>5 DEF Returns
  <2>3. QED
    BY <2>1, <2>2
<1>7. Claimed(q)' /\ (receipt = "transport" => Returns(q)')
  <2>1. Claimed(q)'
    BY <1>4 DEF Claimed
  <2>2. receipt = "transport" => Returns(q)'
    BY <1>4 DEF Returns, claim
  <2>3. QED
    BY <2>1, <2>2
<1>8. ASSUME NEW r \in Request PROVE CardInv(r)'
  <2>1. CASE r = q
    <3>1. CardInv(q) /\ q \in asked /\ ~Waits(q)
      BY <1>1 DEF RequestInv, CardInv
    <3>2. q \in interactions' => q \in interactions /\ receipt = "transport"
      BY <1>2, <1>3
    <3>3. Settled(q) => Settled(q)'
      BY <1>3
    <3>4. Settled(q)' => q \notin stranded'
      <4>1. receipt = "accepted" => q \in interactions
        BY <1>2
      <4>2. QED
        BY <1>1, <1>3, <3>1, <4>1 DEF CardInv
    <3>5. q \notin interactions' /\ ~Settled(q)' => q \notin interactions /\ ~Settled(q)
      BY <1>2, <1>3
    <3>6. q \in interactions' => ~Settled(q)'
      BY <1>3, <3>1, <3>2 DEF CardInv
    <3>7. QED
      BY <1>1, <1>3, <1>7, <2>1, <3>1, <3>2, <3>3, <3>4, <3>5, <3>6 DEF CardInv
  <2>2. CASE r # q
    <3>1. Same(r)
      BY <1>1, <1>3, <1>6, <2>2 DEF Same
    <3>2. QED
      BY <3>1, SameFact DEF RequestInv
  <2>3. QED
    BY <2>1, <2>2
<1>9. QED
  BY <1>3, <1>8 DEF RequestInv

\* The answer's receipt is there: a request that no answer reached is given back.
LEMMA ReceivedStep ==
    ASSUME TypeOK, RequestInv, NEW q \in Request, NEW p \in Phone, Receipt(p, q)
    PROVE  RequestInv'
<1>1. /\ claims[p].on = {q} /\ claims' = [claims EXCEPT ![p] = NoClaim]
      /\ UNCHANGED <<interactions, muxFrames, loading, cards, asked>>
      /\ pending' = pending \cup GivenBack(claims[p])
      /\ stranded' = stranded \cup
            {r \in {q} : claims[p].receipt = "transport" /\ r \notin interactions /\ ~ToldOf(r)}
  BY DEF Receipt
<1> DEFINE back == claims[p].receipt = "transport"
<1>2. /\ \A r \in Request \ {q} :
           /\ r \in pending' <=> r \in pending
           /\ r \in stranded' <=> r \in stranded
      /\ q \in pending' <=> q \in pending \/ back
      /\ q \in stranded' <=> q \in stranded \/ (back /\ q \notin interactions /\ ~ToldOf(q))
  BY <1>1 DEF GivenBack
<1>3. /\ claims \in [Phone -> Claim] /\ claims'[p] = NoClaim
      /\ \A o \in Phone \ {p} : claims'[o] = claims[o]
      /\ NoClaim.on = {}
      /\ \A r : NoClaim # [on |-> {r}, receipt |-> "transport"]
  BY <1>1 DEF TypeOK, Claim, NoClaim
<1>4. ASSUME NEW r \in Request \ {q}
      PROVE  (Claimed(r)' <=> Claimed(r)) /\ (Returns(r)' <=> Returns(r))
  <2>1. Claimed(r)' <=> Claimed(r)
    BY <1>1, <1>3 DEF Claimed
  <2>2. claims[p] # [on |-> {r}, receipt |-> "transport"]
    BY <1>1
  <2>3. Returns(r)' <=> Returns(r)
    BY <1>3, <2>2 DEF Returns
  <2>4. QED
    BY <2>1, <2>3
<1>5. Claimed(q) /\ (Returns(q) => Returns(q)' \/ back)
  <2>1. Claimed(q)
    BY <1>1 DEF Claimed
  <2>2. Returns(q) => Returns(q)' \/ back
    BY <1>3 DEF Returns
  <2>3. QED
    BY <2>1, <2>2
<1>6. Waits(q) \/ Settled(q) => ToldOf(q)
  BY DEF Waits, Settled, ToldOf
<1>7. ToldOf(q) => Waits(q) \/ Settled(q)
  <2>1. muxFrames \in Seq(Frame)
    BY DEF TypeOK, Frame
  <2>2. \A i \in DOMAIN muxFrames : muxFrames[i] \in Frame
    BY <2>1
  <2>3. QED
    BY <2>2 DEF Waits, Settled, ToldOf, Frame
<1>8. /\ QueueInv'
      /\ \A r \in Request : (Waits(r)' <=> Waits(r)) /\ (Settled(r)' <=> Settled(r))
  BY <1>1, QueueSame DEF RequestInv
<1> HIDE DEF back
<1>9. ASSUME NEW r \in Request PROVE CardInv(r)'
  <2>1. CASE r = q
    <3>1. CardInv(q) /\ q \in asked /\ ~Waits(q)
      BY <1>5 DEF RequestInv, CardInv
    <3>2. q \notin interactions /\ ~Settled(q) /\ back => q \in stranded'
      BY <1>2, <1>7, <3>1
    <3>3. q \in stranded' => q \in stranded \/ (q \notin interactions /\ ~Settled(q))
      BY <1>2, <1>6
    <3>4. q \in stranded => q \in stranded'
      BY <1>2
    <3>5. QED
      BY <1>1, <1>2, <1>5, <1>8, <2>1, <3>1, <3>2, <3>3, <3>4 DEF CardInv
  <2>2. CASE r # q
    <3>1. Same(r)
      BY <1>1, <1>2, <1>4, <1>8, <2>2 DEF Same
    <3>2. QED
      BY <3>1, SameFact DEF RequestInv
  <2>3. QED
    BY <2>1, <2>2
<1>10. QED
  BY <1>8, <1>9 DEF RequestInv

\* The frame of a request or of its settling is handled.
LEMMA HandledStep == ASSUME TypeOK, RequestInv, MuxFrame PROVE RequestInv'
<1>1. PICK head : head = Head(muxFrames)
  OBVIOUS
<1> DEFINE q == head.request
<1>2. /\ muxFrames # <<>> /\ muxFrames' = Tail(muxFrames)
      /\ UNCHANGED <<interactions, claims, asked, stranded>>
      /\ \/ head.type = "requested" /\ Requested(q)
         \/ head.type = "resolved" /\ Resolved(q)
  BY <1>1 DEF MuxFrame, mirrorVars
<1>3. muxFrames \in Seq(Frame) /\ QueueInv
  BY DEF TypeOK, Frame, RequestInv
<1>4. /\ head \in Frame /\ QueueInv'
      /\ head.type = "requested" => Waits(q)
      /\ head.type = "resolved" => Settled(q)
      /\ \A r \in Request : r # q => (Waits(r)' <=> Waits(r)) /\ (Settled(r)' <=> Settled(r))
      /\ ~Waits(q)'
      /\ head.type = "requested" => (Settled(q)' <=> Settled(q))
      /\ head.type = "resolved" => ~Settled(q)'
  BY <1>1, <1>2, <1>3, QueueMovesOn
<1>5. q \in Request
  BY <1>4 DEF Frame
<1>6. /\ \A r \in Request \ {q} :
           /\ r \in pending' <=> r \in pending
           /\ r \in cards' <=> r \in cards
           /\ r \in loading' <=> r \in loading
      /\ head.type = "requested" => q \in pending' /\ q \in cards'
      /\ head.type = "resolved" => q \notin pending' /\ q \notin cards'
                                   /\ (q \in loading' <=> q \in loading)
  BY <1>2 DEF Requested, Resolved
<1> HIDE DEF q
<1>7. ASSUME NEW r \in Request PROVE CardInv(r)'
  <2>1. (Claimed(r)' <=> Claimed(r)) /\ (Returns(r)' <=> Returns(r)) /\ CardInv(r)
    BY <1>2, ClaimsSame DEF RequestInv
  <2>2. CASE r = q /\ head.type = "requested"
    BY <1>2, <1>4, <1>6, <2>1, <2>2 DEF CardInv
  <2>3. CASE r = q /\ head.type = "resolved"
    BY <1>2, <1>4, <1>6, <2>1, <2>3 DEF CardInv
  <2>4. CASE r # q
    <3>1. Same(r)
      BY <1>2, <1>4, <1>6, <2>1, <2>4 DEF Same
    <3>2. QED
      BY <2>1, <3>1, SameFact
  <2>5. QED
    BY <1>2, <2>2, <2>3, <2>4
<1>8. QED
  BY <1>4, <1>7 DEF RequestInv

LEMMA RequestStart == Init => RequestInv
<1> SUFFICES ASSUME Init PROVE RequestInv
  OBVIOUS
<1>1. /\ muxFrames = <<>> /\ interactions = {} /\ pending = {} /\ loading = {} /\ cards = {}
      /\ stranded = {} /\ \A p \in Phone : claims[p].on = {}
  BY DEF Init, NoClaim
<1>2. \A q : ~Waits(q) /\ ~Settled(q) /\ ~Claimed(q)
  BY <1>1 DEF Waits, Settled, Claimed
<1>3. QED
  BY <1>1, <1>2 DEF RequestInv, QueueInv, CardInv

LEMMA RequestsStep == IInv /\ RequestInv /\ [Next]_vars => RequestInv'
<1> SUFFICES ASSUME TypeOK, RequestInv, [Next]_vars PROVE RequestInv'
  BY DEF IInv
<1>1. ASSUME UNCHANGED requestVars PROVE RequestInv'
  <2>1. /\ UNCHANGED <<interactions, muxFrames, pending, loading, claims, cards, asked, stranded>>
        /\ QueueInv'
    BY <1>1, QueueSame DEF requestVars, RequestInv
  <2>2. ASSUME NEW q \in Request PROVE CardInv(q)'
    <3>1. Same(q)
      BY <2>1, QueueSame, ClaimsSame DEF Same
    <3>2. QED
      BY <3>1, SameFact DEF RequestInv
  <2>3. QED
    BY <2>1, <2>2 DEF RequestInv
<1>2. CASE UNCHANGED vars
  BY <1>1, <1>2 DEF vars
<1>3. ASSUME NEW s \in Session,
             \/ TimerFires(s) \/ SessionComesOrGoes(s) \/ ArchiveChanges(s)
             \/ ArchiveAnswered(s) \/ StatusChanges(s) \/ StatsChange(s)
      PROVE  RequestInv'
  BY <1>1, <1>3
  DEF TimerFires, SessionComesOrGoes, ArchiveChanges, ArchiveAnswered, StatusChanges, StatsChange
<1>4. CASE NewsOfTheList
  BY <1>1, <1>4 DEF NewsOfTheList
<1>5. ASSUME NEW r \in Reading,
             ListRead(r) \/ ReadingFails(r) \/ WorkspaceRead(r) \/ Apply(r) \/ ApplyWithoutWorkspace(r)
      PROVE  RequestInv'
  BY <1>1, <1>5 DEF ListRead, ReadingFails, WorkspaceRead, Apply, ApplyWithoutWorkspace, ApplyReading
<1>6. CASE MuxFrame
  BY <1>6, HandledStep
<1>7. ASSUME NEW q \in Request, HostAsks(q) \/ Aborted(q) \/ ArgumentsArrive(q) PROVE RequestInv'
  BY <1>7, AskedStep, AbortedStep, ArgumentsStep
<1>8. ASSUME NEW q \in Request, NEW p \in Phone, Respond(p, q) \/ Receipt(p, q) PROVE RequestInv'
  BY <1>8, RespondStep, ReceivedStep
<1>9. QED
  BY <1>2, <1>3, <1>4, <1>5, <1>6, <1>7, <1>8 DEF Next

\* When the frames are handled and no answer is under way, the phones show what the Host
\* waits for, and all of that can be answered, whoever answers and whatever was aborted.
THEOREM CardsCanBeAnswered == Spec => []CardsAreAnswerable
<1>1. IInv /\ RequestInv => CardsAreAnswerable
  <2>1. SUFFICES ASSUME TypeOK, RequestInv, NothingUnderWay
                 PROVE  cards \ stranded = interactions /\ pending \ stranded = interactions
    BY DEF IInv, CardsAreAnswerable
  <2>2. \A q \in Request : ~Waits(q) /\ ~Settled(q) /\ ~Returns(q)
    BY <2>1 DEF NothingUnderWay, Waits, Settled, Returns, NoClaim
  <2>3. \A q \in Request : q \in interactions => q \in cards /\ q \in pending /\ q \notin stranded
    BY <2>1, <2>2 DEF RequestInv, CardInv
  <2>4. \A q \in Request : q \in cards \cup pending /\ q \notin stranded => q \in interactions
    BY <2>1, <2>2 DEF RequestInv, CardInv
  <2>5. interactions \subseteq Request /\ cards \subseteq Request /\ pending \subseteq Request
    BY <2>1 DEF TypeOK
  <2>6. QED
    BY <2>3, <2>4, <2>5
<1>2. Init => IInv /\ RequestInv
  BY StartFact, RequestStart
<1>3. IInv /\ RequestInv /\ [Next]_vars => (IInv /\ RequestInv)'
  BY SafeStep, RequestsStep
<1>4. QED
  BY <1>1, <1>2, <1>3, PTL DEF Spec

-----------------------------------------------------------------------------
(* The badges.                                                             *)

\* A request of another session is none of this row's.
LEMMA OtherFlags ==
    ASSUME NEW s, NEW q, SessionOf[q] # s, NEW old, NEW new,
           \A r : r # q => (r \in new <=> r \in old)
    PROVE  Flags(s, new) = Flags(s, old)
BY DEF Flags

\* The row changes in something else.
LEMMA BadgeUpdate ==
    ASSUME IInv, NEW s \in Session, NEW row, Update(s, row),
           summaries[s] # NoRow => row \in Row /\ row.flags = summaries[s].flags,
           UNCHANGED <<pending, claims, unbumped>>, \A t \in Session : BadgeInv(t)
    PROVE  \A t \in Session : BadgeInv(t)'
<1>1. summaries' = IF summaries[s] = NoRow THEN summaries ELSE [summaries EXCEPT ![s] = row]
  BY UpdateFact
<1>2. \A q : Claimed(q)' <=> Claimed(q)
  BY DEF Claimed
<1>3. ASSUME NEW t \in Session, summaries'[t] # NoRow
      PROVE  summaries[t] # NoRow /\ summaries'[t].flags = summaries[t].flags
  BY <1>1, <1>3 DEF IInv, TypeOK
<1>4. QED
  BY <1>2, <1>3 DEF BadgeInv, Flags

LEMMA BadgeSame ==
    ASSUME UNCHANGED <<summaries, pending, claims, unbumped>>, \A t \in Session : BadgeInv(t)
    PROVE  \A t \in Session : BadgeInv(t)'
BY DEF BadgeInv, Claimed, Flags

\* The flags of a row are computed again.
LEMMA BumpFact ==
    ASSUME IInv, NEW s \in Session, NEW waiting \in SUBSET Request, BumpPendingFlags(s, waiting)
    PROVE  /\ unbumped' = unbumped \ {s}
           /\ \A t \in Session \ {s} : summaries'[t] = summaries[t]
           /\ summaries'[s] # NoRow => summaries'[s].flags = Flags(s, waiting)
<1> DEFINE new == [summaries[s] EXCEPT !.flags = Flags(s, waiting)]
<1>1. Update(s, new) /\ unbumped' = unbumped \ {s}
  BY DEF BumpPendingFlags
<1>2. Flags(s, waiting) \in SUBSET {"approval", "question"}
  BY FlagsFact
<1>3. summaries[s] # NoRow => new \in Row /\ new.flags = Flags(s, waiting)
  BY <1>2 DEF IInv, TypeOK, Row
<1> HIDE DEF new
<1>4. summaries' = IF summaries[s] = NoRow THEN summaries ELSE [summaries EXCEPT ![s] = new]
  BY <1>1, <1>3, UpdateFact
<1>5. QED
  BY <1>1, <1>3, <1>4 DEF IInv, TypeOK

LEMMA BadgeEvent ==
    ASSUME IInv, \A t \in Session : BadgeInv(t), NEW s \in Session,
           StatusChanges(s) \/ StatsChange(s)
    PROVE  \A t \in Session : BadgeInv(t)'
<1>1. UNCHANGED <<pending, claims, unbumped>> /\ (summaries[s] # NoRow => summaries[s] \in Row)
  BY DEF StatusChanges, StatsChange, requestVars, IInv, TypeOK
<1>2. CASE StatusChanges(s)
  <2> DEFINE new == [summaries[s] EXCEPT !.running = host'[s].state = "running"]
  <2>1. Update(s, new) /\ (summaries[s] # NoRow => new \in Row /\ new.flags = summaries[s].flags)
    BY <1>1, <1>2 DEF StatusChanges, Row
  <2> HIDE DEF new
  <2>2. QED
    BY <1>1, <2>1, BadgeUpdate
<1>3. CASE StatsChange(s)
  <2> DEFINE new == [summaries[s] EXCEPT !.stats = host'[s].stats]
  <2>1. host[s] \in HostRow /\ host' = [host EXCEPT ![s] = [host[s] EXCEPT !.stats = 1 - @]]
    BY <1>3 DEF StatsChange, HostBecomes, IInv, TypeOK
  <2>2. host'[s].stats = 1 - host[s].stats /\ host[s].stats \in 0..1
    BY <2>1 DEF IInv, TypeOK, HostRow
  <2>3. host'[s].stats \in 0..1
    BY <2>2
  <2>4. Update(s, new) /\ (summaries[s] # NoRow => new \in Row /\ new.flags = summaries[s].flags)
    BY <1>1, <1>3, <2>3 DEF StatsChange, Row
  <2> HIDE DEF new
  <2>5. QED
    BY <1>1, <2>4, BadgeUpdate
<1>4. QED
  BY <1>2, <1>3

\* The answer to an archiving takes the row away, and a whole list makes every row anew.
LEMMA BadgeList ==
    ASSUME IInv, \A t \in Session : BadgeInv(t),
           \/ \E s \in Session : ArchiveAnswered(s)
           \/ \E r \in Reading : Apply(r) \/ ApplyWithoutWorkspace(r)
    PROVE  \A t \in Session : BadgeInv(t)'
<1>1. ASSUME NEW s \in Session, ArchiveAnswered(s) PROVE \A t \in Session : BadgeInv(t)'
  BY <1>1 DEF ArchiveAnswered, requestVars, BadgeInv, Claimed, Flags, IInv, TypeOK
<1>2. ASSUME NEW r \in Reading, NEW archived, NEW unknown, ApplyReading(r, archived, unknown)
      PROVE \A t \in Session : BadgeInv(t)'
  <2>1. pending' = pending /\ summaries' = NextSummaries(readings[r].rows, archived)
    BY <1>2 DEF ApplyReading, requestVars
  <2>2. ASSUME NEW t \in Session, summaries'[t] # NoRow
        PROVE  summaries'[t].flags = Flags(t, pending')
    BY <2>1, <2>2 DEF NextSummaries, ToSummary
  <2>3. QED
    BY <2>2 DEF BadgeInv
<1>3. QED
  BY <1>1, <1>2 DEF Apply, ApplyWithoutWorkspace

LEMMA BadgeClaim ==
    ASSUME IInv, \A t \in Session : BadgeInv(t), NEW q \in Request, NEW p \in Phone, Respond(p, q)
    PROVE  \A t \in Session : BadgeInv(t)'
<1>1. /\ claims[p].on = {} /\ pending' = pending \ {q}
      /\ UNCHANGED <<summaries, unbumped>>
      /\ claims'[p].on = {q} /\ \A o \in Phone \ {p} : claims'[o] = claims[o]
  BY DEF Respond, NoClaim, listVars, IInv, TypeOK
<1>2. Claimed(q)' /\ \A r \in Request : Claimed(r) => Claimed(r)'
  BY <1>1 DEF Claimed
<1>3. ASSUME NEW t \in Session, SessionOf[q] # t PROVE BadgeInv(t)'
  <2>1. Flags(t, pending') = Flags(t, pending)
    BY <1>1, <1>3, OtherFlags
  <2>2. QED
    BY <1>1, <1>2, <2>1 DEF BadgeInv
<1>4. BadgeInv(SessionOf[q])'
  BY <1>2 DEF BadgeInv
<1>5. QED
  BY <1>3, <1>4

LEMMA BadgeReceipt ==
    ASSUME IInv, \A t \in Session : BadgeInv(t), NEW q \in Request, NEW p \in Phone, Receipt(p, q)
    PROVE  \A t \in Session : BadgeInv(t)'
<1>1. /\ claims[p].on = {q} /\ pending' = pending \cup GivenBack(claims[p])
      /\ \A o \in Phone \ {p} : claims'[o] = claims[o]
      /\ pending' \in SUBSET Request
  BY DEF Receipt, GivenBack, IInv, TypeOK
<1>2. \A r \in Request \ {q} : Claimed(r) => Claimed(r)'
  BY <1>1 DEF Claimed
<1>3. SessionOf[q] \in Session /\ GivenBack(claims[p]) \subseteq {q}
  BY <1>1, MirrorAssumption DEF GivenBack
<1>4. \A t \in Session \ {SessionOf[q]} : Flags(t, pending') = Flags(t, pending)
  BY <1>1, <1>3, OtherFlags
<1>5. CASE claims[p].receipt = "accepted"
  <2>1. BumpPendingFlags(SessionOf[q], pending')
    BY <1>5 DEF Receipt, Bumps
  <2>2. /\ unbumped' = unbumped \ {SessionOf[q]}
        /\ \A t \in Session \ {SessionOf[q]} : summaries'[t] = summaries[t]
        /\ summaries'[SessionOf[q]] # NoRow =>
               summaries'[SessionOf[q]].flags = Flags(SessionOf[q], pending')
    BY <1>1, <1>3, <2>1, BumpFact
  <2>3. BadgeInv(SessionOf[q])'
    BY <2>2 DEF BadgeInv
  <2>4. ASSUME NEW t \in Session \ {SessionOf[q]} PROVE BadgeInv(t)'
    BY <1>2, <1>4, <2>2 DEF BadgeInv
  <2>5. QED
    BY <2>3, <2>4
<1>6. CASE claims[p].receipt # "accepted"
  <2>1. unbumped' = unbumped \cup {SessionOf[q]} /\ UNCHANGED summaries
    BY <1>6 DEF Receipt, Bumps, listVars
  <2>2. ASSUME NEW t \in Session \ {SessionOf[q]} PROVE BadgeInv(t)'
    BY <1>2, <1>4, <2>1 DEF BadgeInv
  <2>3. BadgeInv(SessionOf[q])'
    BY <2>1 DEF BadgeInv
  <2>4. QED
    BY <2>2, <2>3
<1>7. QED
  BY <1>5, <1>6

LEMMA BadgeFrame ==
    ASSUME IInv, \A t \in Session : BadgeInv(t), MuxFrame
    PROVE  \A t \in Session : BadgeInv(t)'
<1>1. muxFrames \in Seq(Frame) /\ muxFrames # <<>> /\ UNCHANGED claims
  BY DEF IInv, TypeOK, Frame, MuxFrame
<1>2. PICK q \in Request : Requested(q) \/ Resolved(q)
  <2>1. Head(muxFrames) \in Frame
    BY <1>1
  <2>2. QED
    BY <2>1 DEF MuxFrame, Frame
<1>3. /\ pending' \in SUBSET Request /\ \A r : r # q => (r \in pending' <=> r \in pending)
      /\ \/ BumpPendingFlags(SessionOf[q], pending')
         \/ pending' = pending /\ UNCHANGED <<summaries, unbumped>>
  BY <1>2 DEF Requested, Resolved, listVars, IInv, TypeOK
<1>4. CASE pending' = pending /\ UNCHANGED <<summaries, unbumped>>
  BY <1>1, <1>4, BadgeSame
<1>5. CASE BumpPendingFlags(SessionOf[q], pending')
  <2>1. SessionOf[q] \in Session
    BY MirrorAssumption
  <2>2. /\ unbumped' = unbumped \ {SessionOf[q]}
        /\ \A t \in Session \ {SessionOf[q]} : summaries'[t] = summaries[t]
        /\ summaries'[SessionOf[q]] # NoRow =>
               summaries'[SessionOf[q]].flags = Flags(SessionOf[q], pending')
    BY <1>3, <1>5, <2>1, BumpFact
  <2>3. BadgeInv(SessionOf[q])'
    BY <2>2 DEF BadgeInv
  <2>4. ASSUME NEW t \in Session \ {SessionOf[q]} PROVE BadgeInv(t)'
    <3>1. Flags(t, pending') = Flags(t, pending)
      BY <1>3, <2>4, OtherFlags
    <3>2. \A r : Claimed(r)' <=> Claimed(r)
      BY <1>1 DEF Claimed
    <3>3. QED
      BY <2>2, <2>4, <3>1, <3>2 DEF BadgeInv
  <2>5. QED
    BY <2>3, <2>4
<1>6. QED
  BY <1>3, <1>4, <1>5

LEMMA BadgeTimer ==
    ASSUME IInv, NEW s \in Session, TimerFires(s)
    PROVE  UNCHANGED <<summaries, pending, claims, unbumped>>
BY DEF TimerFires, PushSummary, requestVars, IInv, TypeOK

LEMMA BadgeStep ==
    IInv /\ (\A s \in Session : BadgeInv(s)) /\ [Next]_vars => (\A s \in Session : BadgeInv(s))'
<1> SUFFICES ASSUME IInv, \A s \in Session : BadgeInv(s), [Next]_vars
             PROVE  \A s \in Session : BadgeInv(s)'
  OBVIOUS
<1>1. CASE UNCHANGED vars
  BY <1>1, BadgeSame DEF vars, listVars, requestVars
<1>2. ASSUME NEW s \in Session,
             TimerFires(s) \/ SessionComesOrGoes(s) \/ ArchiveChanges(s)
      PROVE  \A t \in Session : BadgeInv(t)'
  <2>1. UNCHANGED <<summaries, pending, claims, unbumped>>
    BY <1>2, BadgeTimer DEF SessionComesOrGoes, ArchiveChanges, listVars, requestVars
  <2>2. QED
    BY <2>1, BadgeSame
<1>3. ASSUME NEW s \in Session, StatusChanges(s) \/ StatsChange(s)
      PROVE  \A t \in Session : BadgeInv(t)'
  BY <1>3, BadgeEvent
<1>4. ASSUME NEW s \in Session, ArchiveAnswered(s) PROVE \A t \in Session : BadgeInv(t)'
  BY <1>4, BadgeList
<1>5. CASE NewsOfTheList
  BY <1>5, BadgeSame DEF NewsOfTheList, listVars, requestVars
<1>6. ASSUME NEW r \in Reading, ListRead(r) \/ ReadingFails(r) \/ WorkspaceRead(r)
      PROVE  \A t \in Session : BadgeInv(t)'
  BY <1>6, BadgeSame DEF ListRead, ReadingFails, WorkspaceRead, listVars, requestVars
<1>7. ASSUME NEW r \in Reading, Apply(r) \/ ApplyWithoutWorkspace(r)
      PROVE  \A t \in Session : BadgeInv(t)'
  BY <1>7, BadgeList
<1>8. CASE MuxFrame
  BY <1>8, BadgeFrame
<1>9. ASSUME NEW q \in Request, HostAsks(q) \/ Aborted(q) \/ ArgumentsArrive(q)
      PROVE  \A t \in Session : BadgeInv(t)'
  BY <1>9, BadgeSame DEF HostAsks, Aborted, ArgumentsArrive, listVars
<1>10. ASSUME NEW q \in Request, NEW p \in Phone, Respond(p, q) \/ Receipt(p, q)
       PROVE  \A t \in Session : BadgeInv(t)'
  BY <1>10, BadgeClaim, BadgeReceipt
<1>11. QED
  BY <1>1, <1>2, <1>3, <1>4, <1>5, <1>6, <1>7, <1>8, <1>9, <1>10 DEF Next

\* When nothing is under way, the badge of every session counts the requests that wait for
\* it, in whatever order frames, receipts and whole lists came; only a session whose last
\* answer was refused is left alone until the next list.
THEOREM BadgesAreRight == Spec => []BadgeIsRight
<1>1. (\A s \in Session : BadgeInv(s)) => BadgeIsRight
  <2>1. SUFFICES ASSUME \A s \in Session : BadgeInv(s), NothingUnderWay
                 PROVE  \A s \in Session \ unbumped :
                            summaries[s] # NoRow => summaries[s].flags = Flags(s, pending)
    BY DEF BadgeIsRight
  <2>2. \A q : ~Claimed(q)
    BY <2>1 DEF NothingUnderWay, NoClaim, Claimed
  <2>3. QED
    BY <2>1, <2>2 DEF BadgeInv
<1>2. Init => IInv /\ \A s \in Session : BadgeInv(s)
  <2>1. Init => \A s \in Session : BadgeInv(s)
    BY DEF Init, BadgeInv
  <2>2. QED
    BY <2>1, StartFact
<1>3. IInv /\ (\A s \in Session : BadgeInv(s)) /\ [Next]_vars
          => (IInv /\ \A s \in Session : BadgeInv(s))'
  BY SafeStep, BadgeStep
<1>4. QED
  BY <1>1, <1>2, <1>3, PTL DEF Spec
=============================================================================
