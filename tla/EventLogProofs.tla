--------------------------- MODULE EventLogProofs ---------------------------
(***************************************************************************)
(* Theorems about EventLog, for every size of its buffers and every bound. *)
(*                                                                         *)
(* What the session shows follows from the snapshot and the log, so the    *)
(* invariant LogInv adds to the properties what each of the two holds:     *)
(* the log has a last row and numbers from 1 (Numbered), the snapshot      *)
(* shows the rows up to its own number (Stored), and no snapshot is being  *)
(* written by a session that is down (Writing).                            *)
(*                                                                         *)
(* OrderKept needs more (OrderInv): as long as nothing was skipped and no  *)
(* write failed, the log has all that came before any of its events but    *)
(* for what was streamed to a session that ended (Complete), a restore     *)
(* appends the rest from its oldest (Ahead), and each event on its way is  *)
(* preceded, in the log or on the way, by the one emitted before it        *)
(* (Following).  No turn streams while a session is restored (Unstreamed). *)
(*                                                                         *)
(* NothingLost compares how many events never arrive with what the reports *)
(* in the log admit, so LossInv keeps the balance at every step: lost so   *)
(* far are at most those that are reported, those of reports on their way, *)
(* and those the forwarding task has skipped and not reported yet          *)
(* (Accounted).                                                            *)
(***************************************************************************)
EXTENDS EventLog, FiniteSetTheorems, TLAPS

Numbered ==
    /\ \A r, q \in log : r.seq = q.seq \/ r.id = q.id => r = q
    /\ \A r \in log : r.seq >= 1
    /\ log # {} => \E r \in log : \A q \in log : q.seq <= r.seq

Showing ==
    phase # "down" => state.shown = log /\ \A r \in log : r.seq <= state.last

Stored ==
    snap # None =>
        /\ snap.shown = {r \in log : r.seq <= snap.last}
        /\ phase # "down" => snap.last <= state.last

Writing == writing # "none" => phase \in {"live", "storing", "ending"}

\* Not more was forgotten than was emitted.
Counted == skipped + Len(buffer) <= emitted

Held ==
    ~torn => /\ snap # None => kept \subseteq snap.notes
             /\ phase # "down" => kept \subseteq state.notes
             /\ phase \in {"down", "recovered", "resumed", "reconciling"} =>
                    kept = {} \/ snap # None

LogInv == TypeOK /\ Numbered /\ Showing /\ Stored /\ Writing /\ Counted /\ Held

USE DEF sourceVars

-----------------------------------------------------------------------------
(* The types of what travels.                                              *)

LEMMA Kinds ==
    /\ \A n \in 0..MaxEvents : Event(n) \in Message /\ IsEvent(Event(n)) /\ Event(n) \in Id
    /\ \A k \in 1..MaxEvents : Lagged(k) \in Message /\ ~IsEvent(Lagged(k))
    /\ \A m \in Message : IsEvent(m) => m \in Id
    /\ \A m \in Message, n \in Nat : <<m[1], n>> \in Id
    /\ Closed \in Message
  BY EventLogAssumption DEF Message, Id, Event, Lagged, Closed, IsEvent

LEMMA FreshIsState == Fresh \in State /\ Fresh.last = 0 /\ Fresh.shown = {} /\ Fresh.notes = {}
  BY DEF Fresh, State

LEMMA AppliedIsState ==
    ASSUME NEW s \in State, NEW row \in Row
    PROVE  /\ Applied(s, row) \in State
           /\ Applied(s, row).last = row.seq
           /\ Applied(s, row).shown = s.shown \cup {row}
           /\ Applied(s, row).notes = s.notes
  BY DEF Applied, State, Row

-----------------------------------------------------------------------------
(* The initial state.                                                      *)

LEMMA LogInit == Init => LogInv
  <1> SUFFICES ASSUME Init PROVE LogInv
    OBVIOUS
  <1>1. TypeOK
    <2>1. <<>> \in Seq(Message) /\ Len(<<>>) = 0
      OBVIOUS
    <2>2. 0 \in 0..MaxEvents /\ 0 \in 0..MaxEnds /\ 0 \in 0..MaxFaults
      BY EventLogAssumption
    <2>3. 0 <= Buffer /\ 0 <= Pipe
      BY EventLogAssumption
    <2>4. emitted \in 0..MaxEvents /\ history \subseteq 1..emitted /\ since \in 0..emitted
      BY <2>2 DEF Init
    <2> QED  BY <2>1, <2>2, <2>3, <2>4, FreshIsState DEF Init, TypeOK, Phase
  <1> QED
    BY <1>1, FreshIsState DEF Init, LogInv, Numbered, Showing, Stored, Writing, Counted, Held

-----------------------------------------------------------------------------
(* Appending an event.                                                     *)

LEMMA AppendKeeps ==
    ASSUME LogInv, phase # "down", NEW id \in Id, NEW ok \in BOOLEAN, AppendEvent(id, ok)
    PROVE  /\ log' \subseteq Row /\ state' \in State /\ faults' \in 0..MaxFaults
           /\ Numbered'
           /\ state'.shown = log' /\ (\A r \in log' : r.seq <= state'.last)
           /\ state'.notes = state.notes
           /\ state'.last >= state.last
           /\ \A n \in 0..state.last :
                {r \in log' : r.seq <= n} = {r \in log : r.seq <= n}
  <1> USE DEF LogInv
  <1> DEFINE row == [seq |-> state.last + 1, id |-> id]
  <1>1. state \in State /\ state.last \in Nat /\ state.shown = log /\ log \subseteq Row
    BY DEF TypeOK, State, Showing
  <1>2. row \in Row /\ row.seq = state.last + 1 /\ row.id = id
    BY <1>1 DEF Row
  <1>3. \A r \in log : r.seq \in Nat /\ r.seq <= state.last
    BY <1>1 DEF Row, Showing
  <1>4. faults' \in 0..MaxFaults
    BY EventLogAssumption DEF AppendEvent, Works, TypeOK
  <1>5. CASE ok /\ IsNew(row)
    <2>1. log' = log \cup {row} /\ state' = Applied(state, row)
      BY <1>5 DEF AppendEvent
    <2>2. /\ state' \in State /\ state'.last = state.last + 1
          /\ state'.shown = log \cup {row} /\ state'.notes = state.notes
      BY <2>1, <1>1, <1>2, AppliedIsState
    <2>3. Numbered'
      <3>1. \A r, q \in log' : r.seq = q.seq \/ r.id = q.id => r = q
        BY <2>1, <1>5 DEF IsNew, Numbered
      <3>2. \A r \in log' : r.seq >= 1
        BY <2>1, <1>1, <1>2 DEF Numbered
      <3>3. \A q \in log' : q.seq <= row.seq
        BY <2>1, <1>1, <1>2, <1>3
      <3> QED  BY <3>1, <3>2, <3>3, <2>1 DEF Numbered
    <2>4. \A n \in 0..state.last :
            {r \in log' : r.seq <= n} = {r \in log : r.seq <= n}
      <3>1. \A n \in 0..state.last : ~(row.seq <= n)
        BY <1>1, <1>2
      <3> HIDE DEF row
      <3> QED  BY <3>1, <2>1
    <2>5. \A r \in log' : r.seq <= state'.last
      BY <1>1, <1>2, <1>3, <2>1, <2>2
    <2>6. log' \subseteq Row /\ state'.shown = log' /\ state'.last >= state.last
      BY <1>1, <1>2, <2>1, <2>2
    <2> QED  BY <1>4, <2>2, <2>3, <2>4, <2>5, <2>6
  <1>6. CASE ~(ok /\ IsNew(row))
    <2>1. log' = log
      BY <1>6 DEF AppendEvent
    <2> DEFINE Same == /\ state' \in State /\ state'.last \in {state.last, state.last + 1}
                       /\ state'.shown = log /\ state'.notes = state.notes
    <2>2. ASSUME ~ok PROVE Same
      <3>1. state' = state
        BY <2>2 DEF AppendEvent
      <3> QED  BY <3>1, <1>1
    <2>3. ASSUME ok PROVE Same
      <3>1. ~IsNew(row)
        BY <1>6, <2>3
      <3>2. state' = [state EXCEPT !.last = row.seq]
        BY <2>3, <3>1 DEF AppendEvent
      <3> QED  BY <3>2, <1>1, <1>2 DEF State
    <2>4. Same
      BY <2>2, <2>3
    <2>5. \A r \in log' : r.seq <= state'.last
      <3> HIDE DEF row
      <3>1. state.last <= state'.last
        BY <1>1, <2>4
      <3>2. state'.last \in Nat
        BY <2>4 DEF State
      <3> QED  BY <1>1, <1>3, <2>1, <3>1, <3>2
    <2>6. \A n \in 0..state.last :
            {r \in log' : r.seq <= n} = {r \in log : r.seq <= n}
      BY <2>1
    <2>7. Numbered'
      BY <2>1 DEF Numbered
    <2>8. log' \subseteq Row /\ state'.shown = log' /\ state'.last >= state.last
      BY <1>1, <2>1, <2>4
    <2> QED  BY <1>4, <2>4, <2>5, <2>6, <2>7, <2>8
  <1> QED  BY <1>5, <1>6

-----------------------------------------------------------------------------
(* The stream: what is stored and shown stays.                             *)

LEMMA StreamTypes ==
    ASSUME LogInv, Emit \/ RuntimeEnds \/ Forward
    PROVE  TypeOK' /\ Counted'
  <1> USE DEF LogInv
  <1>1. CASE Emit
    <2>1. emitted \in 0..MaxEvents /\ emitted < MaxEvents /\ MaxEvents \in Nat
      BY <1>1, EventLogAssumption DEF Emit, TypeOK
    <2>2. emitted' = emitted + 1 /\ emitted' \in 0..MaxEvents
      BY <1>1, <2>1 DEF Emit
    <2>3. Event(emitted + 1) \in Message
      BY <2>1, <2>2, Kinds DEF Emit
    <2>4. /\ buffer' \in Seq(Message) /\ Len(buffer') <= Buffer
          /\ skipped' \in Nat /\ skipped' + Len(buffer') <= emitted'
      <3> DEFINE e == Event(emitted + 1)
      <3>0. buffer \in Seq(Message) /\ Len(buffer) \in Nat /\ Len(buffer) <= Buffer
            /\ skipped \in Nat /\ Buffer \in Nat \ {0} /\ e \in Message
            /\ skipped + Len(buffer) <= emitted
        BY <2>3, EventLogAssumption DEF TypeOK, Counted
      <3> HIDE DEF e
      <3>1. CASE UNCHANGED <<buffer, skipped>>
        BY <3>0, <3>1, <2>1, <2>2
      <3>2. CASE Len(buffer) < Buffer /\ buffer' = Append(buffer, e) /\ skipped' = skipped
        BY <3>0, <3>2, <2>1, <2>2
      <3>3. CASE ~(Len(buffer) < Buffer) /\ buffer' = Append(Tail(buffer), e)
                 /\ skipped' = skipped + 1
        <4>1. buffer # <<>>
          BY <3>0, <3>3
        <4>2. Tail(buffer) \in Seq(Message) /\ Len(Tail(buffer)) = Len(buffer) - 1
          BY <3>0, <4>1
        <4> QED  BY <3>0, <3>3, <4>2, <2>1, <2>2
      <3> QED  BY <3>1, <3>2, <3>3, <1>1 DEF Emit, Room, e
    <2>5. skipped' \in 0..MaxEvents
      BY <2>1, <2>2, <2>4
    <2>6. UNCHANGED <<durableVars, since, runtime, pipe, actorVars, ends, faults>>
      BY <1>1 DEF Emit
    <2>7. history' \subseteq 1..emitted' /\ since' \in 0..emitted'
      <3>1. history \subseteq 1..emitted /\ since \in 0..emitted
        BY DEF TypeOK
      <3>2. history' \subseteq history \cup {emitted + 1} /\ since' = since
        BY <1>1 DEF Emit
      <3>3. 1..emitted \subseteq 1..(emitted + 1) /\ emitted + 1 \in 1..(emitted + 1)
            /\ 0..emitted \subseteq 0..(emitted + 1)
        BY <2>1
      <3> QED
        BY <2>2, <3>1, <3>2, <3>3
    <2>8. TypeOK'
      BY <2>2, <2>4, <2>5, <2>6, <2>7 DEF durableVars, actorVars, TypeOK
    <2> QED  BY <2>4, <2>8 DEF Counted
  <1>2. CASE RuntimeEnds
    <2>0. runtime' = FALSE /\ ends < MaxEnds /\ ends' = ends + 1
      BY <1>2 DEF RuntimeEnds
    <2>1. ends' \in 0..MaxEnds
      <3>1. ends \in 0..MaxEnds /\ MaxEnds \in Nat
        BY EventLogAssumption DEF TypeOK
      <3> QED  BY <3>1, <2>0
    <2>1a. runtime' \in BOOLEAN
      BY <2>0
    <2>2. UNCHANGED <<durableVars, emitted, history, since, buffer, skipped, pipe, actorVars, faults>>
      BY <1>2 DEF RuntimeEnds
    <2>3. TypeOK'
      BY <2>1, <2>1a, <2>2 DEF durableVars, actorVars, TypeOK
    <2> QED  BY <2>2, <2>3 DEF Counted
  <1>3. CASE Forward
    <2>1. /\ buffer \in Seq(Message) /\ pipe \in Seq(Message)
          /\ skipped \in 0..MaxEvents /\ Len(pipe) < Pipe /\ Pipe \in Nat
          /\ emitted \in Nat /\ Len(buffer) <= Buffer /\ Buffer \in Nat
      BY <1>3, EventLogAssumption DEF Forward, Room, TypeOK
    <2>2. \E m \in Message : pipe' = Append(pipe, m)
      <3>1. CASE skipped > 0
        <4>1. Lagged(skipped) \in Message
          <5>1. skipped \in 1..MaxEvents
            BY <3>1, <2>1, EventLogAssumption
          <5> QED
            BY <5>1, Kinds
        <4>2. pipe' = Append(pipe, Lagged(skipped))
          BY <3>1, <1>3 DEF Forward
        <4> QED  BY <4>1, <4>2
      <3>2. CASE ~(skipped > 0) /\ buffer # <<>>
        <4>1. Head(buffer) \in Message
          BY <3>2, <2>1
        <4> QED  BY <3>2, <4>1, <1>3 DEF Forward
      <3>3. CASE ~(skipped > 0) /\ buffer = <<>>
        BY <3>3, <1>3, Kinds DEF Forward
      <3> QED  BY <3>1, <3>2, <3>3
    <2>3. pipe' \in Seq(Message) /\ Len(pipe') <= Pipe
      BY <2>1, <2>2
    <2>4. buffer' \in Seq(Message) /\ Len(buffer') <= Len(buffer)
      <3>1. CASE buffer' = buffer
        BY <3>1, <2>1
      <3>2. CASE buffer # <<>> /\ buffer' = Tail(buffer)
        BY <3>2, <2>1
      <3> QED  BY <3>1, <3>2, <1>3 DEF Forward
    <2>5. skipped' = 0 /\ 0 \in 0..MaxEvents
      BY <1>3, EventLogAssumption DEF Forward
    <2> HIDE DEF LogInv
    <2>6. Len(buffer') <= Buffer /\ skipped' + Len(buffer') <= emitted
      BY <2>1, <2>4, <2>5 DEF LogInv, Counted
    <2>7. UNCHANGED <<durableVars, emitted, history, since, runtime, actorVars, ends, faults>>
      BY <1>3 DEF Forward
    <2>8. TypeOK'
      BY <2>3, <2>4, <2>5, <2>6, <2>7 DEF durableVars, actorVars, TypeOK, LogInv
    <2> QED
      BY <2>6, <2>7, <2>8 DEF Counted
  <1> QED  BY <1>1, <1>2, <1>3

LEMMA StreamKeeps ==
    ASSUME LogInv, Emit \/ RuntimeEnds \/ Forward
    PROVE  LogInv'
  <1>1. UNCHANGED <<durableVars, actorVars>>
    BY DEF Emit, RuntimeEnds, Forward
  <1> QED
    BY <1>1, StreamTypes
    DEF LogInv, Numbered, Showing, Stored, Writing, Held, durableVars, actorVars

-----------------------------------------------------------------------------
(* The actor.                                                              *)

\* Sets of numbered rows that agree up to the snapshot's number agree on it.
LEMMA StoredStays ==
    ASSUME LogInv, phase # "down", snap' = snap, state'.last >= state.last,
           state'.last \in Nat,
           \A n \in 0..state.last : {r \in log' : r.seq <= n} = {r \in log : r.seq <= n}
    PROVE  Stored'
  <1> SUFFICES ASSUME snap # None
               PROVE  /\ snap.shown = {r \in log' : r.seq <= snap.last}
                      /\ snap.last <= state'.last
    BY DEF Stored
  <1>1. snap.last \in Nat /\ state.last \in Nat
    BY DEF LogInv, TypeOK, State
  <1>2. snap.shown = {r \in log : r.seq <= snap.last} /\ snap.last <= state.last
    BY DEF LogInv, Stored
  <1> QED  BY <1>1, <1>2

LEMMA ReceiveKeeps == LogInv /\ Receive => LogInv'
  <1> SUFFICES ASSUME LogInv, Receive PROVE LogInv'
    OBVIOUS
  <1> DEFINE m == Head(pipe)
             id == IF IsEvent(m) THEN m ELSE <<m[1], state.last + 1>>
  <1>1. pipe \in Seq(Message) /\ pipe # <<>> /\ state \in State /\ state.last \in Nat
    BY DEF Receive, LogInv, TypeOK, State
  <1>2. m \in Message /\ pipe' \in Seq(Message) /\ Len(pipe') <= Pipe
    <2>1. m \in Message /\ pipe' = Tail(pipe)
      BY <1>1 DEF Receive
    <2>2. Len(pipe) <= Pipe /\ Pipe \in Nat
      BY EventLogAssumption DEF LogInv, TypeOK
    <2> QED  BY <1>1, <2>1, <2>2
  <1>3. id \in Id
    <2>1. IsEvent(m) => m \in Id
      BY <1>2, Kinds
    <2>2. state.last + 1 \in Nat
      BY <1>1
    <2>3. <<m[1], state.last + 1>> \in Id
      BY <1>2, <2>2, Kinds
    <2> QED
      BY <2>1, <2>3
  <1>4. PICK ok \in BOOLEAN : AppendEvent(id, ok)
    BY DEF Receive
  <1>5. phase = "live"
    BY DEF Receive, IsReady
  <1> HIDE DEF id, m
  <1>6. /\ log' \subseteq Row /\ state' \in State /\ faults' \in 0..MaxFaults
        /\ Numbered'
        /\ state'.shown = log' /\ (\A r \in log' : r.seq <= state'.last)
        /\ state'.notes = state.notes
        /\ state'.last >= state.last
        /\ \A n \in 0..state.last :
             {r \in log' : r.seq <= n} = {r \in log : r.seq <= n}
    BY <1>3, <1>4, <1>5, AppendKeeps
  <1>7. /\ UNCHANGED <<snap, kept, torn, emitted, history, since, runtime, buffer, skipped, phase, todo, ends>>
        /\ writing' \in {"delete", "none"}
    BY DEF Receive
  <1>8. TypeOK'
    BY <1>2, <1>6, <1>7 DEF LogInv, TypeOK
  <1>9. Stored'
    <2>1. state'.last \in Nat
      BY <1>6 DEF State
    <2> QED  BY <1>5, <1>6, <1>7, <2>1, StoredStays
  <1> QED
    BY <1>5, <1>6, <1>7, <1>8, <1>9 DEF LogInv, Showing, Writing, Counted, Held

LEMMA TakeNoteKeeps == ASSUME NEW a \in Notes, LogInv, TakeNote(a) PROVE LogInv'
  <1>1. /\ state' = [state EXCEPT !.notes = @ \cup {a}] /\ writing' = "delete"
        /\ phase = "live"
        /\ UNCHANGED <<durableVars, emitted, history, since, streamVars, phase, todo, ends, faults>>
    BY DEF TakeNote, Noted, IsReady
  <1>2. /\ state' \in State /\ state'.last = state.last /\ state'.shown = state.shown
        /\ state.notes \subseteq state'.notes
    BY <1>1 DEF LogInv, TypeOK, State
  <1>3. TypeOK'
    BY <1>1, <1>2 DEF LogInv, TypeOK, durableVars, streamVars
  <1> QED
    BY <1>1, <1>2, <1>3
    DEF LogInv, Numbered, Showing, Stored, Writing, Counted, Held, durableVars, streamVars

\* The statement that failed or was the last one.
LEMMA WrittenKeeps ==
    ASSUME LogInv, writing # "none", NEW ok \in BOOLEAN, Written(ok),
           snap' \in State \cup {None}
    PROVE  /\ writing' = "none" /\ phase' \in Phase /\ torn' \in BOOLEAN
           /\ phase' \in {"live", "down"}
           /\ phase \in {"live", "storing", "ending"}
           /\ phase' # "down" => torn' = torn
           /\ phase' = "down" => torn' = (torn \/ (snap' = None /\ kept # {}))
  <1>1. phase \in {"live", "storing", "ending"}
    BY DEF LogInv, Writing
  <1>2. phase' \in {"live", "down"}
    BY <1>1 DEF Written
  <1>3. torn \in BOOLEAN
    BY DEF LogInv, TypeOK
  <1>4. torn' = (torn \/ (phase' = "down" /\ snap' = None /\ kept # {}))
    BY DEF Written, Tears
  <1>5. torn' \in BOOLEAN
    BY <1>4
  <1>6. phase' # "down" => torn' = torn
    BY <1>3, <1>4
  <1> QED  BY <1>1, <1>2, <1>4, <1>5, <1>6 DEF Written, Phase

LEMMA DeleteOldKeeps == LogInv /\ DeleteOld => LogInv'
  <1> SUFFICES ASSUME LogInv, DeleteOld PROVE LogInv'
    OBVIOUS
  <1>1. PICK ok \in BOOLEAN :
            /\ Works(ok)
            /\ snap' = IF ok /\ snap # None /\ snap.last # state.last THEN None ELSE snap
            /\ IF ok THEN writing' = "insert" /\ UNCHANGED <<phase, torn>> ELSE Written(FALSE)
    BY DEF DeleteOld
  <1>2. /\ UNCHANGED <<log, kept, emitted, history, since, streamVars, todo, state, ends>>
        /\ writing = "delete" /\ phase \in {"live", "storing", "ending"}
    BY DEF DeleteOld, LogInv, Writing
  <1>3. faults' \in 0..MaxFaults
    BY <1>1, EventLogAssumption DEF Works, LogInv, TypeOK
  <1>4. snap' \in State \cup {None} /\ (snap' # None => snap' = snap)
    BY <1>1 DEF LogInv, TypeOK
  <1>5. CASE ok
    <2>1. writing' = "insert" /\ UNCHANGED <<phase, torn>>
      BY <1>1, <1>5
    <2>2. TypeOK'
      BY <1>2, <1>3, <1>4, <2>1 DEF LogInv, TypeOK, streamVars
    <2> QED
      BY <1>2, <1>4, <2>1, <2>2
      DEF LogInv, Numbered, Showing, Stored, Writing, Counted, Held, streamVars
  <1>6. CASE ~ok
    <2>1. Written(FALSE) /\ snap' = snap
      BY <1>1, <1>6
    <2>2. /\ writing' = "none" /\ phase' \in Phase /\ torn' \in BOOLEAN
          /\ phase' \in {"live", "down"} /\ torn \in BOOLEAN
          /\ phase' # "down" => torn' = torn
          /\ phase' = "down" => torn' = (torn \/ (snap' = None /\ kept # {}))
      BY <1>2, <1>4, <2>1, WrittenKeeps DEF LogInv, TypeOK
    <2>3. TypeOK'
      BY <1>2, <1>3, <1>4, <2>2 DEF LogInv, TypeOK, streamVars
    <2>4. Held'
      BY <1>2, <2>1, <2>2 DEF LogInv, Held
    <2> QED
      BY <1>2, <2>1, <2>2, <2>3, <2>4
      DEF LogInv, Numbered, Showing, Stored, Writing, Counted, streamVars
  <1> QED  BY <1>5, <1>6

LEMMA InsertNewKeeps == LogInv /\ InsertNew => LogInv'
  <1> SUFFICES ASSUME LogInv, InsertNew PROVE LogInv'
    OBVIOUS
  <1>1. PICK ok \in BOOLEAN :
            /\ Works(ok)
            /\ snap' = IF ok THEN state ELSE snap
            /\ kept' = IF ok THEN kept \cup state.notes ELSE kept
            /\ Written(ok)
    BY DEF InsertNew
  <1>2. /\ UNCHANGED <<log, emitted, history, since, streamVars, todo, state, ends>>
        /\ writing = "insert" /\ phase \in {"live", "storing", "ending"}
    BY DEF InsertNew, LogInv, Writing
  <1>3. faults' \in 0..MaxFaults
    BY <1>1, EventLogAssumption DEF Works, LogInv, TypeOK
  <1>4. state \in State /\ state # None /\ state.notes \subseteq Notes
    BY NoneIsNoState DEF LogInv, TypeOK, State
  <1>5. snap' \in State \cup {None} /\ kept' \subseteq Notes
    BY <1>1, <1>4 DEF LogInv, TypeOK
  <1>6. /\ writing' = "none" /\ phase' \in Phase /\ torn' \in BOOLEAN
        /\ phase' \in {"live", "down"} /\ torn \in BOOLEAN
        /\ phase' # "down" => torn' = torn
        /\ phase' = "down" => torn' = (torn \/ (snap' = None /\ kept # {}))
    BY <1>1, <1>2, <1>5, WrittenKeeps DEF LogInv, TypeOK
  <1>7. TypeOK'
    BY <1>2, <1>3, <1>5, <1>6 DEF LogInv, TypeOK, streamVars
  <1>8. state.shown = log /\ \A r \in log : r.seq <= state.last
    BY <1>2 DEF LogInv, Showing
  <1>9. Stored'
    <2>1. CASE ok
      <3>1. snap' = state
        BY <1>1, <2>1
      <3>2. state.last \in Nat
        BY <1>4 DEF State
      <3>3. log = {r \in log : r.seq <= state.last}
        BY <1>8
      <3> QED  BY <1>2, <1>8, <3>1, <3>2, <3>3 DEF Stored
    <2>2. CASE ~ok
      BY <1>1, <1>2, <2>2 DEF LogInv, Stored
    <2> QED  BY <2>1, <2>2
  <1>10. Held'
    <2>1. CASE ok
      <3>1. snap' = state /\ kept' = kept \cup state.notes
        BY <1>1, <2>1
      <3> QED  BY <1>2, <1>4, <1>6, <3>1 DEF LogInv, Held
    <2>2. CASE ~ok
      <3>1. snap' = snap /\ kept' = kept
        BY <1>1, <2>2
      <3> QED  BY <1>2, <1>6, <3>1 DEF LogInv, Held
    <2> QED  BY <2>1, <2>2
  <1> QED
    BY <1>2, <1>6, <1>7, <1>8, <1>9, <1>10
    DEF LogInv, Numbered, Showing, Writing, Counted, streamVars

-----------------------------------------------------------------------------
(* Going down and coming back.                                             *)

LEMMA EndKeeps == LogInv /\ End => LogInv'
  <1> SUFFICES ASSUME LogInv, End PROVE LogInv'
    OBVIOUS
  <1>1. /\ phase = "live" /\ phase' = "ending" /\ writing' = "delete"
        /\ UNCHANGED <<durableVars, emitted, history, since, streamVars, todo, state, faults>>
    BY DEF End, IsReady
  <1>2. ends' \in 0..MaxEnds
    <2>1. ends \in 0..MaxEnds /\ MaxEnds \in Nat
      BY EventLogAssumption DEF LogInv, TypeOK
    <2> QED  BY <2>1 DEF End
  <1>3. TypeOK'
    BY <1>1, <1>2 DEF LogInv, TypeOK, Phase, durableVars, streamVars
  <1> QED
    BY <1>1, <1>3
    DEF LogInv, Numbered, Showing, Stored, Writing, Counted, Held, durableVars, streamVars

\* The session is down, and the database is as it was.
LEMMA DownKeeps ==
    ASSUME LogInv, phase # "down", phase' = "down", writing' = "none", Tears(TRUE), TypeOK',
           UNCHANGED <<log, snap, kept>>, Counted'
    PROVE  LogInv'
  <1>1. torn' = (torn \/ (snap = None /\ kept # {}))
    BY DEF Tears
  <1>2. torn \in BOOLEAN
    BY DEF LogInv, TypeOK
  <1>3. Held'
    BY <1>1, <1>2 DEF LogInv, Held
  <1> QED  BY <1>3 DEF LogInv, Numbered, Showing, Stored, Writing

LEMMA CrashKeeps == LogInv /\ Crash => LogInv'
  <1> SUFFICES ASSUME LogInv, Crash PROVE LogInv'
    OBVIOUS
  <1>1. /\ phase # "down" /\ phase' = "down" /\ writing' = "none" /\ todo' = {}
        /\ runtime' = FALSE /\ buffer' = <<>> /\ skipped' = 0 /\ pipe' = <<>>
        /\ Tears(TRUE) /\ UNCHANGED <<log, snap, kept, emitted, history, since, state, faults>>
    BY DEF Crash, Silent
  <1>2. ends' \in 0..MaxEnds
    <2>1. ends \in 0..MaxEnds /\ MaxEnds \in Nat
      BY EventLogAssumption DEF LogInv, TypeOK
    <2> QED  BY <2>1 DEF Crash
  <1>3. torn' \in BOOLEAN
    BY <1>1 DEF Tears
  <1>4. /\ buffer' \in Seq(Message) /\ Len(buffer') <= Buffer /\ Len(buffer') = 0
        /\ pipe' \in Seq(Message) /\ Len(pipe') <= Pipe /\ skipped' \in 0..MaxEvents
    BY <1>1, EventLogAssumption
  <1>5. runtime' \in BOOLEAN
    BY <1>1
  <1>6. TypeOK'
    BY <1>1, <1>2, <1>3, <1>4, <1>5 DEF LogInv, TypeOK, Phase
  <1>7. Counted'
    BY <1>1, <1>4 DEF LogInv, TypeOK, Counted
  <1> QED  BY <1>1, <1>6, <1>7, DownKeeps

\* The log has a last row, so what is recovered has the largest number.
LEMMA RecoveredState ==
    ASSUME LogInv
    PROVE  /\ Recovered \in State /\ Recovered.shown = log
           /\ \A r \in log : r.seq <= Recovered.last
           /\ snap # None => Recovered.last >= snap.last /\ Recovered.notes = snap.notes
  <1> DEFINE base  == IF snap = None THEN Fresh ELSE snap
             later == {r \in log : r.seq > base.last}
             seqs  == {base.last} \cup {r.seq : r \in later}
  <1>1. base \in State /\ base.last \in Nat /\ log \subseteq Row
    BY FreshIsState DEF LogInv, TypeOK, State
  <1>2. base.shown = {r \in log : r.seq <= base.last}
    <2>1. CASE snap = None
      <3>1. \A r \in log : r.seq \in Nat /\ ~(r.seq <= 0)
        BY <1>1 DEF LogInv, Numbered, Row
      <3> QED  BY <2>1, <3>1, FreshIsState
    <2>2. CASE snap # None
      BY <2>2 DEF LogInv, Stored
    <2> QED  BY <2>1, <2>2
  <1> HIDE DEF base
  <1>3. \A r \in log : r.seq \in Nat
    BY <1>1 DEF Row
  <1>4. base.shown \cup later = log
    BY <1>1, <1>2, <1>3
  <1>5. \E x \in seqs : \A y \in seqs : x >= y
    <2>1. CASE later = {}
      BY <1>1, <2>1
    <2>2. CASE later # {}
      <3>1. PICK r \in log : \A q \in log : q.seq <= r.seq
        BY <2>2 DEF LogInv, Numbered
      <3>2. r \in later
        <4>1. PICK q \in later : TRUE
          BY <2>2
        <4> QED  BY <3>1, <4>1, <1>1, <1>3
      <3>3. \A y \in seqs : r.seq >= y
        BY <3>1, <3>2, <1>1, <1>3
      <3> QED  BY <3>2, <3>3
    <2> QED  BY <2>1, <2>2
  <1>6. Max(seqs) \in seqs /\ \A y \in seqs : Max(seqs) >= y
    BY <1>5 DEF Max
  <1>7. Max(seqs) \in Nat /\ Max(seqs) >= base.last
    BY <1>1, <1>3, <1>6
  <1>8. Recovered = [base EXCEPT !.last = Max(seqs), !.shown = @ \cup later]
    BY DEF Recovered, base
  <1>9. \A r \in log : r.seq <= Max(seqs)
    BY <1>1, <1>3, <1>6, <1>7
  <1>10. /\ Recovered \in State /\ Recovered.last = Max(seqs)
         /\ Recovered.shown = log /\ Recovered.notes = base.notes
    <2> HIDE DEF seqs
    <2>1. later \subseteq Row
      BY <1>1
    <2> HIDE DEF later
    <2>2. /\ Recovered.last = Max(seqs) /\ Recovered.shown = base.shown \cup later
          /\ Recovered.notes = base.notes
      BY <1>1, <1>8 DEF State
    <2> QED  BY <1>1, <1>4, <1>7, <1>8, <2>1, <2>2 DEF State
  <1> QED  BY <1>7, <1>9, <1>10 DEF base

LEMMA RecoverKeeps == LogInv /\ Recover => LogInv'
  <1> SUFFICES ASSUME LogInv, Recover PROVE LogInv'
    OBVIOUS
  <1>1. /\ phase = "down" /\ phase' = "recovered" /\ state' = Recovered
        /\ runtime' = TRUE /\ buffer' = <<>> /\ skipped' = 0 /\ pipe' = <<>>
        /\ UNCHANGED <<log, snap, kept, torn, emitted, history, since, todo, writing, ends, faults>>
    BY DEF Recover, Silent, durableVars
  <1>2. /\ Recovered \in State /\ Recovered.shown = log
        /\ \A r \in log : r.seq <= Recovered.last
        /\ snap # None => Recovered.last >= snap.last /\ Recovered.notes = snap.notes
    BY RecoveredState
  <1>3. /\ buffer' \in Seq(Message) /\ Len(buffer') <= Buffer /\ Len(buffer') = 0
        /\ pipe' \in Seq(Message) /\ Len(pipe') <= Pipe /\ skipped' \in 0..MaxEvents
    BY <1>1, EventLogAssumption
  <1>4. runtime' \in BOOLEAN
    BY <1>1
  <1>5. TypeOK'
    BY <1>1, <1>2, <1>3, <1>4 DEF LogInv, TypeOK, Phase
  <1>6. Counted'
    BY <1>1, <1>3 DEF LogInv, TypeOK, Counted
  <1>7. Stored'
    <2> SUFFICES ASSUME snap # None PROVE snap.last <= Recovered.last
      BY <1>1 DEF LogInv, Stored
    <2>1. snap.last \in Nat /\ Recovered.last \in Nat
      BY <1>2 DEF LogInv, TypeOK, State
    <2> QED  BY <1>2, <2>1
  <1>8. Held'
    BY <1>1, <1>2 DEF LogInv, Held
  <1> QED
    BY <1>1, <1>2, <1>5, <1>6, <1>7, <1>8 DEF LogInv, Numbered, Showing, Writing

LEMMA PhasesKeep == LogInv /\ (Resume \/ ReadHistory \/ Reconciled) => LogInv'
  <1> SUFFICES ASSUME LogInv, Resume \/ ReadHistory \/ Reconciled PROVE LogInv'
    OBVIOUS
  <1>1. /\ phase \in {"recovered", "resumed", "reconciling"}
        /\ phase' \in {"resumed", "reconciling", "storing"}
        /\ UNCHANGED <<durableVars, emitted, history, streamVars, state, ends, faults>>
        /\ since' \in {since, emitted}
    BY DEF Resume, ReadHistory, Reconciled
  <1>2. writing' \in {"none", "delete", "insert"} /\ Writing'
    BY DEF Resume, ReadHistory, Reconciled, LogInv, TypeOK, Writing
  <1>3. todo' \subseteq 1..MaxEvents
    <2>1. todo \subseteq 1..MaxEvents /\ history \subseteq 1..MaxEvents
      BY EventLogAssumption DEF LogInv, TypeOK
    <2> QED  BY <2>1 DEF Resume, ReadHistory, Reconciled
  <1>4. TypeOK'
    <2>1. since' \in 0..emitted
      BY <1>1, EventLogAssumption DEF LogInv, TypeOK
    <2> QED
      BY <1>1, <1>2, <1>3, <2>1 DEF LogInv, TypeOK, Phase, durableVars, streamVars
  <1> QED
    BY <1>1, <1>2, <1>4
    DEF LogInv, Numbered, Showing, Stored, Counted, Held, durableVars, streamVars

LEMMA RestoreFailsKeeps == LogInv /\ RestoreFails => LogInv'
  <1> SUFFICES ASSUME LogInv, RestoreFails PROVE LogInv'
    OBVIOUS
  <1>1. /\ phase \in {"recovered", "resumed", "reconciling"} /\ phase' = "down" /\ todo' = {}
        /\ Tears(TRUE)
        /\ UNCHANGED <<log, snap, kept, emitted, history, since, streamVars, writing, state, ends, faults>>
    BY DEF RestoreFails
  <1>2. writing' = "none"
    BY <1>1 DEF LogInv, Writing, TypeOK
  <1>3. torn' \in BOOLEAN
    BY <1>1 DEF Tears
  <1>4. TypeOK'
    BY <1>1, <1>2, <1>3 DEF LogInv, TypeOK, Phase, streamVars
  <1>5. Counted'
    BY <1>1 DEF LogInv, Counted, streamVars
  <1> QED  BY <1>1, <1>2, <1>4, <1>5, DownKeeps

LEMMA LeastExists ==
    ASSUME NEW S \in SUBSET Nat, S # {}
    PROVE  \E x \in S : \A y \in S : x <= y
  <1> DEFINE R == {ss \in Nat \X Nat : ss[1] < ss[2]}
  <1>1. IsWellFoundedOn(R, Nat)
    <2>1. R = OpToRel(<, Nat)
      BY Zenon DEF OpToRel
    <2> QED  BY <2>1, NatLessThanWellFounded, Zenon
  <1>2. R = {ss \in Nat \X Nat : ss[1] < ss[2]}
    OBVIOUS
  <1> HIDE DEF R
  <1>3. \E x \in S : \A y \in S : ~(<<y, x>> \in R)
    <2>1. S \subseteq Nat /\ S # {}
      OBVIOUS
    <2> HIDE DEF R
    <2> QED  BY <1>1, <2>1, WFMin
  <1>4. PICK x \in S : \A y \in S : ~(<<y, x>> \in R)
    BY <1>3
  <1>5. ASSUME NEW y \in S PROVE x <= y
    <2>1. ~(<<y, x>> \in R)
      BY <1>4
    <2>2. <<y, x>> \in Nat \X Nat
      OBVIOUS
    <2>3. ~(y < x)
      BY <1>2, <2>1, <2>2
    <2> QED  BY <2>3
  <1> QED  BY <1>5

LEMMA ReconcileKeeps == LogInv /\ Reconcile => LogInv'
  <1> SUFFICES ASSUME LogInv, Reconcile PROVE LogInv'
    OBVIOUS
  <1> DEFINE n == Oldest(todo)
  <1>1. /\ phase = "reconciling" /\ todo # {} /\ todo \subseteq 1..MaxEvents
        /\ UNCHANGED <<snap, kept, torn, emitted, history, since, streamVars, writing, ends>>
        /\ writing = "none"
    BY DEF Reconcile, LogInv, TypeOK, Writing
  <1> HIDE DEF n
  <1>2. CASE todo' = todo \ {n} /\ UNCHANGED <<log, state, faults, phase>>
    <2>1. TypeOK'
      BY <1>1, <1>2 DEF LogInv, TypeOK, streamVars
    <2> QED
      BY <1>1, <1>2, <2>1
      DEF LogInv, Numbered, Showing, Stored, Writing, Counted, Held, streamVars
  <1>3. ASSUME NEW ok \in BOOLEAN, AppendEvent(Event(n), ok), n \in todo,
               IF ok THEN todo' = todo \ {n} /\ UNCHANGED phase
               ELSE todo' = {} /\ phase' = "down"
        PROVE  LogInv'
    <2>1. Event(n) \in Id
      BY <1>1, <1>3, Kinds
    <2>2. /\ log' \subseteq Row /\ state' \in State /\ faults' \in 0..MaxFaults
          /\ Numbered'
          /\ state'.shown = log' /\ (\A r \in log' : r.seq <= state'.last)
          /\ state'.notes = state.notes
          /\ state'.last >= state.last
          /\ \A k \in 0..state.last :
               {r \in log' : r.seq <= k} = {r \in log : r.seq <= k}
      BY <1>1, <1>3, <2>1, AppendKeeps
    <2>3. todo' \subseteq 1..MaxEvents /\ phase' \in {"reconciling", "down"}
      BY <1>1, <1>3
    <2>4. TypeOK'
      BY <1>1, <2>2, <2>3 DEF LogInv, TypeOK, Phase, streamVars
    <2>5. Stored'
      <3>1. state'.last \in Nat
        BY <2>2 DEF State
      <3> QED  BY <1>1, <2>2, <3>1, StoredStays
    <2> QED
      BY <1>1, <2>2, <2>3, <2>4, <2>5 DEF LogInv, Showing, Writing, Counted, Held, streamVars
  <1>4. n \in todo
    <2>1. todo \in SUBSET Nat
      BY <1>1
    <2>2. \E x \in todo : \A y \in todo : x <= y
      BY <1>1, <2>1, LeastExists
    <2> QED  BY <2>2 DEF n, Oldest, Min
  <1> QED  BY <1>2, <1>3, <1>4 DEF Reconcile, n

-----------------------------------------------------------------------------
LEMMA LogNext == LogInv /\ [Next]_vars => LogInv'
  <1> SUFFICES ASSUME LogInv, [Next]_vars PROVE LogInv'
    OBVIOUS
  <1>1. CASE Emit \/ RuntimeEnds \/ Forward
    BY <1>1, StreamKeeps
  <1>2. CASE Receive
    BY <1>2, ReceiveKeeps
  <1>3. CASE DeleteOld \/ InsertNew
    BY <1>3, DeleteOldKeeps, InsertNewKeeps
  <1>4. CASE \E a \in Notes : TakeNote(a)
    BY <1>4, TakeNoteKeeps
  <1>5. CASE End \/ Crash
    BY <1>5, EndKeeps, CrashKeeps
  <1>6. CASE Recover
    BY <1>6, RecoverKeeps
  <1>7. CASE Resume \/ ReadHistory \/ Reconciled
    BY <1>7, PhasesKeep
  <1>8. CASE Reconcile \/ RestoreFails
    BY <1>8, ReconcileKeeps, RestoreFailsKeeps
  <1>9. CASE UNCHANGED vars
    BY <1>9 DEF vars, durableVars, streamVars, actorVars, LogInv, TypeOK, Numbered, Showing,
                Stored, Writing, Counted, Held
  <1> QED  BY <1>1, <1>2, <1>3, <1>4, <1>5, <1>6, <1>7, <1>8, <1>9 DEF Next

LEMMA LogAlways == Spec => []LogInv
  BY LogInit, LogNext, PTL DEF Spec

\* Every variable of the event log keeps to its type.
THEOREM EventLogTypeCorrect == Spec => []TypeOK
  <1>1. LogInv => TypeOK
    BY DEF LogInv
  <1> QED  BY <1>1, LogAlways, PTL

\* Each event and each number is logged once, and a session that is up counts on from
\* the last number, however often it crashed, was restored or lost its snapshot.
THEOREM EventsNumberedOnce == Spec => []NumbersAreNew
  <1>1. LogInv => NumbersAreNew
    BY DEF LogInv, Numbered, Showing, NumbersAreNew
  <1> QED  BY <1>1, LogAlways, PTL

\* A session that is up shows exactly what its log holds.
THEOREM ShownIsLogged == Spec => []ScreenIsLog
  <1>1. LogInv => ScreenIsLog
    BY DEF LogInv, Showing, ScreenIsLog
  <1> QED  BY <1>1, LogAlways, PTL

\* What a snapshot once held of the permissions is kept, unless the session went
\* down between the two statements that replace the snapshot.
THEOREM PermissionsKept == Spec => []NotesKept
  <1>1. LogInv => NotesKept
    <2> SUFFICES ASSUME LogInv, ~torn
                 PROVE  IF phase = "down" THEN kept = {} \/ kept \subseteq snap.notes
                        ELSE kept \subseteq state.notes
      BY DEF NotesKept
    <2> QED  BY DEF LogInv, Held
  <1> QED  BY <1>1, LogAlways, PTL

-----------------------------------------------------------------------------
(* The order of the log.  A session that missed nothing has settled the    *)
(* events 1 to n, for some n (Complete): each is logged, or was streamed   *)
(* to a session that has ended.  What is left of the history that it reads *)
(* starts after those (Ahead); and what precedes an event on its way to    *)
(* the actor is settled, still to be read or on its way before it, unless  *)
(* a report of missed events is (Following).                               *)

\* The newest event that was forwarded, or forgotten before it was.
Gone == emitted - Len(buffer) - skipped

\* Streamed before the session subscribed: nobody sees it any more.
Past(k)    == k \notin history /\ k <= since
Settled(k) == Logged(Event(k)) \/ Past(k)
Known(k)   == \A j \in 1..k : j \in todo \/ Settled(j)
Queued(k, i) == \E j \in 1..i : pipe[j] = Event(k) \/ ~IsEvent(pipe[j])

Reading == todo \subseteq history /\ (todo # {} => phase = "reconciling")

\* No turn runs while a session is restored.
Unstreamed ==
    phase \in {"resumed", "reconciling", "storing"} =>
        \A n \in 1..emitted : n > since => n \in history

Buffered ==
    Subscribed =>
        /\ since <= Gone
        /\ \A i \in 1..Len(buffer) : buffer[i] = Event(emitted - Len(buffer) + i)
        /\ \A i \in 1..Len(pipe) : IsEvent(pipe[i]) =>
               pipe[i][2] <= Gone /\ (pipe[i] # Closed => since < pipe[i][2])

InOrder == \A r, q \in log : r.id[2] < q.id[2] => r.seq < q.seq
Complete == \A r \in log : \A n \in 1..r.id[2] : Settled(n)
Ahead == \A k \in todo : Known(k)

Following ==
    phase \notin {"down", "recovered", "resumed"} =>
        /\ \A i \in 1..Len(pipe) : IsEvent(pipe[i]) /\ pipe[i] # Closed =>
               Known(pipe[i][2] - 1) \/ Queued(pipe[i][2] - 1, i - 1)
        /\ Known(Gone) \/ Queued(Gone, Len(pipe))

\* Nothing was reported as missed, and no write failed.
Whole == faults = 0 /\ Reports = {}

\* A session that is not subscribed yet has nothing on its way.
Silenced == phase = "recovered" => buffer = <<>> /\ skipped = 0 /\ pipe = <<>>

OrderInv ==
    /\ Reading /\ Silenced /\ Unstreamed /\ Buffered
    /\ Whole => InOrder /\ Complete /\ Ahead /\ Following

LEMMA OrderInit == Init => OrderInv
  <1> SUFFICES ASSUME Init PROVE OrderInv
    OBVIOUS
  <1>0. /\ emitted = 0 /\ buffer = <<>> /\ skipped = 0 /\ pipe = <<>> /\ Len(buffer) = 0
        /\ Len(pipe) = 0 /\ log = {} /\ todo = {} /\ phase = "live" /\ since = 0
    BY DEF Init
  <1>1. Gone = 0
    <2>1. emitted = 0 /\ Len(buffer) = 0 /\ skipped = 0
      BY <1>0
    <2> QED
      BY <2>1 DEF Gone
  <1>2. Known(Gone)
    BY <1>1 DEF Known
  <1>3. Reading /\ Silenced /\ Unstreamed /\ Buffered /\ InOrder /\ Complete /\ Ahead
    BY <1>0, <1>1 DEF Reading, Silenced, Unstreamed, Buffered, InOrder, Complete, Ahead
  <1>4. Following
    BY <1>0, <1>2 DEF Following
  <1> QED
    BY <1>3, <1>4 DEF OrderInv

LEMMA Sizes ==
    ASSUME LogInv
    PROVE  /\ Len(buffer) \in Nat /\ Len(pipe) \in Nat /\ skipped \in Nat /\ emitted \in Nat
           /\ Gone \in Nat /\ buffer \in Seq(Message) /\ pipe \in Seq(Message)
           /\ \A i \in 1..Len(pipe) : pipe[i] \in Message
           /\ todo \subseteq Nat \ {0} /\ faults \in Nat
           /\ since \in Nat /\ since <= emitted /\ history \subseteq 1..emitted
  <1>1. /\ emitted \in Nat /\ skipped \in Nat /\ faults \in Nat /\ todo \subseteq Nat \ {0}
        /\ since \in Nat /\ since <= emitted /\ history \subseteq 1..emitted
        /\ buffer \in Seq(Message) /\ pipe \in Seq(Message)
    BY EventLogAssumption DEF LogInv, TypeOK
  <1>2. Len(buffer) \in Nat /\ Len(pipe) \in Nat /\ \A i \in 1..Len(pipe) : pipe[i] \in Message
    BY <1>1
  <1>3. skipped + Len(buffer) <= emitted
    BY DEF LogInv, Counted
  <1>4. Gone \in Nat
    BY <1>1, <1>2, <1>3 DEF Gone
  <1> QED
    BY <1>1, <1>2, <1>4

LEMMA MessageParts ==
    /\ \A m \in Message : /\ m[1] \in Nat /\ m[2] \in Nat /\ m = <<m[1], m[2]>>
                          /\ IsEvent(m) => m = Event(m[2])
    /\ \A n : Event(n)[1] = 0 /\ Event(n)[2] = n /\ IsEvent(Event(n))
    /\ \A n, k : Event(n) = Event(k) => n = k
    /\ Event(0) = Closed
    /\ \A n \in Nat : ~IsEvent(Lagged(n)) <=> n # 0
  BY EventLogAssumption DEF Message, Id, Event, Lagged, Closed, IsEvent

LEMMA EmitOrdered ==
    ASSUME LogInv, OrderInv, Emit
    PROVE  OrderInv'
  <1>1. /\ emitted' = emitted + 1
        /\ UNCHANGED <<log, since, runtime, pipe, phase, todo, writing, state, ends, faults>>
        /\ \/ history' = history \cup {emitted + 1}
           \/ phase \in {"live", "ending"} /\ history' = history
    BY DEF Emit, durableVars, actorVars, MayStream
  <1>2. /\ Len(buffer) \in Nat /\ Len(pipe) \in Nat /\ skipped \in Nat /\ emitted \in Nat
        /\ buffer \in Seq(Message) /\ Gone \in Nat
    BY Sizes
  <1>3. Subscribed' <=> Subscribed
    BY <1>1 DEF Subscribed
  <1>4. ASSUME Subscribed
        PROVE  /\ \A i \in 1..Len(buffer') : buffer'[i] = Event(emitted' - Len(buffer') + i)
               /\ emitted' - Len(buffer') - skipped' = Gone
    <2> DEFINE e == Event(emitted + 1)
    <2>1. \A i \in 1..Len(buffer) : buffer[i] = Event(emitted - Len(buffer) + i)
      BY <1>4 DEF OrderInv, Buffered
    <2>2. e \in Message
      <3>1. emitted + 1 \in 0..MaxEvents
        BY <1>2, EventLogAssumption DEF Emit
      <3> QED
        BY <3>1, Kinds
    <2>3. CASE Room(buffer, Buffer)
      <3>1. buffer' = Append(buffer, e) /\ skipped' = skipped
        BY <1>4, <2>3 DEF Emit
      <3> HIDE DEF e
      <3>2. /\ Len(buffer') = Len(buffer) + 1 /\ buffer'[Len(buffer) + 1] = e
            /\ \A i \in 1..Len(buffer) : buffer'[i] = buffer[i]
        BY <1>2, <2>2, <3>1
      <3>3. \A i \in 1..Len(buffer') : buffer'[i] = Event(emitted' - Len(buffer') + i)
        <4> SUFFICES ASSUME NEW i \in 1..Len(buffer')
                     PROVE  buffer'[i] = Event(emitted' - Len(buffer') + i)
          OBVIOUS
        <4>1. emitted' - Len(buffer') + i = emitted - Len(buffer) + i
          BY <1>1, <1>2, <3>2
        <4>2. CASE i = Len(buffer) + 1
          <5>1. emitted' - Len(buffer') + i = emitted + 1
            BY <1>1, <1>2, <3>2, <4>2
          <5> QED
            BY <3>2, <4>2, <5>1 DEF e
        <4>3. CASE i \in 1..Len(buffer)
          BY <2>1, <3>2, <4>1, <4>3
        <4> QED
          BY <1>2, <3>2, <4>2, <4>3
      <3> QED
        BY <1>1, <1>2, <3>1, <3>2, <3>3 DEF Gone
    <2>4. CASE ~Room(buffer, Buffer)
      <3>1. buffer' = Append(Tail(buffer), e) /\ skipped' = skipped + 1
        BY <1>4, <2>4 DEF Emit
      <3>2. buffer # <<>>
        BY <1>2, <2>4, EventLogAssumption DEF Room
      <3> HIDE DEF e
      <3>3. /\ Len(buffer') = Len(buffer) /\ buffer'[Len(buffer)] = e
            /\ \A i \in 1..Len(buffer) - 1 : buffer'[i] = buffer[i + 1]
        BY <1>2, <2>2, <3>1, <3>2
      <3>4. \A i \in 1..Len(buffer') : buffer'[i] = Event(emitted' - Len(buffer') + i)
        <4> SUFFICES ASSUME NEW i \in 1..Len(buffer')
                     PROVE  buffer'[i] = Event(emitted' - Len(buffer') + i)
          OBVIOUS
        <4>1. emitted' - Len(buffer') + i = emitted - Len(buffer) + (i + 1)
          BY <1>1, <1>2, <3>3
        <4>2. CASE i = Len(buffer)
          <5>1. emitted' - Len(buffer') + i = emitted + 1
            BY <1>1, <1>2, <3>3, <4>2
          <5> QED
            BY <3>3, <4>2, <5>1 DEF e
        <4>3. CASE i \in 1..Len(buffer) - 1
          <5>1. i + 1 \in 1..Len(buffer)
            BY <1>2, <4>3
          <5> QED
            BY <2>1, <3>3, <4>1, <4>3, <5>1
        <4> QED
          BY <1>2, <3>3, <4>2, <4>3
      <3>5. Len(buffer') = Len(buffer) /\ skipped' = skipped + 1
        BY <3>1, <3>3
      <3>6. emitted' - Len(buffer') - skipped' = emitted - Len(buffer) - skipped
        BY <1>1, <1>2, <3>5
      <3> QED
        BY <3>4, <3>6 DEF Gone
    <2> QED
      BY <2>3, <2>4
  <1>5. Buffered'
    BY <1>1, <1>3, <1>4 DEF OrderInv, Buffered, Gone
  <1>6. Reading' /\ Unstreamed' /\ (Whole' <=> Whole)
    <2>1. \A n \in 1..(emitted + 1) : n \in 1..emitted \/ n = emitted + 1
      BY <1>2
    <2> QED
      BY <1>1, <2>1 DEF OrderInv, Reading, Unstreamed, Whole, Reports
  <1>6a. \A k : (Past(k)' <=> Past(k)) /\ (Known(k)' <=> Known(k))
    <2>1. since <= emitted /\ since \in Nat
      BY Sizes
    <2>2. \A k : Past(k)' <=> Past(k)
      <3>1. ~(emitted + 1 <= since)
        BY <1>2, <2>1
      <3> QED
        BY <1>1, <3>1 DEF Past
    <2> QED
      BY <1>1, <2>2 DEF Known, Settled, Logged
  <1>7. ASSUME Whole
        PROVE  InOrder' /\ Complete' /\ Ahead'
    BY <1>1, <1>6a, <1>7 DEF OrderInv, InOrder, Complete, Ahead, Settled, Logged
  <1>8. ASSUME Whole
        PROVE  Following'
    <2> SUFFICES ASSUME phase \notin {"down", "recovered", "resumed"}
                 PROVE  Following'
      BY <1>1 DEF Following
    <2>1. Subscribed /\ Following
      BY <1>8 DEF Subscribed, OrderInv
    <2>2. Gone' = Gone
      BY <1>4, <2>1 DEF Gone
    <2> QED
      BY <1>1, <1>6a, <2>1, <2>2 DEF Following, Queued
  <1>9. Silenced'
    <2> SUFFICES ASSUME phase = "recovered"
                 PROVE  Silenced'
      BY <1>1 DEF Silenced
    <2>1. UNCHANGED <<buffer, skipped, pipe>>
      BY <1>1 DEF Emit, Subscribed
    <2> QED
      BY <2>1 DEF OrderInv, Silenced
  <1> QED
    BY <1>5, <1>6, <1>7, <1>8, <1>9 DEF OrderInv

LEMMA ForwardOrdered ==
    ASSUME LogInv, OrderInv, Forward
    PROVE  OrderInv'
  <1>1. /\ UNCHANGED <<log, emitted, history, since, runtime, phase, todo, writing, state, ends, faults>>
        /\ Subscribed /\ skipped' = 0
    BY DEF Forward, durableVars, actorVars
  <1>2. /\ Len(buffer) \in Nat /\ Len(pipe) \in Nat /\ skipped \in Nat /\ emitted \in Nat
        /\ buffer \in Seq(Message) /\ pipe \in Seq(Message) /\ Gone \in Nat
        /\ \A i \in 1..Len(pipe) : pipe[i] \in Message
    BY Sizes
  <1>3. PICK m \in Message :
          /\ pipe' = Append(pipe, m)
          /\ \/ m = Lagged(skipped) /\ skipped > 0 /\ buffer' = buffer
             \/ m = Event(Gone + 1) /\ skipped = 0 /\ buffer # <<>> /\ buffer' = Tail(buffer)
             \/ m = Closed /\ skipped = 0 /\ buffer' = buffer
    <2>1. CASE skipped > 0
      BY <1>2, <2>1, Kinds, EventLogAssumption DEF Forward, LogInv, TypeOK
    <2>2. CASE skipped = 0 /\ buffer # <<>>
      <3>1. Head(buffer) = Event(Gone + 1)
        BY <1>1, <1>2, <2>2 DEF OrderInv, Buffered, Gone
      <3>2. Head(buffer) \in Message /\ pipe' = Append(pipe, Head(buffer)) /\ buffer' = Tail(buffer)
        BY <1>2, <2>2 DEF Forward
      <3> QED
        BY <2>2, <3>1, <3>2
    <2>3. CASE skipped = 0 /\ buffer = <<>>
      BY <2>3, Kinds DEF Forward
    <2> QED
      BY <1>2, <2>1, <2>2, <2>3
  <1>4. /\ Len(pipe') = Len(pipe) + 1 /\ pipe'[Len(pipe) + 1] = m
        /\ \A i \in 1..Len(pipe) : pipe'[i] = pipe[i]
    BY <1>2, <1>3
  <1>5. /\ Gone' = IF m = Event(Gone + 1) THEN Gone + 1 ELSE Gone + skipped
        /\ Gone' >= Gone
        /\ \A i \in 1..Len(buffer') : buffer'[i] = Event(emitted' - Len(buffer') + i)
    <2>1. \A i \in 1..Len(buffer) : buffer[i] = Event(emitted - Len(buffer) + i)
      BY <1>1 DEF OrderInv, Buffered
    <2>2. CASE buffer' = buffer /\ m # Event(Gone + 1)
      BY <1>1, <1>2, <2>1, <2>2 DEF Gone
    <2>3. CASE m = Event(Gone + 1) /\ skipped = 0 /\ buffer # <<>> /\ buffer' = Tail(buffer)
      <3>1. /\ Len(buffer') = Len(buffer) - 1
            /\ \A i \in 1..Len(buffer) - 1 : buffer'[i] = buffer[i + 1]
        BY <1>2, <2>3
      <3>2. \A i \in 1..Len(buffer') : buffer'[i] = Event(emitted' - Len(buffer') + i)
        <4> SUFFICES ASSUME NEW i \in 1..Len(buffer')
                     PROVE  buffer'[i] = Event(emitted' - Len(buffer') + i)
          OBVIOUS
        <4>1. i + 1 \in 1..Len(buffer) /\ i \in 1..Len(buffer) - 1
              /\ emitted' - Len(buffer') + i = emitted - Len(buffer) + (i + 1)
          BY <1>1, <1>2, <3>1
        <4> QED
          BY <2>1, <3>1, <4>1
      <3>3. Gone' = Gone + 1
        BY <1>1, <1>2, <2>3, <3>1 DEF Gone
      <3> QED
        BY <1>2, <2>3, <3>2, <3>3
    <2>4. m # Event(Gone + 1) \/ (skipped = 0 /\ buffer # <<>> /\ buffer' = Tail(buffer))
      <3>1. Lagged(skipped) # Event(Gone + 1) \/ skipped = 0
        BY <1>2 DEF Lagged, Event
      <3>2. Closed # Event(Gone + 1)
        BY <1>2 DEF Closed, Event
      <3> QED
        BY <1>2, <1>3, <3>1, <3>2
    <2> QED
      BY <1>3, <2>2, <2>3, <2>4
  <1>6. Buffered'
    <2>0. since \in Nat /\ since <= Gone
      BY <1>1, Sizes DEF OrderInv, Buffered
    <2>1. ASSUME NEW i \in 1..Len(pipe'), IsEvent(pipe'[i])
          PROVE  pipe'[i][2] <= Gone' /\ (pipe'[i] # Closed => since < pipe'[i][2])
      <3>1. CASE i \in 1..Len(pipe)
        <4>1. /\ pipe[i][2] <= Gone /\ pipe[i][2] \in Nat
              /\ pipe[i] # Closed => since < pipe[i][2]
          BY <1>1, <1>2, <1>4, <2>1, <3>1, MessageParts DEF OrderInv, Buffered
        <4> QED
          BY <1>2, <1>4, <1>5, <3>1, <4>1
      <3>2. CASE i = Len(pipe) + 1
        <4>1. m = Event(Gone + 1) \/ m = Closed
          BY <1>2, <1>3, <1>4, <2>1, <3>2, MessageParts
        <4> QED
          BY <1>2, <1>4, <1>5, <2>0, <3>2, <4>1, MessageParts
      <3> QED
        BY <1>2, <1>4, <3>1, <3>2
    <2>2. since' = since /\ since <= Gone'
      BY <1>1, <1>2, <1>5, <2>0
    <2> QED
      BY <1>5, <2>1, <2>2 DEF Buffered
  <1>7. Reading' /\ Unstreamed' /\ (Whole' <=> Whole)
    BY <1>1 DEF OrderInv, Reading, Unstreamed, Whole, Reports
  <1>8. ASSUME Whole
        PROVE  InOrder' /\ Complete' /\ Ahead'
    BY <1>1, <1>8 DEF OrderInv, InOrder, Complete, Ahead, Known, Settled, Past, Logged
  <1>9. ASSUME Whole
        PROVE  Following'
    <2> SUFFICES ASSUME phase \notin {"down", "recovered", "resumed"}
                 PROVE  Following'
      BY <1>1 DEF Following
    <2>1. Following
      BY <1>9 DEF OrderInv
    <2>2. \A k : Known(k) => Known(k)'
      BY <1>1 DEF Known, Settled, Past, Logged
    <2>3. \A k, i \in Nat : i <= Len(pipe) /\ Queued(k, i) => Queued(k, i)'
      <3> SUFFICES ASSUME NEW k \in Nat, NEW i \in Nat, i <= Len(pipe), Queued(k, i)
                   PROVE  Queued(k, i)'
        OBVIOUS
      <3>1. PICK j \in 1..i : pipe[j] = Event(k) \/ ~IsEvent(pipe[j])
        BY DEF Queued
      <3>2. j \in 1..Len(pipe)
        BY <1>2
      <3>3. pipe'[j] = pipe[j]
        BY <1>4, <3>2
      <3> QED
        BY <3>1, <3>3 DEF Queued
    <2>4. ASSUME NEW i \in 1..Len(pipe'), IsEvent(pipe'[i]), pipe'[i] # Closed,
                 NEW k \in Nat, k = pipe'[i][2] - 1
          PROVE  Known(k)' \/ Queued(k, i - 1)'
      <3>1. CASE i \in 1..Len(pipe)
        <4>1. k = pipe[i][2] - 1 /\ i - 1 \in Nat /\ i - 1 <= Len(pipe)
          BY <1>2, <1>4, <2>4, <3>1
        <4>2. Known(k) \/ Queued(k, i - 1)
          BY <1>4, <2>1, <2>4, <3>1, <4>1 DEF Following
        <4> QED
          BY <2>2, <2>3, <4>1, <4>2
      <3>2. CASE i = Len(pipe) + 1
        <4>1. m = Event(Gone + 1)
          BY <1>2, <1>3, <1>4, <2>4, <3>2, MessageParts
        <4>2. k = Gone /\ i - 1 = Len(pipe)
          BY <1>2, <1>4, <2>4, <3>2, <4>1, MessageParts
        <4>3. Known(k) \/ Queued(k, Len(pipe))
          BY <2>1, <4>2 DEF Following
        <4> QED
          BY <1>2, <2>2, <2>3, <4>2, <4>3
      <3> QED
        BY <1>2, <1>4, <3>1, <3>2
    <2>5. ASSUME NEW k \in Nat, k = Gone'
          PROVE  Known(k)' \/ \E j \in 1..Len(pipe') : pipe'[j] = Event(k) \/ ~IsEvent(pipe'[j])
      <3> DEFINE Waits == \E j \in 1..Len(pipe') : pipe'[j] = Event(k) \/ ~IsEvent(pipe'[j])
      <3>2. Known(k)' \/ Waits
        <4>1. CASE m = Event(Gone + 1) \/ ~IsEvent(m)
          BY <1>2, <1>4, <1>5, <2>5, <4>1
        <4>2. CASE m = Closed
          <5>1. k = Gone
            BY <1>2, <1>3, <1>5, <2>5, <4>2, MessageParts
          <5>2. Known(k) \/ Queued(k, Len(pipe))
            BY <2>1, <5>1 DEF Following
          <5>3. Known(k)' \/ \E j \in 1..Len(pipe) : pipe'[j] = Event(k) \/ ~IsEvent(pipe'[j])
            BY <1>4, <2>2, <5>2 DEF Queued
          <5> QED
            BY <1>2, <1>4, <5>3
        <4> QED
          BY <1>2, <1>3, <4>1, <4>2, MessageParts
      <3> QED
        BY <3>2
    <2>6. ASSUME NEW i \in 1..Len(pipe'), IsEvent(pipe'[i]), pipe'[i] # Closed
          PROVE  pipe'[i][2] - 1 \in Nat
      <3>1. pipe'[i] \in Message
        BY <1>2, <1>3, <1>4
      <3>2. pipe'[i][2] # 0
        BY <2>6, <3>1, MessageParts
      <3> QED
        BY <3>1, <3>2, MessageParts
    <2>7. Gone' \in Nat
      BY <1>2, <1>5
    <2> QED
      BY <2>4, <2>5, <2>6, <2>7 DEF Following, Known, Settled, Past, Queued, Logged
  <1>10. Silenced'
    BY <1>1 DEF Silenced, Subscribed
  <1> QED
    BY <1>6, <1>7, <1>8, <1>9, <1>10 DEF OrderInv

\* A row that is stored after the others, for an event that comes after theirs.
LEMMA AppendOrdered ==
    ASSUME LogInv, phase # "down", Whole, InOrder, Complete, UNCHANGED <<history, since>>,
           NEW n \in Nat \ {0}, Event(n) \in Id, ~Past(n), \A j \in 1..(n - 1) : Settled(j),
           NEW ok \in BOOLEAN, AppendEvent(Event(n), ok)
    PROVE  Whole' => /\ ok /\ InOrder' /\ Complete' /\ Logged(Event(n))'
                     /\ \A k : Settled(k) => Settled(k)'
  <1> SUFFICES ASSUME Whole'
               PROVE  /\ ok /\ InOrder' /\ Complete' /\ Logged(Event(n))'
                      /\ \A k : Settled(k) => Settled(k)'
    OBVIOUS
  <1> DEFINE row == [seq |-> state.last + 1, id |-> Event(n)]
  <1>1. /\ log \subseteq Row /\ state.last \in Nat /\ faults \in Nat
        /\ \A r \in log : r.seq <= state.last /\ r.seq \in Nat /\ r.id \in Id
        /\ \A r, q \in log : r.seq = q.seq \/ r.id = q.id => r = q
    BY EventLogAssumption DEF LogInv, TypeOK, State, Showing, Numbered, Row
  <1>2. ok
    BY <1>1 DEF AppendEvent, Works, Whole
  <1>3. row.seq = state.last + 1 /\ row.id = Event(n)
    OBVIOUS
  <1>4. \A r \in log : r.id \in Id /\ r.id = Event(r.id[2]) /\ r.id[2] \in Nat
    <2> SUFFICES ASSUME NEW r \in log
                 PROVE  r.id \in Id /\ r.id = Event(r.id[2]) /\ r.id[2] \in Nat
      OBVIOUS
    <2>1. r.id \in Id /\ IsEvent(r.id)
      BY <1>1 DEF Whole, Reports
    <2> QED
      BY <2>1 DEF Id, IsEvent, Event
  <1>5. IsNew(row) <=> ~Logged(Event(n))
    BY <1>1, <1>3 DEF IsNew, Logged
  <1>6. log \subseteq log' /\ \A k : Settled(k) => Settled(k)'
    <2>1. log \subseteq log'
      BY DEF AppendEvent
    <2> QED
      BY <2>1 DEF Settled, Past, Logged
  <1> HIDE DEF row
  <1>7. CASE Logged(Event(n))
    <2>1. UNCHANGED log
      BY <1>2, <1>3, <1>5, <1>7 DEF AppendEvent, row
    <2>2. InOrder' /\ Logged(Event(n))'
      BY <1>7, <2>1 DEF InOrder, Logged
    <2>3. Complete'
      BY <1>6, <2>1 DEF Complete
    <2> QED
      BY <1>2, <1>6, <2>2, <2>3
  <1>8. CASE ~Logged(Event(n))
    <2>1. log' = log \cup {row}
      BY <1>2, <1>3, <1>5, <1>8 DEF AppendEvent, row
    <2>2. Logged(Event(n))'
      BY <1>3, <2>1 DEF Logged
    <2>3. row.id[2] = n
      BY <1>3, MessageParts
    <2>4. \A r \in log : r.id[2] < n
      <3> SUFFICES ASSUME NEW r \in log, ~(r.id[2] < n)
                   PROVE  FALSE
        OBVIOUS
      <3>1. n \in 1..r.id[2]
        BY <1>4
      <3>2. Settled(n)
        BY <3>1 DEF Complete
      <3> QED
        BY <1>8, <3>2 DEF Settled
    <2>5. \A r \in log : r.seq < row.seq
      BY <1>1, <1>3
    <2>6. InOrder'
      BY <1>4, <2>1, <2>3, <2>4, <2>5 DEF InOrder
    <2>7. \A k \in 1..n : Settled(k)'
      <3> SUFFICES ASSUME NEW k \in 1..n
                   PROVE  Settled(k)'
        OBVIOUS
      <3>1. CASE k = n
        BY <2>2, <3>1 DEF Settled
      <3>2. CASE k \in 1..(n - 1)
        BY <1>6, <3>2
      <3> QED
        BY <3>1, <3>2
    <2>8. Complete'
      BY <1>6, <2>1, <2>3, <2>7 DEF Complete
    <2> QED
      BY <1>2, <1>6, <2>2, <2>6, <2>8
  <1> QED
    BY <1>7, <1>8

LEMMA ReceiveOrdered ==
    ASSUME LogInv, OrderInv, Receive
    PROVE  OrderInv'
  <1> DEFINE m == Head(pipe)
             id == IF IsEvent(m) THEN m ELSE <<m[1], state.last + 1>>
  <1>1. /\ phase = "live" /\ pipe # <<>> /\ m # Closed /\ pipe' = Tail(pipe)
        /\ UNCHANGED <<emitted, history, since, runtime, buffer, skipped, phase, todo>>
    BY DEF Receive, IsReady
  <1>2. /\ Len(buffer) \in Nat /\ Len(pipe) \in Nat /\ skipped \in Nat /\ emitted \in Nat
        /\ pipe \in Seq(Message) /\ Gone \in Nat /\ faults \in Nat
        /\ \A i \in 1..Len(pipe) : pipe[i] \in Message
    BY Sizes
  <1>3. /\ m = pipe[1] /\ m \in Message /\ Len(pipe) \in Nat \ {0} /\ Len(pipe') = Len(pipe) - 1
        /\ \A i \in 1..Len(pipe) - 1 : pipe'[i] = pipe[i + 1]
    BY <1>1, <1>2
  <1>4. PICK ok \in BOOLEAN : AppendEvent(id, ok)
    BY DEF Receive
  <1> HIDE DEF m
  <1>5. Reading' /\ Unstreamed'
    BY <1>1 DEF OrderInv, Reading, Unstreamed
  <1>6. Subscribed /\ Subscribed' /\ Gone' = Gone /\ todo = {}
    BY <1>1 DEF Subscribed, Gone, OrderInv, Reading
  <1>7. Buffered'
    <2>1. \A i \in 1..Len(pipe') : i + 1 \in 1..Len(pipe) /\ pipe'[i] = pipe[i + 1]
      BY <1>3
    <2> QED
      BY <1>1, <1>6, <2>1 DEF OrderInv, Buffered, Gone
  <1>8. /\ Whole' => Whole
        /\ log \subseteq log'
    <2>1. faults' = 0 => faults = 0
      BY <1>2, <1>4 DEF AppendEvent, Works
    <2>2. log \subseteq log'
      BY <1>4 DEF AppendEvent
    <2> QED
      BY <2>1, <2>2 DEF Whole, Reports
  <1>9. ASSUME Whole'
        PROVE  InOrder' /\ Complete' /\ Ahead' /\ Following'
    <2>1. Whole /\ InOrder /\ Complete /\ Ahead /\ Following
      BY <1>8, <1>9 DEF OrderInv
    <2>2. IsEvent(m)
      <3> SUFFICES ASSUME ~IsEvent(m)
                   PROVE  FALSE
        OBVIOUS
      <3> DEFINE row == [seq |-> state.last + 1, id |-> id]
      <3>1. ok
        BY <1>2, <1>4, <1>9, <2>1 DEF AppendEvent, Works, Whole
      <3>2. id = <<m[1], state.last + 1>> /\ ~IsEvent(id)
        BY DEF IsEvent
      <3>3. row.id = id /\ row.seq = state.last + 1
        OBVIOUS
      <3> HIDE DEF id
      <3>4. \A r \in log : r.seq # row.seq /\ r.id # row.id
        <4>1. \A r \in log : r.seq <= state.last /\ r.seq \in Nat /\ state.last \in Nat
          BY <1>1 DEF LogInv, TypeOK, Showing, Row, State
        <4>2. \A r \in log : IsEvent(r.id)
          BY <2>1 DEF Whole, Reports
        <4> QED
          BY <3>2, <3>3, <4>1, <4>2
      <3>5. row \in log'
        BY <1>4, <3>1, <3>4 DEF AppendEvent, IsNew
      <3> QED
        BY <1>9, <3>2, <3>3, <3>5 DEF Whole, Reports
    <2>3. PICK n \in Nat \ {0} : m = Event(n)
      BY <1>1, <1>3, <2>2, MessageParts
    <2>4. AppendEvent(Event(n), ok) /\ Event(n) \in Id
      BY <1>3, <1>4, <2>2, <2>3, Kinds
    <2>5. Known(n - 1)
      <3>1. IsEvent(pipe[1]) /\ pipe[1] # Closed /\ 1 \in 1..Len(pipe)
        BY <1>1, <1>3, <2>2
      <3>2. pipe[1][2] - 1 = n - 1 /\ 1 - 1 = 0
        BY <1>3, <2>3, MessageParts
      <3>3. Known(pipe[1][2] - 1) \/ Queued(pipe[1][2] - 1, 1 - 1)
        BY <1>1, <2>1, <3>1 DEF Following
      <3>4. Known(n - 1) \/ Queued(n - 1, 0)
        BY <3>2, <3>3
      <3>5. ~Queued(n - 1, 0)
        BY DEF Queued
      <3> QED
        BY <3>4, <3>5
    <2>5a. (\A j \in 1..(n - 1) : Settled(j)) /\ ~Past(n)
      <3>1. \A j \in 1..(n - 1) : Settled(j)
        BY <1>6, <2>5 DEF Known
      <3>2. 1 \in 1..Len(pipe) /\ IsEvent(pipe[1]) /\ pipe[1] # Closed /\ pipe[1][2] = n
        BY <1>1, <1>3, <2>2, <2>3, MessageParts
      <3>3. since < n /\ since \in Nat
        BY <1>6, <3>2, Sizes DEF OrderInv, Buffered
      <3> QED
        BY <3>1, <3>3 DEF Past
    <2>6. /\ InOrder' /\ Complete' /\ Logged(Event(n))'
          /\ \A k : Settled(k) => Settled(k)'
      BY <1>1, <1>9, <2>1, <2>4, <2>5a, AppendOrdered
    <2>7. (\A k : Known(k) => Known(k)') /\ Known(n)'
      <3>1. \A k : Known(k) => Known(k)'
        BY <1>1, <2>6 DEF Known
      <3>2. ASSUME NEW j \in 1..n
            PROVE  Settled(j)'
        <4>1. CASE j = n
          BY <2>6, <4>1 DEF Settled
        <4>2. CASE j \in 1..(n - 1)
          BY <2>5a, <2>6, <4>2
        <4> QED
          BY <4>1, <4>2
      <3> QED
        BY <3>1, <3>2 DEF Known
    <2>8. ASSUME NEW k \in Nat, NEW i \in 0..Len(pipe) - 1, Known(k) \/ Queued(k, i + 1)
          PROVE  Known(k)' \/ Queued(k, i)'
      <3> SUFFICES ASSUME Queued(k, i + 1), k # n
                   PROVE  Queued(k, i)'
        BY <2>7, <2>8
      <3>1. PICK j \in 1..(i + 1) : pipe[j] = Event(k) \/ ~IsEvent(pipe[j])
        BY DEF Queued
      <3>2. j # 1
        <4> SUFFICES ASSUME j = 1
                     PROVE  FALSE
          OBVIOUS
        <4>1. Event(n) = Event(k)
          BY <1>3, <2>2, <2>3, <3>1
        <4> QED
          BY <4>1, MessageParts
      <3>3. j - 1 \in 1..i /\ j - 1 \in 1..Len(pipe) - 1 /\ (j - 1) + 1 = j
        BY <1>2, <3>2
      <3>4. pipe'[j - 1] = pipe[j]
        BY <1>3, <3>3
      <3> QED
        BY <3>1, <3>3, <3>4 DEF Queued
    <2>9. ASSUME NEW i \in 1..Len(pipe'), IsEvent(pipe'[i]), pipe'[i] # Closed
          PROVE  /\ pipe'[i][2] - 1 \in Nat
                 /\ \A k \in Nat : k = pipe'[i][2] - 1 => Known(k)' \/ Queued(k, i - 1)'
      <3>1. i + 1 \in 1..Len(pipe) /\ pipe'[i] = pipe[i + 1] /\ i - 1 \in 0..Len(pipe) - 1
            /\ (i + 1) - 1 = (i - 1) + 1
        BY <1>3
      <3>2. pipe[i + 1][2] - 1 \in Nat
        <4>1. pipe[i + 1] \in Message
          BY <1>2, <3>1
        <4>2. pipe[i + 1][2] # 0
          BY <2>9, <3>1, <4>1, MessageParts
        <4> QED
          BY <4>1, <4>2, MessageParts
      <3>3. ASSUME NEW k \in Nat, k = pipe'[i][2] - 1
            PROVE  Known(k)' \/ Queued(k, i - 1)'
        <4>1. Known(k) \/ Queued(k, (i - 1) + 1)
          BY <1>1, <2>1, <2>9, <3>1, <3>3 DEF Following
        <4> QED
          BY <2>8, <3>1, <4>1
      <3> QED
        BY <3>1, <3>2, <3>3
    <2>10. ASSUME NEW k \in Nat, k = Gone'
           PROVE  Known(k)' \/ \E j \in 1..Len(pipe') : pipe'[j] = Event(k) \/ ~IsEvent(pipe'[j])
      <3>1. k = Gone
        BY <1>6, <2>10
      <3>2. Known(k) \/ Queued(k, Len(pipe))
        BY <1>1, <2>1, <3>1 DEF Following
      <3>3. PICK i \in 0..Len(pipe) - 1 : i = Len(pipe) - 1 /\ i + 1 = Len(pipe)
        BY <1>3
      <3>4. Known(k)' \/ Queued(k, i)'
        BY <2>8, <3>2, <3>3
      <3>5. i = Len(pipe')
        BY <1>3, <3>3
      <3> QED
        BY <3>4, <3>5 DEF Queued
    <2>11. Following'
      <3>1. Gone' \in Nat
        BY <1>2, <1>6
      <3> QED
        BY <2>9, <2>10, <3>1 DEF Following, Known, Settled, Past, Queued, Logged
    <2>12. Ahead'
      BY <1>1, <1>6 DEF Ahead
    <2> QED
      BY <2>6, <2>11, <2>12
  <1>10. Silenced'
    BY <1>1 DEF Silenced
  <1> QED
    BY <1>5, <1>7, <1>9, <1>10 DEF OrderInv

\* A step that leaves the log, the history and what is on its way alone.
LEMMA QuietOrdered ==
    ASSUME LogInv, OrderInv, UNCHANGED <<log, sourceVars, since, todo, buffer, skipped, pipe>>,
           faults' = 0 => faults = 0,
           \/ phase' = phase
           \/ todo = {} /\ phase' = "down"
           \/ /\ todo = {} /\ phase \in {"reconciling", "storing", "live"}
              /\ phase' \in {"live", "ending"} \/ (phase = "reconciling" /\ phase' = "storing")
    PROVE  OrderInv'
  <1>1. /\ Gone' = Gone /\ (Whole' => Whole)
        /\ \A k : (Known(k)' <=> Known(k)) /\ (Settled(k)' <=> Settled(k))
        /\ \A k, i : Queued(k, i)' <=> Queued(k, i)
    BY DEF Gone, Whole, Reports, Known, Settled, Past, Logged, Queued
  <1>2. Reading' /\ Silenced' /\ Unstreamed'
    BY DEF OrderInv, Reading, Silenced, Unstreamed
  <1>3. Subscribed' => Subscribed
    BY DEF Subscribed
  <1>4. Buffered'
    BY <1>1, <1>3 DEF OrderInv, Buffered
  <1>5. ASSUME Whole'
        PROVE  InOrder' /\ Complete' /\ Ahead'
    BY <1>1, <1>5 DEF OrderInv, InOrder, Complete, Ahead
  <1>6. ASSUME Whole'
        PROVE  Following'
    <2> SUFFICES ASSUME phase' \notin {"down", "recovered", "resumed"}
                 PROVE  Following'
      BY DEF Following
    <2>1. phase \notin {"down", "recovered", "resumed"}
      OBVIOUS
    <2>2. Following
      BY <1>1, <1>6 DEF OrderInv
    <2> QED
      BY <1>1, <2>1, <2>2 DEF Following, Known, Settled, Past, Queued, Logged
  <1> QED
    BY <1>2, <1>4, <1>5, <1>6 DEF OrderInv

\* A session that goes down.
LEMMA DownOrdered ==
    ASSUME LogInv, OrderInv, phase' = "down", todo' = {}, UNCHANGED <<log, history, since>>,
           faults' = 0 => faults = 0
    PROVE  OrderInv'
  <1>1. Reading' /\ Silenced' /\ Unstreamed' /\ Buffered' /\ Following'
    BY DEF Reading, Silenced, Unstreamed, Buffered, Subscribed, Following
  <1>2. Whole' => InOrder' /\ Complete' /\ Ahead'
    BY DEF OrderInv, Whole, Reports, InOrder, Complete, Ahead, Settled, Past, Logged
  <1> QED
    BY <1>1, <1>2 DEF OrderInv

LEMMA WritesOrdered ==
    ASSUME LogInv, OrderInv, DeleteOld \/ InsertNew
    PROVE  OrderInv'
  <1>1. UNCHANGED <<log, sourceVars, since, todo, buffer, skipped, pipe>>
    BY DEF DeleteOld, InsertNew, streamVars
  <1>2. faults' = 0 => faults = 0
    <2>1. faults \in Nat
      BY Sizes
    <2>2. \E ok \in BOOLEAN : Works(ok)
      BY DEF DeleteOld, InsertNew
    <2> QED
      BY <2>1, <2>2 DEF Works
  <1>3. phase' = phase \/ \E ok \in BOOLEAN : Written(ok)
    BY DEF DeleteOld, InsertNew
  <1>4. /\ phase \in {"storing", "ending"} => todo = {}
        /\ phase' # phase => \/ phase = "storing" /\ phase' \in {"live", "down"}
                             \/ phase = "ending" /\ phase' = "down"
    BY <1>3 DEF OrderInv, Reading, Written
  <1>5. \/ phase' = phase
        \/ todo = {} /\ phase' = "down"
        \/ /\ todo = {} /\ phase \in {"reconciling", "storing", "live"}
           /\ phase' \in {"live", "ending"} \/ (phase = "reconciling" /\ phase' = "storing")
    BY <1>4
  <1> QED
    BY <1>1, <1>2, <1>5, QuietOrdered

LEMMA QuietSteps ==
    ASSUME LogInv, OrderInv,
           RuntimeEnds \/ (\E a \in Notes : TakeNote(a)) \/ End \/ Reconciled \/ UNCHANGED vars
    PROVE  OrderInv'
  <1>1. UNCHANGED <<log, sourceVars, since, todo, buffer, skipped, pipe, faults>>
    BY DEF RuntimeEnds, TakeNote, End, Reconciled, vars, durableVars, streamVars, actorVars
  <1>2. \/ phase' = phase
        \/ /\ todo = {} /\ phase \in {"reconciling", "storing", "live"}
           /\ phase' \in {"live", "ending"} \/ (phase = "reconciling" /\ phase' = "storing")
    BY DEF RuntimeEnds, TakeNote, End, Reconciled, vars, actorVars, IsReady, OrderInv, Reading
  <1> QED
    BY <1>1, <1>2, QuietOrdered

LEMMA RestoresOrdered ==
    ASSUME LogInv, OrderInv, Crash \/ RestoreFails \/ Recover \/ Resume
    PROVE  OrderInv'
  <1>1. CASE Crash \/ RestoreFails
    BY <1>1, DownOrdered DEF Crash, RestoreFails
  <1>2. CASE Recover
    <2>1. /\ UNCHANGED <<log, history, since, todo, faults>> /\ phase' = "recovered" /\ todo = {}
          /\ buffer' = <<>> /\ skipped' = 0 /\ pipe' = <<>>
      BY <1>2 DEF Recover, Silent, durableVars, OrderInv, Reading
    <2>2. Reading' /\ Silenced' /\ Unstreamed' /\ Buffered' /\ Following'
      BY <2>1 DEF Reading, Silenced, Unstreamed, Buffered, Subscribed, Following
    <2>3. Whole' => InOrder' /\ Complete' /\ Ahead'
      BY <2>1 DEF OrderInv, Whole, Reports, InOrder, Complete, Ahead, Settled, Past, Logged
    <2> QED
      BY <2>2, <2>3 DEF OrderInv
  <1>3. CASE Resume
    <2>1. /\ UNCHANGED <<log, emitted, history, todo, faults, buffer, skipped, pipe>>
          /\ phase' = "resumed" /\ since' = emitted
          /\ todo = {} /\ buffer = <<>> /\ skipped = 0 /\ pipe = <<>>
      BY <1>3 DEF Resume, streamVars, durableVars, OrderInv, Reading, Silenced
    <2>2. emitted \in Nat /\ since \in Nat /\ since <= emitted
      BY Sizes
    <2>3. Reading' /\ Silenced' /\ Following'
      BY <2>1 DEF Reading, Silenced, Following
    <2>4. Unstreamed'
      BY <2>1, <2>2 DEF Unstreamed
    <2>5. Len(buffer') = 0 /\ Len(pipe') = 0 /\ skipped' = 0 /\ emitted' = emitted
      BY <2>1
    <2>6. since' <= Gone'
      BY <2>1, <2>2, <2>5 DEF Gone
    <2>7. Buffered'
      BY <2>5, <2>6 DEF Buffered
    <2>8. ASSUME NEW k \in Nat, Settled(k)
          PROVE  Settled(k)'
      BY <2>1, <2>2, <2>8 DEF Settled, Past, Logged
    <2>9. ASSUME Whole'
          PROVE  InOrder' /\ Complete' /\ Ahead'
      <3>1. Whole /\ InOrder /\ Complete
        BY <2>1, <2>9 DEF OrderInv, Whole, Reports
      <3>2. Complete'
        <4>1. \A r \in log : \A n \in 1..r.id[2] : n \in Nat
          OBVIOUS
        <4> QED
          BY <2>1, <2>8, <3>1, <4>1 DEF Complete
      <3> QED
        BY <2>1, <3>1, <3>2 DEF InOrder, Ahead
    <2> QED
      BY <2>3, <2>4, <2>7, <2>9 DEF OrderInv
  <1> QED
    BY <1>1, <1>2, <1>3

\* What was emitted is in the history that is read, or was streamed to a session
\* that has ended.
LEMMA ReadOrdered ==
    ASSUME LogInv, OrderInv, ReadHistory
    PROVE  OrderInv'
  <1>1. /\ phase = "resumed" /\ phase' = "reconciling" /\ todo' = history
        /\ UNCHANGED <<log, emitted, history, since, buffer, skipped, pipe, faults>>
    BY DEF ReadHistory, durableVars, streamVars
  <1>2. /\ Len(buffer) \in Nat /\ Len(pipe) \in Nat /\ skipped \in Nat /\ emitted \in Nat
        /\ Gone \in Nat /\ \A i \in 1..Len(pipe) : pipe[i] \in Message
        /\ since \in Nat /\ history \subseteq 1..emitted
    BY Sizes
  <1>3. Gone' = Gone /\ Gone <= emitted /\ Subscribed /\ Subscribed'
    BY <1>1, <1>2 DEF Gone, Subscribed
  <1>4. Reading' /\ Silenced' /\ Unstreamed' /\ Buffered'
    BY <1>1, <1>3 DEF OrderInv, Reading, Silenced, Unstreamed, Buffered
  <1>5. \A k \in 0..emitted : Known(k)'
    <2>1. ASSUME NEW j \in 1..emitted, j \notin history
          PROVE  Past(j)'
      <3>1. ~(j > since)
        BY <1>1, <2>1 DEF OrderInv, Unstreamed
      <3> QED
        BY <1>1, <1>2, <2>1, <3>1 DEF Past
    <2>2. \A j \in 1..emitted : j \in todo' \/ Settled(j)'
      BY <1>1, <2>1 DEF Settled
    <2>3. \A k \in 0..emitted : \A j \in 1..k : j \in 1..emitted
      BY <1>2
    <2> QED
      BY <2>2, <2>3 DEF Known
  <1>6. ASSUME NEW i \in 1..Len(pipe), IsEvent(pipe[i]), pipe[i] # Closed
        PROVE  pipe[i][2] - 1 \in 0..emitted
    <2>1. pipe[i] \in Message
      BY <1>2
    <2>2. pipe[i][2] # 0 /\ pipe[i][2] \in Nat
      BY <1>6, <2>1, MessageParts
    <2>3. pipe[i][2] <= Gone
      BY <1>3, <1>6 DEF OrderInv, Buffered
    <2>4. PICK n \in Nat : n = pipe[i][2]
      BY <2>2
    <2>5. n # 0 /\ n <= Gone
      BY <2>2, <2>3, <2>4
    <2>6. Gone \in Nat /\ Gone <= emitted /\ emitted \in Nat
      BY <1>2, <1>3
    <2>7. n - 1 \in 0..emitted
      BY <2>5, <2>6
    <2> QED
      BY <2>4, <2>7
  <1>7. Following'
    <2>1. Gone \in 0..emitted
      BY <1>2, <1>3
    <2> QED
      BY <1>1, <1>3, <1>5, <1>6, <2>1 DEF Following, Known, Settled, Past, Logged
  <1>8. ASSUME Whole'
        PROVE  InOrder' /\ Complete' /\ Ahead'
    <2>1. Ahead'
      <3>1. \A k \in history : k \in 0..emitted
        BY <1>2
      <3> QED
        BY <1>1, <1>5, <3>1 DEF Ahead, Known
    <2>2. Whole /\ InOrder /\ Complete
      BY <1>1, <1>8 DEF OrderInv, Whole, Reports
    <2>3. InOrder' /\ Complete'
      BY <1>1, <2>2 DEF InOrder, Complete, Settled, Past, Logged
    <2> QED
      BY <2>1, <2>3
  <1> QED
    BY <1>4, <1>7, <1>8 DEF OrderInv

LEMMA ReconcileOrdered ==
    ASSUME LogInv, OrderInv, Reconcile
    PROVE  OrderInv'
  <1>1. /\ phase = "reconciling" /\ todo # {}
        /\ UNCHANGED <<emitted, history, since, buffer, skipped, pipe>>
    BY DEF Reconcile, streamVars
  <1>2. todo \subseteq Nat \ {0} /\ todo \subseteq 1..MaxEvents /\ faults \in Nat
    BY Sizes DEF LogInv, TypeOK
  <1>3. PICK n \in todo : n = Oldest(todo) /\ \A k \in todo : n <= k
    BY <1>1, <1>2, LeastExists DEF Oldest, Min
  <1>4. PICK ok \in BOOLEAN :
          \/ Logged(Event(n)) /\ todo' = todo \ {n} /\ UNCHANGED <<log, state, faults, phase>>
          \/ /\ ~Logged(Event(n)) /\ AppendEvent(Event(n), ok)
             /\ IF ok THEN todo' = todo \ {n} /\ UNCHANGED phase ELSE todo' = {} /\ phase' = "down"
    BY <1>3 DEF Reconcile
  <1>5. n \in Nat \ {0} /\ Event(n) \in Id
    <2>1. n \in 0..MaxEvents /\ n \in Nat \ {0}
      BY <1>2, <1>3, EventLogAssumption
    <2> QED
      BY <2>1, Kinds
  <1>6. CASE phase' = "down"
    <2>1. /\ ~ok /\ AppendEvent(Event(n), ok) /\ todo' = {}
      BY <1>1, <1>4, <1>6
    <2>2. UNCHANGED log /\ (faults' = 0 => faults = 0)
      BY <1>2, <2>1 DEF AppendEvent, Works
    <2> QED
      BY <1>1, <1>6, <2>1, <2>2, DownOrdered
  <1>7. CASE phase' = phase /\ todo' = todo \ {n}
    <2>1. Gone' = Gone /\ Subscribed' /\ Subscribed
      BY <1>1, <1>7 DEF Gone, Subscribed
    <2>2. Reading' /\ Silenced' /\ Unstreamed' /\ Buffered'
      BY <1>1, <1>7, <2>1 DEF OrderInv, Reading, Silenced, Unstreamed, Buffered
    <2>3. (faults' = 0 => faults = 0) /\ log \subseteq log'
      BY <1>2, <1>4 DEF AppendEvent, Works
    <2>4. Whole' => Whole
      BY <2>3 DEF Whole, Reports
    <2>5. ASSUME Whole'
          PROVE  InOrder' /\ Complete' /\ Ahead' /\ Following'
      <3>1. Whole /\ InOrder /\ Complete /\ Ahead /\ Following
        BY <2>4, <2>5 DEF OrderInv
      <3>2. (\A j \in 1..(n - 1) : Settled(j)) /\ ~Past(n)
        <4>1. ASSUME NEW j \in 1..(n - 1)
              PROVE  Settled(j)
          <5>1. j \in 1..n /\ j < n
            BY <1>5
          <5>2. j \notin todo
            BY <1>2, <1>3, <5>1
          <5> QED
            BY <1>3, <3>1, <5>1, <5>2 DEF Ahead, Known
        <4>2. n \in history
          BY <1>3 DEF OrderInv, Reading
        <4> QED
          BY <4>1, <4>2 DEF Past
      <3>3. /\ InOrder' /\ Complete' /\ Logged(Event(n))'
            /\ \A k : Settled(k) => Settled(k)'
        <4>1. CASE Logged(Event(n)) /\ UNCHANGED log
          BY <1>1, <3>1, <4>1 DEF InOrder, Complete, Settled, Past, Logged
        <4>2. CASE AppendEvent(Event(n), ok)
          BY <1>1, <1>5, <2>5, <3>1, <3>2, <4>2, AppendOrdered
        <4> QED
          BY <1>4, <4>1, <4>2
      <3>4. \A k : Known(k) => Known(k)'
        <4>1. \A j : j \in todo \/ Settled(j) => j \in todo' \/ Settled(j)'
          BY <1>7, <3>3 DEF Settled
        <4> QED
          BY <4>1 DEF Known
      <3>5. Ahead'
        BY <1>7, <3>1, <3>4 DEF Ahead, Known
      <3>6. Following'
        <4>1. \A k, i : Queued(k, i)' <=> Queued(k, i)
          BY <1>1 DEF Queued
        <4> QED
          BY <1>1, <1>7, <2>1, <3>1, <3>4, <4>1
             DEF Following, Known, Settled, Past, Queued, Logged
      <3> QED
        BY <3>3, <3>5, <3>6
    <2> QED
      BY <2>2, <2>5 DEF OrderInv
  <1> QED
    BY <1>4, <1>6, <1>7

LEMMA OrderNext == LogInv /\ OrderInv /\ [Next]_vars => OrderInv'
  <1> SUFFICES ASSUME LogInv, OrderInv, [Next]_vars
               PROVE  OrderInv'
    OBVIOUS
  <1>1. CASE Emit
    BY <1>1, EmitOrdered
  <1>2. CASE Forward
    BY <1>2, ForwardOrdered
  <1>3. CASE Receive
    BY <1>3, ReceiveOrdered
  <1>4. CASE DeleteOld \/ InsertNew
    BY <1>4, WritesOrdered
  <1>5. CASE RuntimeEnds \/ (\E a \in Notes : TakeNote(a)) \/ End \/ Reconciled \/ UNCHANGED vars
    BY <1>5, QuietSteps
  <1>6. CASE Crash \/ RestoreFails \/ Recover \/ Resume
    BY <1>6, RestoresOrdered
  <1>7. CASE ReadHistory
    BY <1>7, ReadOrdered
  <1>8. CASE Reconcile
    BY <1>8, ReconcileOrdered
  <1> QED
    BY <1>1, <1>2, <1>3, <1>4, <1>5, <1>6, <1>7, <1>8 DEF Next

\* As long as nothing was skipped and no write failed, the log is in the runtime's
\* order, although a restore appends what was missed after what was seen.
THEOREM LoggedInOrder == Spec => []OrderKept
  <1>1. OrderInv => OrderKept
    BY DEF OrderInv, Whole, InOrder, OrderKept
  <1>2. Spec => []OrderInv
    BY OrderInit, OrderNext, LogAlways, PTL DEF Spec
  <1> QED
    BY <1>1, <1>2, PTL

-----------------------------------------------------------------------------
(* What was lost.  The session should see what was emitted since it        *)
(* subscribed and, once it reads the history, what that keeps (Due).  An   *)
(* event of these is lost when it is neither logged, nor in the history    *)
(* that is left to read, nor on its way.  There are at most as many as the *)
(* log says were skipped, the subscription has yet to report and the pipe  *)
(* holds reports of (Accounted).                                           *)

OnItsWay(n) ==
    \/ n \in todo
    \/ \E i \in 1..Len(buffer) : buffer[i] = Event(n)
    \/ \E i \in 1..Len(pipe) : pipe[i] = Event(n)

Reconciles == phase \in {"reconciling", "storing", "live"}

Due  == {n \in 1..emitted : n > since \/ (Reconciles /\ n \in history)}
Lost == {n \in Due : ~Logged(Event(n)) /\ ~OnItsWay(n)}

\* One for each event that a report in the pipe says was skipped.
ToReport == {u \in (1..Len(pipe)) \X (1..MaxEvents) : u[2] <= pipe[u[1]][1]}

\* A report's identity holds its number: no two are the same.
ReportsNumbered == \A r \in Reports : r.id[2] = r.seq

Accounted ==
    faults = 0 /\ (phase = "resumed" \/ Reconciles) =>
        Cardinality(Lost) <= Cardinality(Skips) + skipped + Cardinality(ToReport)

LossInv == IsFiniteSet(log) /\ ReportsNumbered /\ Accounted

\* n marks of x, none of which was there before.
LEMMA Marks ==
    ASSUME NEW S, IsFiniteSet(S), NEW x, NEW n \in Nat, \A u \in S : u[1] # x
    PROVE  /\ IsFiniteSet(S \cup ({x} \X (1..n)))
           /\ Cardinality(S \cup ({x} \X (1..n))) = Cardinality(S) + n
  <1> DEFINE M == {x} \X (1..n)
  <1>1. IsFiniteSet({x}) /\ Cardinality({x}) = 1
    BY FS_Singleton
  <1>2. IsFiniteSet(1..n) /\ Cardinality(1..n) = n
    BY FS_Interval
  <1>3. IsFiniteSet(M) /\ Cardinality(M) = Cardinality({x}) * Cardinality(1..n)
    BY <1>1, <1>2, FS_Product
  <1>4. S \cap M = {}
    OBVIOUS
  <1>5. Cardinality(S \cap M) = 0
    BY <1>4, FS_EmptySet
  <1>6. IsFiniteSet(S \cup M) /\ Cardinality(S \cup M) = Cardinality(S) + Cardinality(M) - Cardinality(S \cap M)
    BY <1>3, FS_Union
  <1>7. Cardinality(S) \in Nat
    BY FS_CardinalityType
  <1> HIDE DEF M
  <1>8. Cardinality(M) = n
    BY <1>1, <1>2, <1>3
  <1>9. Cardinality(S \cup M) = Cardinality(S) + n
    BY <1>5, <1>6, <1>7, <1>8
  <1> QED
    BY <1>6, <1>9 DEF M

\* The sets that are counted are finite.
LEMMA Countable ==
    ASSUME LogInv, IsFiniteSet(log)
    PROVE  /\ IsFiniteSet(Lost) /\ Cardinality(Lost) \in Nat
           /\ IsFiniteSet(Skips) /\ Cardinality(Skips) \in Nat
           /\ IsFiniteSet(ToReport) /\ Cardinality(ToReport) \in Nat
  <1>1. emitted \in Nat /\ Len(pipe) \in Nat /\ MaxEvents \in Nat
    BY Sizes, EventLogAssumption
  <1>2. IsFiniteSet(1..emitted) /\ IsFiniteSet(1..Len(pipe)) /\ IsFiniteSet(1..MaxEvents)
    <2>1. emitted \in Int /\ Len(pipe) \in Int /\ MaxEvents \in Int
      BY <1>1
    <2>2. \A k \in Int : IsFiniteSet(1..k)
      BY FS_Interval
    <2> QED
      BY <2>1, <2>2
  <1>3. IsFiniteSet(Lost)
    BY <1>2, FS_Subset DEF Lost, Due
  <1>4. IsFiniteSet(Reports)
    BY FS_Subset DEF Reports
  <1>5. IsFiniteSet(Reports \X (1..MaxEvents)) /\ IsFiniteSet((1..Len(pipe)) \X (1..MaxEvents))
    BY <1>2, <1>4, FS_Product
  <1>6. Skips \in SUBSET (Reports \X (1..MaxEvents))
    BY DEF Skips
  <1>7. ToReport \in SUBSET ((1..Len(pipe)) \X (1..MaxEvents))
    BY DEF ToReport
  <1>8. IsFiniteSet(Skips) /\ IsFiniteSet(ToReport)
    BY <1>5, <1>6, <1>7, FS_Subset
  <1> QED
    BY <1>3, <1>8, FS_CardinalityType

\* An event's append logs it; the append of a report adds what it says was skipped.
LEMMA AppendAccounts ==
    ASSUME LogInv, LossInv, phase # "down", NEW id \in Id, NEW ok \in BOOLEAN,
           AppendEvent(id, ok), ~IsEvent(id) => id[2] = state.last + 1
    PROVE  /\ IsFiniteSet(log') /\ ReportsNumbered' /\ log \subseteq log'
           /\ faults' = 0 => faults = 0 /\ ok
           /\ ok => \E r \in log' : r.id = id
           /\ IsFiniteSet(Skips') /\ Cardinality(Skips') \in Nat
           /\ Cardinality(Skips) <= Cardinality(Skips')
           /\ ok /\ ~IsEvent(id) => Cardinality(Skips') = Cardinality(Skips) + id[1]
  <1> DEFINE row == [seq |-> state.last + 1, id |-> id]
  <1>1. /\ log \subseteq Row /\ state.last \in Nat /\ faults \in Nat
        /\ \A r \in log : r.seq <= state.last /\ r.seq \in Nat /\ r.id \in Id
    BY EventLogAssumption DEF LogInv, TypeOK, State, Showing, Row
  <1>2. row.seq = state.last + 1 /\ row.id = id
    OBVIOUS
  <1>3. faults' = 0 => faults = 0 /\ ok
    BY <1>1 DEF AppendEvent, Works
  <1>4. IsFiniteSet(Skips) /\ Cardinality(Skips) \in Nat /\ MaxEvents \in Nat
    BY Countable, EventLogAssumption DEF LossInv
  <1>5. IsNew(row) <=> \A r \in log : r.id # id
    BY <1>1, <1>2 DEF IsNew
  <1>6. ~IsEvent(id) => IsNew(row)
    <2> SUFFICES ASSUME ~IsEvent(id), NEW r \in log, r.id = id
                 PROVE  FALSE
      BY <1>5
    <2>1. r \in Reports /\ r.id[2] = state.last + 1
      BY DEF Reports
    <2> QED
      BY <1>1, <2>1 DEF LossInv, ReportsNumbered
  <1>7. AppendEvent(id, ok) <=>
            /\ Works(ok)
            /\ \/ ~ok /\ UNCHANGED <<log, state>>
               \/ ok /\ IsNew(row) /\ log' = log \cup {row} /\ state' = Applied(state, row)
               \/ ok /\ ~IsNew(row) /\ UNCHANGED log /\ state' = [state EXCEPT !.last = row.seq]
    BY DEF AppendEvent
  <1> HIDE DEF row
  <1>8. CASE log' = log
    <2>1. Skips' = Skips /\ ReportsNumbered'
      BY <1>8 DEF Skips, Reports, LossInv, ReportsNumbered
    <2>2. ok => ~IsNew(row)
      BY <1>2, <1>7, <1>8, <1>5
    <2>3. ok => \E r \in log : r.id = id
      BY <1>5, <2>2
    <2> QED
      BY <1>3, <1>4, <1>6, <1>8, <2>1, <2>2, <2>3 DEF LossInv
  <1>9. CASE ok /\ IsNew(row) /\ log' = log \cup {row}
    <2>1. IsFiniteSet(log')
      BY <1>9, FS_AddElement DEF LossInv
    <2>2. ReportsNumbered'
      BY <1>2, <1>9 DEF LossInv, ReportsNumbered, Reports
    <2>3. row \in log'
      BY <1>9
    <2>4. CASE IsEvent(id)
      <3>1. Reports' = Reports
        BY <1>2, <1>9, <2>4 DEF Reports
      <3>2. Skips' = Skips
        BY <3>1 DEF Skips
      <3> QED
        BY <1>2, <1>3, <1>4, <1>9, <2>1, <2>2, <2>3, <2>4, <3>2
    <2>5. CASE ~IsEvent(id)
      <3>1. Reports' = Reports \cup {row}
        BY <1>2, <1>9, <2>5 DEF Reports
      <3>2. id[1] \in Nat /\ id[1] <= MaxEvents
        BY EventLogAssumption DEF Id
      <3>3. Skips' = Skips \cup ({row} \X (1..id[1]))
        <4>1. \A u : u \in Skips' <=> u \in Reports' \X (1..MaxEvents) /\ u[2] <= u[1].id[1]
          BY DEF Skips
        <4>2. \A u : u \in Skips <=> u \in Reports \X (1..MaxEvents) /\ u[2] <= u[1].id[1]
          BY DEF Skips
        <4>3. ASSUME NEW u, u \in Skips'
              PROVE  u \in Skips \cup ({row} \X (1..id[1]))
          BY <1>2, <1>4, <3>1, <3>2, <4>1, <4>2, <4>3
        <4>4. ASSUME NEW u, u \in Skips \cup ({row} \X (1..id[1]))
              PROVE  u \in Skips'
          BY <1>2, <1>4, <3>1, <3>2, <4>1, <4>2, <4>4
        <4> QED
          BY <4>3, <4>4
      <3>4. \A u \in Skips : u[1] # row
        <4>1. \A r \in log : r # row
          BY <1>1, <1>2
        <4> QED
          BY <4>1 DEF Skips, Reports
      <3>5. IsFiniteSet(Skips') /\ Cardinality(Skips') = Cardinality(Skips) + id[1]
        BY <1>4, <3>2, <3>3, <3>4, Marks
      <3> QED
        BY <1>2, <1>3, <1>4, <1>9, <2>1, <2>2, <2>3, <3>2, <3>5
    <2> QED
      BY <2>4, <2>5
  <1> QED
    BY <1>7, <1>8, <1>9

\* What is counted does not change, or nothing is counted any more.
LEMMA QuietAccounts ==
    ASSUME LogInv, LossInv, UNCHANGED log, faults' = 0 => faults = 0,
           phase' = "resumed" => phase = "resumed",
           Reconciles' => Reconciles,
           phase' = "resumed" \/ Reconciles' =>
               UNCHANGED <<emitted, history, since, todo, buffer, skipped, pipe>>
    PROVE  LossInv'
  <1>1. IsFiniteSet(log') /\ ReportsNumbered'
    BY DEF LossInv, ReportsNumbered, Reports
  <1>2. Accounted'
    <2> SUFFICES ASSUME faults' = 0, phase' = "resumed" \/ Reconciles'
                 PROVE  Cardinality(Lost') <= Cardinality(Skips') + skipped' + Cardinality(ToReport')
      BY DEF Accounted
    <2>1. faults = 0 /\ (phase = "resumed" \/ Reconciles) /\ (Reconciles' <=> Reconciles)
      BY DEF Reconciles
    <2>2. Lost' = Lost /\ Skips' = Skips /\ ToReport' = ToReport /\ skipped' = skipped
      BY <2>1 DEF Lost, Due, OnItsWay, Logged, Skips, Reports, ToReport
    <2> QED
      BY <2>1, <2>2 DEF LossInv, Accounted
  <1> QED
    BY <1>1, <1>2 DEF LossInv

\* A step at which nothing is lost.
LEMMA NothingAccounts ==
    ASSUME LogInv, LossInv, UNCHANGED <<log, emitted, skipped, pipe>>, Lost' = {}
    PROVE  LossInv'
  <1>1. IsFiniteSet(log') /\ ReportsNumbered' /\ Skips' = Skips /\ ToReport' = ToReport
    BY DEF LossInv, ReportsNumbered, Skips, Reports, ToReport
  <1>2. /\ Cardinality(Skips) \in Nat /\ Cardinality(ToReport) \in Nat /\ skipped \in Nat
        /\ Cardinality(Lost') = 0
    BY Countable, Sizes, FS_EmptySet DEF LossInv
  <1>3. 0 <= Cardinality(Skips) + skipped + Cardinality(ToReport)
    BY <1>2
  <1>4. Accounted'
    BY <1>1, <1>2, <1>3 DEF Accounted
  <1> QED
    BY <1>1, <1>4 DEF LossInv

LEMMA Sums ==
    /\ \A new, old, s, p, t \in Nat :
           old <= s + p + t /\ new <= old + 1 => new <= s + (p + 1) + t
    /\ \A new, old, s, p, t, r \in Nat :
           old <= s + p + t /\ new <= old /\ t + p <= r => new <= s + 0 + r
    /\ \A new, old, s, p, t, q, r, k \in Nat :
           old <= s + p + t /\ new <= old /\ t <= r + k /\ s + k <= q => new <= q + p + r
  OBVIOUS

\* The event that the full buffer forgets is one that the subscription will report.
LEMMA EmitAccounts == ASSUME LogInv, LossInv, Emit PROVE LossInv'
  <1>1. /\ emitted' = emitted + 1 /\ history' \subseteq history \cup {emitted + 1}
        /\ UNCHANGED <<log, since, pipe, phase, todo, faults>>
    BY DEF Emit, durableVars, actorVars
  <1>2. IsFiniteSet(log') /\ ReportsNumbered' /\ Skips' = Skips /\ ToReport' = ToReport
    BY <1>1 DEF LossInv, ReportsNumbered, Skips, Reports, ToReport
  <1>3. Accounted'
    <2> SUFFICES ASSUME faults = 0, phase = "resumed" \/ Reconciles
                 PROVE  Cardinality(Lost') <= Cardinality(Skips) + skipped' + Cardinality(ToReport)
      BY <1>1, <1>2 DEF Accounted, Reconciles
    <2>1. Subscribed
      BY DEF Reconciles, Subscribed
    <2>2. Cardinality(Lost) <= Cardinality(Skips) + skipped + Cardinality(ToReport)
      BY DEF LossInv, Accounted
    <2>3. /\ Cardinality(Lost) \in Nat /\ Cardinality(Skips) \in Nat /\ Cardinality(ToReport) \in Nat
          /\ skipped \in Nat /\ IsFiniteSet(Lost)
      BY Countable, Sizes DEF LossInv
    <2>4. buffer \in Seq(Message) /\ emitted \in Nat /\ Len(buffer) \in Nat
      BY Sizes
    <2>5. Event(emitted + 1) \in Message
      <3>1. emitted + 1 \in 0..MaxEvents
        BY <2>4, EventLogAssumption DEF Emit
      <3> QED
        BY <3>1, Kinds
    <2>6. CASE Room(buffer, Buffer)
      <3>1. buffer' = Append(buffer, Event(emitted + 1)) /\ skipped' = skipped
        BY <2>1, <2>6 DEF Emit
      <3>2. /\ Len(buffer') = Len(buffer) + 1 /\ buffer'[Len(buffer) + 1] = Event(emitted + 1)
            /\ \A i \in 1..Len(buffer) : buffer'[i] = buffer[i]
        BY <2>4, <2>5, <3>1
      <3>3. ASSUME NEW n \in Lost'
            PROVE  n \in Lost
        <4>1. n \in Due' /\ ~Logged(Event(n)) /\ n \notin todo
              /\ (\A i \in 1..Len(buffer') : buffer'[i] # Event(n))
              /\ (\A i \in 1..Len(pipe) : pipe[i] # Event(n))
          BY <1>1 DEF Lost, OnItsWay, Logged
        <4>2. n # emitted + 1
          BY <2>4, <3>2, <4>1
        <4>3. \A i \in 1..Len(buffer) : buffer[i] # Event(n)
          BY <2>4, <3>2, <4>1
        <4>4. n \in Due
          BY <1>1, <2>4, <4>1, <4>2 DEF Due, Reconciles
        <4> QED
          BY <4>1, <4>3, <4>4 DEF Lost, OnItsWay
      <3>4. Cardinality(Lost') <= Cardinality(Lost)
        BY <2>3, <3>3, FS_Subset
      <3>5. Cardinality(Lost') \in Nat
        BY <2>3, <3>3, FS_Subset, FS_CardinalityType
      <3> QED
        BY <2>2, <2>3, <3>1, <3>4, <3>5
    <2>7. CASE ~Room(buffer, Buffer)
      <3> DEFINE old == Head(buffer)[2]
      <3>1. buffer' = Append(Tail(buffer), Event(emitted + 1)) /\ skipped' = skipped + 1
        BY <2>1, <2>7 DEF Emit
      <3>2. buffer # <<>>
        BY <2>4, <2>7, EventLogAssumption DEF Room
      <3>3. /\ Len(buffer') = Len(buffer) /\ buffer'[Len(buffer)] = Event(emitted + 1)
            /\ \A i \in 1..Len(buffer) - 1 : buffer'[i] = buffer[i + 1]
            /\ Head(buffer) = buffer[1]
        BY <2>4, <2>5, <3>1, <3>2
      <3> HIDE DEF old
      <3>4. ASSUME NEW n \in Lost', n # old
            PROVE  n \in Lost
        <4>1. n \in Due' /\ ~Logged(Event(n)) /\ n \notin todo
              /\ (\A i \in 1..Len(buffer') : buffer'[i] # Event(n))
              /\ (\A i \in 1..Len(pipe) : pipe[i] # Event(n))
          BY <1>1 DEF Lost, OnItsWay, Logged
        <4>2. n # emitted + 1
          BY <2>4, <3>2, <3>3, <4>1
        <4>3. ASSUME NEW i \in 1..Len(buffer), buffer[i] = Event(n)
              PROVE  FALSE
          <5>1. i # 1
            BY <3>3, <3>4, <4>3, MessageParts DEF old
          <5>2. i - 1 \in 1..Len(buffer) - 1 /\ (i - 1) + 1 = i /\ i - 1 \in 1..Len(buffer')
            BY <2>4, <3>3, <5>1
          <5>3. buffer'[i - 1] = Event(n)
            BY <3>3, <4>3, <5>2
          <5> QED
            BY <4>1, <5>2, <5>3
        <4>4. n \in Due
          BY <1>1, <2>4, <4>1, <4>2 DEF Due, Reconciles
        <4> QED
          BY <4>1, <4>3, <4>4 DEF Lost, OnItsWay
      <3>5. Lost' \subseteq Lost \cup {old}
        BY <3>4
      <3>6. /\ IsFiniteSet(Lost \cup {old}) /\ Cardinality(Lost \cup {old}) <= Cardinality(Lost) + 1
            /\ Cardinality(Lost \cup {old}) \in Nat
        <4>1. IsFiniteSet(Lost \cup {old})
              /\ Cardinality(Lost \cup {old}) = IF old \in Lost THEN Cardinality(Lost) ELSE Cardinality(Lost) + 1
          BY <2>3, FS_AddElement
        <4> QED
          BY <2>3, <4>1
      <3>7. Cardinality(Lost') <= Cardinality(Lost \cup {old}) /\ Cardinality(Lost') \in Nat
        BY <3>5, <3>6, FS_Subset, FS_CardinalityType
      <3>8. Cardinality(Lost') <= Cardinality(Lost) + 1
        BY <2>3, <3>6, <3>7
      <3>9. Cardinality(Lost') <= Cardinality(Skips) + (skipped + 1) + Cardinality(ToReport)
        BY <2>2, <2>3, <3>7, <3>8, Sums
      <3> QED
        BY <3>1, <3>9
    <2> QED
      BY <2>6, <2>7
  <1> QED
    BY <1>2, <1>3 DEF LossInv

\* What was forgotten and not yet reported is in the report that enters the pipe.
LEMMA ForwardAccounts == ASSUME LogInv, LossInv, Forward PROVE LossInv'
  <1>1. UNCHANGED <<log, emitted, history, since, phase, todo, faults>> /\ skipped' = 0
    BY DEF Forward, durableVars, actorVars
  <1>2. IsFiniteSet(log') /\ ReportsNumbered' /\ Skips' = Skips
    BY <1>1 DEF LossInv, ReportsNumbered, Skips, Reports
  <1>3. /\ buffer \in Seq(Message) /\ pipe \in Seq(Message) /\ skipped \in Nat
        /\ Len(buffer) \in Nat /\ Len(pipe) \in Nat /\ skipped <= MaxEvents /\ MaxEvents \in Nat
    BY Sizes, EventLogAssumption DEF LogInv, TypeOK
  <1>4. /\ Cardinality(Lost) \in Nat /\ Cardinality(Skips) \in Nat /\ Cardinality(ToReport) \in Nat
        /\ IsFiniteSet(Lost) /\ IsFiniteSet(ToReport)
    BY Countable DEF LossInv
  <1>5. \E m : /\ pipe' = Append(pipe, m)
               /\ skipped > 0 => m = Lagged(skipped) /\ buffer' = buffer
               /\ ~(skipped > 0) => \/ buffer # <<>> /\ m = Head(buffer) /\ buffer' = Tail(buffer)
                                    \/ m = Closed /\ buffer' = buffer
    BY DEF Forward
  <1>6. PICK m : /\ pipe' = Append(pipe, m)
                 /\ skipped > 0 => m = Lagged(skipped) /\ buffer' = buffer
                 /\ ~(skipped > 0) => \/ buffer # <<>> /\ m = Head(buffer) /\ buffer' = Tail(buffer)
                                      \/ m = Closed /\ buffer' = buffer
    BY <1>5
  <1>7. /\ Len(pipe') = Len(pipe) + 1 /\ pipe'[Len(pipe) + 1] = m
        /\ \A i \in 1..Len(pipe) : pipe'[i] = pipe[i]
    BY <1>3, <1>6
  <1>8. ASSUME NEW n \in Lost'
        PROVE  n \in Lost
    <2>1. n \in Due /\ ~Logged(Event(n)) /\ n \notin todo
          /\ (\A i \in 1..Len(buffer') : buffer'[i] # Event(n))
          /\ (\A i \in 1..Len(pipe') : pipe'[i] # Event(n))
      BY <1>1 DEF Lost, Due, Reconciles, OnItsWay, Logged
    <2>2. ASSUME NEW i \in 1..Len(pipe)
          PROVE  pipe[i] # Event(n)
      <3>1. i \in 1..Len(pipe') /\ pipe'[i] = pipe[i]
        BY <1>3, <1>7
      <3> QED
        BY <2>1, <3>1
    <2>3. ASSUME NEW i \in 1..Len(buffer), buffer[i] = Event(n)
          PROVE  FALSE
      <3>1. buffer' # buffer
        BY <2>1, <2>3
      <3>2. buffer # <<>> /\ m = Head(buffer) /\ buffer' = Tail(buffer)
        BY <1>6, <3>1
      <3>3. m = buffer[1] /\ Len(buffer') = Len(buffer) - 1
            /\ \A j \in 1..Len(buffer') : buffer'[j] = buffer[j + 1]
        BY <1>3, <3>2
      <3>4. i # 1
        BY <1>3, <1>7, <2>1, <2>3, <3>3
      <3>5. i - 1 \in 1..Len(buffer') /\ (i - 1) + 1 = i
        BY <1>3, <3>3, <3>4
      <3> QED
        BY <2>1, <2>3, <3>3, <3>5
    <2> QED
      BY <2>1, <2>2, <2>3 DEF Lost, OnItsWay
  <1>9. Cardinality(Lost') <= Cardinality(Lost) /\ Cardinality(Lost') \in Nat
    BY <1>4, <1>8, FS_Subset, FS_CardinalityType
  <1>10. IsFiniteSet(ToReport') /\ Cardinality(ToReport') \in Nat
         /\ Cardinality(ToReport) + skipped <= Cardinality(ToReport')
    <2>1. ToReport' = {u \in (1..Len(pipe) + 1) \X (1..MaxEvents) : u[2] <= pipe'[u[1]][1]}
      BY <1>7 DEF ToReport
    <2>2. IsFiniteSet(1..Len(pipe) + 1) /\ IsFiniteSet(1..MaxEvents)
      BY <1>3, FS_Interval
    <2>3. IsFiniteSet((1..Len(pipe) + 1) \X (1..MaxEvents))
      BY <2>2, FS_Product
    <2>4. IsFiniteSet(ToReport')
      BY <2>1, <2>3, FS_Subset
    <2>5. ToReport \subseteq ToReport'
      <3> SUFFICES ASSUME NEW u \in (1..Len(pipe)) \X (1..MaxEvents), u[2] <= pipe[u[1]][1]
                   PROVE  u \in (1..Len(pipe) + 1) \X (1..MaxEvents) /\ u[2] <= pipe'[u[1]][1]
        BY <2>1 DEF ToReport
      <3>1. u[1] \in 1..Len(pipe)
        OBVIOUS
      <3> QED
        BY <1>3, <1>7, <3>1
    <2>6. CASE skipped > 0
      <3> DEFINE M == {Len(pipe) + 1} \X (1..skipped)
      <3>1. M \subseteq ToReport'
        <4> SUFFICES ASSUME NEW j \in 1..skipped
                     PROVE  <<Len(pipe) + 1, j>> \in ToReport'
          OBVIOUS
        <4>1. pipe'[Len(pipe) + 1][1] = skipped
          BY <1>6, <1>7, <2>6 DEF Lagged
        <4> QED
          BY <1>3, <2>1, <4>1
      <3>2. \A u \in ToReport : u[1] # Len(pipe) + 1
        BY <1>3 DEF ToReport
      <3>3. IsFiniteSet(ToReport \cup M) /\ Cardinality(ToReport \cup M) = Cardinality(ToReport) + skipped
        BY <1>3, <1>4, <3>2, Marks
      <3>4. ToReport \cup M \in SUBSET ToReport'
        BY <2>5, <3>1
      <3> HIDE DEF M
      <3>5. Cardinality(ToReport \cup M) <= Cardinality(ToReport') /\ Cardinality(ToReport') \in Nat
        BY <2>4, <3>4, FS_Subset, FS_CardinalityType
      <3> QED
        BY <2>4, <3>3, <3>5
    <2>7. CASE ~(skipped > 0)
      <3>1. Cardinality(ToReport) <= Cardinality(ToReport') /\ Cardinality(ToReport') \in Nat
        BY <2>4, <2>5, FS_Subset, FS_CardinalityType
      <3> QED
        BY <1>3, <1>4, <2>4, <2>7, <3>1
    <2> QED
      BY <2>6, <2>7
  <1>11. Accounted'
    <2> SUFFICES ASSUME faults = 0, phase = "resumed" \/ Reconciles
                 PROVE  Cardinality(Lost') <= Cardinality(Skips) + 0 + Cardinality(ToReport')
      BY <1>1, <1>2 DEF Accounted, Reconciles
    <2>1. Cardinality(Lost) <= Cardinality(Skips) + skipped + Cardinality(ToReport)
      BY DEF LossInv, Accounted
    <2> QED
      BY <1>3, <1>4, <1>9, <1>10, <2>1, Sums
  <1> QED
    BY <1>2, <1>11 DEF LossInv

\* A report that leaves the pipe is in the log with all that it says was skipped.
LEMMA ReceiveAccounts == ASSUME LogInv, LossInv, Receive PROVE LossInv'
  <1> DEFINE m == Head(pipe)
             id == IF IsEvent(m) THEN m ELSE <<m[1], state.last + 1>>
             Rest == {u \in ToReport : u[1] # 1}
  <1>1. /\ phase = "live" /\ pipe # <<>> /\ m # Closed /\ pipe' = Tail(pipe)
        /\ UNCHANGED <<emitted, history, since, buffer, skipped, phase, todo>>
    BY DEF Receive, IsReady
  <1>2. /\ Len(pipe) \in Nat /\ skipped \in Nat /\ pipe \in Seq(Message) /\ MaxEvents \in Nat
        /\ state.last \in Nat
    BY Sizes, EventLogAssumption DEF LogInv, TypeOK, State
  <1>3. /\ m = pipe[1] /\ m \in Message /\ Len(pipe) \in Nat \ {0} /\ Len(pipe') = Len(pipe) - 1
        /\ \A i \in 1..Len(pipe) - 1 : pipe'[i] = pipe[i + 1]
    BY <1>1, <1>2
  <1>4. PICK ok \in BOOLEAN : AppendEvent(id, ok)
    BY DEF Receive
  <1>5. id \in Id /\ (~IsEvent(id) => id[2] = state.last + 1) /\ id[1] = m[1]
    <2>1. IsEvent(m) => id = m
      OBVIOUS
    <2>2. ~IsEvent(m) => id = <<m[1], state.last + 1>>
      OBVIOUS
    <2>3. id \in Id
      BY <1>2, <1>3, <2>1, <2>2, Kinds
    <2> HIDE DEF id
    <2> QED
      BY <2>1, <2>2, <2>3
  <1> HIDE DEF m, id
  <1>6. m[1] \in Nat /\ m[1] <= MaxEvents
    BY <1>5, EventLogAssumption DEF Id
  <1>7. /\ IsFiniteSet(log') /\ ReportsNumbered' /\ log \subseteq log'
        /\ faults' = 0 => faults = 0 /\ ok
        /\ ok => \E r \in log' : r.id = id
        /\ IsFiniteSet(Skips') /\ Cardinality(Skips') \in Nat
        /\ Cardinality(Skips) <= Cardinality(Skips')
        /\ ok /\ ~IsEvent(id) => Cardinality(Skips') = Cardinality(Skips) + id[1]
    BY <1>1, <1>4, <1>5, AppendAccounts
  <1>8. /\ Cardinality(Lost) \in Nat /\ Cardinality(Skips) \in Nat /\ Cardinality(ToReport) \in Nat
        /\ IsFiniteSet(Lost) /\ IsFiniteSet(ToReport)
    BY Countable DEF LossInv
  <1>9. ASSUME ok, NEW n \in Lost'
        PROVE  n \in Lost
    <2>1. n \in Due /\ ~Logged(Event(n))' /\ n \notin todo
          /\ (\A i \in 1..Len(buffer) : buffer[i] # Event(n))
          /\ (\A i \in 1..Len(pipe') : pipe'[i] # Event(n))
      BY <1>1 DEF Lost, Due, Reconciles, OnItsWay, Logged
    <2>2. ~Logged(Event(n))
      BY <1>7, <2>1 DEF Logged
    <2>3. ASSUME NEW i \in 1..Len(pipe), pipe[i] = Event(n)
          PROVE  FALSE
      <3>1. CASE i = 1
        <4>1. m = Event(n) /\ id = m
          BY <1>3, <2>3, <3>1, MessageParts DEF id
        <4> QED
          BY <1>7, <1>9, <2>1, <4>1 DEF Logged
      <3>2. CASE i # 1
        <4>1. i - 1 \in 1..Len(pipe') /\ (i - 1) + 1 = i /\ i - 1 \in 1..Len(pipe) - 1
          BY <1>3, <3>2
        <4> QED
          BY <1>3, <2>1, <2>3, <4>1
      <3> QED
        BY <3>1, <3>2
    <2> QED
      BY <2>1, <2>2, <2>3 DEF Lost, OnItsWay
  <1>10. ToReport \subseteq Rest \cup ({1} \X (1..m[1]))
    <2> SUFFICES ASSUME NEW u \in ToReport, u[1] = 1
                 PROVE  u \in {1} \X (1..m[1])
      OBVIOUS
    <2>1. u \in (1..Len(pipe)) \X (1..MaxEvents) /\ u[2] <= pipe[u[1]][1]
      BY DEF ToReport
    <2>2. u = <<1, u[2]>> /\ u[2] \in 1..MaxEvents /\ u[2] <= m[1]
      BY <1>3, <2>1
    <2>3. u[2] \in 1..m[1]
      BY <1>2, <1>6, <2>2
    <2> QED
      BY <2>2, <2>3
  <1>11. /\ IsFiniteSet(ToReport') /\ Cardinality(ToReport') \in Nat
         /\ IsFiniteSet(Rest) /\ Cardinality(Rest) \in Nat
         /\ Cardinality(Rest) <= Cardinality(ToReport')
    <2> DEFINE f == [u \in Rest |-> <<u[1] - 1, u[2]>>]
    <2>1. ToReport' = {u \in (1..Len(pipe) - 1) \X (1..MaxEvents) : u[2] <= pipe'[u[1]][1]}
      BY <1>3 DEF ToReport
    <2>2. IsFiniteSet(1..Len(pipe) - 1) /\ IsFiniteSet(1..MaxEvents)
      <3>1. Len(pipe) - 1 \in Int /\ MaxEvents \in Int
        BY <1>2, <1>3
      <3> QED
        BY <3>1, FS_Interval
    <2>3. IsFiniteSet((1..Len(pipe) - 1) \X (1..MaxEvents))
      BY <2>2, FS_Product
    <2>4. IsFiniteSet(ToReport')
      BY <2>1, <2>3, FS_Subset
    <2>5. IsFiniteSet(Rest)
      BY <1>8, FS_Subset
    <2>6. \A u \in Rest : /\ u = <<u[1], u[2]>> /\ u[1] \in Nat /\ u[2] \in 1..MaxEvents
                          /\ u[1] - 1 \in 1..Len(pipe) - 1 /\ (u[1] - 1) + 1 = u[1]
                          /\ u[2] <= pipe[u[1]][1]
      <3> SUFFICES ASSUME NEW u \in Rest
                   PROVE  /\ u = <<u[1], u[2]>> /\ u[1] \in Nat /\ u[2] \in 1..MaxEvents
                          /\ u[1] - 1 \in 1..Len(pipe) - 1 /\ (u[1] - 1) + 1 = u[1]
                          /\ u[2] <= pipe[u[1]][1]
        OBVIOUS
      <3>1. u \in (1..Len(pipe)) \X (1..MaxEvents) /\ u[2] <= pipe[u[1]][1] /\ u[1] # 1
        BY DEF ToReport
      <3>2. u = <<u[1], u[2]>> /\ u[1] \in 1..Len(pipe) /\ u[2] \in 1..MaxEvents
        BY <3>1
      <3>3. PICK i \in 1..Len(pipe) : i = u[1]
        BY <3>2
      <3>4. i \in Nat /\ i - 1 \in 1..Len(pipe) - 1 /\ (i - 1) + 1 = i
        <4>1. i # 1
          BY <3>1, <3>3
        <4>2. Len(pipe) \in Nat
          BY <1>2
        <4> HIDE DEF Rest
        <4> QED
          BY <4>1, <4>2
      <3> QED
        BY <3>1, <3>2, <3>3, <3>4
    <2> HIDE DEF Rest
    <2>7. ASSUME NEW u \in Rest
          PROVE  <<u[1] - 1, u[2]>> \in ToReport'
      <3>1. pipe'[u[1] - 1] = pipe[u[1]]
        BY <1>3, <2>6
      <3>2. PICK i \in 1..Len(pipe) - 1, j \in 1..MaxEvents : i = u[1] - 1 /\ j = u[2]
        BY <2>6
      <3>3. j <= pipe'[i][1]
        BY <2>6, <3>1, <3>2
      <3>4. <<i, j>> \in ToReport'
        BY <2>1, <3>2, <3>3
      <3> QED
        BY <3>2, <3>4
    <2>8. \A u, v \in Rest : <<u[1] - 1, u[2]>> = <<v[1] - 1, v[2]>> => u = v
      <3> SUFFICES ASSUME NEW u \in Rest, NEW v \in Rest, u[1] - 1 = v[1] - 1, u[2] = v[2]
                   PROVE  u = v
        OBVIOUS
      <3>1. u[1] = v[1]
        BY <2>6
      <3> QED
        BY <2>6, <3>1
    <2>9. f \in [Rest -> ToReport'] /\ \A u, v \in Rest : f[u] = f[v] => u = v
      BY <2>7, <2>8
    <2>10. f \in Injection(Rest, ToReport')
      BY <2>9 DEF Injection, IsInjective
    <2> HIDE DEF f
    <2>11. Cardinality(Rest) <= Cardinality(ToReport')
      BY <2>4, <2>10, FS_Injection
    <2> QED
      BY <2>4, <2>5, <2>11, FS_CardinalityType
  <1>12. Cardinality(ToReport) <= Cardinality(Rest) + m[1]
    <2>1. \A u \in Rest : u[1] # 1
      OBVIOUS
    <2> HIDE DEF Rest
    <2>2. /\ IsFiniteSet(Rest \cup ({1} \X (1..m[1])))
          /\ Cardinality(Rest \cup ({1} \X (1..m[1]))) = Cardinality(Rest) + m[1]
      BY <1>6, <1>11, <2>1, Marks
    <2>3. Cardinality(ToReport) <= Cardinality(Rest \cup ({1} \X (1..m[1])))
      BY <1>10, <2>2, FS_Subset
    <2> QED
      BY <2>2, <2>3
  <1> HIDE DEF Rest
  <1>13. Accounted'
    <2> SUFFICES ASSUME faults' = 0
                 PROVE  Cardinality(Lost') <= Cardinality(Skips') + skipped + Cardinality(ToReport')
      BY <1>1 DEF Accounted
    <2>1. faults = 0 /\ ok
      BY <1>7
    <2>2. Cardinality(Lost) <= Cardinality(Skips) + skipped + Cardinality(ToReport)
      BY <1>1, <2>1 DEF LossInv, Accounted, Reconciles
    <2>3. Cardinality(Lost') <= Cardinality(Lost) /\ Cardinality(Lost') \in Nat
      BY <1>8, <1>9, <2>1, FS_Subset, FS_CardinalityType
    <2>4. Cardinality(Skips) + m[1] <= Cardinality(Skips')
      <3>1. CASE IsEvent(id)
        <4>1. m[1] = 0
          BY <1>5, <3>1 DEF IsEvent
        <4> QED
          BY <1>7, <1>8, <4>1
      <3>2. CASE ~IsEvent(id)
        <4>1. Cardinality(Skips') = Cardinality(Skips) + m[1]
          BY <1>5, <1>7, <2>1, <3>2
        <4> QED
          BY <1>6, <1>7, <1>8, <4>1
      <3> QED
        BY <3>1, <3>2
    <2>5. Cardinality(ToReport) <= Cardinality(ToReport') + m[1]
      BY <1>6, <1>8, <1>11, <1>12
    <2> QED
      BY <1>2, <1>6, <1>7, <1>8, <1>11, <2>2, <2>3, <2>4, <2>5, Sums
  <1> QED
    BY <1>7, <1>13 DEF LossInv

\* What is kept is in the history that is read, and nothing leaves the streams.
LEMMA ReadAccounts == ASSUME LogInv, OrderInv, LossInv, ReadHistory PROVE LossInv'
  <1>1. /\ phase = "resumed" /\ phase' = "reconciling" /\ todo' = history
        /\ UNCHANGED <<log, emitted, history, since, buffer, skipped, pipe, faults>>
    BY DEF ReadHistory, durableVars, streamVars
  <1>2. IsFiniteSet(log') /\ ReportsNumbered' /\ Skips' = Skips /\ ToReport' = ToReport
    BY <1>1 DEF LossInv, ReportsNumbered, Skips, Reports, ToReport
  <1>3. /\ Cardinality(Lost) \in Nat /\ Cardinality(Skips) \in Nat /\ Cardinality(ToReport) \in Nat
        /\ skipped \in Nat /\ IsFiniteSet(Lost)
    BY Countable, Sizes DEF LossInv
  <1>4. ASSUME NEW n \in Lost'
        PROVE  n \in Lost
    BY <1>1 DEF OrderInv, Reading, Lost, Due, OnItsWay, Logged
  <1>5. Accounted'
    <2> SUFFICES ASSUME faults = 0
                 PROVE  Cardinality(Lost') <= Cardinality(Skips) + skipped + Cardinality(ToReport)
      BY <1>1, <1>2 DEF Accounted
    <2>1. Cardinality(Lost) <= Cardinality(Skips) + skipped + Cardinality(ToReport)
      BY <1>1 DEF LossInv, Accounted
    <2>2. Cardinality(Lost') <= Cardinality(Lost) /\ Cardinality(Lost') \in Nat
      BY <1>3, <1>4, FS_Subset, FS_CardinalityType
    <2> QED
      BY <1>3, <2>1, <2>2
  <1> QED
    BY <1>2, <1>5 DEF LossInv

\* What leaves the history is logged, or ends the restore.
LEMMA ReconcileAccounts == ASSUME LogInv, LossInv, Reconcile PROVE LossInv'
  <1>1. phase = "reconciling" /\ UNCHANGED <<emitted, history, since, buffer, skipped, pipe>>
    BY DEF Reconcile, streamVars
  <1>n. PICK n \in todo : n = Oldest(todo)
    <2>1. todo \in SUBSET Nat /\ todo # {}
      BY Sizes DEF Reconcile
    <2> QED
      BY <2>1, LeastExists DEF Oldest, Min
  <1>2. /\ IsFiniteSet(Lost) /\ Cardinality(Lost) \in Nat /\ Cardinality(Skips) \in Nat
        /\ Cardinality(ToReport) \in Nat /\ skipped \in Nat /\ ToReport' = ToReport
    BY <1>1, Countable, Sizes DEF LossInv, ToReport
  <1>3. CASE Logged(Event(n)) /\ todo' = todo \ {n} /\ UNCHANGED <<log, faults, phase>>
    <2>1. \A k \in Lost' : k \in Lost
      BY <1>1, <1>3 DEF Lost, Due, Reconciles, OnItsWay, Logged
    <2>2. Cardinality(Lost') <= Cardinality(Lost) /\ Cardinality(Lost') \in Nat
      BY <1>2, <2>1, FS_Subset, FS_CardinalityType
    <2>3. IsFiniteSet(log') /\ ReportsNumbered' /\ Skips' = Skips
      BY <1>3 DEF LossInv, ReportsNumbered, Skips, Reports
    <2>4. Accounted'
      <3> SUFFICES ASSUME faults = 0
                   PROVE  Cardinality(Lost') <= Cardinality(Skips) + skipped + Cardinality(ToReport)
        BY <1>1, <1>2, <1>3, <2>3 DEF Accounted
      <3>1. Cardinality(Lost) <= Cardinality(Skips) + skipped + Cardinality(ToReport)
        BY <1>1 DEF LossInv, Accounted, Reconciles
      <3> QED
        BY <1>2, <2>2, <3>1
    <2> QED
      BY <2>3, <2>4 DEF LossInv
  <1>4. CASE \E ok \in BOOLEAN : /\ AppendEvent(Event(n), ok)
                                 /\ IF ok THEN todo' = todo \ {n} /\ UNCHANGED phase
                                    ELSE todo' = {} /\ phase' = "down"
    <2>1. PICK ok \in BOOLEAN : /\ AppendEvent(Event(n), ok)
                                /\ ok => todo' = todo \ {n} /\ UNCHANGED phase
      BY <1>4
    <2>2. Event(n) \in Id /\ IsEvent(Event(n))
      <3>1. n \in 0..MaxEvents
        BY <1>n, EventLogAssumption DEF LogInv, TypeOK
      <3> QED
        BY <3>1, Kinds
    <2>3. /\ IsFiniteSet(log') /\ ReportsNumbered' /\ log \subseteq log'
          /\ faults' = 0 => faults = 0 /\ ok
          /\ ok => Logged(Event(n))'
          /\ IsFiniteSet(Skips') /\ Cardinality(Skips') \in Nat
          /\ Cardinality(Skips) <= Cardinality(Skips')
      BY <1>1, <2>1, <2>2, AppendAccounts DEF Logged
    <2>4. Accounted'
      <3> SUFFICES ASSUME faults' = 0
                   PROVE  Cardinality(Lost') <= Cardinality(Skips') + skipped + Cardinality(ToReport)
        BY <1>1, <1>2 DEF Accounted
      <3>1. faults = 0 /\ ok
        BY <2>3
      <3>2. ASSUME NEW k \in Lost'
            PROVE  k \in Lost
        <4>1. /\ k \in Due /\ ~Logged(Event(k))' /\ k \notin todo'
              /\ (\A i \in 1..Len(buffer) : buffer[i] # Event(k))
              /\ (\A i \in 1..Len(pipe) : pipe[i] # Event(k))
          BY <1>1, <2>1, <3>1 DEF Lost, Due, Reconciles, OnItsWay, Logged
        <4>2. ~Logged(Event(k))
          BY <2>3, <4>1 DEF Logged
        <4>3. k \notin todo
          BY <2>1, <2>3, <3>1, <4>1
        <4> QED
          BY <4>1, <4>2, <4>3 DEF Lost, OnItsWay
      <3>3. Cardinality(Lost') <= Cardinality(Lost) /\ Cardinality(Lost') \in Nat
        BY <1>2, <3>2, FS_Subset, FS_CardinalityType
      <3>4. Cardinality(Lost) <= Cardinality(Skips) + skipped + Cardinality(ToReport)
        BY <1>1, <3>1 DEF LossInv, Accounted, Reconciles
      <3> QED
        BY <1>2, <2>3, <3>3, <3>4
    <2> QED
      BY <2>3, <2>4 DEF LossInv
  <1> QED
    BY <1>n, <1>3, <1>4 DEF Reconcile

LEMMA LossInit == Init => LossInv
  <1> SUFFICES ASSUME Init PROVE LossInv
    OBVIOUS
  <1>1. log = {} /\ emitted = 0 /\ skipped = 0 /\ pipe = <<>> /\ Len(pipe) = 0
    BY DEF Init
  <1>2. Lost = {} /\ Skips = {} /\ ToReport = {}
    BY <1>1 DEF Lost, Due, Skips, Reports, ToReport
  <1>3. Cardinality({}) <= Cardinality({}) + 0 + Cardinality({})
    BY FS_EmptySet
  <1> QED
    BY <1>1, <1>2, <1>3, FS_EmptySet DEF LossInv, ReportsNumbered, Reports, Accounted

LEMMA LossNext == LogInv /\ OrderInv /\ LossInv /\ [Next]_vars => LossInv'
  <1> SUFFICES ASSUME LogInv, OrderInv, LossInv, [Next]_vars
               PROVE  LossInv'
    OBVIOUS
  <1>0. faults \in Nat
    BY Sizes
  <1>1. CASE Emit
    BY <1>1, EmitAccounts
  <1>2. CASE Forward
    BY <1>2, ForwardAccounts
  <1>3. CASE Receive
    BY <1>3, ReceiveAccounts
  <1>4. CASE ReadHistory
    BY <1>4, ReadAccounts
  <1>5. CASE Reconcile
    BY <1>5, ReconcileAccounts
  <1>6. CASE DeleteOld \/ InsertNew
    <2>1. UNCHANGED <<log, emitted, history, since, todo, buffer, skipped, pipe>>
      BY <1>6 DEF DeleteOld, InsertNew, streamVars
    <2>2. faults' = 0 => faults = 0
      <3>1. \E ok \in BOOLEAN : Works(ok)
        BY <1>6 DEF DeleteOld, InsertNew
      <3> QED
        BY <1>0, <3>1 DEF Works
    <2>3. phase' = phase \/ \E ok \in BOOLEAN : Written(ok)
      BY <1>6 DEF DeleteOld, InsertNew
    <2>4. (Reconciles' => Reconciles) /\ (phase' = "resumed" => phase = "resumed")
      BY <2>3 DEF Written, Reconciles
    <2> QED
      BY <2>1, <2>2, <2>4, QuietAccounts
  <1>7. CASE RuntimeEnds \/ (\E a \in Notes : TakeNote(a)) \/ End \/ Reconciled \/ UNCHANGED vars
    <2>1. UNCHANGED <<log, emitted, history, since, todo, buffer, skipped, pipe, faults>>
      BY <1>7 DEF RuntimeEnds, TakeNote, End, Reconciled, vars, durableVars, streamVars, actorVars
    <2>2. (Reconciles' => Reconciles) /\ (phase' = "resumed" => phase = "resumed")
      BY <1>7 DEF RuntimeEnds, TakeNote, End, Reconciled, vars, actorVars, Reconciles
    <2> QED
      BY <2>1, <2>2, QuietAccounts
  <1>8. CASE Crash \/ RestoreFails \/ Recover
    <2>1. UNCHANGED <<log, faults>>
      BY <1>8 DEF Crash, RestoreFails, Recover, durableVars
    <2>2. phase' \in {"down", "recovered"}
      BY <1>8 DEF Crash, RestoreFails, Recover
    <2>3. ~Reconciles' /\ phase' # "resumed"
      BY <2>2 DEF Reconciles
    <2> QED
      BY <2>1, <2>3, QuietAccounts
  <1>9. CASE Resume
    <2>1. /\ UNCHANGED <<log, emitted, skipped, pipe>> /\ since' = emitted /\ phase' = "resumed"
          /\ emitted \in Nat
      BY <1>9, Sizes DEF Resume, durableVars, streamVars
    <2>2. Lost' = {}
      BY <2>1 DEF Lost, Due, Reconciles
    <2> QED
      BY <2>1, <2>2, NothingAccounts
  <1> QED
    BY <1>1, <1>2, <1>3, <1>4, <1>5, <1>6, <1>7, <1>8, <1>9 DEF Next

\* In a live session whose streams are empty the history is logged, and so is what was
\* emitted since the session subscribed, but for as many events as the log says were
\* skipped, as long as no write failed.
THEOREM LossIsReported == Spec => []NothingLost
  <1>1. LogInv /\ OrderInv /\ LossInv => NothingLost
    <2> SUFFICES ASSUME LogInv, OrderInv, LossInv, faults = 0, IsReady,
                        buffer = <<>>, skipped = 0, pipe = <<>>
                 PROVE  Cardinality(Missing) <= Cardinality(Skips)
      BY DEF NothingLost
    <2>1. phase = "live" /\ todo = {} /\ Len(buffer) = 0 /\ Len(pipe) = 0
      BY DEF IsReady, OrderInv, Reading
    <2>2. Due = Owed
      BY <2>1, Sizes DEF Due, Owed, Reconciles
    <2>3. Missing = Lost /\ ToReport = {}
      BY <2>1, <2>2 DEF Missing, Lost, OnItsWay, ToReport
    <2>4. Cardinality(Lost) <= Cardinality(Skips) + skipped + Cardinality(ToReport)
      BY <2>1 DEF LossInv, Accounted, Reconciles
    <2>5. Cardinality(ToReport) = 0 /\ Cardinality(Skips) \in Nat
      BY <2>3, FS_EmptySet, Countable DEF LossInv
    <2>6. Cardinality(Lost) \in Nat
      BY Countable DEF LossInv
    <2> QED
      BY <2>3, <2>4, <2>5, <2>6
  <1>2. Spec => []OrderInv
    BY OrderInit, OrderNext, LogAlways, PTL DEF Spec
  <1>3. Spec => []LossInv
    BY <1>2, LossInit, LossNext, LogAlways, PTL DEF Spec
  <1> QED
    BY <1>1, <1>2, <1>3, LogAlways, PTL

=============================================================================
