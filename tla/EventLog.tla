------------------------------ MODULE EventLog ------------------------------
(***************************************************************************)
(* How the events of one session reach the durable event log and the       *)
(* session's state, and how both are recovered.                            *)
(*                                                                         *)
(* The runtime emits events into a broadcast buffer that forgets the       *)
(* oldest one when it is full.  A forwarding task moves them into a pipe,  *)
(* and reports how many it missed.  The session's actor gives each event   *)
(* the next sequence number, appends it to the log, applies it to its      *)
(* state and now and then stores the state as the session's one snapshot,  *)
(* deleting the old snapshot first.  A restore reads the snapshot, replays *)
(* the log after it, subscribes, and then appends what the runtime's own   *)
(* history has and the log has not.  That history has whole messages only: *)
(* the output that a turn streams before one is complete never enters it.  *)
(***************************************************************************)
EXTENDS Naturals, Sequences, FiniteSetsExt

CONSTANTS
    None,
    Notes,       \* permission requests and answers: state no event carries
    Interval,    \* a snapshot is stored at each multiple (50 in the program)
    Buffer,      \* room in the runtime's broadcast buffer
    Pipe,        \* room in the pipe to the actor (512 in the program)
    MaxEvents,   \* bound: events the runtime emits
    MaxEnds,     \* bound: crashes, closed sessions and lost runtimes, together
    MaxFaults    \* bound: failed database calls

ASSUME EventLogAssumption ==
    /\ Interval \in Nat \ {0} /\ Buffer \in Nat \ {0} /\ Pipe \in Nat \ {0}
    /\ MaxEvents \in Nat /\ MaxEnds \in Nat /\ MaxFaults \in Nat

VARIABLES
    log,       \* durable: table domain_events
    snap,      \* durable: the row of table snapshots, or None
    emitted,   \* the runtime: how many events it emitted
    history,   \* the runtime: those of them that its history keeps
    runtime,   \* the runtime runs
    buffer,    \* the subscription: events not yet forwarded
    skipped,   \* the subscription: events forgotten and not yet reported
    pipe,      \* what the forwarding task has sent to the actor
    phase,     \* how far the session's task is
    todo,      \* the runtime's history as it was read, what is left of it
    writing,   \* which statement of write_snapshot is next
    state,     \* the state in memory
    kept,      \* notes some stored snapshot held (history, for a property)
    torn,      \* a crash found the snapshot deleted (history, for a property)
    since,     \* emitted when the session subscribed last (history, for a property)
    ends, faults \* bounds

durableVars == <<log, snap, kept, torn>>
streamVars  == <<runtime, buffer, skipped, pipe>>
actorVars   == <<phase, todo, writing, state>>
sourceVars  == <<emitted, history>>
vars == <<durableVars, sourceVars, since, streamVars, actorVars, ends, faults>>

-----------------------------------------------------------------------------
\* What travels to the actor: an event, a report of missed ones, or the end.
Event(n)   == <<0, n>>
Lagged(k)  == <<k, 0>>
Closed     == <<0, 0>>
IsEvent(m) == m[1] = 0

\* Identities: an event's own, or "lagged-<sequence>-<count>".
Id    == (0..MaxEvents) \X Nat
Row   == [seq : Nat, id : Id]
State == [last : Nat, shown : SUBSET Row, notes : SUBSET Notes]
Phase == {"down", "recovered", "resumed", "reconciling", "storing", "live", "ending"}

ASSUME NoneIsNoState == None \notin State

Fresh == [last |-> 0, shown |-> {}, notes |-> {}]
Logged(id) == \E r \in log : r.id = id

\* A database call succeeds or fails.
Works(ok) ==
    IF ok THEN UNCHANGED faults ELSE faults < MaxFaults /\ faults' = faults + 1

-----------------------------------------------------------------------------
(* The runtime and the forwarding task.                                    *)

\* Mutant: the session subscribes once its history is read.
SubscribedLate == phase \in {"storing", "live", "ending"}

Subscribed == phase \notin {"down", "recovered"}

Room(q, n) == Len(q) < n

\* Only a prompt sets a turn going, and only a session that is up sends one.
MayStream == phase \in {"live", "ending"}

\* An event that the history keeps, or one that a turn only streams.
Emit ==
    /\ runtime /\ emitted < MaxEvents
    /\ emitted' = emitted + 1
    /\ \/ history' = history \cup {emitted + 1}
       \/ MayStream /\ UNCHANGED history
    /\ IF ~Subscribed THEN UNCHANGED <<buffer, skipped>>
       ELSE IF Room(buffer, Buffer)
       THEN buffer' = Append(buffer, Event(emitted + 1)) /\ UNCHANGED skipped
       ELSE /\ buffer' = Append(Tail(buffer), Event(emitted + 1))
            /\ skipped' = skipped + 1
    /\ UNCHANGED <<durableVars, since, runtime, pipe, actorVars, ends, faults>>

RuntimeEnds ==
    /\ runtime /\ ends < MaxEnds
    /\ ends' = ends + 1
    /\ runtime' = FALSE
    /\ UNCHANGED <<durableVars, sourceVars, since, buffer, skipped, pipe, actorVars, faults>>

\* Mutant: the task does not say that it missed something.
ForwardSilently ==
    /\ Subscribed /\ Room(pipe, Pipe)
    /\ Closed \notin {pipe[i] : i \in 1..Len(pipe)}
    /\ IF buffer # <<>>
       THEN pipe' = Append(pipe, Head(buffer)) /\ buffer' = Tail(buffer)
       ELSE ~runtime /\ pipe' = Append(pipe, Closed) /\ UNCHANGED buffer
    /\ skipped' = 0
    /\ UNCHANGED <<durableVars, sourceVars, since, runtime, actorVars, ends, faults>>

\* The task that register spawned: a report of what was missed comes first, the
\* end of the stream last.
Forward ==
    /\ Subscribed /\ Room(pipe, Pipe)
    /\ Closed \notin {pipe[i] : i \in 1..Len(pipe)}
    /\ IF skipped > 0
       THEN pipe' = Append(pipe, Lagged(skipped)) /\ UNCHANGED buffer
       ELSE IF buffer # <<>>
       THEN pipe' = Append(pipe, Head(buffer)) /\ buffer' = Tail(buffer)
       ELSE ~runtime /\ pipe' = Append(pipe, Closed) /\ UNCHANGED buffer
    /\ skipped' = 0
    /\ UNCHANGED <<durableVars, sourceVars, since, runtime, actorVars, ends, faults>>

-----------------------------------------------------------------------------
(* The log and the state.                                                  *)

\* INSERT OR IGNORE: neither the sequence number nor the identity is taken.
IsNew(row) == \A r \in log : r.seq # row.seq /\ r.id # row.id

\* SessionSnapshot::apply.
Applied(s, row) == [s EXCEPT !.last = row.seq, !.shown = @ \cup {row}]

\* Mutant: an event that could not be stored is shown nevertheless.
AppendShown(id, ok) ==
    LET row == [seq |-> state.last + 1, id |-> id]
    IN /\ Works(ok)
       /\ log' = IF ok /\ IsNew(row) THEN log \cup {row} ELSE log
       /\ state' = IF IsNew(row) THEN Applied(state, row) ELSE state

\* append_event_with_output, and what apply_raw and reconcile_history make of its
\* three outcomes: stored, already there, or failed.
AppendEvent(id, ok) ==
    LET row == [seq |-> state.last + 1, id |-> id]
    IN /\ Works(ok)
       /\ \/ ~ok /\ UNCHANGED <<log, state>>
          \/ ok /\ IsNew(row) /\ log' = log \cup {row} /\ state' = Applied(state, row)
          \/ ok /\ ~IsNew(row) /\ UNCHANGED log /\ state' = [state EXCEPT !.last = row.seq]

IsReady == phase = "live" /\ writing = "none"

\* apply_raw: whether the session is at rest after the event is left open.
Receive ==
    /\ IsReady /\ pipe # <<>> /\ Head(pipe) # Closed
    /\ pipe' = Tail(pipe)
    /\ \E ok, rests \in BOOLEAN :
        LET m  == Head(pipe)
            id == IF IsEvent(m) THEN m ELSE <<m[1], state.last + 1>>
        IN /\ AppendEvent(id, ok)
           /\ writing' = IF state'.shown # state.shown
                            /\ (rests \/ state'.last % Interval = 0)
                         THEN "delete" ELSE "none"
    /\ UNCHANGED <<snap, kept, torn, sourceVars, since, runtime, buffer, skipped, phase, todo,
                   ends>>

\* Mutant: the newest note replaces the others.
NotedOnly(a) == [state EXCEPT !.notes = {a}]

Noted(a) == [state EXCEPT !.notes = @ \cup {a}]

\* receive_interaction and respond: recorded in the state and stored at once.
TakeNote(a) ==
    /\ IsReady /\ a \notin state.notes
    /\ state' = Noted(a) /\ writing' = "delete"
    /\ UNCHANGED <<durableVars, sourceVars, since, streamVars, phase, todo, ends, faults>>

-----------------------------------------------------------------------------
(* write_snapshot: two statements, and no transaction around them.         *)

\* Down with the snapshot deleted and the new one not stored.
Tears(down) == torn' = (torn \/ (down /\ snap' = None /\ kept # {}))

\* What follows the write: a restore's failed one ends the restore.
Written(ok) ==
    /\ writing' = "none"
    /\ phase' = CASE phase = "storing" -> IF ok THEN "live" ELSE "down"
                  [] phase = "ending"  -> "down"
                  [] OTHER             -> phase
    /\ Tears(phase' = "down")

DeleteOld ==
    /\ writing = "delete"
    /\ \E ok \in BOOLEAN :
        /\ Works(ok)
        /\ snap' = IF ok /\ snap # None /\ snap.last # state.last THEN None ELSE snap
        /\ IF ok THEN writing' = "insert" /\ UNCHANGED <<phase, torn>> ELSE Written(FALSE)
    /\ UNCHANGED <<log, kept, sourceVars, since, streamVars, todo, state, ends>>

InsertNew ==
    /\ writing = "insert"
    /\ \E ok \in BOOLEAN :
        /\ Works(ok)
        /\ snap' = IF ok THEN state ELSE snap
        /\ kept' = IF ok THEN kept \cup state.notes ELSE kept
        /\ Written(ok)
    /\ UNCHANGED <<log, sourceVars, since, streamVars, todo, state, ends>>

-----------------------------------------------------------------------------
(* Ending and restoring.                                                   *)

\* disconnect, and handle_provider_closed once the pipe is read to its end.
End ==
    /\ IsReady
    /\ \/ ends < MaxEnds /\ ends' = ends + 1
       \/ pipe # <<>> /\ Head(pipe) = Closed /\ UNCHANGED ends
    /\ phase' = "ending" /\ writing' = "delete"
    /\ UNCHANGED <<durableVars, sourceVars, since, streamVars, todo, state, faults>>

Silent == buffer' = <<>> /\ skipped' = 0 /\ pipe' = <<>>

\* The process dies, in whatever it was doing.
Crash ==
    /\ phase # "down" /\ ends < MaxEnds
    /\ ends' = ends + 1
    /\ phase' = "down" /\ writing' = "none" /\ todo' = {}
    /\ runtime' = FALSE /\ Silent
    /\ UNCHANGED snap /\ Tears(TRUE)
    /\ UNCHANGED <<log, kept, sourceVars, since, state, faults>>

\* Mutant: the sequence number stays that of the snapshot.
RecoveredBehind ==
    LET base == IF snap = None THEN Fresh ELSE snap
    IN [base EXCEPT !.shown = @ \cup {r \in log : r.seq > base.last}]

\* recover_session: the snapshot, or a new state, and the rows after it.
Recovered ==
    LET base  == IF snap = None THEN Fresh ELSE snap
        later == {r \in log : r.seq > base.last}
    IN [base EXCEPT !.last = Max({@} \cup {r.seq : r \in later}),
                    !.shown = @ \cup later]

Recover ==
    /\ phase = "down"
    /\ phase' = "recovered" /\ state' = Recovered
    /\ runtime' = TRUE /\ Silent
    /\ UNCHANGED <<durableVars, sourceVars, since, todo, writing, ends, faults>>

\* resume_session returns a subscription to what is emitted from here on.
Resume ==
    /\ phase = "recovered" /\ runtime
    /\ phase' = "resumed" /\ since' = emitted
    /\ UNCHANGED <<durableVars, sourceVars, streamVars, todo, writing, state, ends, faults>>

\* history: every event kept up to now.
ReadHistory ==
    /\ phase = "resumed" /\ runtime
    /\ phase' = "reconciling" /\ todo' = history
    /\ UNCHANGED <<durableVars, sourceVars, since, streamVars, writing, state, ends, faults>>

\* Mutant: the newest comes first.
Newest(S) == Max(S)

Oldest(S) == Min(S)

\* reconcile_history, one event of the history after the other; a failed append
\* ends the restore.
Reconcile ==
    /\ phase = "reconciling" /\ todo # {}
    /\ LET n == Oldest(todo)
       IN IF Logged(Event(n))
          THEN todo' = todo \ {n} /\ UNCHANGED <<log, state, faults, phase>>
          ELSE \E ok \in BOOLEAN :
                 /\ AppendEvent(Event(n), ok)
                 /\ IF ok THEN todo' = todo \ {n} /\ UNCHANGED phase
                    ELSE todo' = {} /\ phase' = "down"
    /\ UNCHANGED <<snap, kept, torn, sourceVars, since, streamVars, writing, ends>>

\* The rest of the restore, up to its write_snapshot.
Reconciled ==
    /\ phase = "reconciling" /\ todo = {}
    /\ phase' = "storing" /\ writing' = "delete"
    /\ UNCHANGED <<durableVars, sourceVars, since, streamVars, todo, state, ends, faults>>

\* The runtime does not answer the restore.
RestoreFails ==
    /\ phase \in {"recovered", "resumed", "reconciling"} /\ ~runtime
    /\ phase' = "down" /\ todo' = {} /\ UNCHANGED snap /\ Tears(TRUE)
    /\ UNCHANGED <<log, kept, sourceVars, since, streamVars, writing, state, ends, faults>>

-----------------------------------------------------------------------------
Init ==
    /\ log = {} /\ snap = None /\ kept = {} /\ torn = FALSE
    /\ emitted = 0 /\ history = {} /\ since = 0 /\ runtime = TRUE
    /\ buffer = <<>> /\ skipped = 0 /\ pipe = <<>>
    /\ phase = "live" /\ todo = {} /\ writing = "none" /\ state = Fresh
    /\ ends = 0 /\ faults = 0

Next ==
    \/ Emit \/ RuntimeEnds \/ Forward
    \/ Receive \/ DeleteOld \/ InsertNew \/ \E a \in Notes : TakeNote(a)
    \/ End \/ Crash
    \/ Recover \/ Resume \/ ReadHistory \/ Reconcile \/ Reconciled \/ RestoreFails

Spec == Init /\ [][Next]_vars

-----------------------------------------------------------------------------
(* Properties.                                                             *)

Message == Id \cup {Lagged(k) : k \in 1..MaxEvents}

TypeOK ==
    /\ log \subseteq Row /\ snap \in State \cup {None}
    /\ kept \subseteq Notes /\ torn \in BOOLEAN
    /\ emitted \in 0..MaxEvents /\ history \subseteq 1..emitted
    /\ since \in 0..emitted /\ runtime \in BOOLEAN
    /\ buffer \in Seq(Message) /\ Len(buffer) <= Buffer
    /\ skipped \in 0..MaxEvents
    /\ pipe \in Seq(Message) /\ Len(pipe) <= Pipe
    /\ phase \in Phase /\ todo \subseteq 1..MaxEvents
    /\ writing \in {"none", "delete", "insert"} /\ state \in State
    /\ ends \in 0..MaxEnds /\ faults \in 0..MaxFaults

\* apply_raw takes "already there" for a duplicate, and INSERT OR IGNORE says it of
\* a number in use too: no new event is dropped for a number in use, because each
\* event and each number is logged once and the actor counts on from the last,
\* also after a crash, a refused duplicate or a lost snapshot.
NumbersAreNew ==
    /\ \A r, q \in log : r.seq = q.seq \/ r.id = q.id => r = q
    /\ phase # "down" => \A r \in log : r.seq <= state.last

\* "Events are appended before reducer publication", and replayed after the
\* snapshot: what the session shows is exactly what its log holds, whatever
\* failed, however often it was restored, with or without its snapshot.
ScreenIsLog == phase # "down" => state.shown = log

\* What the session has a chance to see: what the history keeps, and what was
\* streamed since it subscribed.
Owed    == history \cup {n \in 1..emitted : n > since}
Missing == {n \in Owed : ~Logged(Event(n))}
Reports == {r \in log : ~IsEvent(r.id)}

\* One for each event that the log says was skipped.
Skips == {u \in Reports \X (1..MaxEvents) : u[2] <= u[1].id[1]}

\* register and reconcile_history: in a live session whose streams are empty every
\* event of the runtime's history is logged, and so is every event emitted since the
\* session subscribed, in the history or only streamed, but for as many as the log
\* says were skipped.  (What a turn only streamed to a session that ended is gone.)
NothingLost ==
    faults = 0 /\ IsReady /\ buffer = <<>> /\ skipped = 0 /\ pipe = <<>> =>
        Cardinality(Missing) <= Cardinality(Skips)

\* "the transcript reads in the order things happened": as long as nothing was
\* skipped and no write failed, the log is in the runtime's order, although a
\* restore appends what was missed after what was seen.
OrderKept ==
    faults = 0 /\ Reports = {} =>
        \A r, q \in log : r.id[2] < q.id[2] => r.seq < q.seq

\* write_snapshot: what no event carries and a snapshot once held is kept by every
\* later one, unless the session went down between the two statements.
NotesKept ==
    ~torn => IF phase = "down" THEN kept = {} \/ kept \subseteq snap.notes
             ELSE kept \subseteq state.notes

=============================================================================
