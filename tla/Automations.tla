----------------------------- MODULE Automations -----------------------------
(***************************************************************************)
(* Scheduled automations: when they fall due, the one run each may have at *)
(* a time, and what is left of a run that failed or was cut off.           *)
(*                                                                         *)
(* The service thread looks every 15 seconds for automations that are due  *)
(* and saves, deletes and starts them for the user.  Each run is a task of *)
(* its own: it notes itself in the database, makes a session nobody looks  *)
(* at, sends it a prompt or two, waits for the turns, and takes the        *)
(* session away again.  The actor of that session hears the runtime's      *)
(* events.  Time is in minutes and goes on while the program is closed.    *)
(***************************************************************************)
EXTENDS Naturals, FiniteSets

CONSTANTS
    Autos,        \* automations
    Conditional,  \* those with a condition
    Runs,         \* identifiers of runs; each run makes at most one session
    Intervals,    \* lengths of interval schedules
    Calendars,    \* calendar schedules: the sets of their occurrences
    Grain,        \* what occurrences are rounded to (5 in the program)
    None,
    MaxTime,      \* bound of the clock
    MaxEdits,     \* bound: automations saved and deleted
    MaxTroubles   \* bound: failed database calls, stray events and crashes

ASSUME AutomationsAssumption ==
    /\ None \notin Autos \cup Runs \cup Nat
    /\ Conditional \subseteq Autos /\ IsFiniteSet(Autos) /\ IsFiniteSet(Runs)
    /\ Intervals \subseteq Nat \ {0} /\ Calendars \subseteq SUBSET Nat
    /\ Grain \in Nat \ {0} /\ MaxTime \in Nat /\ MaxEdits \in Nat /\ MaxTroubles \in Nat

VARIABLES
    autos,     \* durable: the schedule of each automation, or None
    rows,      \* durable: automation_runs
    sessions,  \* durable: runs whose session has a row
    running,   \* automations with a run in flight
    task,      \* what the task of each run does; its occurrence is kept (history)
    status,    \* the status of a run's session, as its actor has it
    moved,     \* the session's last_sequence is past what the prompt saw
    turn,      \* runtime: what became of the prompt
    spoken,    \* the answer in the transcript since the prompt
    up, now,
    noisy,     \* history: runs whose session had a stray or failed event in its turn
    leaked,    \* history: sessions that a crash or the database left behind
    edits, faults, troubles

durableVars == <<autos, rows, sessions>>
agentVars   == <<status, moved, turn, spoken>>
bounds      == <<edits, faults, troubles>>
vars == <<durableVars, running, task, agentVars, up, now, noisy, leaked, bounds>>

Schedule == [kind : {"interval"}, minutes : Intervals]
            \cup [kind : {"calendar"}, slots : Calendars]
Automation == [schedule : Schedule, enabled : BOOLEAN, next : Nat \cup {None}]
RunStatus  == {"running", "skipped", "succeeded", "failed"}
Row  == [auto : Autos, status : RunStatus, session : BOOLEAN]
Pc   == {"unused", "begin", "create", "note", "ask", "wait", "judge", "close", "erase",
         "finish", "over"}
\* heard: the run ended by what it heard of its turn, not by a time limit or an error.
Task == [at : Pc, auto : Autos \cup {None}, slot : Nat \cup {None}, manual : BOOLEAN,
         asks : {"condition", "action"}, outcome : RunStatus, heard : BOOLEAN]
Unused == [at |-> "unused", auto |-> None, slot |-> None, manual |-> FALSE,
           asks |-> "action", outcome |-> "running", heard |-> FALSE]

At(r, pc) == task[r].at = pc
Goto(r, pc) == task' = [task EXCEPT ![r].at = pc]
EndsAs(r, outcome, pc) == task' = [task EXCEPT ![r].at = pc, ![r].outcome = outcome]
Active(r) == task[r].at \notin {"unused", "over"}
Over(r) == [Unused EXCEPT !.at = "over", !.auto = task[r].auto, !.slot = task[r].slot,
                          !.manual = task[r].manual]

Trouble == troubles < MaxTroubles /\ troubles' = troubles + 1
Works(ok) == IF ok THEN UNCHANGED <<faults, troubles>> ELSE Trouble /\ faults' = faults + 1

-----------------------------------------------------------------------------
(* When an automation is due.                                              *)

FirstAfter(S, t) ==
    LET later == {x \in S : x > t}
    IN  IF later = {} THEN None ELSE CHOOSE x \in later : \A y \in later : x <= y

RoundedUp(t) == ((t + Grain - 1) \div Grain) * Grain

\* AutomationSchedule::next_after.
NextAfter(sched, t) ==
    IF sched.kind = "interval" THEN RoundedUp(t + sched.minutes) ELSE FirstAfter(sched.slots, t)

\* Mutant: the next occurrence may be the one that is due.
NextOccurrenceAgain(sched, slot, t) ==
    IF sched.kind = "interval" THEN slot + sched.minutes * ((t - slot) \div sched.minutes)
    ELSE FirstAfter(sched.slots, t)

\* next_automation_occurrence: an interval stays anchored to the last occurrence, and
\* what was missed collapses into one.
NextOccurrence(sched, slot, t) ==
    IF sched.kind = "interval" THEN slot + sched.minutes * ((t - slot) \div sched.minutes + 1)
    ELSE FirstAfter(sched.slots, t)

\* due_automations.
Due(a) == autos[a] # None /\ autos[a].enabled /\ autos[a].next # None /\ autos[a].next <= now

\* spawn_run: the slot of the automation is claimed.  Identifiers are all alike.
Spawn(a, slot, manual) ==
    /\ a \notin running
    /\ running' = running \cup {a}
    /\ \E r \in Runs : At(r, "unused")
    /\ LET r == CHOOSE r \in Runs : At(r, "unused")
       IN  task' = [task EXCEPT ![r] = [Unused EXCEPT
                      !.at = "begin", !.auto = a, !.slot = slot, !.manual = manual,
                      !.asks = IF a \in Conditional THEN "condition" ELSE "action"]]

\* dispatch_due, for one automation: the schedule goes on before the run begins, and
\* without that it does not begin.
Dispatch(a) ==
    /\ up /\ Due(a) /\ a \notin running
    /\ LET slot == autos[a].next
           next == NextOccurrence(autos[a].schedule, slot, now)
       IN \/ /\ autos' = [autos EXCEPT ![a].next = next, ![a].enabled = next # None]
             /\ Spawn(a, slot, FALSE)
             /\ UNCHANGED <<faults, troubles>>
          \/ Works(FALSE) /\ UNCHANGED <<autos, running, task>>
    /\ UNCHANGED <<rows, sessions, agentVars, up, now, noisy, leaked, edits>>

RunNow(a) ==
    /\ up /\ autos[a] # None
    /\ Spawn(a, now, TRUE)
    /\ UNCHANGED <<durableVars, agentVars, up, now, noisy, leaked, bounds>>

\* What save stores.
Saved(sched, enabled) ==
    [schedule |-> sched, enabled |-> enabled,
     next |-> IF enabled THEN NextAfter(sched, now) ELSE None]

\* save and delete.
Save(a, sched, enabled) ==
    /\ up /\ edits < MaxEdits /\ edits' = edits + 1
    /\ autos' = [autos EXCEPT ![a] = Saved(sched, enabled)]
    /\ UNCHANGED <<rows, sessions, running, task, agentVars, up, now, noisy, leaked,
                   faults, troubles>>

Delete(a) ==
    /\ up /\ autos[a] # None /\ edits < MaxEdits /\ edits' = edits + 1
    /\ autos' = [autos EXCEPT ![a] = None]
    /\ UNCHANGED <<rows, sessions, running, task, agentVars, up, now, noisy, leaked,
                   faults, troubles>>

-----------------------------------------------------------------------------
(* A run: execute, drive, send_prompt.                                     *)

\* persist_run: an error is reported, and the run goes on.
Persist(r, st, session) ==
    \E ok \in BOOLEAN :
        /\ Works(ok)
        /\ rows' = IF ok
                   THEN [rows EXCEPT ![r] = [auto |-> task[r].auto, status |-> st,
                                             session |-> session]]
                   ELSE rows

\* The workspace may be gone.
Begin(r) ==
    /\ At(r, "begin")
    /\ Persist(r, "running", FALSE)
    /\ Goto(r, "create") \/ EndsAs(r, "failed", "finish")
    /\ UNCHANGED <<autos, sessions, running, agentVars, up, now, noisy, leaked, edits>>

\* create_session.
Create(r) ==
    /\ At(r, "create")
    /\ \/ /\ sessions' = sessions \cup {r}
          /\ status' = [status EXCEPT ![r] = "idle"]
          /\ Goto(r, "note")
       \/ EndsAs(r, "failed", "finish") /\ UNCHANGED <<sessions, status>>
    /\ UNCHANGED <<autos, rows, running, moved, turn, spoken, up, now, noisy, leaked, bounds>>

Note(r) ==
    /\ At(r, "note")
    /\ Persist(r, "running", TRUE)
    /\ Goto(r, "ask")
    /\ UNCHANGED <<autos, sessions, running, agentVars, up, now, noisy, leaked, edits>>

\* send_prompt up to its wait.  Sending fails on a session that is gone, or for the runtime.
Send(r) ==
    /\ At(r, "ask")
    /\ \/ /\ status[r] # "disconnected"
          /\ moved' = [moved EXCEPT ![r] = FALSE]
          /\ turn' = [turn EXCEPT ![r] = "asked"]
          /\ spoken' = [spoken EXCEPT ![r] = "nothing"]
          /\ Goto(r, "wait")
       \/ EndsAs(r, "failed", "close") /\ UNCHANGED <<moved, turn, spoken>>
    /\ UNCHANGED <<durableVars, running, status, up, now, noisy, leaked, bounds>>

\* Mutant: an idle snapshot from before the prompt counts.
TurnEndedAnyhow(r) == status[r] \in {"idle", "failed", "disconnected"}

\* wait_for: "keeps a stale idle snapshot from being mistaken for this turn's".
TurnEnded(r) == moved[r] /\ status[r] \in {"idle", "failed", "disconnected"}

Wait(r) ==
    /\ At(r, "wait") /\ TurnEnded(r)
    /\ task' = [task EXCEPT
         ![r].heard = TRUE,
         ![r].at = IF status[r] = "idle" /\ spoken[r] # "nothing" THEN "judge" ELSE "close",
         ![r].outcome = IF status[r] = "idle" /\ spoken[r] # "nothing" THEN @ ELSE "failed"]
    /\ UNCHANGED <<durableVars, running, agentVars, up, now, noisy, leaked, bounds>>

\* RUN_TIMEOUT.
Timeout(r) ==
    /\ At(r, "wait")
    /\ EndsAs(r, "failed", "close")
    /\ UNCHANGED <<durableVars, running, agentVars, up, now, noisy, leaked, bounds>>

\* parse_automation_condition, or the answer to the action itself.  The condition's
\* result is persisted.
Judge(r) ==
    /\ At(r, "judge")
    /\ CASE task[r].asks = "action" ->
              EndsAs(r, "succeeded", "close") /\ UNCHANGED <<rows, faults, troubles>>
         [] task[r].asks = "condition" /\ spoken[r] = "other" ->
              EndsAs(r, "failed", "close") /\ UNCHANGED <<rows, faults, troubles>>
         [] task[r].asks = "condition" /\ spoken[r] = "false" ->
              EndsAs(r, "skipped", "close") /\ Persist(r, "running", TRUE)
         [] task[r].asks = "condition" /\ spoken[r] = "true" ->
              /\ task' = [task EXCEPT ![r].at = "ask", ![r].asks = "action", ![r].heard = FALSE]
              /\ Persist(r, "running", TRUE)
    /\ UNCHANGED <<autos, sessions, running, agentVars, up, now, noisy, leaked, edits>>

\* Nothing is left of the agents of these runs.
Gone(R) ==
    /\ status' = [r \in Runs |-> IF r \in R THEN "none" ELSE status[r]]
    /\ moved'  = [r \in Runs |-> r \notin R /\ moved[r]]
    /\ turn'   = [r \in Runs |-> IF r \in R THEN "none" ELSE turn[r]]
    /\ spoken' = [r \in Runs |-> IF r \in R THEN "nothing" ELSE spoken[r]]
    /\ noisy'  = noisy \ R

\* close_session.
Close(r) ==
    /\ At(r, "close")
    /\ Gone({r})
    /\ Goto(r, "erase")
    /\ UNCHANGED <<durableVars, running, up, now, leaked, bounds>>

\* Mutant: the session of a run that failed is kept.
ErasedIfDone(r) == IF task[r].outcome = "failed" THEN sessions ELSE sessions \ {r}

Erased(r) == sessions \ {r}

\* delete_session: an error is only logged.
Erase(r) ==
    /\ At(r, "erase")
    /\ \E ok \in BOOLEAN :
        /\ Works(ok)
        /\ IF ok THEN sessions' = Erased(r) /\ UNCHANGED leaked
           ELSE leaked' = leaked \cup {r} /\ UNCHANGED sessions
    /\ Goto(r, "finish")
    /\ UNCHANGED <<autos, rows, running, agentVars, up, now, noisy, edits>>

\* Mutant: the run's slot is not given back when the run failed.
ReleasedIfDone(r) == IF task[r].outcome = "failed" THEN running ELSE running \ {task[r].auto}

Released(r) == running \ {task[r].auto}

\* finish_run, and the end of the task.
Finish(r) ==
    /\ At(r, "finish")
    /\ Persist(r, task[r].outcome, rows[r] # None /\ rows[r].session)
    /\ running' = Released(r)
    /\ task' = [task EXCEPT ![r] = Over(r)]
    /\ UNCHANGED <<autos, sessions, agentVars, up, now, noisy, leaked, edits>>

-----------------------------------------------------------------------------
(* The session of a run.                                                   *)

Live(r) == status[r] \notin {"none", "disconnected"}

\* An event that changes no status, as session.resume or session.custom_agents_updated.
StrayEvent(r) ==
    /\ Live(r) /\ Trouble
    /\ moved' = [moved EXCEPT ![r] = TRUE]
    /\ noisy' = noisy \cup {r}
    /\ UNCHANGED <<durableVars, running, task, status, turn, spoken, up, now, leaked,
                   edits, faults>>

\* user.message, assistant.turn_start.
TurnStarts(r) ==
    /\ Live(r) /\ turn[r] \in {"asked", "working"}
    /\ turn' = [turn EXCEPT ![r] = "working"]
    /\ status' = [status EXCEPT ![r] = "running"]
    /\ moved' = [moved EXCEPT ![r] = TRUE]
    /\ UNCHANGED <<durableVars, running, task, spoken, up, now, noisy, leaked, bounds>>

\* The last message of the turn is what counts.
Answers(r) ==
    /\ Live(r) /\ turn[r] = "working" /\ spoken[r] = "nothing"
    /\ \E text \in {"true", "false", "other"} : spoken' = [spoken EXCEPT ![r] = text]
    /\ UNCHANGED <<durableVars, running, task, status, moved, turn, up, now, noisy, leaked,
                   bounds>>

\* status_for_event: a tool that fails makes the session's status failed.
ToolFails(r) ==
    /\ Live(r) /\ turn[r] = "working" /\ Trouble
    /\ status' = [status EXCEPT ![r] = "failed"]
    /\ noisy' = noisy \cup {r}
    /\ UNCHANGED <<durableVars, running, task, moved, turn, spoken, up, now, leaked,
                   edits, faults>>

\* session.idle, session.error, or an abort by the developer.
TurnEnds(r) ==
    /\ Live(r) /\ turn[r] = "working"
    /\ turn' = [turn EXCEPT ![r] = "done"]
    /\ \E st \in {"idle", "failed", "cancelled"} : status' = [status EXCEPT ![r] = st]
    /\ UNCHANGED <<durableVars, running, task, moved, spoken, up, now, noisy, leaked, bounds>>

\* handle_provider_closed; the turn is over with its runtime.
ProviderCloses(r) ==
    /\ Live(r) /\ Trouble
    /\ status' = [status EXCEPT ![r] = "disconnected"]
    /\ moved' = [moved EXCEPT ![r] = TRUE]
    /\ turn' = [turn EXCEPT ![r] = "done"]
    /\ UNCHANGED <<durableVars, running, task, spoken, up, now, noisy, leaked, edits, faults>>

-----------------------------------------------------------------------------
(* The program and the clock.                                              *)

Time ==
    /\ \E t \in now + 1..MaxTime : now' = t
    /\ UNCHANGED <<durableVars, running, task, agentVars, up, noisy, leaked, bounds>>

\* A session the database does not name in a row that says running is not found again.
Unnoted == {r \in sessions : ~(rows[r] # None /\ rows[r].status = "running" /\ rows[r].session)}

Crash ==
    /\ up /\ Trouble
    /\ up' = FALSE
    /\ running' = {}
    /\ task' = [r \in Runs |-> IF Active(r) THEN Over(r) ELSE task[r]]
    /\ leaked' = leaked \cup Unnoted
    /\ Gone(Runs)
    /\ UNCHANGED <<durableVars, now, edits, faults>>

\* Mutant: only runs that had a session are failed.
InterruptedInSession == {r \in Runs : rows[r] # None /\ rows[r].status = "running" /\ rows[r].session}

Interrupted == {r \in Runs : rows[r] # None /\ rows[r].status = "running"}

\* recover_interrupted_runs, before anything is dispatched.  Nothing is recovered if the
\* runs cannot be listed.
Start ==
    /\ ~up /\ up' = TRUE
    /\ \/ LET cut == Interrupted
          IN \E kept \in SUBSET cut, stuck \in SUBSET cut :
               /\ Cardinality(kept) + Cardinality(stuck) <= 1
               /\ Works(kept \cup stuck = {})
               /\ sessions' = sessions \ {r \in cut \ kept : rows[r].session}
               /\ leaked' = leaked \cup (sessions \cap kept)
               /\ rows' = [r \in Runs |-> IF r \in cut \ stuck
                                          THEN [rows[r] EXCEPT !.status = "failed"] ELSE rows[r]]
       \/ Works(FALSE) /\ UNCHANGED <<rows, sessions, leaked>>
    /\ UNCHANGED <<autos, running, task, agentVars, now, noisy, edits>>

Init ==
    /\ now = 0
    /\ autos = [a \in Autos |-> None]
    /\ rows = [r \in Runs |-> None] /\ sessions = {}
    /\ running = {} /\ task = [r \in Runs |-> Unused]
    /\ status = [r \in Runs |-> "none"] /\ moved = [r \in Runs |-> FALSE]
    /\ turn = [r \in Runs |-> "none"] /\ spoken = [r \in Runs |-> "nothing"]
    /\ up = TRUE /\ noisy = {} /\ leaked = {}
    /\ edits = 0 /\ faults = 0 /\ troubles = 0

Proceed(r) ==
    \/ Begin(r) \/ Create(r) \/ Note(r) \/ Send(r) \/ Wait(r) \/ Timeout(r)
    \/ Judge(r) \/ Close(r) \/ Erase(r) \/ Finish(r)

AgentStep(r) ==
    \/ StrayEvent(r) \/ TurnStarts(r) \/ Answers(r) \/ ToolFails(r) \/ TurnEnds(r)
    \/ ProviderCloses(r)

Next ==
    \/ \E a \in Autos : \/ Dispatch(a) \/ RunNow(a) \/ Delete(a)
                        \/ \E sched \in Schedule, e \in BOOLEAN : Save(a, sched, e)
    \/ \E r \in Runs : Proceed(r) \/ AgentStep(r)
    \/ Time \/ Crash \/ Start

Spec == Init /\ [][Next]_vars

\* The service thread ticks, tasks are polled, and a run's time limit expires; users,
\* agents and crashes may do nothing for ever.
FairSpec ==
    /\ Spec
    /\ \A a \in Autos : WF_vars(Dispatch(a))
    /\ \A r \in Runs : WF_vars(Proceed(r))

-----------------------------------------------------------------------------
(* Properties.                                                             *)

TypeOK ==
    /\ autos \in [Autos -> Automation \cup {None}]
    /\ rows \in [Runs -> Row \cup {None}] /\ sessions \subseteq Runs
    /\ task \in [Runs -> Task] /\ running = {task[r].auto : r \in {q \in Runs : Active(q)}}
    /\ status \in [Runs -> {"none", "idle", "running", "failed", "cancelled", "disconnected"}]
    /\ moved \in [Runs -> BOOLEAN] /\ turn \in [Runs -> {"none", "asked", "working", "done"}]
    /\ spoken \in [Runs -> {"nothing", "true", "false", "other"}]
    /\ up \in BOOLEAN /\ now \in 0..MaxTime
    /\ noisy \subseteq Runs /\ leaked \subseteq Runs
    /\ edits \in 0..MaxEdits /\ faults \in 0..MaxTroubles /\ troubles \in 0..MaxTroubles

\* "a crash mid-run cannot leave the automation pinned to a time that keeps
\* re-firing": an occurrence is run at most once, however late it is noticed, and
\* whatever is saved, failed and restarted in between.
EachOccurrenceOnce ==
    \A r, q \in Runs :
        /\ r # q /\ task[r].auto = task[q].auto /\ task[r].auto # None
        /\ ~task[r].manual /\ ~task[q].manual
        => task[r].slot # task[q].slot

\* recover_interrupted_runs, spawn_run: the history never shows two runs of an
\* automation under way, also after a crash (unless the database failed).
OneRunUnderWay ==
    faults = 0 /\ up => \A r, q \in Runs :
        /\ rows[r] # None /\ rows[q] # None /\ rows[r].auto = rows[q].auto
        /\ rows[r].status = "running" /\ rows[q].status = "running"
        => r = q

\* "deletes the session again": a session of a run is there only while the run is, or
\* while the history still leads to it; but for those a crash leaves without a trace
\* before they are noted.
SessionsAccounted ==
    \A r \in sessions \ leaked : Active(r) \/ r \notin Unnoted

\* "wait for the turn it starts to finish": what a run makes of its turn it makes when
\* the turn is over, unless a stray event or a failed tool came in between.
TurnIsOver ==
    \A r \in Runs \ noisy : task[r].heard /\ task[r].at \in {"judge", "close"} => turn[r] = "done"

\* "so a wedged session cannot hold its automation's slot forever": an automation that
\* is due is run, while the program is up and identifiers last.
DueIsServed ==
    \A a \in Autos : Due(a) ~> ~Due(a) \/ ~up \/ \A r \in Runs : ~At(r, "unused")

=============================================================================
