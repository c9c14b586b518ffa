-------------------------- MODULE AutomationsProofs --------------------------
(***************************************************************************)
(* Theorems about Automations, for any automations, runs, schedules and    *)
(* bounds.                                                                 *)
(*                                                                         *)
(* That an occurrence is run once follows from the clock: what is due next *)
(* lies after all that was run (NextAhead), since every way to compute the *)
(* next occurrence ends after the present, and what was run lies in the    *)
(* past (Claimed).  That one run is under way follows from the set of      *)
(* automations in flight, which TypeOK ties to the tasks, and from the     *)
(* rows, which call a run running only while its task is (Recorded).       *)
(***************************************************************************)
EXTENDS Automations, WellFoundedInduction, TLAPS

\* A run that was claimed has an automation, and a scheduled one an occurrence that has
\* passed.  What was not claimed yet has left nothing.
Claimed ==
    \A r \in Runs :
        IF At(r, "unused")
        THEN task[r].auto = None /\ rows[r] = None /\ r \notin sessions
        ELSE /\ task[r].auto \in Autos
             /\ ~task[r].manual => task[r].slot \in Nat /\ task[r].slot <= now

\* What is due next lies after everything that was run.
NextAhead ==
    \A r \in Runs : \A n \in Autos :
        task[r].auto = n /\ ~task[r].manual /\ autos[n] # None /\ autos[n].next # None
        => task[r].slot < autos[n].next

\* A run that is under way is the only one of its automation, and none is while the
\* program is closed.
Alone ==
    /\ \A r, q \in Runs : Active(r) /\ Active(q) /\ task[r].auto = task[q].auto => r = q
    /\ ~up => \A r \in Runs : ~Active(r)

\* A row is about the automation of its run, and calls it running only while it is.
Recorded ==
    /\ \A r \in Runs : rows[r] # None => rows[r].auto = task[r].auto
    /\ \A r \in Runs : task[r].at \in {"close", "erase", "finish"} => task[r].outcome # "running"
    /\ faults = 0 /\ up =>
        \A r \in Runs : rows[r] # None /\ rows[r].status = "running" => Active(r)

\* A session is there between Create and Erase, or is named by a row.
Owned ==
    \A r \in sessions \ leaked :
        \/ task[r].at \in {"note", "ask", "wait", "judge", "close", "erase"}
        \/ At(r, "over") /\ r \notin Unnoted

\* The run has a session that is open.
InSession(r) == task[r].at \in {"note", "ask", "wait", "judge", "close"}

\* How far the turn of a run is, by its session's snapshot; what was heard is only
\* known between hearing it and closing the session.
Heard ==
    /\ \A r \in Runs \ noisy :
        /\ moved[r] => turn[r] \in {"working", "done"}
        /\ turn[r] = "working" => status[r] = "running"
        /\ task[r].heard /\ task[r].at \in {"judge", "close"} => turn[r] = "done"
    /\ \A r \in Runs : task[r].heard => task[r].at \in {"judge", "close", "erase", "finish"}
    /\ \A r \in Runs : ~InSession(r) => status[r] = "none" /\ turn[r] = "none" /\ ~moved[r]
    /\ \A r \in Runs : At(r, "judge") => spoken[r] # "nothing"

\* Every failed call is one of the troubles that are bounded.
Budgeted == faults <= troubles

RunsInv ==
    /\ TypeOK /\ Budgeted /\ Claimed /\ NextAhead /\ EachOccurrenceOnce
    /\ Alone /\ Recorded /\ Owned /\ Heard

-----------------------------------------------------------------------------
(* Occurrences lie in the future.                                          *)

LEMMA Division ==
    ASSUME NEW x \in Nat, NEW m \in Nat \ {0}
    PROVE  x \div m \in Nat /\ m * (x \div m + 1) \in Nat /\ m * (x \div m + 1) > x
  OBVIOUS

LEMMA Least ==
    ASSUME NEW S \in SUBSET Nat, S # {}
    PROVE  \E x \in S : \A y \in S : x <= y
  <1> DEFINE R == OpToRel(<, Nat)
  <1>1. IsWellFoundedOn(R, Nat)
    BY NatLessThanWellFounded, Zenon
  <1>2. PICK x \in S : \A y \in S : <<y, x>> \notin R
    <2> HIDE DEF R
    <2> QED  BY <1>1, WFMin
  <1>3. \A y \in S : ~(y < x)
    BY <1>2 DEF OpToRel
  <1> QED
    BY <1>3

LEMMA FirstAfterIsLater ==
    ASSUME NEW S \in SUBSET Nat, NEW t \in Nat, FirstAfter(S, t) # None
    PROVE  FirstAfter(S, t) \in Nat /\ FirstAfter(S, t) > t
  <1> DEFINE later == {x \in S : x > t}
  <1>1. later # {} /\ later \in SUBSET Nat
    BY DEF FirstAfter
  <1>2. \E x \in later : \A y \in later : x <= y
    BY <1>1, Least
  <1>3. FirstAfter(S, t) \in later
    BY <1>1, <1>2 DEF FirstAfter
  <1> QED
    BY <1>3

LEMMA NextAfterIsLater ==
    ASSUME NEW sched \in Schedule, NEW t \in Nat, NextAfter(sched, t) # None
    PROVE  NextAfter(sched, t) \in Nat /\ NextAfter(sched, t) > t
  <1>1. CASE sched.kind = "interval"
    <2> DEFINE x == t + sched.minutes
    <2>1. sched.minutes \in Nat \ {0}
      BY <1>1, AutomationsAssumption DEF Schedule
    <2>2. x \in Nat /\ x > t /\ Grain \in Nat \ {0}
      BY <2>1, AutomationsAssumption
    <2>3. PICK y \in Nat : y = x - 1
      BY <2>2
    <2> HIDE DEF x
    <2>4. x + Grain - 1 = y + Grain
      BY <2>2, <2>3
    <2>5. (y + Grain) \div Grain = y \div Grain + 1
      BY <2>2
    <2>6. Grain * (y \div Grain + 1) \in Nat /\ Grain * (y \div Grain + 1) > y
      BY <2>2, Division
    <2>7. y \div Grain \in Nat
      BY <2>2, Division
    <2>8. (y \div Grain + 1) * Grain = Grain * (y \div Grain + 1)
      BY <2>2, <2>7
    <2>9. RoundedUp(x) = Grain * (y \div Grain + 1)
      BY <2>4, <2>5, <2>8 DEF RoundedUp
    <2>10. RoundedUp(x) \in Nat /\ RoundedUp(x) > t
      BY <2>2, <2>3, <2>6, <2>9
    <2>11. NextAfter(sched, t) = RoundedUp(x)
      BY <1>1 DEF NextAfter, x
    <2> QED
      BY <2>10, <2>11
  <1>2. CASE sched.kind # "interval"
    <2>1. sched.slots \in SUBSET Nat
      BY <1>2, AutomationsAssumption DEF Schedule
    <2> QED
      BY <1>2, <2>1, FirstAfterIsLater DEF NextAfter
  <1> QED
    BY <1>1, <1>2

LEMMA NextOccurrenceIsLater ==
    ASSUME NEW sched \in Schedule, NEW t \in Nat, NEW slot \in Nat, slot <= t,
           NextOccurrence(sched, slot, t) # None
    PROVE  NextOccurrence(sched, slot, t) \in Nat /\ NextOccurrence(sched, slot, t) > t
  <1>1. CASE sched.kind = "interval"
    <2> DEFINE m == sched.minutes
               x == t - slot
    <2>1. m \in Nat \ {0} /\ x \in Nat /\ t = slot + x
      <3>1. m \in Nat \ {0}
        BY <1>1, AutomationsAssumption DEF Schedule
      <3> QED
        BY <3>1
    <2>3. NextOccurrence(sched, slot, t) = slot + m * (x \div m + 1)
      BY <1>1 DEF NextOccurrence
    <2> HIDE DEF m, x
    <2>2. m * (x \div m + 1) \in Nat /\ m * (x \div m + 1) > x
      BY <2>1, Division
    <2> DEFINE y == m * (x \div m + 1)
    <2>4. y \in Nat /\ y > x
      BY <2>2
    <2> HIDE DEF y
    <2>5. slot + y \in Nat /\ slot + y > t
      BY <2>1, <2>4
    <2>6. NextOccurrence(sched, slot, t) = slot + y
      BY <2>3 DEF y
    <2> QED
      BY <2>5, <2>6
  <1>2. CASE sched.kind # "interval"
    <2>1. sched.slots \in SUBSET Nat
      BY <1>2, AutomationsAssumption DEF Schedule
    <2> QED
      BY <1>2, <2>1, FirstAfterIsLater DEF NextOccurrence
  <1> QED
    BY <1>1, <1>2

-----------------------------------------------------------------------------
(* A step of a run.                                                        *)

AgentTyped ==
    /\ status \in [Runs -> {"none", "idle", "running", "failed", "cancelled", "disconnected"}]
    /\ moved \in [Runs -> BOOLEAN] /\ turn \in [Runs -> {"none", "asked", "working", "done"}]
    /\ spoken \in [Runs -> {"nothing", "true", "false", "other"}]
    /\ noisy \subseteq Runs

BoundsTyped ==
    /\ up \in BOOLEAN /\ now \in 0..MaxTime
    /\ edits \in 0..MaxEdits /\ faults \in 0..MaxTroubles /\ troubles \in 0..MaxTroubles

\* What a step of run r, or of its session, may change.
Moves(r) ==
    /\ task' = [task EXCEPT ![r] = task'[r]] /\ task'[r] \in Task
    /\ task'[r].auto = task[r].auto /\ task'[r].slot = task[r].slot
    /\ task'[r].manual = task[r].manual
    /\ rows' = [rows EXCEPT ![r] = rows'[r]]
    /\ rows'[r] = rows[r] \/ (rows'[r] \in Row /\ rows'[r].auto = task[r].auto)
    /\ sessions' \in {sessions, sessions \cup {r}, sessions \ {r}}
    /\ leaked' \in {leaked, leaked \cup {r}}
    /\ faults' \in 0..MaxTroubles /\ troubles' \in 0..MaxTroubles /\ faults <= faults'
    /\ Budgeted' /\ AgentTyped'
    /\ \A q \in Runs \ {r} : /\ status'[q] = status[q] /\ moved'[q] = moved[q]
                             /\ turn'[q] = turn[q] /\ spoken'[q] = spoken[q]
                             /\ q \in noisy' <=> q \in noisy
    /\ UNCHANGED <<autos, up, now, edits>>

\* A run goes on, or is over and gives its automation back; nothing starts one here.
Advances(r) ==
    \/ /\ Active(r) /\ task'[r].at \notin {"unused", "over"}
       /\ running' = running
    \/ /\ Active(r) /\ task'[r].at = "over"
       /\ running' = running \ {task[r].auto}
    \/ UNCHANGED <<running, task, rows, sessions, leaked>>

\* What Recorded, Owned and Heard say of run r alone.
Settled(r) ==
    /\ task[r].at \in {"close", "erase", "finish"} => task[r].outcome # "running"
    /\ faults = 0 /\ up => (rows[r] # None /\ rows[r].status = "running" => Active(r))
    /\ r \in sessions \ leaked =>
        \/ task[r].at \in {"note", "ask", "wait", "judge", "close", "erase"}
        \/ At(r, "over") /\ r \notin Unnoted
    /\ r \notin noisy =>
        /\ moved[r] => turn[r] \in {"working", "done"}
        /\ turn[r] = "working" => status[r] = "running"
        /\ task[r].heard /\ task[r].at \in {"judge", "close"} => turn[r] = "done"
    /\ task[r].heard => task[r].at \in {"judge", "close", "erase", "finish"}
    /\ ~InSession(r) => status[r] = "none" /\ turn[r] = "none" /\ ~moved[r]
    /\ At(r, "judge") => spoken[r] # "nothing"

LEMMA EachSettled ==
    ASSUME RunsInv, NEW r \in Runs
    PROVE  Settled(r)
  BY DEF RunsInv, Recorded, Owned, Heard, Settled

LEMMA WorksKeeps ==
    ASSUME TypeOK, Budgeted, NEW ok \in BOOLEAN, Works(ok)
    PROVE  /\ faults' \in 0..MaxTroubles /\ troubles' \in 0..MaxTroubles /\ faults <= faults'
           /\ Budgeted' /\ (~ok => faults' # 0)
  <1>1. faults \in 0..MaxTroubles /\ troubles \in 0..MaxTroubles /\ MaxTroubles \in Nat
    BY AutomationsAssumption DEF TypeOK
  <1>2. CASE ok
    BY <1>1, <1>2 DEF Works, Budgeted
  <1>3. CASE ~ok
    <2>1. troubles < MaxTroubles /\ troubles' = troubles + 1 /\ faults' = faults + 1
      BY <1>3 DEF Works, Trouble
    <2> QED
      BY <1>1, <2>1, <1>3 DEF Budgeted
  <1> QED
    BY <1>2, <1>3

LEMMA PersistKeeps ==
    ASSUME TypeOK, Budgeted, NEW r \in Runs, task[r].auto \in Autos,
           NEW st \in RunStatus, NEW session \in BOOLEAN, Persist(r, st, session)
    PROVE  /\ rows' = [rows EXCEPT ![r] = rows'[r]]
           /\ rows'[r] = rows[r] \/ (rows'[r] \in Row /\ rows'[r].auto = task[r].auto)
           /\ faults' # 0 \/ (rows'[r].status = st /\ rows'[r].session = session)
           /\ faults' \in 0..MaxTroubles /\ troubles' \in 0..MaxTroubles /\ faults <= faults'
           /\ Budgeted'
  <1> DEFINE row == [auto |-> task[r].auto, status |-> st, session |-> session]
  <1>1. PICK ok \in BOOLEAN : Works(ok) /\ rows' = IF ok THEN [rows EXCEPT ![r] = row] ELSE rows
    BY DEF Persist
  <1>2. /\ faults' \in 0..MaxTroubles /\ troubles' \in 0..MaxTroubles /\ faults <= faults'
        /\ Budgeted' /\ (~ok => faults' # 0)
    BY <1>1, WorksKeeps
  <1>3. row \in Row /\ row.auto = task[r].auto /\ row.status = st /\ row.session = session
    BY DEF Row
  <1> HIDE DEF row
  <1>4. rows = [q \in Runs |-> rows[q]]
    BY DEF TypeOK
  <1>5. CASE ok
    <2>1. rows' = [rows EXCEPT ![r] = row] /\ rows'[r] = row
      BY <1>1, <1>4, <1>5
    <2> QED
      BY <1>2, <1>3, <2>1
  <1>6. CASE ~ok
    <2>1. rows' = rows /\ rows' = [rows EXCEPT ![r] = rows'[r]]
      BY <1>1, <1>4, <1>6
    <2> QED
      BY <1>2, <1>6, <2>1
  <1> QED
    BY <1>5, <1>6

LEMMA BeginMoves ==
    ASSUME RunsInv, NEW r \in Runs, Begin(r)
    PROVE  Moves(r) /\ Advances(r) /\ Settled(r)'
  <1>1. /\ TypeOK /\ Budgeted /\ task[r] \in Task /\ task[r].auto \in Autos
        /\ Active(r) /\ Settled(r)
    BY EachSettled DEF RunsInv, TypeOK, Claimed, Begin, At, Active
  <1>2. Persist(r, "running", FALSE)
    BY DEF Begin
  <1>3. /\ rows' = [rows EXCEPT ![r] = rows'[r]]
        /\ rows'[r] = rows[r] \/ (rows'[r] \in Row /\ rows'[r].auto = task[r].auto)
        /\ faults' \in 0..MaxTroubles /\ troubles' \in 0..MaxTroubles /\ faults <= faults'
        /\ Budgeted'
    BY <1>1, <1>2, PersistKeeps DEF RunStatus
  <1>4. /\ task' = [task EXCEPT ![r] = task'[r]] /\ task'[r] \in Task
        /\ task'[r].auto = task[r].auto /\ task'[r].slot = task[r].slot
        /\ task'[r].manual = task[r].manual
        /\ task'[r].at \in {"create", "finish"} /\ (task'[r].at = "finish" => task'[r].outcome = "failed")
        /\ task'[r].heard = task[r].heard
    BY <1>1 DEF Begin, Goto, EndsAs, TypeOK, Task, Pc, RunStatus
  <1>5. Moves(r)
    BY <1>1, <1>3, <1>4 DEF Begin, Moves, agentVars, AgentTyped, TypeOK
  <1>6. Advances(r)
    BY <1>1, <1>4 DEF Begin, Advances
  <1>7. Settled(r)'
    BY <1>1, <1>4 DEF Begin, Settled, At, agentVars, Active, InSession
  <1> QED
    BY <1>5, <1>6, <1>7

\* What a step knows of its run before it.
LEMMA RunKnown ==
    ASSUME RunsInv, NEW r \in Runs, task[r].at \notin {"unused", "over"}
    PROVE  /\ TypeOK /\ Budgeted /\ task[r] \in Task /\ task[r].auto \in Autos
           /\ task = [q \in Runs |-> task[q]] /\ rows = [q \in Runs |-> rows[q]]
           /\ Active(r) /\ Settled(r) /\ AgentTyped
           /\ faults \in 0..MaxTroubles /\ troubles \in 0..MaxTroubles /\ faults <= faults
  <1>1. TypeOK /\ Budgeted /\ task[r] \in Task /\ Active(r) /\ Settled(r) /\ AgentTyped
    BY EachSettled DEF RunsInv, TypeOK, Active, At, AgentTyped
  <1>2. task[r].auto \in Autos
    BY <1>1 DEF RunsInv, Claimed, Active, At
  <1>3. /\ task = [q \in Runs |-> task[q]] /\ rows = [q \in Runs |-> rows[q]]
        /\ faults \in 0..MaxTroubles /\ troubles \in 0..MaxTroubles
    BY DEF RunsInv, TypeOK
  <1>4. faults <= faults
    BY <1>3
  <1> QED
    BY <1>1, <1>2, <1>3, <1>4

LEMMA GoesTo ==
    ASSUME NEW r \in Runs, task = [q \in Runs |-> task[q]], task[r] \in Task,
           NEW pc \in Pc, Goto(r, pc)
    PROVE  /\ task' = [task EXCEPT ![r] = task'[r]] /\ task'[r] \in Task
           /\ task'[r].auto = task[r].auto /\ task'[r].slot = task[r].slot
           /\ task'[r].manual = task[r].manual /\ task'[r].heard = task[r].heard
           /\ task'[r].outcome = task[r].outcome /\ task'[r].at = pc
  <1>1. task' = [task EXCEPT ![r] = task'[r]] /\ task'[r] = [task[r] EXCEPT !.at = pc]
    BY DEF Goto
  <1>2. [task[r] EXCEPT !.at = pc] \in Task
    BY DEF Task
  <1> QED
    BY <1>1, <1>2 DEF Task

LEMMA EndsWith ==
    ASSUME NEW r \in Runs, task = [q \in Runs |-> task[q]], task[r] \in Task,
           NEW outcome \in RunStatus, NEW pc \in Pc, EndsAs(r, outcome, pc)
    PROVE  /\ task' = [task EXCEPT ![r] = task'[r]] /\ task'[r] \in Task
           /\ task'[r].auto = task[r].auto /\ task'[r].slot = task[r].slot
           /\ task'[r].manual = task[r].manual /\ task'[r].heard = task[r].heard
           /\ task'[r].outcome = outcome /\ task'[r].at = pc
  <1> DEFINE t == [task[r] EXCEPT !.at = pc, !.outcome = outcome]
  <1>1. task' = [task EXCEPT ![r] = task'[r]] /\ task'[r] = t
    BY DEF EndsAs
  <1>2. t \in Task
    BY DEF Task
  <1> QED
    BY <1>1, <1>2 DEF Task

LEMMA CreateMoves ==
    ASSUME RunsInv, NEW r \in Runs, Create(r)
    PROVE  Moves(r) /\ Advances(r) /\ Settled(r)'
  <1>1. task[r].at = "create"
    BY DEF Create, At
  <1>2. /\ TypeOK /\ Budgeted /\ task[r] \in Task /\ task[r].auto \in Autos
        /\ task = [q \in Runs |-> task[q]] /\ rows = [q \in Runs |-> rows[q]]
        /\ Active(r) /\ Settled(r) /\ AgentTyped
        /\ faults \in 0..MaxTroubles /\ troubles \in 0..MaxTroubles /\ faults <= faults
    BY <1>1, RunKnown
  <1>3. /\ task' = [task EXCEPT ![r] = task'[r]] /\ task'[r] \in Task
        /\ task'[r].auto = task[r].auto /\ task'[r].slot = task[r].slot
        /\ task'[r].manual = task[r].manual /\ task'[r].heard = task[r].heard
        /\ \/ task'[r].at = "note"
           \/ task'[r].at = "finish" /\ task'[r].outcome = "failed" /\ UNCHANGED <<sessions, status>>
    <2>1. "note" \in Pc /\ "finish" \in Pc /\ "failed" \in RunStatus
      BY DEF Pc, RunStatus
    <2>2. CASE Goto(r, "note")
      BY <1>2, <2>1, <2>2, GoesTo
    <2>3. CASE EndsAs(r, "failed", "finish") /\ UNCHANGED <<sessions, status>>
      BY <1>2, <2>1, <2>3, EndsWith
    <2> QED
      BY <2>2, <2>3 DEF Create
  <1>4. /\ AgentTyped' /\ sessions' \in {sessions, sessions \cup {r}}
        /\ \A q \in Runs \ {r} : status'[q] = status[q]
        /\ status'[r] \in {status[r], "idle"}
    BY <1>2 DEF Create, AgentTyped
  <1>5. Moves(r)
    BY <1>2, <1>3, <1>4 DEF Create, Moves, bounds, Budgeted
  <1>6. Advances(r)
    BY <1>2, <1>3 DEF Create, Advances
  <1>7. Settled(r)'
    <2>1. ~task'[r].heard
      BY <1>1, <1>2, <1>3 DEF Settled
    <2>2. r \in sessions' \ leaked' => task'[r].at = "note"
      BY <1>1, <1>2, <1>3, <1>4 DEF Create, Settled, At
    <2>3. /\ turn[r] = "none" /\ ~moved[r] /\ status[r] = "none"
          /\ UNCHANGED <<turn, moved>>
      BY <1>1, <1>2 DEF Create, Settled, InSession
    <2> QED
      BY <1>3, <2>1, <2>2, <2>3 DEF Create, Settled, At, Active, bounds, InSession
  <1> QED
    BY <1>5, <1>6, <1>7

LEMMA NoteMoves ==
    ASSUME RunsInv, NEW r \in Runs, Note(r)
    PROVE  Moves(r) /\ Advances(r) /\ Settled(r)'
  <1>1. task[r].at = "note"
    BY DEF Note, At
  <1>2. /\ TypeOK /\ Budgeted /\ task[r] \in Task /\ task[r].auto \in Autos
        /\ task = [q \in Runs |-> task[q]] /\ rows = [q \in Runs |-> rows[q]]
        /\ Active(r) /\ Settled(r) /\ AgentTyped
    BY <1>1, RunKnown
  <1>3. /\ rows' = [rows EXCEPT ![r] = rows'[r]]
        /\ rows'[r] = rows[r] \/ (rows'[r] \in Row /\ rows'[r].auto = task[r].auto)
        /\ faults' \in 0..MaxTroubles /\ troubles' \in 0..MaxTroubles /\ faults <= faults'
        /\ Budgeted'
    BY <1>2, PersistKeeps DEF RunStatus, Note
  <1>4. /\ task' = [task EXCEPT ![r] = task'[r]] /\ task'[r] \in Task
        /\ task'[r].auto = task[r].auto /\ task'[r].slot = task[r].slot
        /\ task'[r].manual = task[r].manual /\ task'[r].heard = task[r].heard
        /\ task'[r].at = "ask"
    BY <1>2, GoesTo DEF Note, Pc
  <1>5. Moves(r)
    BY <1>2, <1>3, <1>4 DEF Note, Moves, agentVars, AgentTyped
  <1>6. Advances(r)
    BY <1>2, <1>4 DEF Note, Advances
  <1>7. Settled(r)'
    BY <1>1, <1>2, <1>4 DEF Note, Settled, At, agentVars, Active, InSession
  <1> QED
    BY <1>5, <1>6, <1>7

LEMMA SendMoves ==
    ASSUME RunsInv, NEW r \in Runs, Send(r)
    PROVE  Moves(r) /\ Advances(r) /\ Settled(r)'
  <1>1. task[r].at = "ask"
    BY DEF Send, At
  <1>2. /\ TypeOK /\ Budgeted /\ task[r] \in Task /\ task[r].auto \in Autos
        /\ task = [q \in Runs |-> task[q]] /\ rows = [q \in Runs |-> rows[q]]
        /\ Active(r) /\ Settled(r) /\ AgentTyped
        /\ faults \in 0..MaxTroubles /\ troubles \in 0..MaxTroubles /\ faults <= faults
    BY <1>1, RunKnown
  <1>3. /\ task' = [task EXCEPT ![r] = task'[r]] /\ task'[r] \in Task
        /\ task'[r].auto = task[r].auto /\ task'[r].slot = task[r].slot
        /\ task'[r].manual = task[r].manual /\ task'[r].heard = task[r].heard
        /\ \/ task'[r].at = "wait" /\ moved'[r] = FALSE /\ turn'[r] = "asked"
           \/ /\ task'[r].at = "close" /\ task'[r].outcome = "failed"
              /\ UNCHANGED <<moved, turn, spoken>>
    <2>1. "wait" \in Pc /\ "close" \in Pc /\ "failed" \in RunStatus
      BY DEF Pc, RunStatus
    <2>2. CASE Goto(r, "wait") /\ moved' = [moved EXCEPT ![r] = FALSE]
               /\ turn' = [turn EXCEPT ![r] = "asked"]
      BY <1>2, <2>1, <2>2, GoesTo DEF AgentTyped
    <2>3. CASE EndsAs(r, "failed", "close") /\ UNCHANGED <<moved, turn, spoken>>
      BY <1>2, <2>1, <2>3, EndsWith
    <2> QED
      BY <2>2, <2>3 DEF Send
  <1>4. /\ AgentTyped'
        /\ \A q \in Runs \ {r} : moved'[q] = moved[q] /\ turn'[q] = turn[q] /\ spoken'[q] = spoken[q]
    BY <1>2 DEF Send, AgentTyped
  <1>5. Moves(r)
    BY <1>2, <1>3, <1>4 DEF Send, Moves, bounds, durableVars, Budgeted
  <1>6. Advances(r)
    BY <1>2, <1>3 DEF Send, Advances
  <1>7. Settled(r)'
    <2>1. ~task'[r].heard
      BY <1>1, <1>2, <1>3 DEF Settled
    <2> QED
      BY <1>1, <1>2, <1>3, <2>1 DEF Send, Settled, At, Active, bounds, durableVars, InSession
  <1> QED
    BY <1>5, <1>6, <1>7

LEMMA WaitMoves ==
    ASSUME RunsInv, NEW r \in Runs, Wait(r)
    PROVE  Moves(r) /\ Advances(r) /\ Settled(r)'
  <1>1. task[r].at = "wait"
    BY DEF Wait, At
  <1>2. /\ TypeOK /\ Budgeted /\ task[r] \in Task /\ task[r].auto \in Autos
        /\ task = [q \in Runs |-> task[q]] /\ rows = [q \in Runs |-> rows[q]]
        /\ Active(r) /\ Settled(r) /\ AgentTyped
        /\ faults \in 0..MaxTroubles /\ troubles \in 0..MaxTroubles /\ faults <= faults
    BY <1>1, RunKnown
  <1>3. /\ task' = [task EXCEPT ![r] = task'[r]] /\ task'[r] \in Task
        /\ task'[r].auto = task[r].auto /\ task'[r].slot = task[r].slot
        /\ task'[r].manual = task[r].manual
        /\ \/ task'[r].at = "judge" /\ spoken[r] # "nothing"
           \/ task'[r].at = "close" /\ task'[r].outcome = "failed"
    <2> DEFINE good == status[r] = "idle" /\ spoken[r] # "nothing"
               t == [task[r] EXCEPT !.heard = TRUE, !.at = IF good THEN "judge" ELSE "close",
                                    !.outcome = IF good THEN @ ELSE "failed"]
    <2>1. task' = [task EXCEPT ![r] = task'[r]] /\ task'[r] = t
      BY <1>2 DEF Wait
    <2>2. t \in Task
      BY <1>2 DEF Task, Pc, RunStatus
    <2> QED
      BY <1>2, <2>1, <2>2 DEF Task
  <1>4. r \notin noisy => turn[r] = "done"
    BY <1>2 DEF Wait, TurnEnded, Settled
  <1>5. Moves(r)
    BY <1>2, <1>3 DEF Wait, Moves, bounds, durableVars, agentVars, AgentTyped, Budgeted
  <1>6. Advances(r)
    BY <1>2, <1>3 DEF Wait, Advances
  <1>7. Settled(r)'
    BY <1>1, <1>2, <1>3, <1>4
       DEF Wait, Settled, At, Active, bounds, durableVars, agentVars, InSession
  <1> QED
    BY <1>5, <1>6, <1>7

LEMMA TimeoutMoves ==
    ASSUME RunsInv, NEW r \in Runs, Timeout(r)
    PROVE  Moves(r) /\ Advances(r) /\ Settled(r)'
  <1>1. task[r].at = "wait"
    BY DEF Timeout, At
  <1>2. /\ TypeOK /\ Budgeted /\ task[r] \in Task /\ task[r].auto \in Autos
        /\ task = [q \in Runs |-> task[q]] /\ rows = [q \in Runs |-> rows[q]]
        /\ Active(r) /\ Settled(r) /\ AgentTyped
        /\ faults \in 0..MaxTroubles /\ troubles \in 0..MaxTroubles /\ faults <= faults
    BY <1>1, RunKnown
  <1>3. /\ task' = [task EXCEPT ![r] = task'[r]] /\ task'[r] \in Task
        /\ task'[r].auto = task[r].auto /\ task'[r].slot = task[r].slot
        /\ task'[r].manual = task[r].manual /\ task'[r].heard = task[r].heard
        /\ task'[r].at = "close" /\ task'[r].outcome = "failed"
    BY <1>2, EndsWith DEF Timeout, Pc, RunStatus
  <1>4. ~task'[r].heard
    BY <1>1, <1>2, <1>3 DEF Settled
  <1>5. Moves(r)
    BY <1>2, <1>3 DEF Timeout, Moves, bounds, durableVars, agentVars, AgentTyped, Budgeted
  <1>6. Advances(r)
    BY <1>2, <1>3 DEF Timeout, Advances
  <1>7. Settled(r)'
    BY <1>1, <1>2, <1>3, <1>4
       DEF Timeout, Settled, At, Active, bounds, durableVars, agentVars, InSession
  <1> QED
    BY <1>5, <1>6, <1>7

LEMMA JudgeMoves ==
    ASSUME RunsInv, NEW r \in Runs, Judge(r)
    PROVE  Moves(r) /\ Advances(r) /\ Settled(r)'
  <1>1. task[r].at = "judge"
    BY DEF Judge, At
  <1>2. /\ TypeOK /\ Budgeted /\ task[r] \in Task /\ task[r].auto \in Autos
        /\ task = [q \in Runs |-> task[q]] /\ rows = [q \in Runs |-> rows[q]]
        /\ Active(r) /\ Settled(r) /\ AgentTyped
        /\ faults \in 0..MaxTroubles /\ troubles \in 0..MaxTroubles /\ faults <= faults
    BY <1>1, RunKnown
  <1> DEFINE asked == [task[r] EXCEPT !.at = "ask", !.asks = "action", !.heard = FALSE]
             stays == rows' = rows /\ faults' = faults /\ troubles' = troubles
  <1>3. \/ \E outcome \in {"succeeded", "failed"} : EndsAs(r, outcome, "close") /\ stays
        \/ EndsAs(r, "skipped", "close") /\ Persist(r, "running", TRUE)
        \/ task' = [task EXCEPT ![r] = asked] /\ Persist(r, "running", TRUE)
    <2>1. task[r].asks \in {"condition", "action"} /\ spoken[r] \in {"nothing", "true", "false", "other"}
      BY <1>2 DEF Task, AgentTyped
    <2>2. CASE task[r].asks = "action"
      BY <2>2 DEF Judge
    <2>3. CASE task[r].asks = "condition" /\ spoken[r] = "other"
      BY <2>3 DEF Judge
    <2>4. CASE task[r].asks = "condition" /\ spoken[r] = "false"
      BY <2>4 DEF Judge
    <2>5. CASE task[r].asks = "condition" /\ spoken[r] = "true"
      BY <1>2, <2>5 DEF Judge
    <2>6. spoken[r] # "nothing"
      BY <1>1, <1>2 DEF Settled, At
    <2> QED
      BY <2>1, <2>2, <2>3, <2>4, <2>5, <2>6
  <1>4. /\ task' = [task EXCEPT ![r] = task'[r]] /\ task'[r] \in Task
        /\ task'[r].auto = task[r].auto /\ task'[r].slot = task[r].slot
        /\ task'[r].manual = task[r].manual
        /\ \/ /\ task'[r].at = "close" /\ task'[r].outcome \in {"succeeded", "failed", "skipped"}
              /\ task'[r].heard = task[r].heard
           \/ task'[r].at = "ask" /\ ~task'[r].heard
    <2>1. CASE \E outcome \in {"succeeded", "failed", "skipped"} : EndsAs(r, outcome, "close")
      BY <1>2, <2>1, EndsWith DEF RunStatus, Pc
    <2>2. CASE task' = [task EXCEPT ![r] = asked]
      <3>1. asked \in Task
        BY <1>2 DEF Task, Pc
      <3>2. task' = [task EXCEPT ![r] = task'[r]] /\ task'[r] = asked
        BY <1>2, <2>2
      <3> QED
        BY <1>2, <3>1, <3>2 DEF Task
    <2> QED
      BY <1>3, <2>1, <2>2
  <1>5. /\ rows' = [rows EXCEPT ![r] = rows'[r]]
        /\ rows'[r] = rows[r] \/ (rows'[r] \in Row /\ rows'[r].auto = task[r].auto)
        /\ faults' \in 0..MaxTroubles /\ troubles' \in 0..MaxTroubles /\ faults <= faults'
        /\ Budgeted'
    <2>1. CASE stays
      BY <1>2, <2>1 DEF Budgeted
    <2>2. CASE Persist(r, "running", TRUE)
      BY <1>2, <2>2, PersistKeeps DEF RunStatus
    <2> QED
      BY <1>3, <2>1, <2>2
  <1>6. Moves(r)
    BY <1>2, <1>4, <1>5 DEF Judge, Moves, agentVars, AgentTyped
  <1>7. Advances(r)
    BY <1>2, <1>4 DEF Judge, Advances
  <1>8. Settled(r)'
    BY <1>1, <1>2, <1>4 DEF Judge, Settled, At, agentVars, Active, InSession
  <1> QED
    BY <1>6, <1>7, <1>8

LEMMA CloseMoves ==
    ASSUME RunsInv, NEW r \in Runs, Close(r)
    PROVE  Moves(r) /\ Advances(r) /\ Settled(r)'
  <1>1. task[r].at = "close"
    BY DEF Close, At
  <1>2. /\ TypeOK /\ Budgeted /\ task[r] \in Task /\ task[r].auto \in Autos
        /\ task = [q \in Runs |-> task[q]] /\ rows = [q \in Runs |-> rows[q]]
        /\ Active(r) /\ Settled(r) /\ AgentTyped
        /\ faults \in 0..MaxTroubles /\ troubles \in 0..MaxTroubles /\ faults <= faults
    BY <1>1, RunKnown
  <1>3. /\ task' = [task EXCEPT ![r] = task'[r]] /\ task'[r] \in Task
        /\ task'[r].auto = task[r].auto /\ task'[r].slot = task[r].slot
        /\ task'[r].manual = task[r].manual /\ task'[r].heard = task[r].heard
        /\ task'[r].outcome = task[r].outcome /\ task'[r].at = "erase"
    BY <1>2, GoesTo DEF Close, Pc
  <1>4. /\ AgentTyped' /\ status'[r] = "none" /\ turn'[r] = "none" /\ ~moved'[r]
        /\ \A q \in Runs \ {r} : /\ status'[q] = status[q] /\ moved'[q] = moved[q]
                                 /\ turn'[q] = turn[q] /\ spoken'[q] = spoken[q]
                                 /\ q \in noisy' <=> q \in noisy
    BY <1>2 DEF Close, Gone, AgentTyped
  <1>5. Moves(r)
    BY <1>2, <1>3, <1>4 DEF Close, Moves, bounds, durableVars, Budgeted
  <1>6. Advances(r)
    BY <1>2, <1>3 DEF Close, Advances
  <1>7. Settled(r)'
    BY <1>1, <1>2, <1>3, <1>4 DEF Close, Settled, At, Active, bounds, durableVars, InSession
  <1> QED
    BY <1>5, <1>6, <1>7

LEMMA EraseMoves ==
    ASSUME RunsInv, NEW r \in Runs, Erase(r)
    PROVE  Moves(r) /\ Advances(r) /\ Settled(r)'
  <1>1. task[r].at = "erase"
    BY DEF Erase, At
  <1>2. /\ TypeOK /\ Budgeted /\ task[r] \in Task /\ task[r].auto \in Autos
        /\ task = [q \in Runs |-> task[q]] /\ rows = [q \in Runs |-> rows[q]]
        /\ Active(r) /\ Settled(r) /\ AgentTyped
    BY <1>1, RunKnown
  <1>3. /\ task' = [task EXCEPT ![r] = task'[r]] /\ task'[r] \in Task
        /\ task'[r].auto = task[r].auto /\ task'[r].slot = task[r].slot
        /\ task'[r].manual = task[r].manual /\ task'[r].heard = task[r].heard
        /\ task'[r].outcome = task[r].outcome /\ task'[r].at = "finish"
    BY <1>2, GoesTo DEF Erase, Pc
  <1>4. PICK ok \in BOOLEAN :
            /\ Works(ok)
            /\ IF ok THEN sessions' = Erased(r) /\ UNCHANGED leaked
               ELSE leaked' = leaked \cup {r} /\ UNCHANGED sessions
    BY DEF Erase
  <1>5. /\ faults' \in 0..MaxTroubles /\ troubles' \in 0..MaxTroubles /\ faults <= faults'
        /\ Budgeted'
    BY <1>2, <1>4, WorksKeeps
  <1>6. /\ sessions' \in {sessions, sessions \ {r}} /\ leaked' \in {leaked, leaked \cup {r}}
        /\ r \notin sessions' \ leaked'
    BY <1>4 DEF Erased
  <1>7. Moves(r)
    BY <1>2, <1>3, <1>5, <1>6 DEF Erase, Moves, agentVars, AgentTyped
  <1>8. Advances(r)
    BY <1>2, <1>3 DEF Erase, Advances
  <1>9. Settled(r)'
    BY <1>1, <1>2, <1>3, <1>6 DEF Erase, Settled, At, Active, agentVars, InSession
  <1> QED
    BY <1>7, <1>8, <1>9

LEMMA FinishMoves ==
    ASSUME RunsInv, NEW r \in Runs, Finish(r)
    PROVE  Moves(r) /\ Advances(r) /\ Settled(r)'
  <1>1. task[r].at = "finish"
    BY DEF Finish, At
  <1>2. /\ TypeOK /\ Budgeted /\ task[r] \in Task /\ task[r].auto \in Autos
        /\ task = [q \in Runs |-> task[q]] /\ rows = [q \in Runs |-> rows[q]]
        /\ Active(r) /\ Settled(r) /\ AgentTyped
    BY <1>1, RunKnown
  <1>3. task[r].outcome \in RunStatus /\ task[r].outcome # "running"
    BY <1>1, <1>2 DEF Task, Settled
  <1>4. (rows[r] # None /\ rows[r].session) \in BOOLEAN
    BY <1>2 DEF TypeOK, Row
  <1>5. /\ rows' = [rows EXCEPT ![r] = rows'[r]]
        /\ rows'[r] = rows[r] \/ (rows'[r] \in Row /\ rows'[r].auto = task[r].auto)
        /\ faults' \in 0..MaxTroubles /\ troubles' \in 0..MaxTroubles /\ faults <= faults'
        /\ Budgeted' /\ (faults' # 0 \/ rows'[r].status = task[r].outcome)
    BY <1>2, <1>3, <1>4, PersistKeeps DEF Finish
  <1>6. /\ task' = [task EXCEPT ![r] = task'[r]] /\ task'[r] \in Task
        /\ task'[r].auto = task[r].auto /\ task'[r].slot = task[r].slot
        /\ task'[r].manual = task[r].manual /\ ~task'[r].heard /\ task'[r].at = "over"
    <2>1. task' = [task EXCEPT ![r] = task'[r]] /\ task'[r] = Over(r)
      BY <1>2 DEF Finish
    <2>2. /\ Over(r) \in Task /\ Over(r).auto = task[r].auto /\ Over(r).slot = task[r].slot
          /\ Over(r).manual = task[r].manual /\ ~Over(r).heard /\ Over(r).at = "over"
      BY <1>2 DEF Over, Unused, Task, Pc, RunStatus
    <2> QED
      BY <2>1, <2>2
  <1>7. Moves(r)
    BY <1>2, <1>5, <1>6 DEF Finish, Moves, agentVars, AgentTyped
  <1>8. Advances(r)
    BY <1>2, <1>6 DEF Finish, Released, Advances
  <1>9. Settled(r)'
    <2>1. r \notin sessions' \ leaked'
      BY <1>1, <1>2 DEF Finish, Settled, At
    <2> QED
      BY <1>1, <1>2, <1>3, <1>5, <1>6, <2>1 DEF Finish, Settled, At, Active, agentVars, InSession
  <1> QED
    BY <1>7, <1>8, <1>9

LEMMA RunMoves ==
    ASSUME RunsInv, NEW r \in Runs, Proceed(r)
    PROVE  Moves(r) /\ Advances(r) /\ Settled(r)'
  BY BeginMoves, CreateMoves, NoteMoves, SendMoves, WaitMoves, TimeoutMoves, JudgeMoves,
     CloseMoves, EraseMoves, FinishMoves, Zenon DEF Proceed

\* What the session of a run does leaves the run alone.
LEMMA AgentMoves ==
    ASSUME RunsInv, NEW r \in Runs, AgentStep(r)
    PROVE  Moves(r) /\ Advances(r) /\ Settled(r)'
  <1>1. /\ TypeOK /\ Budgeted /\ AgentTyped /\ Settled(r) /\ task[r] \in Task
        /\ task = [q \in Runs |-> task[q]] /\ rows = [q \in Runs |-> rows[q]]
        /\ faults \in 0..MaxTroubles /\ troubles \in 0..MaxTroubles /\ MaxTroubles \in Nat
        /\ faults <= troubles
    BY EachSettled, AutomationsAssumption DEF RunsInv, TypeOK, AgentTyped, Budgeted
  <1>2. UNCHANGED <<durableVars, running, task, up, now, leaked, edits, faults>>
    BY DEF AgentStep, StrayEvent, TurnStarts, Answers, ToolFails, TurnEnds, ProviderCloses, bounds
  <1>3. /\ troubles' \in 0..MaxTroubles /\ faults' \in 0..MaxTroubles /\ faults <= faults'
        /\ Budgeted'
    <2>1. troubles' = troubles \/ (troubles < MaxTroubles /\ troubles' = troubles + 1)
      BY DEF AgentStep, StrayEvent, TurnStarts, Answers, ToolFails, TurnEnds, ProviderCloses,
             bounds, Trouble
    <2> QED
      BY <1>1, <1>2, <2>1 DEF Budgeted
  <1>4. /\ task' = [task EXCEPT ![r] = task'[r]] /\ rows' = [rows EXCEPT ![r] = rows'[r]]
        /\ task' = task /\ rows' = rows
    BY <1>1, <1>2 DEF durableVars
  <1>5. /\ AgentTyped'
        /\ \A q \in Runs \ {r} : /\ status'[q] = status[q] /\ moved'[q] = moved[q]
                                 /\ turn'[q] = turn[q] /\ spoken'[q] = spoken[q]
                                 /\ q \in noisy' <=> q \in noisy
    <2>1. CASE StrayEvent(r)
      BY <1>1, <2>1 DEF StrayEvent, AgentTyped
    <2>2. CASE TurnStarts(r)
      BY <1>1, <2>2 DEF TurnStarts, AgentTyped
    <2>3. CASE Answers(r)
      BY <1>1, <2>3 DEF Answers, AgentTyped
    <2>4. CASE ToolFails(r)
      BY <1>1, <2>4 DEF ToolFails, AgentTyped
    <2>5. CASE TurnEnds(r)
      BY <1>1, <2>5 DEF TurnEnds, AgentTyped
    <2>6. CASE ProviderCloses(r)
      BY <1>1, <2>6 DEF ProviderCloses, AgentTyped
    <2> QED
      BY <2>1, <2>2, <2>3, <2>4, <2>5, <2>6 DEF AgentStep
  <1>6. Moves(r)
    BY <1>1, <1>2, <1>3, <1>4, <1>5 DEF Moves, durableVars
  <1>7. Advances(r)
    BY <1>2 DEF Advances, durableVars
  <1>8. InSession(r)
    BY <1>1 DEF AgentStep, StrayEvent, TurnStarts, Answers, ToolFails, TurnEnds, ProviderCloses,
                Live, Settled
  <1>9. /\ r \notin noisy' => /\ moved'[r] => turn'[r] \in {"working", "done"}
                              /\ turn'[r] = "working" => status'[r] = "running"
                              /\ turn[r] = "done" => turn'[r] = "done"
        /\ spoken[r] # "nothing" => spoken'[r] # "nothing"
    <2>1. CASE StrayEvent(r)
      BY <1>1, <2>1 DEF StrayEvent
    <2>2. CASE TurnStarts(r)
      BY <1>1, <2>2 DEF TurnStarts, AgentTyped
    <2>3. CASE Answers(r)
      BY <1>1, <2>3 DEF Answers, AgentTyped, Settled
    <2>4. CASE ToolFails(r)
      BY <1>1, <2>4 DEF ToolFails
    <2>5. CASE TurnEnds(r)
      BY <1>1, <2>5 DEF TurnEnds, AgentTyped
    <2>6. CASE ProviderCloses(r)
      BY <1>1, <2>6 DEF ProviderCloses, AgentTyped
    <2> QED
      BY <2>1, <2>2, <2>3, <2>4, <2>5, <2>6 DEF AgentStep
  <1>10. r \notin noisy' => r \notin noisy
    BY DEF AgentStep, StrayEvent, TurnStarts, Answers, ToolFails, TurnEnds, ProviderCloses
  <1>11. Settled(r)'
    BY <1>1, <1>2, <1>4, <1>8, <1>9, <1>10
       DEF Settled, InSession, At, Active, Unnoted, durableVars
  <1> QED
    BY <1>6, <1>7, <1>11

LEMMA MovesKeeps ==
    ASSUME RunsInv, NEW r \in Runs, Moves(r), Advances(r), Settled(r)'
    PROVE  RunsInv'
  <1>1. /\ TypeOK /\ Budgeted /\ Claimed /\ NextAhead /\ EachOccurrenceOnce
        /\ Alone /\ Recorded /\ Owned /\ Heard
    BY DEF RunsInv
  <1>2. /\ task \in [Runs -> Task] /\ task'[r] \in Task /\ rows \in [Runs -> Row \cup {None}]
        /\ task' = [task EXCEPT ![r] = task'[r]] /\ rows' = [rows EXCEPT ![r] = rows'[r]]
        /\ rows'[r] = rows[r] \/ (rows'[r] \in Row /\ rows'[r].auto = task[r].auto)
    BY <1>1 DEF TypeOK, Moves
  <1>3. task' \in [Runs -> Task] /\ rows' \in [Runs -> Row \cup {None}]
    BY <1>2
  <1>4. \A q \in Runs : /\ q # r => task'[q] = task[q] /\ rows'[q] = rows[q]
                        /\ task'[q].auto = task[q].auto /\ task'[q].slot = task[q].slot
                        /\ task'[q].manual = task[q].manual
                        /\ (task'[q].at = "unused") <=> (task[q].at = "unused")
                        /\ Active(q)' => Active(q)
    BY <1>2 DEF Moves, Advances, Active, At
  <1>5. /\ sessions' \subseteq Runs /\ leaked' \subseteq Runs
        /\ \A q \in Runs : q # r => ((q \in sessions') <=> (q \in sessions))
                                    /\ ((q \in leaked') <=> (q \in leaked))
    BY <1>1 DEF Moves, TypeOK
  <1>6. running' = {task'[q].auto : q \in {p \in Runs : Active(p)'}}
    <2>1. running = {task[q].auto : q \in {p \in Runs : Active(p)}}
      BY <1>1 DEF TypeOK
    <2>2. CASE Active(r) /\ task'[r].at \notin {"unused", "over"} /\ running' = running
      BY <1>2, <1>4, <2>1, <2>2 DEF Active
    <2>3. CASE Active(r) /\ task'[r].at = "over" /\ running' = running \ {task[r].auto}
      <3>1. \A q \in Runs : Active(q)' <=> Active(q) /\ q # r
        BY <1>2, <1>4, <2>3 DEF Active
      <3>2. \A q \in Runs : Active(q) /\ task[q].auto = task[r].auto => q = r
        BY <1>1, <2>3 DEF Alone
      <3> QED
        BY <1>4, <2>1, <2>3, <3>1, <3>2
    <2>4. CASE UNCHANGED <<running, task>>
      BY <2>1, <2>4 DEF Active
    <2> QED
      BY <2>2, <2>3, <2>4 DEF Advances
  <1>7. TypeOK'
    BY <1>1, <1>3, <1>5, <1>6 DEF TypeOK, Moves, AgentTyped, Active
  <1>8. UNCHANGED <<autos, up, now>> /\ Budgeted'
    BY DEF Moves
  <1>9. Claimed'
    <2> SUFFICES ASSUME NEW q \in Runs
                 PROVE  IF At(q, "unused")'
                        THEN task'[q].auto = None /\ rows'[q] = None /\ q \notin sessions'
                        ELSE /\ task'[q].auto \in Autos
                             /\ ~task'[q].manual => task'[q].slot \in Nat /\ task'[q].slot <= now'
      BY DEF Claimed, At
    <2>1. CASE q # r
      BY <1>1, <1>4, <1>5, <1>8, <2>1 DEF Claimed, At
    <2>2. CASE q = r
      BY <1>1, <1>4, <1>8, <2>2 DEF Claimed, At, Advances, Active
    <2> QED
      BY <2>1, <2>2
  <1>10. NextAhead'
    BY <1>1, <1>4, <1>8 DEF NextAhead
  <1>11. EachOccurrenceOnce'
    BY <1>1, <1>4 DEF EachOccurrenceOnce
  <1>12. Alone'
    BY <1>1, <1>4, <1>8 DEF Alone
  <1>13. faults' = 0 => faults = 0
    BY <1>1 DEF Moves, TypeOK
  <1>14. \A q \in Runs : Settled(q)'
    <2> SUFFICES ASSUME NEW q \in Runs, q # r
                 PROVE  Settled(q)'
      OBVIOUS
    <2>1. Settled(q)
      BY EachSettled
    <2>2. /\ status'[q] = status[q] /\ moved'[q] = moved[q] /\ turn'[q] = turn[q]
          /\ spoken'[q] = spoken[q] /\ (q \in noisy' <=> q \in noisy)
      BY DEF Moves
    <2> QED
      BY <1>4, <1>5, <1>8, <1>13, <2>1, <2>2 DEF Settled, At, Active, InSession, Unnoted
  <1>15. Recorded'
    <2>1. \A q \in Runs : rows'[q] # None => rows'[q].auto = task'[q].auto
      BY <1>1, <1>2, <1>4 DEF Recorded
    <2> QED
      BY <1>14, <2>1 DEF Recorded, Settled, Active, At
  <1>16. Owned'
    BY <1>5, <1>14 DEF Owned, Settled, At, Unnoted
  <1>17. Heard'
    BY <1>14 DEF Heard, Settled, InSession, At
  <1> QED
    BY <1>7, <1>8, <1>9, <1>10, <1>11, <1>12, <1>15, <1>16, <1>17 DEF RunsInv

-----------------------------------------------------------------------------
(* What starts a run, and what changes a schedule.                         *)

NewRun(a, slot, manual) ==
    [Unused EXCEPT !.at = "begin", !.auto = a, !.slot = slot, !.manual = manual,
                   !.asks = IF a \in Conditional THEN "condition" ELSE "action"]

LEMMA SpawnTakes ==
    ASSUME RunsInv, NEW a \in Autos, NEW slot \in Nat, NEW manual \in BOOLEAN,
           Spawn(a, slot, manual)
    PROVE  \E r \in Runs :
            /\ At(r, "unused") /\ task' = [task EXCEPT ![r] = NewRun(a, slot, manual)]
            /\ task' \in [Runs -> Task]
            /\ task'[r].at = "begin" /\ task'[r].auto = a /\ task'[r].slot = slot
            /\ task'[r].manual = manual /\ ~task'[r].heard
            /\ rows[r] = None /\ r \notin sessions
            /\ status[r] = "none" /\ turn[r] = "none" /\ ~moved[r]
            /\ \A q \in Runs : Active(q) => task[q].auto # a
            /\ running' = {task'[q].auto : q \in {p \in Runs : Active(p)'}}
  <1> DEFINE r == CHOOSE x \in Runs : At(x, "unused")
  <1>1. r \in Runs /\ At(r, "unused")
    BY DEF Spawn
  <1>2. task' = [task EXCEPT ![r] = NewRun(a, slot, manual)]
    BY DEF Spawn, NewRun
  <1> HIDE DEF r
  <1>3. task \in [Runs -> Task] /\ running = {task[q].auto : q \in {p \in Runs : Active(p)}}
    BY DEF RunsInv, TypeOK
  <1>4. /\ NewRun(a, slot, manual).at = "begin" /\ NewRun(a, slot, manual).auto = a
        /\ NewRun(a, slot, manual).slot = slot /\ NewRun(a, slot, manual).manual = manual
        /\ NewRun(a, slot, manual).heard = FALSE /\ NewRun(a, slot, manual) \in Task
    BY DEF NewRun, Unused, Task, Pc, RunStatus
  <1>5. task'[r] = NewRun(a, slot, manual) /\ task' \in [Runs -> Task]
        /\ \A q \in Runs \ {r} : task'[q] = task[q]
    BY <1>1, <1>2, <1>3, <1>4
  <1>6. rows[r] = None /\ r \notin sessions
    BY <1>1 DEF RunsInv, Claimed
  <1>7. status[r] = "none" /\ turn[r] = "none" /\ ~moved[r]
    BY <1>1, EachSettled DEF Settled, InSession, At
  <1>8. \A q \in Runs : Active(q) => task[q].auto # a
    BY <1>3 DEF Spawn
  <1>9. \A q \in Runs : Active(q)' <=> Active(q) \/ q = r
    BY <1>1, <1>4, <1>5 DEF Active, At
  <1>10. running' = {task'[q].auto : q \in {p \in Runs : Active(p)'}}
    <2>1. running' = running \cup {a} /\ ~Active(r)
      BY <1>1 DEF Spawn, Active, At
    <2>2. running' \subseteq {task'[q].auto : q \in {p \in Runs : Active(p)'}}
      BY <1>1, <1>3, <1>4, <1>5, <1>9, <2>1
    <2>3. {task'[q].auto : q \in {p \in Runs : Active(p)'}} \subseteq running'
      BY <1>1, <1>3, <1>4, <1>5, <1>9, <2>1
    <2> QED
      BY <2>2, <2>3
  <1> QED
    BY <1>1, <1>2, <1>4, <1>5, <1>6, <1>7, <1>8, <1>10

\* A run starts, and the schedules are such that it stays behind what is due next.
LEMMA SpawnKeeps ==
    ASSUME RunsInv, NEW a \in Autos, NEW slot \in Nat, NEW manual \in BOOLEAN,
           Spawn(a, slot, manual), up, slot <= now,
           ~manual => autos[a] # None /\ autos[a].next = slot,
           autos' \in [Autos -> Automation \cup {None}],
           \A n \in Autos \ {a} : autos'[n] = autos[n],
           autos'[a] = autos[a]
             \/ (autos'[a].next # None => autos'[a].next \in Nat /\ autos'[a].next > now),
           ~manual /\ autos'[a].next # None => autos'[a].next \in Nat /\ autos'[a].next > now,
           UNCHANGED <<rows, sessions, agentVars, up, now, noisy, leaked, bounds>>
    PROVE  RunsInv'
  <1>1. PICK r \in Runs :
            /\ At(r, "unused") /\ task' = [task EXCEPT ![r] = NewRun(a, slot, manual)]
            /\ task' \in [Runs -> Task]
            /\ task'[r].at = "begin" /\ task'[r].auto = a /\ task'[r].slot = slot
            /\ task'[r].manual = manual /\ ~task'[r].heard
            /\ rows[r] = None /\ r \notin sessions
            /\ status[r] = "none" /\ turn[r] = "none" /\ ~moved[r]
            /\ \A q \in Runs : Active(q) => task[q].auto # a
            /\ running' = {task'[q].auto : q \in {p \in Runs : Active(p)'}}
    BY SpawnTakes
  <1>2. /\ TypeOK /\ Budgeted /\ Claimed /\ NextAhead /\ EachOccurrenceOnce
        /\ Alone /\ Recorded /\ Owned /\ Heard
    BY DEF RunsInv
  <1>3. \A q \in Runs \ {r} : task'[q] = task[q]
    BY <1>1, <1>2 DEF TypeOK
  <1>4. \A q \in Runs : task[q].auto = a /\ ~task[q].manual => task[q].slot \in Nat /\ task[q].slot <= now
    BY <1>2, AutomationsAssumption DEF Claimed, At
  <1>5. now \in Nat
    BY <1>2, AutomationsAssumption DEF TypeOK
  <1>6. TypeOK'
    BY <1>1, <1>2 DEF TypeOK, agentVars, bounds, Active
  <1>7. Budgeted'
    BY <1>2 DEF Budgeted, bounds
  <1>8. Claimed'
    BY <1>1, <1>2, <1>3 DEF Claimed, At
  <1>9. NextAhead'
    <2> SUFFICES ASSUME NEW q \in Runs, NEW n \in Autos, task'[q].auto = n, ~task'[q].manual,
                        autos'[n] # None, autos'[n].next # None
                 PROVE  task'[q].slot < autos'[n].next
      BY DEF NextAhead
    <2>1. CASE n # a
      BY <1>1, <1>2, <1>3, <2>1 DEF NextAhead
    <2>2. CASE n = a /\ autos'[a].next \in Nat /\ autos'[a].next > now
      BY <1>1, <1>3, <1>4, <1>5, <2>2
    <2>3. CASE n = a /\ autos'[a] = autos[a] /\ q # r
      BY <1>2, <1>3, <2>3 DEF NextAhead
    <2>4. CASE n = a /\ q = r
      BY <1>1, <2>2, <2>4
    <2> QED
      BY <2>1, <2>2, <2>3, <2>4
  <1>10. EachOccurrenceOnce'
    <2>1. \A q \in Runs \ {r} : task'[q].auto = a /\ ~task'[q].manual /\ ~manual => task'[q].slot < slot
      <3>1. ASSUME NEW q \in Runs \ {r}, task'[q].auto = a, ~task'[q].manual, ~manual
            PROVE  task'[q].slot < slot
        <4>1. autos[a] # None /\ autos[a].next = slot /\ slot # None
          BY <3>1, AutomationsAssumption
        <4> QED
          BY <1>2, <1>3, <3>1, <4>1 DEF NextAhead
      <3> QED
        BY <3>1
    <2>2. \A q \in Runs \ {r} : task'[q].auto = a /\ ~task'[q].manual /\ ~manual => task'[q].slot # slot
      BY <1>3, <1>4, <2>1
    <2> QED
      BY <1>1, <1>2, <1>3, <2>2 DEF EachOccurrenceOnce
  <1>11. \A q \in Runs : Active(q)' <=> Active(q) \/ q = r
    BY <1>1, <1>3 DEF Active, At
  <1>12. Alone'
    BY <1>1, <1>2, <1>3, <1>11 DEF Alone
  <1>13. Recorded'
    BY <1>1, <1>2, <1>3, <1>11 DEF Recorded, bounds
  <1>14. Owned'
    BY <1>1, <1>2, <1>3 DEF Owned, At, Unnoted
  <1>15. Heard'
    BY <1>1, <1>2, <1>3 DEF Heard, InSession, agentVars, At
  <1> QED
    BY <1>6, <1>7, <1>8, <1>9, <1>10, <1>12, <1>13, <1>14, <1>15 DEF RunsInv

LEMMA AutoKnown ==
    ASSUME TypeOK, NEW a \in Autos, autos[a] # None
    PROVE  /\ autos[a] \in Automation /\ autos[a].schedule \in Schedule
           /\ autos[a].enabled \in BOOLEAN /\ autos[a].next \in Nat \cup {None}
  <1>1. autos[a] \in Automation
    BY DEF TypeOK
  <1> QED
    BY <1>1 DEF Automation

LEMMA DispatchKeeps ==
    ASSUME RunsInv, NEW a \in Autos, Dispatch(a)
    PROVE  RunsInv'
  <1> DEFINE slot == autos[a].next
             next == NextOccurrence(autos[a].schedule, slot, now)
  <1>1. TypeOK /\ Budgeted /\ autos[a] # None /\ slot # None /\ slot <= now /\ up
    BY DEF RunsInv, Dispatch, Due
  <1>2. /\ autos[a] \in Automation /\ autos[a].schedule \in Schedule /\ slot \in Nat
    BY <1>1, AutoKnown
  <1>3. now \in Nat
    BY <1>1, AutomationsAssumption DEF TypeOK
  <1>4. next # None => next \in Nat /\ next > now
    BY <1>1, <1>2, <1>3, NextOccurrenceIsLater
  <1>5. (next # None) \in BOOLEAN
    OBVIOUS
  <1> DEFINE new == [autos[a] EXCEPT !.next = next, !.enabled = next # None]
  <1>6. new \in Automation /\ new.next = next
    BY <1>2, <1>4, <1>5 DEF Automation
  <1>7. CASE /\ autos' = [autos EXCEPT ![a].next = next, ![a].enabled = next # None]
             /\ Spawn(a, slot, FALSE) /\ UNCHANGED <<faults, troubles>>
    <2>1. autos' = [autos EXCEPT ![a] = new]
      BY <1>1, <1>7 DEF TypeOK
    <2> HIDE DEF new, next
    <2>2. /\ autos' \in [Autos -> Automation \cup {None}] /\ autos'[a] = new
          /\ \A n \in Autos \ {a} : autos'[n] = autos[n]
      BY <1>1, <1>6, <2>1 DEF TypeOK
    <2>3. UNCHANGED <<rows, sessions, agentVars, up, now, noisy, leaked, bounds>>
      BY <1>7 DEF Dispatch, bounds
    <2>4. autos'[a].next # None => autos'[a].next \in Nat /\ autos'[a].next > now
      BY <1>4, <1>6, <2>2
    <2>5. Spawn(a, slot, FALSE)
      BY <1>7
    <2> HIDE DEF slot
    <2>6. ~FALSE => autos[a] # None /\ autos[a].next = slot
      BY <1>1 DEF slot
    <2> QED
      BY <1>1, <1>2, <2>2, <2>3, <2>4, <2>5, <2>6, SpawnKeeps
  <1>8. CASE Works(FALSE) /\ UNCHANGED <<autos, running, task>>
    <2>1. UNCHANGED <<autos, running, task, rows, sessions, agentVars, up, now, noisy, leaked, edits>>
      BY <1>8 DEF Dispatch
    <2>2. /\ faults' \in 0..MaxTroubles /\ troubles' \in 0..MaxTroubles /\ faults <= faults'
          /\ Budgeted' /\ faults' # 0
      BY <1>1, <1>8, WorksKeeps
    <2> QED
      BY <2>1, <2>2 DEF RunsInv, TypeOK, Claimed, NextAhead, EachOccurrenceOnce, Alone, Recorded,
                        Owned, Heard, At, Active, InSession, Unnoted, agentVars
  <1> QED
    BY <1>7, <1>8 DEF Dispatch

LEMMA RunNowKeeps ==
    ASSUME RunsInv, NEW a \in Autos, RunNow(a)
    PROVE  RunsInv'
  <1>1. now \in Nat /\ now <= now
    BY AutomationsAssumption DEF RunsInv, TypeOK
  <1>2. autos' = autos /\ autos' \in [Autos -> Automation \cup {None}]
    BY DEF RunNow, RunsInv, TypeOK, durableVars
  <1>3. /\ Spawn(a, now, TRUE) /\ up
        /\ UNCHANGED <<rows, sessions, agentVars, up, now, noisy, leaked, bounds>>
    BY DEF RunNow, durableVars
  <1> QED
    BY <1>1, <1>2, <1>3, SpawnKeeps

\* A schedule that changes is due after the present, and nothing else changes.
LEMMA EditKeeps ==
    ASSUME RunsInv, NEW a \in Autos,
           autos' \in [Autos -> Automation \cup {None}],
           \A n \in Autos \ {a} : autos'[n] = autos[n],
           autos'[a] = None \/ autos'[a].next = None \/ (autos'[a].next \in Nat /\ autos'[a].next > now),
           edits < MaxEdits, edits' = edits + 1,
           UNCHANGED <<rows, sessions, running, task, agentVars, up, now, noisy, leaked,
                       faults, troubles>>
    PROVE  RunsInv'
  <1>1. TypeOK /\ Claimed /\ NextAhead
    BY DEF RunsInv
  <1>2. edits' \in 0..MaxEdits
    BY <1>1, AutomationsAssumption DEF TypeOK
  <1>3. TypeOK'
    BY <1>1, <1>2 DEF TypeOK, Active, At, agentVars
  <1>4. NextAhead'
    <2> SUFFICES ASSUME NEW q \in Runs, NEW n \in Autos, task[q].auto = n, ~task[q].manual,
                        autos'[n] # None, autos'[n].next # None
                 PROVE  task[q].slot < autos'[n].next
      BY DEF NextAhead
    <2>1. CASE n # a
      BY <1>1, <2>1 DEF NextAhead
    <2>2. CASE n = a
      <3>1. task[q].slot \in Nat /\ task[q].slot <= now /\ now \in Nat
        BY <1>1, AutomationsAssumption DEF Claimed, At, TypeOK
      <3> QED
        BY <2>2, <3>1
    <2> QED
      BY <2>1, <2>2
  <1> QED
    BY <1>3, <1>4 DEF RunsInv, Budgeted, Claimed, EachOccurrenceOnce, Alone, Recorded, Owned, Heard,
                      At, Active, InSession, Unnoted, agentVars

LEMMA SaveKeeps ==
    ASSUME RunsInv, NEW a \in Autos, NEW sched \in Schedule, NEW enabled \in BOOLEAN,
           Save(a, sched, enabled)
    PROVE  RunsInv'
  <1>1. now \in Nat
    BY AutomationsAssumption DEF RunsInv, TypeOK
  <1> DEFINE next == IF enabled THEN NextAfter(sched, now) ELSE None
  <1>2. next = None \/ (next \in Nat /\ next > now)
    BY <1>1, NextAfterIsLater
  <1>3. Saved(sched, enabled) = [schedule |-> sched, enabled |-> enabled, next |-> next]
    BY DEF Saved
  <1> HIDE DEF next
  <1>4. Saved(sched, enabled) \in Automation /\ Saved(sched, enabled).next = next
    BY <1>2, <1>3 DEF Automation
  <1>5. /\ autos' \in [Autos -> Automation \cup {None}] /\ autos'[a] = Saved(sched, enabled)
        /\ \A n \in Autos \ {a} : autos'[n] = autos[n]
    BY <1>4 DEF Save, RunsInv, TypeOK
  <1>6. autos'[a].next = None \/ (autos'[a].next \in Nat /\ autos'[a].next > now)
    BY <1>2, <1>4, <1>5
  <1> QED
    BY <1>5, <1>6, EditKeeps DEF Save

LEMMA DeleteKeeps ==
    ASSUME RunsInv, NEW a \in Autos, Delete(a)
    PROVE  RunsInv'
  <1>1. /\ autos' \in [Autos -> Automation \cup {None}] /\ autos'[a] = None
        /\ \A n \in Autos \ {a} : autos'[n] = autos[n]
    BY DEF Delete, RunsInv, TypeOK
  <1> QED
    BY <1>1, EditKeeps DEF Delete

-----------------------------------------------------------------------------
(* The clock, the program, and the theorems.                               *)

LEMMA TimeKeeps ==
    ASSUME RunsInv, Time
    PROVE  RunsInv'
  <1>1. TypeOK /\ Claimed
    BY DEF RunsInv
  <1>2. now \in 0..MaxTime /\ MaxTime \in Nat
    BY <1>1, AutomationsAssumption DEF TypeOK
  <1>3. now' \in 0..MaxTime /\ now <= now'
    BY <1>2 DEF Time
  <1>4. UNCHANGED <<autos, rows, sessions, running, task, status, moved, turn, spoken, up, noisy,
                    leaked, edits, faults, troubles>>
    BY DEF Time, durableVars, agentVars, bounds
  <1>5. TypeOK'
    BY <1>1, <1>3, <1>4 DEF TypeOK, Active, At
  <1>6. Claimed'
    <2> SUFFICES ASSUME NEW q \in Runs, ~At(q, "unused"), ~task[q].manual
                 PROVE  task[q].slot <= now'
      BY <1>1, <1>4 DEF Claimed, At
    <2>1. task[q].slot \in Nat /\ task[q].slot <= now
      BY <1>1 DEF Claimed
    <2> QED
      BY <1>2, <1>3, <2>1
  <1> QED
    BY <1>4, <1>5, <1>6 DEF RunsInv, Budgeted, NextAhead, EachOccurrenceOnce, Alone, Recorded, Owned,
                      Heard, At, Active, InSession, Unnoted

LEMMA CrashKeeps ==
    ASSUME RunsInv, Crash
    PROVE  RunsInv'
  <1>1. /\ TypeOK /\ Budgeted /\ Claimed /\ NextAhead /\ EachOccurrenceOnce
        /\ Alone /\ Recorded /\ Owned /\ Heard
    BY DEF RunsInv
  <1>2. /\ UNCHANGED <<autos, rows, sessions, now, edits, faults>> /\ up' = FALSE /\ running' = {}
        /\ leaked' = leaked \cup Unnoted
    BY DEF Crash, durableVars
  <1>3. /\ task' \in [Runs -> Task]
        /\ \A q \in Runs : /\ task'[q].auto = task[q].auto /\ task'[q].slot = task[q].slot
                           /\ task'[q].manual = task[q].manual /\ ~Active(q)'
                           /\ (task'[q].at = "unused") <=> (task[q].at = "unused")
                           /\ ~task'[q].heard
    <2>1. \A q \in Runs :
            /\ Over(q) \in Task /\ Over(q).auto = task[q].auto /\ Over(q).slot = task[q].slot
            /\ Over(q).manual = task[q].manual /\ ~Over(q).heard /\ Over(q).at = "over"
      BY <1>1 DEF TypeOK, Over, Unused, Task, Pc, RunStatus
    <2>2. \A q \in Runs : /\ task[q] \in Task /\ task'[q] = IF Active(q) THEN Over(q) ELSE task[q]
                          /\ ~Active(q) => ~task[q].heard
      BY <1>1 DEF Crash, TypeOK, Heard, Active, At
    <2>3. task' \in [Runs -> Task]
      BY <2>1, <2>2 DEF Crash
    <2>4. ASSUME NEW q \in Runs
          PROVE  /\ task'[q].auto = task[q].auto /\ task'[q].slot = task[q].slot
                 /\ task'[q].manual = task[q].manual /\ ~Active(q)'
                 /\ (task'[q].at = "unused") <=> (task[q].at = "unused")
                 /\ ~task'[q].heard
      <3>1. CASE Active(q)
        BY <2>1, <2>2, <3>1 DEF Active, At
      <3>2. CASE ~Active(q)
        BY <2>2, <3>2 DEF Active, At
      <3> QED
        BY <3>1, <3>2
    <2> QED
      BY <2>3, <2>4
  <1>4. /\ AgentTyped' /\ noisy' = {}
        /\ \A q \in Runs : status'[q] = "none" /\ turn'[q] = "none" /\ ~moved'[q]
    BY <1>1 DEF Crash, Gone, AgentTyped, TypeOK
  <1>5. troubles' = troubles + 1 /\ troubles' \in 0..MaxTroubles
    BY <1>1, AutomationsAssumption DEF Crash, Trouble, TypeOK
  <1>6. leaked' \subseteq Runs /\ running' = {task'[q].auto : q \in {p \in Runs : Active(p)'}}
    BY <1>1, <1>2, <1>3 DEF TypeOK, Unnoted
  <1>7. TypeOK'
    BY <1>1, <1>2, <1>3, <1>4, <1>5, <1>6 DEF TypeOK, AgentTyped, Active
  <1>8. Budgeted'
    BY <1>1, <1>2, <1>5 DEF Budgeted, TypeOK
  <1>9. Claimed' /\ NextAhead' /\ EachOccurrenceOnce' /\ Alone'
    BY <1>1, <1>2, <1>3 DEF Claimed, NextAhead, EachOccurrenceOnce, Alone, At
  <1>10. Recorded'
    BY <1>1, <1>2, <1>3 DEF Recorded, Active, At
  <1>11. Owned'
    <2> SUFFICES ASSUME NEW q \in Runs, q \in sessions', q \notin leaked'
                 PROVE  At(q, "over")' /\ q \notin Unnoted'
      BY <1>1, <1>2 DEF Owned, TypeOK, At, Unnoted
    <2>1. q \notin Unnoted'
      BY <1>2 DEF Unnoted
    <2>2. task'[q].at # "unused"
      BY <1>1, <1>2, <1>3 DEF Claimed, At
    <2> QED
      BY <1>3, <2>1, <2>2 DEF Active, At
  <1>12. Heard'
    BY <1>3, <1>4 DEF Heard, Active, At, InSession
  <1> QED
    BY <1>7, <1>8, <1>9, <1>10, <1>11, <1>12 DEF RunsInv

\* The runs that were cut off are failed.
LEMMA RecoveryKeeps ==
    ASSUME RunsInv, ~up, up' = TRUE, NEW kept \in SUBSET Interrupted,
           NEW stuck \in SUBSET Interrupted, Works(kept \cup stuck = {}),
           sessions' = sessions \ {r \in Interrupted \ kept : rows[r].session},
           leaked' = leaked \cup (sessions \cap kept),
           rows' = [r \in Runs |-> IF r \in Interrupted \ stuck
                                   THEN [rows[r] EXCEPT !.status = "failed"] ELSE rows[r]],
           UNCHANGED <<autos, running, task, agentVars, now, noisy, edits>>
    PROVE  RunsInv'
  <1>1. /\ TypeOK /\ Budgeted /\ Claimed /\ NextAhead /\ EachOccurrenceOnce
        /\ Alone /\ Recorded /\ Owned /\ Heard
    BY DEF RunsInv
  <1>2. /\ Works(kept \cup stuck = {})
        /\ sessions' = sessions \ {r \in Interrupted \ kept : rows[r].session}
        /\ leaked' = leaked \cup (sessions \cap kept)
        /\ rows' = [r \in Runs |-> IF r \in Interrupted \ stuck
                                   THEN [rows[r] EXCEPT !.status = "failed"] ELSE rows[r]]
    OBVIOUS
  <1>3. UNCHANGED <<autos, running, task, agentVars, now, noisy, edits>> /\ ~up /\ up' = TRUE
    OBVIOUS
  <1>4. (kept \cup stuck = {}) \in BOOLEAN
    OBVIOUS
  <1>5. /\ faults' \in 0..MaxTroubles /\ troubles' \in 0..MaxTroubles /\ faults <= faults'
        /\ Budgeted' /\ (faults' = 0 => kept = {} /\ stuck = {})
    <2> DEFINE ok == kept \cup stuck = {}
    <2>1. ok \in BOOLEAN /\ Works(ok)
      BY <1>2
    <2>2. ok => kept = {} /\ stuck = {}
      OBVIOUS
    <2> HIDE DEF ok
    <2> QED
      BY <1>1, <2>1, <2>2, WorksKeeps
  <1>6. \A q \in Runs :
          /\ rows'[q] \in Row \cup {None} /\ (rows[q] = None => rows'[q] = None)
          /\ rows'[q] # None => rows[q] # None /\ rows'[q].auto = rows[q].auto
          /\ rows'[q] # None /\ rows'[q].status = "running" => q \in stuck
    <2> SUFFICES ASSUME NEW q \in Runs
                 PROVE  /\ rows'[q] \in Row \cup {None} /\ (rows[q] = None => rows'[q] = None)
                        /\ rows'[q] # None => rows[q] # None /\ rows'[q].auto = rows[q].auto
                        /\ rows'[q] # None /\ rows'[q].status = "running" => q \in stuck
      OBVIOUS
    <2>1. CASE q \in Interrupted \ stuck
      <3>1. rows[q] # None /\ rows[q] \in Row
        BY <1>1, <2>1 DEF TypeOK, Interrupted
      <3>2. rows'[q] = [rows[q] EXCEPT !.status = "failed"]
        BY <1>2, <2>1
      <3>3. rows'[q] \in Row /\ rows'[q].auto = rows[q].auto /\ rows'[q].status = "failed"
        BY <3>1, <3>2 DEF Row, RunStatus
      <3> QED
        BY <3>1, <3>3
    <2>2. CASE q \notin Interrupted \ stuck
      BY <1>1, <1>2, <2>2 DEF TypeOK, Interrupted
    <2> QED
      BY <2>1, <2>2
  <1>7. \A q \in Runs : ~Active(q)
    BY <1>1, <1>3 DEF Alone
  <1>8. rows' \in [Runs -> Row \cup {None}]
    BY <1>2, <1>6
  <1>9. TypeOK'
    BY <1>1, <1>2, <1>3, <1>5, <1>8 DEF TypeOK, Active, At, agentVars, Interrupted
  <1>10. Claimed' /\ NextAhead' /\ EachOccurrenceOnce' /\ Alone'
    BY <1>1, <1>2, <1>3, <1>6 DEF Claimed, NextAhead, EachOccurrenceOnce, Alone, At, Active
  <1>11. Recorded'
    BY <1>1, <1>3, <1>5, <1>6 DEF Recorded, Active, At
  <1>12. Owned'
    <2> SUFFICES ASSUME NEW q \in Runs, q \in sessions', q \notin leaked'
                 PROVE  FALSE
      BY <1>1, <1>2 DEF Owned, TypeOK, At, Unnoted
    <2>1. q \in sessions /\ q \notin leaked /\ q \notin kept
      BY <1>2
    <2>2. q \in Interrupted /\ rows[q].session
      BY <1>1, <1>7, <2>1 DEF Owned, Active, At, Unnoted, Interrupted
    <2> QED
      BY <1>2, <2>1, <2>2
  <1>13. Heard'
    BY <1>1, <1>3 DEF Heard, InSession, agentVars, At
  <1> QED
    BY <1>5, <1>9, <1>10, <1>11, <1>12, <1>13 DEF RunsInv

LEMMA StartKeeps ==
    ASSUME RunsInv, Start
    PROVE  RunsInv'
  <1>1. /\ TypeOK /\ Budgeted /\ Claimed /\ NextAhead /\ EachOccurrenceOnce
        /\ Alone /\ Recorded /\ Owned /\ Heard
    BY DEF RunsInv
  <1>2. UNCHANGED <<autos, running, task, agentVars, now, noisy, edits>> /\ ~up /\ up' = TRUE
    BY DEF Start
  <1>3. CASE Works(FALSE) /\ UNCHANGED <<rows, sessions, leaked>>
    <2>1. /\ faults' \in 0..MaxTroubles /\ troubles' \in 0..MaxTroubles /\ faults' # 0
          /\ Budgeted'
      BY <1>1, <1>3, WorksKeeps
    <2>2. TypeOK'
      BY <1>1, <1>2, <1>3, <2>1 DEF TypeOK, Active, At, agentVars
    <2>3. Claimed' /\ NextAhead' /\ EachOccurrenceOnce' /\ Alone'
      BY <1>1, <1>2, <1>3 DEF Claimed, NextAhead, EachOccurrenceOnce, Alone, At, Active
    <2>4. Recorded' /\ Owned' /\ Heard'
      BY <1>1, <1>2, <1>3, <2>1
         DEF Recorded, Owned, Heard, Active, At, Unnoted, InSession, agentVars
    <2> QED
      BY <2>1, <2>2, <2>3, <2>4 DEF RunsInv
  <1> QED
    BY <1>2, <1>3, RecoveryKeeps DEF Start

LEMMA RunsInit ==
    ASSUME Init
    PROVE  RunsInv
  <1>1. Unused \in Task /\ Unused.at = "unused" /\ Unused.auto = None /\ ~Unused.heard
    BY DEF Unused, Task, Pc, RunStatus
  <1>2. \A r \in Runs : task[r] = Unused /\ ~Active(r) /\ At(r, "unused")
    BY <1>1 DEF Init, Active, At
  <1>3. /\ task \in [Runs -> Task] /\ autos \in [Autos -> Automation \cup {None}]
        /\ rows \in [Runs -> Row \cup {None}]
    BY <1>1 DEF Init
  <1>4. TypeOK
    BY <1>2, <1>3, AutomationsAssumption DEF Init, TypeOK
  <1>5. Budgeted /\ Claimed /\ NextAhead
    BY <1>1, <1>2, AutomationsAssumption DEF Init, Budgeted, Claimed, NextAhead
  <1>6. EachOccurrenceOnce /\ Alone
    BY <1>1, <1>2 DEF Init, EachOccurrenceOnce, Alone
  <1>7. Recorded /\ Owned
    BY <1>1, <1>2 DEF Init, Recorded, Owned
  <1>8. Heard
    BY <1>1, <1>2 DEF Init, Heard, InSession, At
  <1> QED
    BY <1>4, <1>5, <1>6, <1>7, <1>8 DEF RunsInv

LEMMA RunsStep ==
    ASSUME RunsInv, [Next]_vars
    PROVE  RunsInv'
  <1>1. CASE \E r \in Runs : Proceed(r)
    BY <1>1, RunMoves, MovesKeeps
  <1>2. CASE \E r \in Runs : AgentStep(r)
    BY <1>2, AgentMoves, MovesKeeps
  <1>3. CASE \E a \in Autos : Dispatch(a)
    BY <1>3, DispatchKeeps
  <1>4. CASE \E a \in Autos : RunNow(a)
    BY <1>4, RunNowKeeps
  <1>5. CASE \E a \in Autos : Delete(a)
    BY <1>5, DeleteKeeps
  <1>6. CASE \E a \in Autos, sched \in Schedule, e \in BOOLEAN : Save(a, sched, e)
    BY <1>6, SaveKeeps
  <1>7. CASE Time
    BY <1>7, TimeKeeps
  <1>8. CASE Crash
    BY <1>8, CrashKeeps
  <1>9. CASE Start
    BY <1>9, StartKeeps
  <1>10. CASE UNCHANGED vars
    BY <1>10 DEF vars, durableVars, agentVars, bounds, RunsInv, TypeOK, Budgeted, Claimed,
                 NextAhead, EachOccurrenceOnce, Alone, Recorded, Owned, Heard, At, Active,
                 InSession, Unnoted
  <1> QED
    BY <1>1, <1>2, <1>3, <1>4, <1>5, <1>6, <1>7, <1>8, <1>9, <1>10 DEF Next

\* What the other theorems rest on: the invariant holds of every behaviour.
THEOREM RunsInvariant == Spec => []RunsInv
  <1>1. Init => RunsInv
    BY RunsInit
  <1>2. RunsInv /\ [Next]_vars => RunsInv'
    BY RunsStep
  <1> QED
    BY <1>1, <1>2, PTL DEF Spec

\* Every variable has its type, and the automations in flight are those of the runs that
\* are under way (spawn_run and the end of its task).
THEOREM AutomationsTypeCorrect == Spec => []TypeOK
  <1>1. RunsInv => TypeOK
    BY DEF RunsInv
  <1> QED
    BY <1>1, RunsInvariant, PTL

\* No occurrence of a schedule is run twice, however often the schedule is edited, a run
\* fails or the program is cut off (dispatch_due, next_automation_occurrence).
THEOREM OccurrencesRunOnce == Spec => []EachOccurrenceOnce
  <1>1. RunsInv => EachOccurrenceOnce
    BY DEF RunsInv
  <1> QED
    BY <1>1, RunsInvariant, PTL

\* The history never shows two runs of an automation under way (spawn_run,
\* recover_interrupted_runs), unless the database failed.
THEOREM OneRunAtATime == Spec => []OneRunUnderWay
  <1>1. RunsInv => OneRunUnderWay
    <2> SUFFICES ASSUME RunsInv, faults = 0, up, NEW r \in Runs, NEW q \in Runs,
                        rows[r] # None, rows[q] # None, rows[r].auto = rows[q].auto,
                        rows[r].status = "running", rows[q].status = "running"
                 PROVE  r = q
      BY DEF OneRunUnderWay
    <2>1. Active(r) /\ Active(q) /\ task[r].auto = task[q].auto
      BY DEF RunsInv, Recorded
    <2> QED
      BY <2>1 DEF RunsInv, Alone
  <1> QED
    BY <1>1, RunsInvariant, PTL

\* The session of a run is taken away again, or the history still leads to it
\* (close_session, delete_session, recover_interrupted_runs).
THEOREM SessionsTakenAway == Spec => []SessionsAccounted
  <1>1. RunsInv => SessionsAccounted
    BY DEF RunsInv, TypeOK, Owned, SessionsAccounted, Active, At
  <1> QED
    BY <1>1, RunsInvariant, PTL

\* What a run makes of its turn it makes when the turn is over (wait_for).
THEOREM JudgedWhenOver == Spec => []TurnIsOver
  <1>1. RunsInv => TurnIsOver
    BY DEF RunsInv, Heard, TurnIsOver
  <1> QED
    BY <1>1, RunsInvariant, PTL

=============================================================================
