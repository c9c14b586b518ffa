---------------------------- MODULE SessionQueue ----------------------------
(***************************************************************************)
(* The durable follow-up queue of ONE session.                             *)
(*                                                                         *)
(* Four parties touch it.  The session actor (one tokio task) edits the    *)
(* rows, keeps a copy of them in its snapshot (`view`) and hands one item  *)
(* at a time to the runtime; while it awaits the runtime's answer it       *)
(* handles nothing else.  The session manager, running in other tasks,     *)
(* adds rows for cross-session messages and withdraws rows of plan notices *)
(* that were resolved, straight in the database, and then pokes the actor; *)
(* when another session is archived or deleted, it withdraws what that one *)
(* had sent and pokes nobody.                                              *)
(* The Copilot runtime runs accepted prompts and reports through a channel *)
(* of events.  The session may be closed or archived, the process may quit *)
(* or crash, and the session is restored later from the rows alone.        *)
(***************************************************************************)
EXTENDS Naturals, Sequences, FiniteSets, Functions

CONSTANTS
    Items,        \* identifiers of queue items (a v4 UUID is used once)
    Messages,     \* items created by send_session_message / child completion
    Notices,      \* items created for a plan that waits for its parent
    Direct,       \* a prompt sent past the queue (SessionCommand::Send)
    None,         \* no item
    MaxPosition,  \* bound: ordering keys, in units of QUEUE_POSITION_STRIDE
    MaxRows,      \* bound: rows ever inserted
    MaxEdits,     \* bound: how often the text of an item is edited
    MaxEvents,    \* bound: provider events not yet read by the actor
    MaxFaults     \* bound: crashes plus failed database calls

Linked == Messages \cup Notices

ASSUME QueueAssumption ==
    /\ Messages \subseteq Items /\ Notices \subseteq Items
    /\ Messages \cap Notices = {}
    /\ None \notin Items /\ Direct \notin Items
    /\ IsFiniteSet(Items)
    /\ MaxPosition \in Nat \ {0} /\ MaxEdits \in Nat /\ MaxRows \in Nat
    /\ MaxEvents \in Nat \ {0} /\ MaxFaults \in Nat

VARIABLES
    queue,      \* durable: [items, paused], tables queue_items and queue_state
    ledger,     \* durable: state of the coordination row linked to each item
    read,       \* durable: coordination rows with read_at set
    history,    \* durable, kept by the runtime: linked prompts turns started on
    view,       \* the actor's copy of the queue, `state.queue`
    status,     \* the actor's `state.status`
    alive,      \* the actor task exists
    sending,    \* the item whose deliver_queued is awaited, or None
    reply,      \* what deliver_queued will return: "none" until it does
    installed,  \* the handle is in SessionManager.sessions
    poked,      \* a QueueCommand::Sync waits in the actor's mailbox
    events,     \* provider events on their way to the actor
    inbox,      \* runtime: accepted prompts no turn has started on
    turn,       \* runtime: prompts the running turn works on
    accepted,   \* ghost: how often the runtime accepted each item
    faults,     \* ghost: crashes and failed database calls so far
    crashes     \* ghost: the crashes among them

durableVars == <<queue, ledger, read, history>>
actorVars   == <<view, status, alive, sending, reply, installed, poked>>
runtimeVars == <<events, inbox, turn>>
ghostVars   == <<accepted, faults, crashes>>
vars == <<durableVars, actorVars, runtimeVars, ghostVars>>

-----------------------------------------------------------------------------
(* Rows and the coordination ledger.                                       *)

RowState == {"unborn", "pending", "dispatched", "completed", "failed", "gone"}
Row  == [state : RowState, pos : 0..MaxPosition, steer : BOOLEAN, text : 0..MaxEdits]
View == [items : [Items -> Row], paused : BOOLEAN]

Unborn == [state |-> "unborn", pos |-> 0, steer |-> FALSE, text |-> 0]

\* The last four are failed rows whose link to the queue item was cleared, told
\* apart by the error they carry.
LinkedState == {"pending", "dispatched", "delivered", "failed"}
LedgerState == LinkedState \cup {"none", "cancelled", "resolved", "expired", "retired"}
Status == {"starting", "running", "idle", "failed", "cancelled", "disconnected"}
Event  == {"turn", "idle", "aborted", "error"}
Prompt == Items \X (0..MaxEdits)
Work   == Prompt \cup {Direct}

ASSUME DirectIsNoPrompt == Direct \notin Prompt

InState(q, s) == {i \in Items : q.items[i].state = s}
Stored(q)     == {i \in Items : q.items[i].state \notin {"unborn", "gone"}}

MayInsert == Cardinality({i \in Items : queue.items[i].state # "unborn"}) < MaxRows

\* What a coordination row says of a queue row in state s.
LedgerOf(s) == IF s = "completed" THEN "delivered" ELSE s

\* upsert_queue_item of the cached rows of S, in state s: the row is written
\* back as the actor last read it, inserted anew if it is no longer there.
Upserted(q, v, S, s) ==
    [q EXCEPT !.items = [i \in Items |->
        IF i \in S THEN [v.items[i] EXCEPT !.state = s] ELSE q.items[i]]]

\* ... and the linked coordination rows follow in the same transaction.
Synchronized(led, S, s) ==
    [i \in Items |-> IF i \in S /\ led[i] \in LinkedState
                     THEN LedgerOf(s) ELSE led[i]]

\* The next position is read before the row is written, so a writer in another
\* task that read the same maximum may have taken it in between: p may tie.
IsNextPosition(q, p) ==
    /\ \A i \in Stored(q) : q.items[i].pos <= p
    /\ \/ p = 1
       \/ \E i \in Stored(q) : q.items[i].pos \in {p - 1, p}

Inserted(q, i, p, s) ==
    [q EXCEPT !.items[i] =
        [state |-> "pending", pos |-> p, steer |-> s, text |-> 0]]

\* Mutant: a row goes whatever became of it.
DeletedAnyway(q, S) ==
    [q EXCEPT !.items = [i \in Items |->
        IF i \in S /\ q.items[i].state # "unborn"
        THEN [Unborn EXCEPT !.state = "gone"] ELSE q.items[i]]]

\* delete_queue_item: only a pending row goes.
Deleted(q, S) ==
    [q EXCEPT !.items = [i \in Items |->
        IF i \in S /\ q.items[i].state = "pending"
        THEN [Unborn EXCEPT !.state = "gone"] ELSE q.items[i]]]

\* Mutant: the linked coordination row is left alone.
StillLinked(q, led, S, why) == led

\* The coordination rows of deleted items fail, and lose their link.
Unlinked(q, led, S, why) ==
    [i \in Items |-> IF i \in S /\ led[i] \in LinkedState
                        /\ q.items[i].state = "pending"
                     THEN why ELSE led[i]]

-----------------------------------------------------------------------------
(* The actor: draining the queue.                                          *)

\* Mutant: every pending item may go while a turn runs.
EligibleWhileBusy(s, v) == InState(v, "pending")

\* Pending items the actor may deliver now; equal positions are ordered by
\* creation time and random id, which leaves the choice open.
Eligible(s, v) ==
    {i \in InState(v, "pending") : s = "idle" \/ v.items[i].steer}
Candidates(s, v) ==
    {i \in Eligible(s, v) :
        \A j \in Eligible(s, v) : v.items[i].pos <= v.items[j].pos}

\* Mutant: every unfinished item is taken for finished.
RetiredUnfinished(s, v) ==
    IF s = "idle" THEN InState(v, "dispatched") \cup InState(v, "pending") ELSE {}

\* complete_dispatched: what the actor takes for finished when idle.
Retired(s, v) == IF s = "idle" THEN InState(v, "dispatched") ELSE {}

\* drain_queue up to its await, on durable rows q and ledger led, with the
\* actor's copy v, after n faults.  When idle it first retires what it believes
\* dispatched: `lost` are the items whose update fails, `reread` whether the
\* reload works.
DrainAfter(n, s, q, led, v) ==
    LET done == Retired(s, v)
    IN \E lost \in SUBSET done, reread \in BOOLEAN :
        LET kept == done \ lost
            q2   == Upserted(q, v, kept, "completed")
            v2   == IF done # {} /\ reread THEN q2 ELSE v
            bad  == lost # {} \/ ~reread
        IN /\ bad => done # {} /\ n < MaxFaults
           /\ faults' = IF bad THEN n + 1 ELSE n
           /\ queue' = q2
           /\ ledger' = Synchronized(led, kept, "completed")
           /\ view' = v2
           /\ IF v2.paused \/ Candidates(s, v2) = {}
              THEN sending' = None
              ELSE sending' \in Candidates(s, v2)

Drain(s, q, led, v) == DrainAfter(faults, s, q, led, v)

Ready == alive /\ sending = None

\* A command that returns its error after the rows were written: the actor
\* keeps its old copy and delivers nothing.
EditFails(q, led) ==
    /\ faults < MaxFaults
    /\ faults' = faults + 1
    /\ queue' = q /\ ledger' = led
    /\ UNCHANGED <<view, sending>>

\* Mutant: the actor drains without reading the rows again.
AfterEditUnread(q, led) == Drain(status, q, led, view) \/ EditFails(q, led)

\* The tail every command shares: reload (which may fail), publish, drain.
AfterEdit(q, led) == Drain(status, q, led, q) \/ EditFails(q, led)

otherCommandVars ==
    <<read, history, status, alive, reply, installed, runtimeVars, accepted,
      crashes>>

Command(q, led) ==
    /\ Ready /\ installed
    /\ AfterEdit(q, led)
    /\ UNCHANGED <<otherCommandVars, poked>>

\* A follow-up the developer lines up.
Enqueue(i, s) ==
    /\ i \notin Linked
    /\ queue.items[i].state = "unborn" /\ MayInsert
    /\ \E p \in 1..MaxPosition :
        IsNextPosition(queue, p) /\ Command(Inserted(queue, i, p, s), ledger)

\* Only an undelivered item can be edited; otherwise the command is a no-op.
UpdateText(i) ==
    /\ queue.items[i].state = "pending"
    /\ queue.items[i].text < MaxEdits
    /\ Command([queue EXCEPT !.items[i].text = @ + 1], ledger)

Remove(i) ==
    /\ queue.items[i].state # "unborn"
    /\ Command(Deleted(queue, {i}), Unlinked(queue, ledger, {i}, "cancelled"))

\* Row by row; when one deletion fails the rest stays and the command returns.
Clear ==
    \/ Command(Deleted(queue, Items), Unlinked(queue, ledger, Items, "cancelled"))
    \/ \E S \in SUBSET InState(queue, "pending") :
        /\ Ready /\ installed
        /\ EditFails(Deleted(queue, S), Unlinked(queue, ledger, S, "cancelled"))
        /\ UNCHANGED <<otherCommandVars, poked>>

\* The user interface lists the items it last saw pending, in the wanted order;
\* an id that is gone since takes a rank and moves no row.
Reorder(S) ==
    \E rank \in [S -> 1..MaxPosition] :
        /\ \A i, j \in S : rank[i] = rank[j] => i = j
        /\ Command([queue EXCEPT !.items = [i \in Items |->
                       IF i \in S THEN [queue.items[i] EXCEPT !.pos = rank[i]]
                       ELSE queue.items[i]]], ledger)

\* Mutant: resuming waits for the next idle event.
SetPausedOnly(b) ==
    /\ Ready /\ installed
    /\ queue' = [queue EXCEPT !.paused = b] /\ view' = queue'
    /\ UNCHANGED <<otherCommandVars, poked, ledger, sending, faults>>

SetPaused(b) == Command([queue EXCEPT !.paused = b], ledger)

\* QueueCommand::Sync, sent by sync_live_queue.
Sync ==
    /\ Ready /\ poked
    /\ poked' = FALSE
    /\ AfterEdit(queue, ledger)
    /\ UNCHANGED otherCommandVars

\* Mutant: a failed item is tried again.
OutcomeRetried(r) == IF r = "ok" THEN "dispatched" ELSE "pending"

\* A failed item is final: it is not retried on the next idle event.
Outcome(r) == IF r = "ok" THEN "dispatched" ELSE "failed"

\* The rest of drain_queue, once deliver_queued has returned: the outcome is
\* written (`saved`), the copy reloaded (`reread`).
DeliveryReturns ==
    /\ alive /\ sending # None /\ reply # "none"
    /\ \E saved, reread \in BOOLEAN :
        LET outcome == Outcome(reply)
            S   == IF saved THEN {sending} ELSE {}
            bad == ~saved \/ ~reread
        IN /\ bad => faults < MaxFaults
           /\ faults' = IF bad THEN faults + 1 ELSE faults
           /\ queue' = Upserted(queue, view, S, outcome)
           /\ ledger' = Synchronized(ledger, S, outcome)
           /\ view' = IF reread THEN Upserted(queue, view, S, outcome) ELSE view
    /\ sending' = None
    /\ reply' = "none"
    /\ UNCHANGED <<read, history, status, alive, installed, poked,
                   runtimeVars, accepted, crashes>>

-----------------------------------------------------------------------------
(* The actor: provider events, direct prompts, cancellation.               *)

\* Mutant: a turn that reports an error has ended.
StatusAfterError(e) ==
    CASE e = "turn" -> "running" [] e \in {"idle", "error"} -> "idle"
      [] e = "aborted" -> "cancelled"

\* status_for_event; requests for interaction count as "running" here.
StatusAfter(e) ==
    CASE e = "turn" -> "running" [] e = "idle" -> "idle"
      [] e = "aborted" -> "cancelled" [] e = "error" -> "failed"

\* apply_raw and sync_queue: session.idle is what drains the queue.  "aborted"
\* is the session.idle that closes an aborted turn: it leaves the status
\* cancelled, so only steering items are delivered on it.
ReadEvent ==
    /\ status' = StatusAfter(Head(events))
    /\ IF Head(events) \in {"idle", "aborted"}
       THEN Drain(StatusAfter(Head(events)), queue, ledger, view)
       ELSE UNCHANGED <<queue, ledger, view, sending, faults>>

\* An event that cannot be stored changes nothing (SM:3935).
DropEvent ==
    /\ faults < MaxFaults
    /\ faults' = faults + 1
    /\ UNCHANGED <<queue, ledger, view, sending, status>>

ApplyEvent ==
    /\ Ready /\ events # <<>>
    /\ events' = Tail(events)
    /\ ReadEvent \/ DropEvent
    /\ UNCHANGED <<read, history, alive, reply, installed, poked,
                   inbox, turn, accepted, crashes>>

SendDirect ==
    /\ Ready /\ installed
    /\ Direct \notin inbox \cup turn
    /\ inbox' = inbox \cup {Direct}
    /\ UNCHANGED <<durableVars, actorVars, events, turn, ghostVars>>

\* The abort stops the running turn; prompts still in the inbox may survive it.
Cancel ==
    /\ Ready /\ installed
    /\ Len(events) < MaxEvents
    /\ events' = Append(events, "aborted")
    /\ turn' = {}
    /\ inbox' \in {inbox, {}}
    /\ UNCHANGED <<durableVars, actorVars, ghostVars>>

-----------------------------------------------------------------------------
(* The session manager, from other tasks.                                  *)

\* create_coordination_item / create_plan_waiting_item in one transaction, then
\* sync_live_queue, which finds the actor only through the sessions map.
CreateCoordination(i, s) ==
    /\ i \in Linked
    /\ queue.items[i].state = "unborn" /\ MayInsert
    /\ \E p \in 1..MaxPosition :
        IsNextPosition(queue, p) /\ queue' = Inserted(queue, i, p, s)
    /\ ledger' = [ledger EXCEPT ![i] = "pending"]
    /\ poked' = (poked \/ (alive /\ installed))
    /\ UNCHANGED <<read, history, view, status, alive, sending, reply,
                   installed, runtimeVars, ghostVars>>

\* mark_plan_waiting_notification_read: the plan a notice is about was answered
\* or withdrawn.  A row still pending goes; any other row is only marked read.
ResolveNotice(i) ==
    /\ i \in Notices \ read
    /\ queue.items[i].state # "unborn"
    /\ queue' = Deleted(queue, {i})
    /\ ledger' = Unlinked(queue, ledger, {i}, "resolved")
    /\ read' = read \cup {i}
    /\ poked' = (poked \/ (alive /\ installed))
    /\ UNCHANGED <<history, view, status, alive, sending, reply,
                   installed, runtimeVars, ghostVars>>

\* retire_pending_coordination_transaction, of the items that another session,
\* now archived or deleted, has sent here.
RetiredFrom(S) ==
    /\ queue' = Deleted(queue, {i \in S : ledger[i] \in {"pending", "dispatched"}})
    /\ ledger' = [i \in Items |-> IF i \in S /\ ledger[i] = "pending"
                                 THEN "retired" ELSE ledger[i]]
    /\ read' = read \cup {i \in S \cap Notices : ledger[i] = "pending"}

\* Nobody tells the actor: the copy may still have a row as pending, and deliver it.
RetireSender(S) ==
    /\ RetiredFrom(S)
    /\ UNCHANGED <<history, actorVars, runtimeVars, ghostVars>>

-----------------------------------------------------------------------------
(* The runtime, as the code uses it.                                       *)

\* The user prompts of the transcript; only those of linked items are compared.
Recorded(W) == {w \in W : w # Direct /\ w[1] \in Linked}

Accept(i) ==
    LET prompt == <<i, view.items[i].text>>
    IN /\ accepted' = [accepted EXCEPT ![i] = @ + 1]
       /\ IF view.items[i].steer /\ turn # {}
          THEN /\ turn' = turn \cup {prompt}
               /\ history' = history \cup Recorded({prompt})
               /\ UNCHANGED inbox
          ELSE /\ inbox' = inbox \cup {prompt}
               /\ UNCHANGED <<turn, history>>

\* The runtime takes the prompt; its answer may still get lost on the way.
RuntimeAccepts ==
    /\ alive /\ sending # None /\ reply = "none"
    /\ Accept(sending)
    /\ reply' \in {"ok", "error"}
    /\ UNCHANGED <<queue, ledger, read, view, status, alive, sending,
                   installed, poked, events, faults, crashes>>

RuntimeRejects ==
    /\ alive /\ sending # None /\ reply = "none"
    /\ reply' = "error"
    /\ UNCHANGED <<durableVars, view, status, alive, sending, installed,
                   poked, runtimeVars, ghostVars>>

\* A turn starts on one prompt of the inbox, or goes on with the next one.
TurnStart(w) ==
    /\ alive /\ w \in inbox
    /\ Len(events) < MaxEvents
    /\ inbox' = inbox \ {w}
    /\ turn' = turn \cup {w}
    /\ history' = history \cup Recorded({w})
    /\ events' = Append(events, "turn")
    /\ UNCHANGED <<queue, ledger, read, actorVars, ghostVars>>

\* The loop goes idle once nothing is left to work on.
TurnEnd ==
    /\ alive /\ turn # {} /\ inbox = {}
    /\ Len(events) < MaxEvents
    /\ turn' = {}
    /\ events' = Append(events, "idle")
    /\ UNCHANGED <<durableVars, actorVars, inbox, ghostVars>>

TurnError ==
    /\ alive /\ turn # {}
    /\ Len(events) < MaxEvents
    /\ events' = Append(events, "error")
    /\ UNCHANGED <<durableVars, actorVars, inbox, turn, ghostVars>>

-----------------------------------------------------------------------------
(* Closing, crashing, restoring.                                           *)

\* What is lost with the actor and its isolated runtime.
Gone ==
    /\ alive' = FALSE /\ sending' = None /\ reply' = "none"
    /\ installed' = FALSE /\ poked' = FALSE
    /\ status' = "disconnected"
    /\ view' = [items |-> [i \in Items |-> Unborn], paused |-> FALSE]
    /\ events' = <<>> /\ inbox' = {} /\ turn' = {}

\* retire_stale_plan_waiting_notifications, on every start of the process:
\* every unread notice expires, whatever became of its queue row.
ExpireNotices ==
    LET stale == {i \in Notices \ read : ledger[i] # "none"}
    IN /\ queue' = Deleted(queue, {i \in stale : ledger[i] \in LinkedState})
       /\ ledger' = [i \in Items |-> IF i \in stale THEN "expired" ELSE ledger[i]]
       /\ read' = read \cup stale

\* close_session, or the provider's stream ended.
Close ==
    /\ Ready
    /\ Gone
    /\ UNCHANGED <<durableVars, ghostVars>>

\* archive_session, once the actor is gone: what waits in the ledger or was handed
\* over is given up; the session may be unarchived and restored.
RetireOwn ==
    LET given == {i \in Linked : ledger[i] = "dispatched"}
        open  == given \cup {i \in Linked : ledger[i] = "pending"}
        kept  == Deleted(queue, open)
    IN /\ ~alive
       /\ queue' = Upserted(kept, kept, given \cap InState(queue, "dispatched"), "failed")
       /\ ledger' = [i \in Items |-> IF i \in open THEN "retired" ELSE ledger[i]]
       /\ read' = read \cup (open \cap Notices)
       /\ UNCHANGED <<history, actorVars, runtimeVars, ghostVars>>

\* The process quits in order and starts again.
QuitAndStart ==
    /\ alive => sending = None
    /\ Gone
    /\ ExpireNotices
    /\ UNCHANGED <<history, ghostVars>>

CrashAndStart ==
    /\ alive /\ faults < MaxFaults
    /\ faults' = faults + 1
    /\ crashes' = crashes + 1
    /\ Gone
    /\ ExpireNotices
    /\ UNCHANGED <<history, accepted>>

\* Mutant: only rows marked as dispatched are compared with the history.
ReconciledDispatched(q, led) ==
    {i \in InState(q, "dispatched") :
        led[i] \in LinkedState /\ <<i, q.items[i].text>> \in history}

\* Linked rows whose exact prompt is in the runtime's history were delivered.
Reconciled(q, led) ==
    {i \in InState(q, "pending") \cup InState(q, "dispatched") :
        led[i] \in LinkedState /\ <<i, q.items[i].text>> \in history}

\* load_queue and the drain after it.  Each of its two calls may fail: then nothing
\* is reconciled (not `told`), or the copy stays as empty as it was (not `loaded`).
LoadQueue(told, loaded) ==
    LET S == IF told THEN Reconciled(queue, ledger) ELSE {}
        q == Upserted(queue, queue, S, "completed")
        n == faults + (IF told THEN 0 ELSE 1) + (IF loaded THEN 0 ELSE 1)
    IN /\ n <= MaxFaults
       /\ DrainAfter(n, "idle", q, Synchronized(ledger, S, "completed"),
                     IF loaded THEN q ELSE view)

\* reconcile_after_restart leaves the status idle; SessionActor::run loads the
\* queue and drains it, before the session is installed.
Restore ==
    /\ ~alive
    /\ \E told, loaded \in BOOLEAN : LoadQueue(told, loaded)
    /\ alive' = TRUE
    /\ status' = "idle"
    /\ UNCHANGED <<read, history, reply, installed, poked, runtimeVars,
                   accepted, crashes>>

\* install_restored_runtime: from here on handles and pokes find the actor.
Install ==
    /\ alive /\ ~installed
    /\ installed' = TRUE
    /\ UNCHANGED <<durableVars, view, status, alive, sending, reply, poked,
                   runtimeVars, ghostVars>>

-----------------------------------------------------------------------------
\* A session just created: its actor runs, no prompt was sent yet.
Init ==
    /\ queue = [items |-> [i \in Items |-> Unborn], paused |-> FALSE]
    /\ ledger = [i \in Items |-> "none"]
    /\ read = {} /\ history = {}
    /\ view = queue /\ status = "starting"
    /\ alive = TRUE /\ sending = None /\ reply = "none"
    /\ installed = TRUE /\ poked = FALSE
    /\ events = <<>> /\ inbox = {} /\ turn = {}
    /\ accepted = [i \in Items |-> 0]
    /\ faults = 0 /\ crashes = 0

UserStep ==
    \/ \E i \in Items, s \in BOOLEAN : Enqueue(i, s)
    \/ \E i \in Items : UpdateText(i) \/ Remove(i)
    \/ \E S \in SUBSET Stored(queue) : Reorder(S)
    \/ \E b \in BOOLEAN : SetPaused(b)
    \/ Clear \/ SendDirect \/ Cancel

ManagerStep ==
    \/ \E i \in Items, s \in BOOLEAN : CreateCoordination(i, s)
    \/ \E i \in Items : ResolveNotice(i)
    \/ \E S \in SUBSET Linked : RetireSender(S)

ActorStep == Sync \/ DeliveryReturns \/ ApplyEvent

RuntimeStep ==
    \/ RuntimeAccepts \/ RuntimeRejects
    \/ \E w \in Work : TurnStart(w)
    \/ TurnEnd \/ TurnError

LifecycleStep ==
    Close \/ RetireOwn \/ QuitAndStart \/ CrashAndStart \/ Restore \/ Install

Next == UserStep \/ ManagerStep \/ ActorStep \/ RuntimeStep \/ LifecycleStep

Spec == Init /\ [][Next]_vars

\* The runtime and tokio keep running; users, the manager and crashes need not.
Fairness ==
    /\ WF_vars(Sync) /\ WF_vars(DeliveryReturns) /\ WF_vars(ApplyEvent)
    /\ WF_vars(RuntimeAccepts \/ RuntimeRejects)
    /\ WF_vars(\E w \in Work : TurnStart(w)) /\ WF_vars(TurnEnd)
    /\ WF_vars(Install)

FairSpec == Spec /\ Fairness

-----------------------------------------------------------------------------
(* Properties.                                                             *)

TypeOK ==
    /\ queue \in View /\ view \in View
    /\ ledger \in [Items -> LedgerState]
    /\ read \subseteq Notices
    /\ history \subseteq Prompt
    /\ status \in Status
    /\ alive \in BOOLEAN /\ installed \in BOOLEAN /\ poked \in BOOLEAN
    /\ sending \in Items \cup {None}
    /\ reply \in {"none", "ok", "error"}
    /\ events \in Seq(Event)
    /\ inbox \subseteq Work /\ turn \subseteq Work
    /\ accepted \in [Items -> Nat]
    /\ faults \in Nat /\ crashes \in Nat

\* drain_queue must not deliver an item again on the next idle event ("a failed
\* item must not be retried"): the runtime accepts each follow-up once, plus at
\* most once more for every crash or failed database call that kept the
\* delivery from being recorded.
AtMostOnce == \A i \in Items : accepted[i] <= 1 + faults

\* A row the user sees as running or done was really handed to the runtime:
\* no order of edits, restarts and foreign writes invents a delivery.
NoPhantomDelivery ==
    \A i \in Items :
        queue.items[i].state \in {"dispatched", "completed"} => accepted[i] > 0

\* complete_dispatched takes an idle session's dispatched rows to have "had their
\* turn run to completion".  That is so once the actor has read that the turn
\* began: unless a database call failed, it completes no row the runtime works on,
\* whatever commands, pokes, aborts and restarts come in between.  (A row handed
\* over may be completed before that, when the status is still idle.)
RetiredAfterTurn ==
    [][faults = crashes =>
        \A w \in turn \ {Direct} :
            /\ queue.items[w[1]].state = "dispatched"
            /\ queue'.items[w[1]].state = "completed"
            => "turn" \in Range(events)]_vars

\* The coordination row says what its queue row says, as long as it is linked:
\* upserts, deletions, resolutions and restarts keep the two tables together.
LedgerMatchesQueue ==
    \A i \in Items : ledger[i] \in LinkedState =>
        /\ i \in Stored(queue)
        /\ ledger[i] = LedgerOf(queue.items[i].state)

\* The copy the actor delivers from is never outdated about an item that still
\* has a row, unless a database call failed: other tasks can only have added or
\* withdrawn rows since, and a crash drops the copy together with the actor.
CachedPendingIsCurrent ==
    faults = crashes => \A i \in Items :
        view.items[i].state = "pending" /\ i \in Stored(queue)
            => view.items[i] = queue.items[i]

\* The session stays up with its queue running, and no turn is left in error
\* or aborted.
Undisturbed ==
    /\ alive /\ ~queue.paused
    /\ status \notin {"starting", "cancelled", "failed"}
LeavesPending(i) ==
    queue.items[i].state = "pending" ~> queue.items[i].state # "pending"

\* sync_queue and drain_queue: as long as no delivery fails, a session that ends
\* up undisturbed delivers every follow-up, or it is withdrawn: each idle event
\* releases the next one, in whatever order they were added, edited, moved,
\* paused and resumed before, across restarts.
FollowUpsDrain ==
    [](reply # "error") /\ <>[]Undisturbed =>
        \A i \in Items \ Linked : LeavesPending(i)

\* reconcile_coordination_queue_delivery: however the process dies, a message or
\* notice whose prompt is in the runtime's transcript is not handed over a second
\* time (unless the database failed, and the delivery went unrecorded).
TranscriptNotRepeated ==
    [][faults = crashes => \A i \in Linked :
        <<i, view.items[i].text>> \in history => accepted'[i] = accepted[i]]_vars

\* The rows, and what the runtime took, go through the stages of FollowUps.
Promise == INSTANCE FollowUps WITH
    stage  <- [i \in Items |-> queue.items[i].state],
    handed <- accepted,
    lost   <- faults

\* The queue as a whole: whatever the order of edits, deliveries, foreign writes,
\* restarts and failures, every step of it is one that FollowUps allows.
PromiseKept == Promise!Spec

=============================================================================
