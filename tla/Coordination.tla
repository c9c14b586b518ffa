---------------------------- MODULE Coordination ----------------------------
(***************************************************************************)
(* How a plan that an agent-created session asks about is announced to its *)
(* parent, answered, and withdrawn, and how a parent is told once that its *)
(* child came to rest.                                                     *)
(*                                                                         *)
(* The actor of the asking session keeps the runtime's open callback; it   *)
(* announces and withdraws through a channel of bounded capacity, and      *)
(* waits while that is full.  One task, the gateway, takes one event after *)
(* the other from the channel: announcements, withdrawals, completions and *)
(* the calls of agents' host tools.  The service thread runs the commands  *)
(* of the developer, one at a time.  Both wait for actors, and for the     *)
(* lifecycle lock; the database is shared, one transaction per call.       *)
(***************************************************************************)
EXTENDS Naturals, Sequences, FiniteSets

CONSTANTS
    Sessions,
    Parent,       \* Parent[s]: the session that created s, or None
    Ancestors,    \* Ancestors[s]: its parent, that one's parent, and so on
    Plans,        \* identifiers of ExitPlanMode interactions
    Calls,        \* tool calls of respond_to_session_plan; a retry is the same
    Caller,       \* Caller[k]: the session whose agent makes call k
    About,        \* About[k]: the plan call k answers
    Verdict,      \* what a plan can be answered with
    Wants,        \* Wants[k]: the verdict of call k
    Gateway, Service,
    None,
    Capacity,     \* room in the channel (16 in the program)
    MaxTurns,     \* bound: turns started, and cancelled, closed and archived
                  \* sessions, together
    MaxTroubles   \* bound: failed database calls, failed events, lost runtimes,
                  \* abandoned callbacks and crashes, together

Workers == {Gateway, Service}
Unheard == {"none", "cancel", "lost"}

ASSUME CoordinationAssumption ==
    /\ None \notin Sessions \cup Plans \cup Workers
    /\ Gateway # Service
    /\ Parent \in [Sessions -> Sessions \cup {None}]
    /\ Ancestors \in [Sessions -> SUBSET Sessions]
    /\ \A s \in Sessions : Ancestors[s] =
            IF Parent[s] = None THEN {} ELSE {Parent[s]} \cup Ancestors[Parent[s]]
    /\ Caller \in [Calls -> Sessions] /\ About \in [Calls -> Plans]
    /\ Wants \in [Calls -> Verdict] /\ Verdict \cap Unheard = {}
    /\ Calls \cap ({"ui", "invalidation"} \X Plans) = {}
    /\ Capacity \in Nat \ {0} /\ MaxTurns \in Nat /\ MaxTroubles \in Nat

VARIABLES
    responses,    \* durable: table plan_responses
    notice,       \* durable: what became of the plan_waiting row of each plan
    unread,       \* durable: plans whose row has no read_at
    completion,   \* durable: what the once-only completion row of a child says
    status,       \* durable with the events: the state of each session
    hidden,       \* durable: archived or deleted sessions
    owner,        \* runtime: the session that asked about each plan
    working,      \* runtimes whose turn has not ended, as their actors heard
    answer,       \* runtime: what the callback of each plan returned
    arriving,     \* plans in the channel from the provider to the actor
    pending,      \* actors: plans in pending_responses
    listed,       \* actors: plans in state.pending_interactions
    shown,        \* the same in the snapshots the actors published
    up,           \* sessions whose actor runs
    installed,    \* sessions with an entry in SessionManager.sessions
    act,          \* what each actor is in the middle of
    channel,      \* events on their way to the gateway
    job,          \* what each worker is in the middle of
    lock,         \* who holds the lifecycle lock
    turns, faults, troubles \* bounds

durableVars == <<responses, notice, unread, completion, status, hidden>>
planVars    == <<owner, working, answer, arriving, pending, listed, shown>>
actorVars   == <<up, installed, act>>
bounds      == <<turns, faults, troubles>>
otherVars   == <<channel, job, lock, bounds>>
vars == <<durableVars, planVars, actorVars, otherVars>>

-----------------------------------------------------------------------------
(* Records.                                                                *)

\* Who answers: a tool call, the developer ("ui:<id>"), or nobody any more
\* ("invalidation:<id>").
By == Calls \cup ({"ui", "invalidation"} \X Plans)
Response == [by : By, plan : Plans, verdict : Verdict \cup {"cancel"},
             state : {"submitting", "submitted", "failed"}]
Notice == {"none", "pending", "handed", "withdrawn", "retired", "expired"}
Rest   == {"idle", "failed", "cancelled"}
Status == Rest \cup {"fresh", "busy"}
Event  == [kind : {"plan", "void", "over", "tool"},
           of : Plans \cup Sessions \cup Calls, status : Rest \cup {"none"}]
Act    == [at : {"ready", "plan", "over", "retire", "void"},
           plan : Plans \cup {None}, todo : SUBSET Plans,
           end : {"none", "cancel", "disconnect", "closed"}]
Job    == [op : {"idle", "answer", "plain", "plan", "void", "over",
                 "cancel", "close", "archive"},
           at : {"lock", "check", "claim", "ask", "await", "store", "fail",
                 "retire", "sync", "unmap", "none"},
           plan : Plans \cup {None}, sess : Sessions \cup {None},
           by : By \cup {None}, verdict : Verdict \cup Rest \cup {"none"}]

ASSUME NoneIsNoClaim ==
    None \notin [by : By, verdict : Verdict \cup {"cancel"},
                 state : {"submitting", "submitted", "failed"}]

Idle  == [op |-> "idle", at |-> "none", plan |-> None, sess |-> None,
          by |-> None, verdict |-> "none"]
Ready == [at |-> "ready", plan |-> None, todo |-> {}, end |-> "none"]

PlansOf(s) == {p \in Plans : owner[p] = s}
Visible(s) == s \notin hidden

\* The session a response is recorded for as its caller.
CallerOf(by) ==
    IF by \in Calls THEN Caller[by]
    ELSE IF by[1] = "ui" THEN Parent[owner[by[2]]] ELSE owner[by[2]]

\* Mutant: only the retried call is looked for, not another answer to the plan.
ClaimedByCall(by, p) == \E r \in responses : r.by = by

\* create_plan_response and the lookups before it: the same call or the same
\* interaction has a row.
Claimed(by, p) == \E r \in responses : r.by = by \/ r.plan = p

Trouble == troubles < MaxTroubles /\ troubles' = troubles + 1

\* A database call succeeds or fails.
Works(ok) ==
    IF ok THEN UNCHANGED <<faults, troubles>> ELSE Trouble /\ faults' = faults + 1

\* Mutant: only a notice that was not delivered is marked read.
WithdrawnPending(p) ==
    /\ notice' = [notice EXCEPT ![p] = IF @ = "pending" THEN "withdrawn" ELSE @]
    /\ unread' = IF notice[p] = "pending" THEN unread \ {p} ELSE unread

\* mark_plan_waiting_notification_read.
Withdrawn(p) ==
    /\ notice' = [notice EXCEPT ![p] = IF @ = "pending" THEN "withdrawn" ELSE @]
    /\ unread' = unread \ {p}

SetResponse(by, st) ==
    responses' = {IF r.by = by THEN [r EXCEPT !.state = st] ELSE r : r \in responses}

\* The channel to the gateway is bounded.
HasRoom == Len(channel) < Capacity

-----------------------------------------------------------------------------
(* The runtime of a session, as the code uses it.                          *)

AskPlan(s, p) ==
    /\ s \in up /\ owner[p] = None
    /\ owner' = [owner EXCEPT ![p] = s]
    /\ arriving' = arriving \cup {p}
    /\ UNCHANGED <<durableVars, working, answer, pending, listed, shown, actorVars, otherVars>>

\* The callback is given up before it was answered.
Abandon(p) ==
    /\ owner[p] # None /\ answer[p] = "none"
    /\ Trouble
    /\ answer' = [answer EXCEPT ![p] = "lost"]
    /\ UNCHANGED <<durableVars, owner, working, arriving, pending, listed, shown,
                   actorVars, channel, job, lock, turns, faults>>

\* An agent that knows the plan's identifier calls the tool, or calls again.
AgentCalls(k) ==
    /\ Caller[k] \in up /\ owner[About[k]] # None
    /\ HasRoom
    /\ ~\E i \in 1..Len(channel) : channel[i].kind = "tool" /\ channel[i].of = k
    /\ job[Gateway].by # k
    /\ channel' = Append(channel, [kind |-> "tool", of |-> k, status |-> "none"])
    /\ UNCHANGED <<durableVars, planVars, actorVars, job, lock, bounds>>

-----------------------------------------------------------------------------
(* The actor of a session.                                                 *)

IsReady(s) == s \in up /\ act[s].at = "ready"

\* receive_interaction: only a child announces its plan.
ReceivePlan(s, p) ==
    /\ IsReady(s) /\ owner[p] = s /\ p \in arriving
    /\ arriving' = arriving \ {p}
    /\ pending' = pending \cup {p}
    /\ listed' = listed \cup {p}
    /\ shown' = shown \cup {p}
    /\ act' = IF Parent[s] = None THEN act
              ELSE [act EXCEPT ![s] = [Ready EXCEPT !.at = "plan", !.plan = p]]
    /\ UNCHANGED <<durableVars, owner, working, answer, up, installed, otherVars>>

\* user.message and assistant.turn_start; within a turn any number of them.
TurnStart(s) ==
    /\ IsReady(s) /\ Parent[s] # None /\ status[s] # "busy"
    /\ IF s \in working THEN UNCHANGED turns
       ELSE turns < MaxTurns /\ turns' = turns + 1
    /\ working' = working \cup {s}
    /\ status' = [status EXCEPT ![s] = "busy"]
    /\ UNCHANGED <<responses, notice, unread, completion, hidden, owner, answer,
                   arriving, pending, listed, shown, actorVars, channel, job, lock,
                   faults, troubles>>

\* apply_raw: the status changes, and a busy session's parent is told.
Heard(s, st) ==
    /\ status' = [status EXCEPT ![s] = st]
    /\ act' = IF Parent[s] = None \/ status[s] # "busy" THEN act
              ELSE [act EXCEPT ![s] = [Ready EXCEPT !.at = "over"]]
    /\ UNCHANGED <<responses, notice, unread, completion, hidden, owner, answer,
                   arriving, pending, listed, shown, up, installed, channel, job, lock,
                   turns, faults>>

\* session.idle, of a turn that ended or was aborted.
TurnOver(s, st) ==
    /\ IsReady(s) /\ s \in working
    /\ st \in {"idle", "cancelled"}
    /\ st = "idle" => PlansOf(s) \cap listed = {}
    /\ working' = working \ {s}
    /\ Heard(s, st)
    /\ UNCHANGED troubles

\* An event of a tool, or of anything else, that failed within the turn.
WorkFails(s) ==
    /\ IsReady(s) /\ s \in working /\ status[s] = "busy"
    /\ Trouble
    /\ Heard(s, "failed")
    /\ UNCHANGED working

EventOf(s) ==
    CASE act[s].at = "plan" -> [kind |-> "plan", of |-> act[s].plan, status |-> "none"]
      [] act[s].at = "void" -> [kind |-> "void", of |-> act[s].plan, status |-> "none"]
      [] act[s].at = "over" -> [kind |-> "over", of |-> s, status |-> status[s]]

Notifying(s) == s \in up /\ act[s].at \in {"plan", "void", "over"}

\* The actor waits for room in the channel.
Notify(s) ==
    /\ Notifying(s)
    /\ HasRoom
    /\ channel' = Append(channel, EventOf(s))
    /\ act' = [act EXCEPT ![s] = IF @.at = "void"
                                 THEN [@ EXCEPT !.at = "retire", !.plan = None]
                                 ELSE Ready]
    /\ UNCHANGED <<durableVars, planVars, up, installed, job, lock, bounds>>

\* cancel_pending_interactions up to its first await: every open plan is claimed
\* as invalid (`lost` are the claims the database refused), and every callback
\* is told.  The snapshot others read is published later.
Cancelling(s, end) ==
    LET open == PlansOf(s) \cap listed
        told == PlansOf(s) \cap pending
    IN /\ \E lost \in SUBSET open :
            /\ faults' = IF lost = {} THEN faults ELSE faults + 1
            /\ IF lost = {} /\ end # "closed" THEN UNCHANGED troubles ELSE Trouble
            /\ responses' = responses \cup
                 {[by |-> <<"invalidation", p>>, plan |-> p, verdict |-> "cancel",
                   state |-> "failed"] :
                     p \in {q \in open \ lost : ~Claimed(<<"invalidation", q>>, q)}}
       /\ answer' = [p \in Plans |-> IF p \in told /\ answer[p] = "none"
                                     THEN "cancel" ELSE answer[p]]
       /\ pending' = pending \ told
       /\ listed' = listed \ open
       /\ act' = [act EXCEPT ![s] =
                    [Ready EXCEPT !.at = "retire", !.todo = open, !.end = end]]

\* SessionCommandKind::Cancel and Disconnect, read from the mailbox.
Obey(s) ==
    /\ IsReady(s)
    /\ job[Service].sess = s /\ job[Service].at = "ask"
    /\ Cancelling(s, IF job[Service].op = "cancel" THEN "cancel" ELSE "disconnect")
    /\ job' = [job EXCEPT ![Service].at = "await"]
    /\ UNCHANGED <<notice, unread, completion, status, hidden, owner, working,
                   arriving,
                   shown, up, installed, channel, lock, turns>>

\* handle_provider_closed.
ProviderCloses(s) ==
    /\ IsReady(s)
    /\ Cancelling(s, "closed")
    /\ UNCHANGED <<notice, unread, completion, status, hidden, owner, working,
                   arriving,
                   shown, up, installed, channel, job, lock, turns>>

\* One plan after the other: its notice is withdrawn, its parent told.
Retire(s) ==
    /\ s \in up /\ act[s].at = "retire"
    /\ \E p \in act[s].todo, ok \in BOOLEAN :
        /\ Works(ok)
        /\ IF ok THEN Withdrawn(p) ELSE UNCHANGED <<notice, unread>>
        /\ act' = [act EXCEPT ![s].todo = @ \ {p},
                              ![s].plan = IF Parent[s] = None THEN None ELSE p,
                              ![s].at = IF Parent[s] = None THEN "retire" ELSE "void"]
    /\ UNCHANGED <<responses, completion, status, hidden, planVars, up, installed,
                   channel, job, lock, turns>>

\* The callbacks a runtime that is gone still waited for.
LostWith(S) ==
    [p \in Plans |-> IF owner[p] \in S /\ answer[p] = "none" THEN "lost" ELSE answer[p]]

\* The command ends: the snapshot is published, and unless the session was only
\* cancelled its actor ends.
Ended(s) ==
    /\ s \in up /\ act[s].at = "retire" /\ act[s].todo = {}
    /\ act' = [act EXCEPT ![s] = Ready]
    /\ shown' = (shown \ PlansOf(s)) \cup (listed \cap PlansOf(s))
    /\ IF act[s].end = "cancel"
       THEN UNCHANGED <<up, answer, arriving>>
       ELSE /\ up' = up \ {s}
            /\ answer' = LostWith({s})
            /\ arriving' = arriving \ PlansOf(s)
    /\ job' = IF act[s].end = "closed" THEN job
              ELSE [job EXCEPT ![Service] =
                     CASE @.op = "cancel"  -> Idle
                       [] @.op = "close"   -> [@ EXCEPT !.at = "unmap"]
                       [] @.op = "archive" -> [@ EXCEPT !.at = "store"]]
    /\ UNCHANGED <<durableVars, owner, working, pending, listed, installed, channel, lock,
                   bounds>>

\* drain_queue of the parent hands the notice to its runtime.
Deliver(p) ==
    /\ notice[p] = "pending"
    /\ IsReady(Parent[owner[p]])
    /\ notice' = [notice EXCEPT ![p] = "handed"]
    /\ UNCHANGED <<responses, unread, completion, status, hidden, planVars,
                   actorVars, otherVars>>

-----------------------------------------------------------------------------
(* Workers: answering a plan.                                              *)

At(w, op, at) == job[w].op = op /\ job[w].at = at
Step(w, at)   == job' = [job EXCEPT ![w].at = at]
Finish(w)     == job' = [job EXCEPT ![w] = Idle]

\* Mutant: the lifecycle lock stays taken after a call that failed.
LockKept(w) == UNCHANGED lock

Release(w) == lock' = IF lock = w THEN None ELSE lock

\* The developer answers a plan some session shows: as its parent, if it has one.
ServiceAnswers(p, v) ==
    /\ job[Service] = Idle /\ p \in shown
    /\ job' = [job EXCEPT ![Service] =
         IF Parent[owner[p]] = None
         THEN [Idle EXCEPT !.op = "plain", !.at = "ask", !.plan = p, !.verdict = v]
         ELSE [Idle EXCEPT !.op = "answer", !.at = "lock", !.plan = p,
                           !.verdict = v, !.by = <<"ui", p>>]]
    /\ UNCHANGED <<durableVars, planVars, actorVars, channel, lock, bounds>>

\* self.lifecycle.lock().await
Lock(w) ==
    /\ job[w].at = "lock" /\ lock = None
    /\ lock' = w
    /\ IF job[w].op = "archive" /\ job[w].sess \in installed
       THEN Step(w, "ask") /\ installed' = installed \ {job[w].sess}
       ELSE /\ Step(w, IF job[w].op = "archive" THEN "store" ELSE "check")
            /\ UNCHANGED installed
    /\ UNCHANGED <<durableVars, planVars, up, act, channel, bounds>>

\* Mutant: any relative may answer, also the asking session itself.
MayAnswerAnyRelative(by, p) ==
    LET s == owner[p]
        c == CallerOf(by)
    IN /\ c \in Ancestors[s] \/ s \in Ancestors[c] \/ c = s
       /\ Visible(c) /\ Visible(s)

\* authorize_plan_response: an ancestor, and neither is archived or deleted.
MayAnswer(by, p) ==
    LET s == owner[p]
        c == CallerOf(by)
    IN c \in Ancestors[s] /\ Visible(c) /\ Visible(s)

\* authorize_plan_response and validate_live_plan.
Check(w) ==
    /\ At(w, "answer", "check")
    /\ LET p == job[w].plan
       IN IF /\ MayAnswer(job[w].by, p) /\ ~Claimed(job[w].by, p)
             /\ owner[p] \in installed /\ p \in shown
          THEN Step(w, "claim") /\ UNCHANGED lock
          ELSE Finish(w) /\ Release(w)
    /\ UNCHANGED <<durableVars, planVars, actorVars, channel, bounds>>

\* create_plan_response, one transaction.
Claim(w) ==
    /\ At(w, "answer", "claim")
    /\ LET j == job[w]
       IN IF Claimed(j.by, j.plan)
          THEN Finish(w) /\ Release(w) /\ UNCHANGED responses
          ELSE /\ responses' = responses \cup
                    {[by |-> j.by, plan |-> j.plan, verdict |-> j.verdict,
                      state |-> "submitting"]}
               /\ Step(w, "ask") /\ UNCHANGED lock
    /\ UNCHANGED <<notice, unread, completion, status, hidden, planVars, actorVars,
                   channel, bounds>>

\* The actor answers the callback, once: SessionActor::respond.
Answered(w) ==
    LET p == job[w].plan
        good == owner[p] \in up /\ p \in pending /\ answer[p] = "none"
    IN /\ owner[p] \in up => IsReady(owner[p])
       /\ pending' = pending \ {p}
       /\ IF good
          THEN /\ answer' = [answer EXCEPT ![p] = job[w].verdict]
               /\ listed' = listed \ {p} /\ shown' = shown \ {p}
          ELSE UNCHANGED <<answer, listed, shown>>
       /\ IF job[w].op = "plain" THEN Finish(w)
          ELSE Step(w, IF good THEN "store" ELSE "fail")

Ask(w) ==
    /\ job[w].op \in {"answer", "plain"} /\ job[w].at = "ask"
    /\ Answered(w)
    /\ UNCHANGED <<durableVars, owner, working, arriving, actorVars, channel, lock, bounds>>

\* set_plan_response_state.
Record(w, ok) ==
    IF ok THEN SetResponse(job[w].by, IF job[w].at = "store" THEN "submitted" ELSE "failed")
    ELSE UNCHANGED responses

\* The outcome of the answer is recorded; an error ends the call.
Store(w) ==
    /\ job[w].op = "answer" /\ job[w].at \in {"store", "fail"}
    /\ \E ok \in BOOLEAN :
        /\ Works(ok)
        /\ Record(w, ok)
        /\ IF ok /\ job[w].at = "store" THEN Step(w, "retire") /\ UNCHANGED lock
           ELSE Finish(w) /\ Release(w)
    /\ UNCHANGED <<notice, unread, completion, status, hidden, planVars, actorVars,
                   channel, turns>>

\* The notice of the answered plan is withdrawn; if there was one, its parent's
\* queue is read again.
WithdrawNotice(w) ==
    /\ At(w, "answer", "retire")
    /\ \E ok \in BOOLEAN :
        /\ Works(ok)
        /\ IF ok THEN Withdrawn(job[w].plan) ELSE UNCHANGED <<notice, unread>>
        /\ IF ok /\ notice[job[w].plan] # "none"
           THEN Step(w, "sync") /\ UNCHANGED lock
           ELSE Finish(w) /\ Release(w)
    /\ UNCHANGED <<responses, completion, status, hidden, planVars, actorVars,
                   channel, turns>>

\* sync_live_queue of the parent: wait until its actor has read the command.
Sync(w) ==
    /\ job[w].at = "sync"
    /\ LET s == Parent[IF job[w].op = "over" THEN job[w].sess ELSE owner[job[w].plan]]
       IN s \in installed /\ s \in up => IsReady(s)
    /\ Finish(w) /\ Release(w)
    /\ UNCHANGED <<durableVars, planVars, actorVars, channel, bounds>>

-----------------------------------------------------------------------------
(* The gateway: run_host_tool_gateway.                                     *)

JobOf(e) ==
    CASE e.kind = "tool" -> [Idle EXCEPT !.op = "answer", !.at = "lock", !.by = e.of,
                                 !.plan = About[e.of], !.verdict = Wants[e.of]]
      [] e.kind = "plan" -> [Idle EXCEPT !.op = "plan", !.at = "check", !.plan = e.of]
      [] e.kind = "void" -> [Idle EXCEPT !.op = "void", !.at = "sync", !.plan = e.of]
      [] e.kind = "over" -> [Idle EXCEPT !.op = "over", !.at = "check", !.sess = e.of,
                                 !.verdict = e.status]

Take ==
    /\ job[Gateway] = Idle /\ channel # <<>>
    /\ job' = [job EXCEPT ![Gateway] = JobOf(Head(channel))]
    /\ channel' = Tail(channel)
    /\ UNCHANGED <<durableVars, planVars, actorVars, lock, bounds>>

\* handle_plan_waiting up to its transaction.
PlanChecked ==
    /\ At(Gateway, "plan", "check")
    /\ LET p == job[Gateway].plan
           s == owner[p]
       IN IF Visible(s) /\ Visible(Parent[s]) /\ s \in installed /\ p \in shown
          THEN Step(Gateway, "store") ELSE Finish(Gateway)
    /\ UNCHANGED <<durableVars, planVars, actorVars, channel, lock, bounds>>

NotWanted(p) == notice[p] # "none" \/ \E r \in responses : r.plan = p

\* create_plan_waiting_item.
PlanStored ==
    /\ At(Gateway, "plan", "store")
    /\ \E ok \in BOOLEAN :
        LET p == job[Gateway].plan
        IN /\ Works(ok)
           /\ IF ok /\ ~NotWanted(p)
              THEN /\ notice' = [notice EXCEPT ![p] = "pending"]
                   /\ unread' = unread \cup {p}
                   /\ Step(Gateway, "sync")
              ELSE Finish(Gateway) /\ UNCHANGED <<notice, unread>>
    /\ UNCHANGED <<responses, completion, status, hidden, planVars, actorVars,
                   channel, lock, turns>>

\* The dedupe identity of a completion is the same for all of a child's turns.
Completed(s, st) == [completion EXCEPT ![s] = IF @ = "none" THEN st ELSE @]

\* handle_child_lifecycle.
Completion ==
    /\ At(Gateway, "over", "check")
    /\ LET s == job[Gateway].sess
           st == job[Gateway].verdict
       IN \E ok \in BOOLEAN :
            /\ Works(ok)
            /\ IF ok /\ Visible(s) /\ Visible(Parent[s])
               THEN /\ completion' = Completed(s, st)
                    /\ IF completion[s] = "none" THEN Step(Gateway, "sync")
                       ELSE Finish(Gateway)
               ELSE Finish(Gateway) /\ UNCHANGED completion
    /\ UNCHANGED <<responses, notice, unread, status, hidden, planVars, actorVars,
                   channel, lock, turns>>

-----------------------------------------------------------------------------
(* The service thread: cancelling, closing, archiving.                     *)

Restoring(s) == s \in up /\ s \notin installed

ServiceStarts(s, op) ==
    /\ job[Service] = Idle
    /\ Visible(s) /\ ~Restoring(s)
    /\ op \in {"cancel", "close"} => s \in installed
    /\ turns < MaxTurns /\ turns' = turns + 1
    /\ job' = [job EXCEPT ![Service] = [Idle EXCEPT !.op = op, !.sess = s,
                    !.at = IF op = "archive" THEN "lock" ELSE "ask"]]
    /\ UNCHANGED <<durableVars, planVars, actorVars, channel, lock, faults, troubles>>

\* The handle is there, its actor is not: the command fails.
ServiceMisses ==
    /\ job[Service].op \in {"cancel", "close", "archive"}
    /\ job[Service].at \in {"ask", "await"} /\ job[Service].sess \notin up
    /\ job' = [job EXCEPT ![Service] =
                 CASE @.op = "cancel"  -> Idle
                   [] @.op = "close"   -> [@ EXCEPT !.at = "unmap"]
                   [] @.op = "archive" -> [@ EXCEPT !.at = "store"]]
    /\ UNCHANGED <<durableVars, planVars, actorVars, channel, lock, bounds>>

Unmap ==
    /\ At(Service, "close", "unmap")
    /\ installed' = installed \ {job[Service].sess}
    /\ Finish(Service)
    /\ UNCHANGED <<durableVars, planVars, up, act, channel, lock, bounds>>

Archive ==
    /\ At(Service, "archive", "store")
    /\ hidden' = hidden \cup {job[Service].sess}
    /\ Step(Service, "retire")
    /\ UNCHANGED <<responses, notice, unread, completion, status, planVars, actorVars,
                   channel, lock, bounds>>

\* retire_pending_coordination_for_sessions; its failure is only a warning.
RetireCoordination ==
    /\ At(Service, "archive", "retire")
    /\ \E ok \in BOOLEAN :
        LET s == job[Service].sess
            S == {p \in Plans : notice[p] = "pending" /\ s \in {owner[p], Parent[owner[p]]}}
        IN /\ Works(ok)
           /\ IF ok
              THEN /\ notice' = [p \in Plans |-> IF p \in S THEN "retired" ELSE notice[p]]
                   /\ unread' = unread \ S
                   /\ responses' = {IF r.state = "submitting"
                                         /\ s \in {owner[r.plan], CallerOf(r.by)}
                                    THEN [r EXCEPT !.state = "failed"] ELSE r :
                                      r \in responses}
              ELSE UNCHANGED <<notice, unread, responses>>
    /\ Finish(Service) /\ Release(Service)
    /\ UNCHANGED <<completion, status, hidden, planVars, actorVars, channel, turns>>

-----------------------------------------------------------------------------
(* Restoring and restarting.                                               *)

\* Mutant: nothing is told of a session that is restored.
OwedNothing(s) == FALSE

\* restored_child_lifecycle: a child that ever had an event.
Owed(s) == Parent[s] # None /\ status[s] # "fresh"

\* restore_with_provider: the actor starts in state "recovering", and only a last
\* event that nobody had seen makes it anything else; what the child has come to is
\* told again, as idle unless that event says otherwise.
Restore(s) ==
    /\ s \notin up /\ Visible(s) /\ job[Service].sess # s
    /\ Owed(s) => HasRoom
    /\ up' = up \cup {s}
    /\ installed' = installed \ {s}
    /\ act' = [act EXCEPT ![s] = Ready]
    /\ status' = [status EXCEPT ![s] = IF @ = "fresh" THEN @ ELSE "idle"]
    /\ \E st \in IF s \in working THEN Rest ELSE {"idle"} :
        channel' = IF Owed(s)
                   THEN Append(channel, [kind |-> "over", of |-> s, status |-> st])
                   ELSE channel
    /\ UNCHANGED <<responses, notice, unread, completion, hidden, planVars, job, lock,
                   bounds>>

Install(s) ==
    /\ Restoring(s)
    /\ installed' = installed \cup {s}
    /\ UNCHANGED <<durableVars, planVars, up, act, otherVars>>

\* Mutant: an answer that a crash interrupted is taken for heard.
InterruptedHeard(r) == IF r.state = "submitting" THEN [r EXCEPT !.state = "submitted"] ELSE r

Interrupted(r) == IF r.state = "submitting" THEN [r EXCEPT !.state = "failed"] ELSE r

\* The process dies; retire_stale_plan_waiting_notifications runs at its start.
Restart ==
    /\ up # {} /\ Trouble
    /\ responses' = {Interrupted(r) : r \in responses}
    /\ notice' = [p \in Plans |-> IF p \in unread THEN "expired" ELSE notice[p]]
    /\ unread' = {}
    /\ answer' = LostWith(Sessions)
    /\ arriving' = {} /\ pending' = {} /\ listed' = {} /\ shown' = {}
    /\ up' = {} /\ installed' = {} /\ act' = [s \in Sessions |-> Ready]
    /\ channel' = <<>> /\ job' = [w \in Workers |-> Idle] /\ lock' = None
    /\ UNCHANGED <<completion, status, hidden, owner, working, turns, faults>>

-----------------------------------------------------------------------------
Init ==
    /\ responses = {} /\ notice = [p \in Plans |-> "none"] /\ unread = {}
    /\ completion = [s \in Sessions |-> "none"]
    /\ status = [s \in Sessions |-> "fresh"] /\ hidden = {}
    /\ owner = [p \in Plans |-> None] /\ answer = [p \in Plans |-> "none"]
    /\ working = {}
    /\ arriving = {} /\ pending = {} /\ listed = {} /\ shown = {}
    /\ up = Sessions /\ installed = Sessions
    /\ act = [s \in Sessions |-> Ready]
    /\ channel = <<>> /\ job = [w \in Workers |-> Idle] /\ lock = None
    /\ turns = 0 /\ faults = 0 /\ troubles = 0

RuntimeStep ==
    \/ \E s \in Sessions, p \in Plans : AskPlan(s, p)
    \/ \E p \in Plans : Abandon(p)
    \/ \E k \in Calls : AgentCalls(k)

ActorStep ==
    \/ \E s \in Sessions :
        \/ \E p \in Plans : ReceivePlan(s, p)
        \/ TurnStart(s)
        \/ \E st \in Rest : TurnOver(s, st)
        \/ WorkFails(s)
        \/ Notify(s) \/ Obey(s) \/ ProviderCloses(s) \/ Retire(s) \/ Ended(s)
    \/ \E p \in Plans : owner[p] # None /\ Parent[owner[p]] # None /\ Deliver(p)

RecordStep(w) == Check(w) \/ Claim(w) \/ Store(w) \/ WithdrawNotice(w)
WorkerStep(w) == RecordStep(w) \/ Lock(w) \/ Ask(w) \/ Sync(w)
GatewayStep == Take \/ PlanChecked \/ PlanStored \/ Completion
ServiceStep ==
    \/ \E p \in Plans, v \in Verdict : ServiceAnswers(p, v)
    \/ \E s \in Sessions, op \in {"cancel", "close", "archive"} : ServiceStarts(s, op)
    \/ ServiceMisses \/ Unmap \/ Archive \/ RetireCoordination

LifeStep == Restart \/ \E s \in Sessions : Restore(s) \/ Install(s)

Next ==
    \/ RuntimeStep \/ ActorStep \/ GatewayStep \/ ServiceStep \/ LifeStep
    \/ \E w \in Workers : WorkerStep(w)

Spec == Init /\ [][Next]_vars

\* Worker w waits until the actor of s takes or has finished its command.
WaitsFor(w, s) ==
    LET j == job[w]
    IN \/ j.op \in {"answer", "plain"} /\ j.at = "ask" /\ s = owner[j.plan]
       \/ j.op \in {"cancel", "close", "archive"} /\ j.at \in {"ask", "await"} /\ s = j.sess
       \/ j.at = "sync" /\ s = Parent[IF j.op = "over" THEN j.sess ELSE owner[j.plan]]

\* tokio polls every ready task and hands its mutexes and channel slots over first
\* come, first served; nobody must ask, call, answer, cancel, close or crash.
Fairness ==
    /\ WF_vars(\E s \in Sessions : Notify(s) \/ Retire(s) \/ Ended(s) \/ Obey(s))
    /\ SF_vars(WorkerStep(Gateway) \/ GatewayStep)
    /\ SF_vars(WorkerStep(Service) \/ ServiceMisses \/ Unmap \/ Archive \/ RetireCoordination
               \/ \E s \in Sessions : WaitsFor(Service, s) /\ (Obey(s) \/ Notify(s)))

FairSpec == Spec /\ Fairness

-----------------------------------------------------------------------------
(* Properties.                                                             *)

TypeOK ==
    /\ responses \subseteq Response
    /\ notice \in [Plans -> Notice] /\ unread \subseteq Plans
    /\ completion \in [Sessions -> Rest \cup {"none"}]
    /\ status \in [Sessions -> Status] /\ hidden \subseteq Sessions
    /\ owner \in [Plans -> Sessions \cup {None}] /\ working \subseteq Sessions
    /\ answer \in [Plans -> Verdict \cup Unheard]
    /\ arriving \subseteq Plans /\ pending \subseteq Plans
    /\ listed \subseteq Plans /\ shown \subseteq Plans
    /\ up \subseteq Sessions /\ installed \subseteq Sessions
    /\ act \in [Sessions -> Act]
    /\ channel \in Seq(Event) /\ Len(channel) <= Capacity
    /\ job \in [Workers -> Job]
    /\ lock \in Workers \cup {None}
    /\ turns \in Nat /\ faults \in Nat /\ troubles \in Nat

\* "returns the recorded result without submitting twice": what the runtime of a
\* child heard is what its one recorded answer says, whoever answered, cancelled
\* and retried; and an answer recorded as submitted was heard.
HeardAsRecorded ==
    /\ \A r, q \in responses : r.plan = q.plan => r = q
    /\ \A r \in responses : r.state = "submitted" => answer[r.plan] = r.verdict
    /\ \A p \in Plans :
         answer[p] \in Verdict /\ Parent[owner[p]] # None =>
            \E r \in responses : r.plan = p /\ r.verdict = answer[p]

\* "may approve plans only for descendants": a heard answer to a child's plan
\* came from an ancestor, also when the call was retried or raced with others.
OnlyAncestorsAnswer ==
    \A r \in responses :
        r.verdict \in Verdict /\ answer[r.plan] = r.verdict =>
            CallerOf(r.by) \in Ancestors[owner[r.plan]]

\* The row of a plan, as an abstract claim.
ClaimOf(p) ==
    IF \E r \in responses : r.plan = p
    THEN LET r == CHOOSE r \in responses : r.plan = p
         IN  [by |-> r.by, verdict |-> r.verdict, state |-> r.state]
    ELSE None

\* What the asking session heard, if it was created by another one.
HeardOf(p) == IF owner[p] # None /\ Parent[owner[p]] # None THEN answer[p] ELSE "none"

Approval == INSTANCE PlanApproval WITH
    Claimants <- By,
    claim <- [p \in Plans |-> ClaimOf(p)],
    heard <- [p \in Plans |-> HeardOf(p)]

\* The whole protocol keeps the promise of PlanApproval.
AnsweredOnce == Approval!Spec

\* Somebody is about to settle the plan, or has yet to withdraw its notice.
Settling(p) ==
    \/ \E w \in Workers : job[w].op = "answer" /\ job[w].plan = p
    \/ \E s \in Sessions : p \in act[s].todo

\* mark_plan_waiting_notification_read and create_plan_waiting_item: the parent is
\* shown a waiting plan only while its child still waits, whatever order the
\* announcement, an answer, a cancellation and a crash come in.
UnreadIsOpen ==
    faults = 0 => \A p \in unread : Settling(p) \/ (p \in listed /\ owner[p] \in up)

\* Nothing about s is on its way.
Quiet(s) ==
    /\ s \in installed /\ IsReady(s)
    /\ channel = <<>> /\ job[Gateway] = Idle

\* "notification delivery is neither lost nor repeated": once a child came to
\* rest and nothing is on its way, its parent was told, also after a crash
\* between the event and the notice.
CompletionNotLost ==
    faults = 0 /\ hidden = {} =>
        \A s \in Sessions :
            Parent[s] # None /\ status[s] \in Rest /\ Quiet(s) => completion[s] # "none"

\* The gateway waits for an actor, itself or through the holder of the lifecycle
\* lock, that waits for room in the channel only the gateway empties.
CircularWait ==
    /\ ~HasRoom
    /\ \E s \in Sessions :
        /\ Notifying(s)
        /\ \/ WaitsFor(Gateway, s)
           \/ job[Gateway].at = "lock" /\ lock = Service /\ WaitsFor(Service, s)

\* The gateway and the service thread wait for actors, the lifecycle lock and the
\* database while actors and agents wait for the gateway: each comes to an end with
\* what it took up, also while the channel is full, and nothing but a circular wait
\* stops either of them.
GatewayServes ==
    \/ \A w \in Workers : []<>(job[w] = Idle)
    \/ <>[]CircularWait

=============================================================================
