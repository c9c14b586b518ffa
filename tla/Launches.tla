------------------------------ MODULE Launches ------------------------------
(***************************************************************************)
(* How a session is launched or forked, and a launch that failed is taken  *)
(* back.                                                                   *)
(*                                                                         *)
(* The service thread launches sessions for the user, the consumer of the  *)
(* host tools for agents; a lock lets one of them allocate a workspace at  *)
(* a time.  A launch makes a worktree and a branch, a runtime with a row   *)
(* in the database, sets it up, selects it (for the user), sends the first *)
(* prompt and, for an agent, marks the tool call as done.  A call that is  *)
(* made again is answered from the database, and never launched again.     *)
(* Whatever fails on the way is compensated, step by step; a step of that  *)
(* may fail too, and is then reported.  The process may die at any point.  *)
(***************************************************************************)
EXTENDS Naturals, FiniteSets

CONSTANTS
    Sessions,    \* identifiers of sessions (a v4 UUID is used once)
    Creates,     \* tool calls of create_session
    Forks,       \* tool calls of fork_session, with a kickoff prompt
    Names,       \* what branches and their worktrees are called, by suffix
    Service, Gateway,
    None,
    MaxFaults    \* bound: failed steps and crashes

Tasks == {Service, Gateway}
Calls == Creates \cup Forks

ASSUME LaunchesAssumption ==
    /\ Names = 1..Cardinality(Names) /\ IsFiniteSet(Sessions) /\ Service # Gateway
    /\ Creates \cap Forks = {} /\ None \notin Sessions \cup Calls \cup Names \cup Tasks
    /\ MaxFaults \in Nat

VARIABLES
    rows,       \* durable: app_sessions; those that are gone are kept (history): "deleted"
                \* by a compensation, "removed" by the developer
    ledger,     \* durable: host_tool_launches
    selected,   \* durable: the session in the window
    trees,      \* durable: worktrees; what was not committed in them
    branches,   \* durable: branches; whether they have commits of their own
    live,       \* sessions with a runtime
    lingering,  \* runtimes that could not be stopped
    lock,       \* workspace_lock
    job,        \* what each task is doing
    kicked,     \* kicked[s]: how often the first prompt reached the agent (history)
    answered,   \* tool calls that an agent was told had succeeded (history)
    left,       \* names of what a failure left behind, or a crash (history)
    faults      \* bound

durableVars == <<rows, ledger, selected, trees, branches>>
historyVars == <<kicked, answered, left>>
vars == <<durableVars, live, lingering, lock, job, historyVars, faults>>

Row   == [state : {"present", "deleted", "removed"}, call : Calls \cup {None},
          name : Names \cup {None}, pending : BOOLEAN]
Entry == [child : Sessions \cup {None}, completed : BOOLEAN]
Pc    == {"idle", "lock", "worktree", "snapshot", "create", "restore", "configure", "activate",
          "kick", "finish", "stop", "erase", "discard", "clean", "branch", "reselect"}
\* before: the selection to restore, or "unchanged".
Job   == [pc : Pc, forks : BOOLEAN, call : Calls \cup {None}, session : Sessions \cup {None},
          name : Names \cup {None}, before : Sessions \cup {None, "unchanged"}]
Idle  == [pc |-> "idle", forks |-> FALSE, call |-> None, session |-> None, name |-> None,
          before |-> "unchanged"]

\* No row is taken for a missing one.
ASSUME RowsAssumption == None \notin Row \cup Entry

At(t, pc) == job[t].pc = pc
Goto(t, pc) == job' = [job EXCEPT ![t].pc = pc]
Present(s) == rows[s] # None /\ rows[s].state = "present"
Fault == faults < MaxFaults /\ faults' = faults + 1

\* unique_worktree_branch: neither the branch nor the directory exists.
Free(n) == trees[n] = "none" /\ branches[n] = "none"
FirstFree(n) == Free(n) /\ \A m \in Names : Free(m) => n <= m

\* The operation returns and drops its lock.
Return(t) == job' = [job EXCEPT ![t] = Idle] /\ lock' = None

-----------------------------------------------------------------------------
(* A launch or a fork is asked for.                                        *)

Ask(t, forks, call) ==
    /\ At(t, "idle")
    /\ job' = [job EXCEPT ![t] = [Idle EXCEPT !.pc = "lock", !.forks = forks, !.call = call]]
    /\ UNCHANGED <<durableVars, live, lingering, lock, kicked, left, faults>>

UserAsks == \E forks \in BOOLEAN : Ask(Service, forks, None) /\ UNCHANGED answered

\* session_for_tool_call: a call in the ledger is not launched again.
MayCreate(c) == ledger[c] = None

\* create_agent_child.
CreateChild(c) ==
    IF MayCreate(c) THEN Ask(Gateway, FALSE, c) /\ UNCHANGED answered
    ELSE /\ At(Gateway, "idle")
         /\ ledger[c].completed /\ ledger[c].child # None
         /\ answered' = answered \cup {c}
         /\ UNCHANGED <<durableVars, live, lingering, lock, job, kicked, left, faults>>

ForkSession(c) == Ask(Gateway, TRUE, c) /\ UNCHANGED answered

ForkOf(c) == {s \in Sessions : Present(s) /\ rows[s].call = c}

\* launch and fork take workspace_lock.  existing_fork_launch: a fork that a call has
\* made is resumed, unless it is not known whether its prompt was delivered.
Acquire(t) ==
    /\ At(t, "lock") /\ lock = None
    /\ IF job[t].forks /\ job[t].call # None /\ ForkOf(job[t].call) # {}
       THEN /\ job' = [job EXCEPT ![t] = Idle]
            /\ UNCHANGED lock
            /\ \E s \in ForkOf(job[t].call) :
                IF rows[s].pending THEN UNCHANGED <<live, answered>>
                ELSE live' = live \cup {s} /\ answered' = answered \cup {job[t].call}
       ELSE /\ lock' = t
            /\ job' = [job EXCEPT ![t].pc = "worktree",
                         ![t].before = IF t = Service /\ ~job[t].forks THEN selected ELSE @]
            /\ UNCHANGED <<live, answered>>
    /\ UNCHANGED <<durableVars, lingering, kicked, left, faults>>

-----------------------------------------------------------------------------
(* The workspace.                                                          *)

\* A chat, or a session in the repository itself, gets no worktree.
NoWorktree(t) ==
    /\ At(t, "worktree") /\ ~job[t].forks /\ t = Service
    /\ Goto(t, "create")
    /\ UNCHANGED <<durableVars, live, lingering, lock, historyVars, faults>>

\* git worktree add: the branch is made first.  A fork starts from the commits of its
\* source, which may not be merged.
Worktree(t) ==
    /\ At(t, "worktree")
    /\ \E n \in Names :
        /\ FirstFree(n)
        /\ \/ /\ trees' = [trees EXCEPT ![n] = "clean"]
              /\ \E b \in IF job[t].forks THEN {"merged", "ahead"} ELSE {"merged"} :
                    branches' = [branches EXCEPT ![n] = b]
              /\ job' = [job EXCEPT ![t].name = n,
                                    ![t].pc = IF job[t].forks THEN "snapshot" ELSE "create"]
              /\ UNCHANGED <<lock, left, faults>>
           \/ /\ Fault /\ Return(t)
              /\ \/ UNCHANGED <<branches, left>>
                 \/ branches' = [branches EXCEPT ![n] = "merged"] /\ left' = left \cup {n}
              /\ UNCHANGED trees
    /\ UNCHANGED <<rows, ledger, selected, live, lingering, kicked, answered>>

\* apply_worktree_snapshot: the uncommitted work of the source is copied, in part if it
\* fails.
Snapshot(t) ==
    /\ At(t, "snapshot")
    /\ \E d \in {"clean", "copied"} :
        trees' = [trees EXCEPT ![job[t].name] = IF @ = "dirty" THEN @ ELSE d]
    /\ \/ Goto(t, "create") /\ UNCHANGED faults
       \/ Fault /\ Goto(t, "discard")
    /\ UNCHANGED <<rows, ledger, selected, branches, live, lingering, lock, historyVars>>

-----------------------------------------------------------------------------
(* The session.                                                            *)

NewRow(t) == [state |-> "present", call |-> job[t].call, name |-> job[t].name,
              pending |-> job[t].forks /\ job[t].call # None]

\* upsert_session enters a call of create_session in the ledger, and refuses one that
\* another session has, or had.
Insert(t, s) ==
    LET c == job[t].call
    IN  /\ c \in Creates => ledger[c] = None
        /\ rows' = [rows EXCEPT ![s] = NewRow(t)]
        /\ ledger' = IF c \in Creates
                     THEN [ledger EXCEPT ![c] = [child |-> s, completed |-> FALSE]] ELSE ledger

\* create_session, or fork_session up to the row of the fork; the runtime is there
\* when a launch has its row, but not yet for a fork.
Create(t) ==
    /\ At(t, "create")
    /\ \E s \in Sessions :
        /\ rows[s] = None
        /\ Insert(t, s)
        /\ live' = IF job[t].forks THEN live ELSE live \cup {s}
        /\ job' = [job EXCEPT ![t].session = s,
                              ![t].pc = IF job[t].forks THEN "restore" ELSE "configure"]
    /\ UNCHANGED <<selected, trees, branches, lingering, lock, historyVars, faults>>

\* Mutant: the worktree stays where it was made.
CreateFailsEarly(t) ==
    /\ At(t, "create") /\ Fault
    /\ Return(t)
    /\ UNCHANGED <<durableVars, live, lingering, historyVars>>

\* The runtime does not start, or the row is refused: only the worktree is taken back.
CreateFails(t) ==
    /\ At(t, "create") /\ Fault
    /\ job' = [job EXCEPT ![t].pc = IF job[t].forks THEN "discard" ELSE "clean",
                          ![t].before = "unchanged"]
    /\ UNCHANGED <<durableVars, live, lingering, lock, historyVars>>

\* Mutant: the ledger entry goes with the session.
DeletedEverywhere(s, state) ==
    /\ rows' = [rows EXCEPT ![s].state = state]
    /\ ledger' = [c \in Creates |-> IF ledger[c] # None /\ ledger[c].child = s
                                    THEN None ELSE ledger[c]]

\* delete_session: the entry in the ledger stays, without its session.
Deleted(s, state) ==
    /\ rows' = [rows EXCEPT ![s].state = state]
    /\ ledger' = [c \in Creates |-> IF ledger[c] # None /\ ledger[c].child = s
                                    THEN [ledger[c] EXCEPT !.child = None] ELSE ledger[c]]

\* install_fork_runtime; when it fails the row is deleted, or silently not.
RestoreFork(t) ==
    LET s == job[t].session
    IN  /\ At(t, "restore")
        /\ \/ /\ live' = live \cup {s}
              /\ Goto(t, IF job[t].call # None THEN "kick" ELSE "finish")
              /\ UNCHANGED <<rows, ledger, left, faults>>
           \/ /\ Fault /\ Goto(t, "discard")
              /\ UNCHANGED live
              /\ \/ Deleted(s, "deleted") /\ UNCHANGED left
                 \/ left' = left \cup {job[t].name} /\ UNCHANGED <<rows, ledger>>
        /\ UNCHANGED <<selected, trees, branches, lingering, lock, kicked, answered>>

\* configure_notification and configure_mode.
Configure(t) ==
    /\ At(t, "configure")
    /\ \/ Goto(t, IF t = Service THEN "activate" ELSE "kick") /\ UNCHANGED faults
       \/ Fault /\ job' = [job EXCEPT ![t].pc = "stop", ![t].before = "unchanged"]
    /\ UNCHANGED <<durableVars, live, lingering, lock, historyVars>>

\* activate: the session is selected.
Activate(t) ==
    /\ At(t, "activate")
    /\ \/ selected' = job[t].session /\ Goto(t, "kick") /\ UNCHANGED faults
       \/ Fault /\ Goto(t, "stop") /\ UNCHANGED selected
    /\ UNCHANGED <<rows, ledger, trees, branches, live, lingering, lock, historyVars>>

\* The first prompt is sent; when that fails it may have arrived all the same.
Kick(t) ==
    LET s == job[t].session
        Arrives == kicked' = [kicked EXCEPT ![s] = @ + 1]
    IN  /\ At(t, "kick")
        /\ \/ Arrives /\ Goto(t, "finish") /\ UNCHANGED <<lock, faults>>
           \/ /\ Fault /\ (Arrives \/ UNCHANGED kicked)
              /\ IF job[t].forks THEN Return(t) ELSE Goto(t, "stop") /\ UNCHANGED lock
        /\ UNCHANGED <<durableVars, live, lingering, answered, left>>

\* finalize_host_launch, complete_fork_kickoff, or the selection of a user's fork; only
\* a launch is compensated when that fails.
Finish(t) ==
    LET c == job[t].call
        s == job[t].session
    IN  /\ At(t, "finish")
        /\ \/ /\ Return(t)
              /\ ledger' = IF c \in Creates THEN [ledger EXCEPT ![c].completed = TRUE] ELSE ledger
              /\ rows' = [rows EXCEPT ![s].pending = FALSE]
              /\ selected' = IF t = Service THEN s ELSE selected
              /\ answered' = answered \cup ({c} \cap Calls)
              /\ UNCHANGED faults
           \/ /\ Fault
              /\ c # None \/ job[t].forks
              /\ IF job[t].forks THEN Return(t) ELSE Goto(t, "stop") /\ UNCHANGED lock
              /\ UNCHANGED <<rows, ledger, selected, answered>>
        /\ UNCHANGED <<trees, branches, live, lingering, kicked, left>>

-----------------------------------------------------------------------------
(* compensate.                                                             *)

Reported(t) == left' = left \cup ({job[t].name} \cap Names)

\* close_session: the entry goes, even where the runtime could not be stopped.
Stop(t) ==
    /\ At(t, "stop")
    /\ live' = live \ {job[t].session}
    /\ \/ UNCHANGED <<lingering, faults>>
       \/ Fault /\ lingering' = lingering \cup {job[t].session}
    /\ Goto(t, "erase")
    /\ UNCHANGED <<durableVars, lock, historyVars>>

Deselected(s) == IF selected = s THEN None ELSE selected

\* delete_session_scoped, without the worktree; the session is deselected first.
Erase(t) ==
    LET s == job[t].session
    IN  /\ At(t, "erase")
        /\ selected' = Deselected(s)
        /\ \/ Deleted(s, "deleted") /\ UNCHANGED <<left, faults>>
           \/ Fault /\ Reported(t) /\ UNCHANGED <<rows, ledger>>
        /\ Goto(t, "clean")
        /\ UNCHANGED <<trees, branches, live, lingering, lock, kicked, answered>>

\* discard_snapshot_state: what was copied for a fork is dropped again.
Discard(t) ==
    /\ At(t, "discard")
    /\ \/ trees' = [trees EXCEPT ![job[t].name] = "clean"]
          /\ UNCHANGED faults
       \/ Fault /\ UNCHANGED trees
    /\ Goto(t, "clean")
    /\ UNCHANGED <<rows, ledger, selected, branches, live, lingering, lock, historyVars>>

\* Mutant: the worktree is removed by force.
RemovableByForce(n) == trees[n] # "none"

\* git worktree remove refuses a worktree with changes, as is_clean does.
Removable(n) == trees[n] = "clean"

\* cleanup_worktree: the worktree, if it is clean.  An agent that could not be stopped
\* has no directory to work in then.
Clean(t) ==
    LET n == job[t].name
    IN  /\ At(t, "clean")
        /\ IF n = None THEN Goto(t, "reselect") /\ UNCHANGED <<trees, lingering, left, faults>>
           ELSE \/ /\ Removable(n)
                   /\ trees' = [trees EXCEPT ![n] = "none"]
                   /\ lingering' = lingering \ {job[t].session}
                   /\ Goto(t, "branch") /\ UNCHANGED <<left, faults>>
                \/ /\ IF Removable(n) THEN Fault ELSE UNCHANGED faults
                   /\ Reported(t) /\ Goto(t, "reselect") /\ UNCHANGED <<trees, lingering>>
        /\ UNCHANGED <<rows, ledger, selected, branches, live, lock, kicked, answered>>

\* git refuses to delete a branch that is not merged, or is checked out again.
Deletable(n) == branches[n] = "merged" /\ trees[n] = "none"

\* delete_branch_if_merged.
Branch(t) ==
    LET n == job[t].name
    IN  /\ At(t, "branch")
        /\ \/ /\ Deletable(n)
              /\ branches' = [branches EXCEPT ![n] = "none"]
              /\ UNCHANGED <<left, faults>>
           \/ /\ IF Deletable(n) THEN Fault ELSE UNCHANGED faults
              /\ Reported(t) /\ UNCHANGED branches
        /\ Goto(t, "reselect")
        /\ UNCHANGED <<rows, ledger, selected, trees, live, lingering, lock, kicked, answered>>

\* What was selected before the launch, where the launch selects.
Reselection(t) == IF job[t].before = "unchanged" THEN selected ELSE job[t].before

Reselect(t) ==
    /\ At(t, "reselect")
    /\ \/ selected' = Reselection(t) /\ UNCHANGED faults
       \/ Fault /\ UNCHANGED selected
    /\ Return(t)
    /\ UNCHANGED <<rows, ledger, trees, branches, live, lingering, historyVars>>

-----------------------------------------------------------------------------
\* An agent that has its prompt edits and commits, also when it could not be stopped.
AgentWorks(s) ==
    /\ s \in live \cup lingering /\ kicked[s] > 0
    /\ LET n == rows[s].name
       IN  /\ n # None /\ trees[n] # "none"
           /\ \/ trees' = [trees EXCEPT ![n] = "dirty"] /\ UNCHANGED branches
              \/ branches' = [branches EXCEPT ![n] = "ahead"] /\ UNCHANGED trees
    /\ UNCHANGED <<rows, ledger, selected, live, lingering, lock, job, historyVars, faults>>

\* recreate_managed_worktree: a worktree that is gone is made again from its branch.
Recreated(s) == LET n == rows[s].name
                IN  n # None /\ trees[n] = "none" /\ branches[n] # "none"

HasDirectory(s) == rows[s].name # None => trees[rows[s].name] # "none"

\* restore_session, in the background after a start or when the user resumes a session
\* on the list, which one that is being made or taken back is not.  A session that has
\* no directory is shown, but gets no runtime.
Restore(s) ==
    /\ Present(s) /\ s \notin live /\ \A t \in Tasks : job[t].session # s
    /\ \/ HasDirectory(s) /\ UNCHANGED trees
       \/ Recreated(s) /\ trees' = [trees EXCEPT ![rows[s].name] = "clean"]
    /\ live' = live \cup {s}
    /\ UNCHANGED <<rows, ledger, selected, branches, lingering, lock, job, historyVars, faults>>

\* A runtime that could not be stopped, which is ignored, goes on in its directory.
Abandoned(s) == s \in live /\ HasDirectory(s) /\ lingering' = lingering \cup {s}

\* reclaim_worktree: a clean worktree is removed, and its branch if it is merged; what
\* stays is told to the developer.
Reclaimed(s) ==
    LET n == rows[s].name
    IN  \/ n = None /\ UNCHANGED <<trees, branches, lingering, left, faults>>
        \/ /\ n # None
           /\ \/ Fault /\ (Abandoned(s) \/ UNCHANGED lingering)
              \/ ~Removable(n) /\ UNCHANGED <<lingering, faults>>
           /\ left' = left \cup {n} /\ UNCHANGED <<trees, branches>>
        \/ /\ n # None /\ Removable(n)
           /\ trees' = [trees EXCEPT ![n] = "none"]
           /\ lingering' = {p \in lingering : rows[p].name # n}
           /\ \/ branches[n] = "merged" /\ branches' = [branches EXCEPT ![n] = "none"]
                 /\ UNCHANGED <<left, faults>>
              \/ /\ IF branches[n] = "merged" THEN Fault ELSE UNCHANGED faults
                 /\ left' = left \cup {n} /\ UNCHANGED branches

\* delete_session_scoped, for a session on the developer's list, which one that is being
\* made or taken back is not (nor, here, one whose name is being given away again).
Delete(s) ==
    /\ At(Service, "idle") /\ Present(s)
    /\ \A t \in Tasks : job[t].session # s /\ job[t].name \notin {rows[s].name} \ {None}
    /\ live' = live \ {s} /\ selected' = Deselected(s)
    /\ \/ Deleted(s, "removed") /\ Reclaimed(s)
       \/ /\ Fault /\ (Abandoned(s) \/ UNCHANGED lingering)
          /\ UNCHANGED <<rows, ledger, trees, branches, left>>
    /\ UNCHANGED <<lock, job, kicked, answered>>

\* The process dies, and starts again with the rows it has.
Crash ==
    /\ Fault
    /\ live' = {} /\ lingering' = {} /\ lock' = None
    /\ job' = [t \in Tasks |-> Idle]
    /\ left' = left \cup ({job[t].name : t \in Tasks} \cap Names)
    /\ UNCHANGED <<durableVars, kicked, answered>>

Init ==
    /\ rows = [s \in Sessions |-> None]
    /\ ledger = [c \in Creates |-> None]
    /\ selected = None
    /\ trees = [n \in Names |-> "none"] /\ branches = [n \in Names |-> "none"]
    /\ live = {} /\ lingering = {} /\ lock = None
    /\ job = [t \in Tasks |-> Idle]
    /\ kicked = [s \in Sessions |-> 0] /\ answered = {} /\ left = {} /\ faults = 0

Proceed(t) ==
    \/ Acquire(t) \/ NoWorktree(t) \/ Worktree(t) \/ Snapshot(t)
    \/ Create(t) \/ CreateFails(t) \/ RestoreFork(t) \/ Configure(t) \/ Activate(t)
    \/ Kick(t) \/ Finish(t)
    \/ Stop(t) \/ Erase(t) \/ Discard(t) \/ Clean(t) \/ Branch(t) \/ Reselect(t)

Next ==
    \/ UserAsks
    \/ (\E c \in Creates : CreateChild(c)) \/ (\E c \in Forks : ForkSession(c))
    \/ \E t \in Tasks : Proceed(t)
    \/ (\E s \in Sessions : AgentWorks(s) \/ Restore(s) \/ Delete(s)) \/ Crash

Spec == Init /\ [][Next]_vars

-----------------------------------------------------------------------------
(* Properties.                                                             *)

TypeOK ==
    /\ rows \in [Sessions -> Row \cup {None}]
    /\ ledger \in [Creates -> Entry \cup {None}]
    /\ selected \in Sessions \cup {None}
    /\ trees \in [Names -> {"none", "clean", "copied", "dirty"}]
    /\ branches \in [Names -> {"none", "merged", "ahead"}]
    /\ live \subseteq Sessions /\ lingering \subseteq Sessions
    /\ lock \in Tasks \cup {None} /\ job \in [Tasks -> Job]
    /\ kicked \in [Sessions -> 0..1] /\ answered \subseteq Calls /\ left \subseteq Names
    /\ faults \in 0..MaxFaults

Made(c) == {s \in Sessions : rows[s] # None /\ rows[s].call = c}

\* A tool call, however often it is made again, after whatever failed or crashed, has
\* its prompt delivered once, and when the agent is told it succeeded, it was.  A call of
\* create_session is remembered when its session is gone.  One of fork_session is not: made
\* again after the developer deleted the fork, it forks again, but never beside a fork
\* that has its prompt and that the developer still has.
KickoffDelivered ==
    /\ \A c \in Creates : Cardinality({s \in Made(c) : kicked[s] > 0}) <= 1
    /\ \A c \in Forks :
        Cardinality({s \in Made(c) : kicked[s] > 0 /\ rows[s].state # "removed"}) <= 1
    /\ \A c \in answered : \E s \in Made(c) : kicked[s] > 0

\* A session that could not be deleted still names a worktree that could, and another
\* launch has taken the name.
Disputed(n) ==
    \E s \in Sessions, t \in Tasks :
        Present(s) /\ rows[s].name = n /\ job[t].name = n /\ job[t].session # s

\* Compensation never takes the work of an agent: an edited worktree stays, and so
\* does a branch with commits, also when the agent could not be stopped, unless its
\* worktree was given to another launch since.
WorkKept ==
    [][\A n \in Names : /\ trees[n] = "dirty" => trees'[n] = "dirty" \/ Disputed(n)
                        /\ branches[n] = "ahead" => branches'[n] = "ahead"]_vars

\* A launch that failed leaves nothing behind that was not reported: when no launch is
\* under way, every worktree and branch has its session, and every session its own;
\* and the window never shows a session that is not there.
NothingLeftBehind ==
    /\ selected # None => Present(selected)
    /\ (\A t \in Tasks : job[t].pc \in {"idle", "lock"}) =>
        \A n \in Names \ left :
            LET owners == {s \in Sessions : Present(s) /\ rows[s].name = n}
            IN  IF Free(n) THEN owners = {} ELSE Cardinality(owners) = 1 /\ trees[n] # "none"

=============================================================================
