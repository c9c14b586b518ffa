-------------------------- MODULE SessionLifecycle --------------------------
(***************************************************************************)
(* Launching, restoring, archiving, unarchiving and deleting sessions.     *)
(*                                                                         *)
(* Several tasks work on the same sessions: the service thread, which runs *)
(* one command of the user interface after the other; the consumer of the  *)
(* agents' host tools, which launches sessions and, when fork_session is   *)
(* retried, resumes the fork; and automation runs.  They are kept apart by *)
(* the `restoring` set, a guard per session that is taken or refused, and  *)
(* by the `lifecycle` lock, which is waited for.  Not every operation      *)
(* takes both.  Meanwhile the agents of running sessions edit files, git   *)
(* and the database may fail, and the process may end at any point.        *)
(***************************************************************************)
EXTENDS Naturals, FiniteSets

CONSTANTS
    Sessions,     \* identifiers of sessions (a v4 UUID is used once)
    Parent,       \* the parent a session is launched with, or None
    Existing,     \* sessions that exist when the process first starts
    Managed,      \* sessions with a worktree below GCABB's own root
    Forks,        \* sessions a retried fork_session may resume
    Failing,      \* sessions whose kickoff may fail after they were created
    Automations,  \* sessions of automation runs
    Edits,        \* pieces of uncommitted work an agent may do
    Service, Gateway, Runner,
    None,
    MaxFaults     \* bound: crashes, dead runtimes, failed database calls, ...

Tasks == {Service, Gateway, Runner}

ASSUME LifecycleAssumption ==
    /\ Parent \in [Sessions -> Sessions \cup {None}] /\ None \notin Sessions
    /\ Existing \cup Managed \cup Forks \cup Failing \cup Automations \subseteq Sessions
    /\ Automations \cap (Existing \cup Managed) = {}
    /\ Cardinality(Tasks) = 3 /\ None \notin Tasks
    /\ IsFiniteSet(Sessions) /\ MaxFaults \in Nat

VARIABLES
    rows,       \* durable: app_sessions
    archive,    \* durable: session_archives, the branch and patch on record
    tree,       \* durable: the uncommitted work in a worktree, None without one
    sessions,   \* SessionManager.sessions: the runtime each session maps to
    orphaned,   \* sessions with a running actor that no entry and no task holds
    restoring,  \* SessionManager.restoring
    lifecycle,  \* the task that holds SessionManager.lifecycle, or None
    job,        \* what each task is doing
    faults      \* ghost: faults so far

vars == <<rows, archive, tree, sessions, orphaned, restoring, lifecycle, job,
          faults>>
durableVars == <<rows, archive, tree>>
lockVars    == <<restoring, lifecycle>>

-----------------------------------------------------------------------------
(* What the tasks work with.                                               *)

\* "gone" is a handle whose status is Disconnected, "unavailable" one that is
\* read-only because the working directory is missing.
Runtime == {"none", "live", "gone", "unavailable"}
Record  == [branch : BOOLEAN, patch : SUBSET Edits]
Work(s) == IF tree[s] = None THEN {} ELSE tree[s]
Patch(s) == IF archive[s] = None THEN {} ELSE archive[s].patch

\* A missing record or worktree is told from one that holds nothing.
ASSUME NoneIsNothing ==
    (\A r \in Record : r # None) /\ (\A edits \in SUBSET Edits : edits # None)

\* list_sessions shows what has a row and no archive record.
Present(s) == rows[s] = "present"
Visible(s) == Present(s) /\ archive[s] = None

Op == {"none", "launch", "automation", "compensate", "resume", "archive",
       "delete", "unarchive"}
Pc == {"idle", "created", "close", "unmap", "dispose", "drop", "list", "guard",
       "restore", "install", "discard", "lock", "pick", "stop", "capture",
       "remove", "erase", "reclaim", "rebuild", "apply", "clear"}

\* root: the session the operation was called for; cur: the one it is at;
\* todo: those left; held: the guards it took; mine: the runtime in its hands;
\* saved: the archive record it read.
Job == [op : Op, pc : Pc, root : Sessions \cup {None}, cur : Sessions \cup {None},
        deep : BOOLEAN, todo : SUBSET Sessions, held : SUBSET Sessions,
        mine : Runtime, saved : Record \cup {None}]
Idle == [op |-> "none", pc |-> "idle", root |-> None, cur |-> None,
         deep |-> FALSE, todo |-> {}, held |-> {}, mine |-> "none",
         saved |-> None]

\* The rows that name one of these sessions as their parent.
Children(parents) == {c \in Sessions : Present(c) /\ Parent[c] \in parents}

\* The descendants that a walk along the parent links of the rows reaches; it has
\* them all once none it has seen has a child that it has not.
Descendants(s) ==
    {d \in Sessions \ {s} : \A seen \in SUBSET Sessions :
        s \in seen /\ Children(seen) \subseteq seen => d \in seen}

\* Mutant: the walk takes the parent along.
TargetsAndParent(s, deep) ==
    {s, Parent[s]} \cup (IF deep THEN Descendants(s) ELSE {})

\* Sessions an operation touches: its own, and with `deep` the whole tree.
Targets(s, deep) == {s} \cup (IF deep THEN Descendants(s) ELSE {})

Carries(t, s) == job[t].mine = "live" /\ job[t].cur = s
Running(s) == sessions[s] = "live" \/ s \in orphaned \/ \E t \in Tasks : Carries(t, s)

At(t, p)     == job[t].pc = p
Goto(t, p)   == job' = [job EXCEPT ![t].pc = p]
Begin(t, o, s, deep, p) ==
    /\ At(t, "idle")
    /\ job' = [job EXCEPT ![t] = [Idle EXCEPT !.op = o, !.root = s, !.cur = s,
                                              !.deep = deep, !.pc = p]]

\* Mutant: the guards are kept.
EndGuarded(t) ==
    /\ job' = [job EXCEPT ![t] = Idle]
    /\ lifecycle' = IF lifecycle = t THEN None ELSE lifecycle
    /\ UNCHANGED restoring

\* An operation returns: its lock is dropped, finish_restore for its guards.
End(t) ==
    /\ job' = [job EXCEPT ![t] = Idle]
    /\ lifecycle' = IF lifecycle = t THEN None ELSE lifecycle
    /\ restoring' = restoring \ job[t].held

\* A database call fails.
Fault == faults < MaxFaults /\ faults' = faults + 1

\* An entry is taken out of the map and its handle dropped.  An actor behind it
\* runs on as long as some other clone of the handle exists.
Unmapped(s) ==
    /\ sessions' = [sessions EXCEPT ![s] = "none"]
    /\ orphaned' = IF sessions[s] = "live" THEN orphaned \cup {s} ELSE orphaned

-----------------------------------------------------------------------------
(* Launching a session, and taking a failed launch back.                   *)

LaunchAs(t, o, s) ==
    /\ Begin(t, o, s, FALSE, "created")
    /\ rows[s] = "unborn" /\ lifecycle = None
    /\ Parent[s] # None => Visible(Parent[s])
    /\ lifecycle' = t
    /\ rows' = [rows EXCEPT ![s] = "present"]
    /\ tree' = [tree EXCEPT ![s] = {}]
    /\ UNCHANGED <<archive, sessions, orphaned, restoring, faults>>

\* create_session, under the lifecycle lock, in the worktree that the
\* orchestrator made for it; the parent must be visible.
Launch ==
    \E s \in Sessions :
        \/ s \in Automations /\ LaunchAs(Runner, "automation", s)
        \/ s \notin Automations /\ \E t \in {Service, Gateway} : LaunchAs(t, "launch", s)

\* ... the actor is spawned and entered in the map.  The first prompt may then
\* be refused; an automation run always takes its session back.
Created(t) ==
    LET s == job[t].root
    IN /\ At(t, "created")
       /\ sessions' = [sessions EXCEPT ![s] = "live"]
       /\ lifecycle' = None
       /\ job' \in {[job EXCEPT ![t] = Idle], [job EXCEPT ![t].pc = "close"]}
       /\ job'[t].pc = "close" => s \in Failing \cup Automations
       /\ s \in Automations => job'[t].pc = "close"
       /\ UNCHANGED <<durableVars, orphaned, restoring, faults>>

\* close_session: look the runtime up, disconnect it ...
Close(t) ==
    LET s == job[t].root
    IN /\ At(t, "close")
       /\ sessions' = [sessions EXCEPT ![s] = IF @ = "live" THEN "gone" ELSE @]
       /\ Goto(t, IF sessions[s] = "none" THEN "dispose" ELSE "unmap")
       /\ UNCHANGED <<durableVars, orphaned, lockVars, faults>>

\* ... wait for its provider to stop, and remove whatever the map now holds.
Unmap(t) ==
    /\ At(t, "unmap")
    /\ Unmapped(job[t].root)
    /\ Goto(t, "dispose")
    /\ UNCHANGED <<durableVars, lockVars, faults>>

\* compensate deletes the session as the user would; an automation run deletes
\* the row directly, which may fail and is logged.
Dispose(t) ==
    LET s == job[t].root
    IN /\ At(t, "dispose")
       /\ IF job[t].op = "launch"
          THEN /\ job' = [job EXCEPT ![t].op = "compensate", ![t].pc = "guard"]
               /\ UNCHANGED <<rows, archive, lockVars, faults>>
          ELSE /\ End(t)
               /\ \/ /\ rows' = [rows EXCEPT ![s] = "deleted"]
                     /\ archive' = [archive EXCEPT ![s] = None]
                     /\ UNCHANGED faults
                  \/ Fault /\ UNCHANGED <<rows, archive>>
       /\ UNCHANGED <<tree, sessions, orphaned>>

-----------------------------------------------------------------------------
(* Guards and the lock.                                                    *)

\* begin_restore, or SessionRestoreInProgress.  A launch whose session cannot
\* be deleted still has its clean worktree removed.
Guard(t) ==
    LET s == job[t].root
    IN /\ At(t, "guard")
       /\ IF s \in restoring
          THEN IF job[t].op = "compensate"
               THEN Goto(t, "reclaim") /\ UNCHANGED lockVars
               ELSE End(t)
          ELSE /\ restoring' = restoring \cup {s}
               /\ job' = [job EXCEPT ![t].held = {s},
                    ![t].pc = IF job[t].op = "resume" THEN "restore" ELSE "lock"]
               /\ UNCHANGED lifecycle
       /\ UNCHANGED <<durableVars, sessions, orphaned, faults>>

\* Archiving and deleting: with the lifecycle lock, the targets are computed
\* once and each further one is guarded too, or everything is let go again.
Lock(t) ==
    LET s     == job[t].root
        extra == Targets(s, job[t].deep) \ {s}
    IN /\ At(t, "lock") /\ lifecycle = None
       /\ \/ extra \cap restoring # {} /\ End(t) /\ UNCHANGED faults
          \/ Fault /\ End(t)
          \/ /\ extra \cap restoring = {}
             /\ lifecycle' = t
             /\ restoring' = restoring \cup extra
             /\ job' = [job EXCEPT ![t].pc = "pick", ![t].todo = extra \cup {s},
                                   ![t].held = @ \cup extra]
             /\ UNCHANGED faults
       /\ UNCHANGED <<durableVars, sessions, orphaned>>

-----------------------------------------------------------------------------
(* Restoring the runtime of a session.                                     *)

\* resume_closed_session returns a runtime that is up; otherwise the entry goes.
Resume(t, s) ==
    /\ rows[s] # "unborn" /\ sessions[s] # "live"
    /\ t = Service \/ (t = Gateway /\ s \in Forks)
    /\ Begin(t, "resume", s, FALSE, IF sessions[s] = "none" THEN "list" ELSE "drop")
    /\ UNCHANGED <<durableVars, sessions, orphaned, lockVars, faults>>

\* It removes what the map holds by then, and stops what it saw before.
Drop(t) ==
    /\ At(t, "drop")
    /\ Unmapped(job[t].root)
    /\ Goto(t, "list")
    /\ UNCHANGED <<durableVars, lockVars, faults>>

List(t) ==
    /\ At(t, "list")
    /\ \/ Visible(job[t].root) /\ Goto(t, "guard") /\ UNCHANGED <<lockVars, faults>>
       \/ ~Visible(job[t].root) /\ End(t) /\ UNCHANGED faults
       \/ Fault /\ End(t)
    /\ UNCHANGED <<durableVars, sessions, orphaned>>

\* The runtime came up, or is a read-only stand-in; or the restore failed.
Restored(t, r) ==
    /\ job' = [job EXCEPT ![t].mine = r, ![t].pc = "install"]
    /\ UNCHANGED lockVars

\* Mutant: recreate_managed_worktree does not ask for the archive record.
RestoreAnyhow(t) ==
    LET s == job[t].root
    IN /\ At(t, "restore")
       /\ Restored(t, "live")
       /\ tree' = [tree EXCEPT ![s] = Work(s)]
       /\ UNCHANGED <<rows, archive, sessions, orphaned, faults>>

\* restore_session.  A missing managed worktree is recreated from its branch,
\* unless the session is archived -- an error of that query counts as "no" --
\* or git refuses.  The provider may fail at any of its calls.
Restore(t) ==
    LET s == job[t].root
    IN /\ At(t, "restore")
       /\ \/ /\ tree[s] # None
             /\ Restored(t, "live") \/ End(t)
             /\ UNCHANGED <<tree, faults>>
          \/ /\ tree[s] = None
             /\ \/ archive[s] = None /\ UNCHANGED faults
                \/ archive[s] # None /\ Fault
             /\ tree' = [tree EXCEPT ![s] = {}]
             /\ Restored(t, "live") \/ End(t)
          \/ /\ tree[s] = None
             /\ Restored(t, "unavailable") \/ End(t)
             /\ UNCHANGED <<tree, faults>>
       /\ UNCHANGED <<rows, archive, sessions, orphaned>>

\* Mutant: the session may have been archived or deleted in the meantime.
InstallUnchecked(t) ==
    LET s == job[t].root
    IN /\ At(t, "install") /\ lifecycle = None
       /\ sessions' = [sessions EXCEPT ![s] = job[t].mine]
       /\ End(t)
       /\ UNCHANGED <<durableVars, orphaned, faults>>

\* Mutant: a restore whose runtime was not installed is tried again.
InstallRetried(t) ==
    LET s    == job[t].root
        keep == Visible(s) /\ sessions[s] = "none"
    IN /\ At(t, "install") /\ lifecycle = None
       /\ IF keep
          THEN sessions' = [sessions EXCEPT ![s] = job[t].mine] /\ End(t)
          ELSE Goto(t, "restore") /\ UNCHANGED <<sessions, lockVars>>
       /\ UNCHANGED <<durableVars, orphaned, faults>>

\* install_restored_runtime, under the lifecycle lock: not for a session that
\* is no longer visible, nor over another runtime, nor when the query fails.
Install(t) ==
    LET s    == job[t].root
        keep == Visible(s) /\ sessions[s] = "none"
    IN /\ At(t, "install") /\ lifecycle = None
       /\ \/ /\ keep
             /\ sessions' = [sessions EXCEPT ![s] = job[t].mine]
             /\ End(t) /\ UNCHANGED faults
          \/ /\ IF keep THEN Fault ELSE UNCHANGED faults
             /\ Goto(t, "discard") /\ UNCHANGED <<sessions, lockVars>>
       /\ UNCHANGED <<durableVars, orphaned>>

\* A runtime that was not installed is disconnected.
Discard(t) ==
    /\ At(t, "discard")
    /\ End(t)
    /\ UNCHANGED <<durableVars, sessions, orphaned, faults>>

-----------------------------------------------------------------------------
(* Archiving and deleting, one session after the other.                    *)

Archive(s, deep) ==
    /\ Present(s)
    /\ Begin(Service, "archive", s, deep, "guard")
    /\ UNCHANGED <<durableVars, sessions, orphaned, lockVars, faults>>

Delete(s, deep) ==
    /\ Present(s)
    /\ Begin(Service, "delete", s, deep, "guard")
    /\ UNCHANGED <<durableVars, sessions, orphaned, lockVars, faults>>

\* Mutant: an archived session is archived once more.
SettledIfGone(t, s) == ~Present(s)

\* Nothing is left to do for this session.  "Archiving twice must be a no-op."
Settled(t, s) ==
    \/ ~Present(s)
    \/ job[t].op = "archive" /\ archive[s] # None

\* Mutant: the sessions are not put in order.
AnyOrder(t, s) == TRUE

\* lifecycle_targets: no child is left to do before its parent.
Deepest(t, s) == \A c \in job[t].todo : Parent[c] # s

\* Children first; the runtime is taken out of the map, unless the session has
\* nothing left to do or cannot be looked up ...
Pick(t) ==
    /\ At(t, "pick")
    /\ \/ /\ job[t].todo = {}
          /\ End(t)
          /\ UNCHANGED <<sessions, faults>>
       \/ \E s \in job[t].todo :
          /\ Deepest(t, s)
          /\ \/ /\ IF Settled(t, s) THEN UNCHANGED faults ELSE Fault
                /\ job' = [job EXCEPT ![t].todo = @ \ {s}]
                /\ UNCHANGED sessions
             \/ /\ ~Settled(t, s)
                /\ sessions' = [sessions EXCEPT ![s] = "none"]
                /\ job' = [job EXCEPT ![t].todo = @ \ {s}, ![t].cur = s,
                              ![t].mine = sessions[s], ![t].pc = "stop"]
                /\ UNCHANGED faults
          /\ UNCHANGED lockVars
    /\ UNCHANGED <<durableVars, orphaned>>

\* ... and disconnected.
Stop(t) ==
    /\ At(t, "stop")
    /\ job' = [job EXCEPT ![t].mine = "none",
                 ![t].pc = IF job[t].op = "archive" THEN "capture" ELSE "erase"]
    /\ UNCHANGED <<durableVars, sessions, orphaned, lockVars, faults>>

\* capture_worktree, then archive_session.  The worktree is only removed when
\* its branch is known and its uncommitted work went into the patch.
Capture(t) ==
    LET s == job[t].cur
    IN /\ At(t, "capture")
       /\ \/ /\ Present(s)
             /\ \/ /\ s \in Managed /\ tree[s] # None
                   /\ archive' = [archive EXCEPT ![s] =
                                     [branch |-> TRUE, patch |-> tree[s]]]
                   /\ Goto(t, "remove")
                \/ /\ \E b \in BOOLEAN :
                        /\ b => (s \in Managed /\ tree[s] # None)
                        /\ archive' = [archive EXCEPT ![s] = [branch |-> b, patch |-> {}]]
                   /\ Goto(t, "pick")
             /\ UNCHANGED faults
          \/ /\ IF Present(s) THEN Fault ELSE UNCHANGED faults
             /\ Goto(t, "pick") /\ UNCHANGED archive
       /\ UNCHANGED <<rows, tree, sessions, orphaned, lockVars>>

\* force_remove_worktree, which git may refuse.
Remove(t) ==
    /\ At(t, "remove")
    /\ tree' \in {tree, [tree EXCEPT ![job[t].cur] = None]}
    /\ Goto(t, "pick")
    /\ UNCHANGED <<rows, archive, sessions, orphaned, lockVars, faults>>

\* delete_session_with_coordination_retirement; the archive record goes along.
Erase(t) ==
    LET s == job[t].cur
    IN /\ At(t, "erase")
       /\ \/ /\ rows' = [rows EXCEPT ![s] = "deleted"]
             /\ archive' = [archive EXCEPT ![s] = None]
             /\ Goto(t, "reclaim") /\ UNCHANGED faults
          \/ Fault /\ Goto(t, "pick") /\ UNCHANGED <<rows, archive>>
       /\ UNCHANGED <<tree, sessions, orphaned, lockVars>>

\* reclaim_worktree: only a clean one goes, and git may refuse.
Reclaim(t) ==
    LET s == job[t].cur
    IN /\ At(t, "reclaim")
       /\ \/ UNCHANGED tree
          \/ /\ s \in Managed /\ tree[s] = {}
             /\ tree' = [tree EXCEPT ![s] = None]
       /\ Goto(t, "pick")
       /\ UNCHANGED <<rows, archive, sessions, orphaned, lockVars, faults>>

-----------------------------------------------------------------------------
(* Unarchiving: with the lock, without a guard.                            *)

Unarchive(s) ==
    /\ Present(s) /\ archive[s] # None
    /\ lifecycle = None /\ lifecycle' = Service
    /\ At(Service, "idle")
    /\ job' = [job EXCEPT ![Service] =
                [Idle EXCEPT !.op = "unarchive", !.root = s, !.cur = s,
                             !.saved = archive[s], !.pc = "rebuild"]]
    /\ UNCHANGED <<durableVars, sessions, orphaned, restoring, faults>>

\* The saved work ends up in the worktree, applied or as a patch file beside
\* it; or neither worked, and the session stays archived.
Rescued(t) ==
    LET s == job[t].root
    IN \/ /\ tree[s] # None
          /\ tree' = [tree EXCEPT ![s] = @ \cup job[t].saved.patch]
          /\ Goto(t, "clear") /\ UNCHANGED lockVars
       \/ UNCHANGED tree /\ End(t)

\* rebuild_worktree: recreate the worktree from its branch, unless the record
\* has none or something is in the way.
Rebuild(t) ==
    LET s     == job[t].root
        saved == job[t].saved
    IN /\ At(t, "rebuild")
       /\ \/ /\ ~saved.branch \/ (tree[s] # None /\ saved.patch = {})
             /\ Goto(t, "clear") /\ UNCHANGED <<tree, lockVars>>
          \/ /\ saved.branch /\ tree[s] # None /\ saved.patch # {}
             /\ Rescued(t)
          \/ /\ saved.branch /\ tree[s] = None
             /\ \/ /\ tree' = [tree EXCEPT ![s] = {}]
                   /\ Goto(t, IF saved.patch = {} THEN "clear" ELSE "apply")
                   /\ UNCHANGED lockVars
                \/ UNCHANGED tree /\ End(t)
       /\ UNCHANGED <<rows, archive, sessions, orphaned, faults>>

\* apply_patch, or rescue_patch when git refuses.
Apply(t) ==
    /\ At(t, "apply")
    /\ Rescued(t)
    /\ UNCHANGED <<rows, archive, sessions, orphaned, faults>>

\* clear_session_archive, last.
Clear(t) ==
    /\ At(t, "clear")
    /\ \/ /\ archive' = [archive EXCEPT ![job[t].root] = None]
          /\ UNCHANGED faults
       \/ Fault /\ UNCHANGED archive
    /\ End(t)
    /\ UNCHANGED <<rows, tree, sessions, orphaned>>

-----------------------------------------------------------------------------
(* Agents, runtimes, the developer, the process.                           *)

\* The agent of a running session leaves work in its worktree uncommitted.
AgentEdits(s, e) ==
    /\ s \in Managed /\ tree[s] # None /\ Running(s)
    /\ \A r \in Sessions : e \notin Work(r) \cup Patch(r)
    /\ tree' = [tree EXCEPT ![s] = @ \cup {e}]
    /\ UNCHANGED <<rows, archive, sessions, orphaned, lockVars, job, faults>>

\* The provider's event stream ends: the actor stops, its entry stays.
ProviderCloses(s) ==
    /\ sessions[s] = "live" /\ Fault
    /\ sessions' = [sessions EXCEPT ![s] = "gone"]
    /\ UNCHANGED <<durableVars, orphaned, lockVars, job>>

\* The last clone of an orphan's handle is dropped: its mailbox closes.
OrphanEnds(s) ==
    /\ s \in orphaned
    /\ orphaned' = orphaned \ {s}
    /\ UNCHANGED <<durableVars, sessions, lockVars, job, faults>>

\* A worktree without uncommitted work is removed behind GCABB's back.
TreeVanishes(s) ==
    /\ s \in Managed /\ tree[s] = {} /\ Fault
    /\ tree' = [tree EXCEPT ![s] = None]
    /\ UNCHANGED <<rows, archive, sessions, orphaned, lockVars, job>>

Restart ==
    /\ sessions' = [s \in Sessions |-> "none"]
    /\ orphaned' = {} /\ restoring' = {} /\ lifecycle' = None
    /\ job' = [t \in Tasks |-> Idle]
    /\ UNCHANGED durableVars

\* The service thread stops the manager between two commands; what the other
\* tasks are doing ends with the tokio runtime.
Quit  == At(Service, "idle") /\ Restart /\ UNCHANGED faults
Crash == Fault /\ Restart

-----------------------------------------------------------------------------
Init ==
    /\ rows = [s \in Sessions |-> IF s \in Existing THEN "present" ELSE "unborn"]
    /\ archive = [s \in Sessions |-> None]
    /\ tree = [s \in Sessions |-> IF s \in Existing THEN {} ELSE None]
    /\ sessions = [s \in Sessions |-> "none"]
    /\ orphaned = {} /\ restoring = {} /\ lifecycle = None
    /\ job = [t \in Tasks |-> Idle]
    /\ faults = 0

Request ==
    \/ Launch
    \/ \E s \in Sessions :
        \/ \E t \in Tasks : Resume(t, s)
        \/ \E deep \in BOOLEAN : Archive(s, deep) \/ Delete(s, deep)
        \/ Unarchive(s)

Proceed(t) ==
    \/ Created(t) \/ Close(t) \/ Unmap(t) \/ Dispose(t)
    \/ Guard(t) \/ Lock(t)
    \/ Drop(t) \/ List(t) \/ Restore(t) \/ Install(t) \/ Discard(t)
    \/ Pick(t) \/ Stop(t) \/ Capture(t) \/ Remove(t) \/ Erase(t) \/ Reclaim(t)
    \/ Rebuild(t) \/ Apply(t) \/ Clear(t)

World ==
    \/ \E s \in Sessions :
        \/ \E e \in Edits : AgentEdits(s, e)
        \/ ProviderCloses(s) \/ OrphanEnds(s) \/ TreeVanishes(s)
    \/ Quit \/ Crash

Next == Request \/ (\E t \in Tasks : Proceed(t)) \/ World

Spec == Init /\ [][Next]_vars

\* The task waits for an actor to answer that it has disconnected.
Disconnecting(t) ==
    \/ At(t, "close") /\ sessions[job[t].root] = "live"
    \/ At(t, "stop") /\ job[t].mine = "live"
    \/ At(t, "discard") /\ job[t].mine = "live"

\* Every other call returns, and tokio's mutex is handed over in the order of waiting.
Fairness == \A t \in Tasks : SF_vars(~Disconnecting(t) /\ Proceed(t))
FairSpec == Spec /\ Fairness

-----------------------------------------------------------------------------
(* Properties.                                                             *)

TypeOK ==
    /\ rows \in [Sessions -> {"unborn", "present", "deleted"}]
    /\ archive \in [Sessions -> Record \cup {None}]
    /\ tree \in [Sessions -> (SUBSET Edits) \cup {None}]
    /\ sessions \in [Sessions -> Runtime]
    /\ orphaned \subseteq Sessions /\ restoring \subseteq Sessions
    /\ lifecycle \in Tasks \cup {None}
    /\ job \in [Tasks -> Job]
    /\ faults \in 0..MaxFaults

\* archive_known_session_locked, rebuild_worktree, rescue_patch and
\* reclaim_worktree, "the patch that record holds is the only copy": uncommitted
\* work moves from the worktree to the patch and back, but no order of
\* archiving, unarchiving, deleting, failing and crashing loses it, except that
\* the developer deletes an archived session.
WorkNeverDropped ==
    [][\A s \in Sessions : \A e \in Work(s) \cup Patch(s) :
        \/ e \in Work(s)' \cup Patch(s)'
        \/ e \notin Work(s) /\ ~Present(s)']_vars

\* The same, where several tasks may resume a session: "Disconnect first so
\* the agent cannot write into the worktree between the patch being captured
\* and the directory being removed" (archive_known_session_locked).
CaptureIsFinal ==
    [][\A s \in Sessions, t \in Tasks :
        At(t, "remove") /\ job[t].cur = s => Work(s)' \subseteq Patch(s)]_vars

\* install_restored_runtime: no session that is archived or deleted has a
\* runtime in the map, whatever was being restored when that happened.  (An
\* automation run deletes its session without the lifecycle lock.)
HiddenNotRunning ==
    \A s \in Sessions \ Automations : sessions[s] # "none" => Visible(s)

\* recreate_managed_worktree, "An archive removed this worktree on purpose.
\* Recreating it here would undo that": while a session stays archived only
\* unarchive_session brings its worktree back (or a failed query misleads it).
ArchiveStaysReduced ==
    [][\A s \in Sessions :
        /\ archive[s] # None /\ archive'[s] # None
        /\ tree[s] = None /\ tree'[s] # None
        => \/ At(Service, "rebuild") /\ job[Service].root = s
           \/ faults' # faults]_vars

\* begin_restore, finish_restore: a guard that is never given back would keep
\* its session from being resumed, archived or deleted until the next start.
NothingHeldAtRest ==
    (\A t \in Tasks : At(t, "idle")) => restoring = {} /\ lifecycle = None

\* delete_session_recursive_guarded and the rest: guards are refused and never
\* waited for while the lifecycle lock is held, so every operation comes to its
\* end, however they meet, as long as every actor that is told to disconnect
\* answers some time.  That is not assumed of the program: an actor may wait for
\* room in the channel of host tools, whose consumer waits for the lock that its
\* closer holds (the circular wait of Coordination).
ActorsAnswer == \A t \in Tasks : []<>~Disconnecting(t)
OperationsEnd == ActorsAnswer => \A t \in Tasks : ~At(t, "idle") ~> At(t, "idle")

\* delete_session_scoped, "a child is always gone before the parent that named
\* it": unless the database failed no child survives its parent, also when it was
\* launched while the deletion was being prepared.
ChildGoneFirst ==
    [][faults = 0 => \A t \in Tasks, c \in Sessions :
        /\ job[t].op = "delete" /\ job[t].deep /\ At(t, "erase")
        /\ Present(c) /\ Parent[c] = job[t].cur
        => Present(Parent[c])']_vars

=============================================================================
