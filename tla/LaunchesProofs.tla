--------------------------- MODULE LaunchesProofs ---------------------------
(***************************************************************************)
(* Theorems about Launches, for any sessions, calls, names and faults.     *)
(*                                                                         *)
(* Everything that makes or takes back a workspace is done by the task     *)
(* that holds the lock (Locked), so a name that is being given away has no *)
(* other claimant unless a compensation reported it (Owned).  What the     *)
(* task knows of its own session at each step is JobInv; the rows, the     *)
(* ledger and the prompts of a tool call are tied together by Called.      *)
(***************************************************************************)
EXTENDS Launches, FiniteSetTheorems, TLAPS

Waiting == {"idle", "lock"}
Holds(t) == job[t].pc \notin Waiting
\* The steps at which the session of a job has a row that stands for it.
Standing == {"restore", "configure", "activate", "kick", "finish", "stop", "erase"}
\* The steps before a prompt was sent, for a session that has a row.
Unsent == {"restore", "configure", "activate", "kick"}
\* The steps at which the worktree and the branch of a job are there.
Housed == Standing \cup {"snapshot", "create", "discard", "clean"}
\* The steps at which a job's session has no runtime.
Still == {"restore", "erase", "discard", "clean", "branch", "reselect"}

Locked == \A t \in Tasks : Holds(t) <=> lock = t

\* What the fields of a job are at each step.
JobShape(t) ==
    /\ job[t].pc \in Waiting => job[t].session = None /\ job[t].name = None
                                /\ job[t].before = "unchanged"
    /\ job[t].pc = "worktree" => job[t].session = None /\ job[t].name = None
    /\ job[t].pc \in {"snapshot", "create"} => job[t].session = None
    /\ job[t].pc \in Standing => job[t].session # None
    /\ job[t].pc \in {"snapshot", "restore", "discard"} => job[t].forks
    /\ job[t].pc \in {"configure", "activate", "stop", "erase"} => ~job[t].forks
    /\ job[t].forks /\ job[t].pc \notin Waiting \cup {"worktree"} => job[t].name # None
    /\ job[t].pc = "branch" => job[t].name # None
    /\ job[t].call # None => (job[t].forks <=> job[t].call \in Forks)
    /\ t # Service => job[t].before = "unchanged"

\* What is true of the session of a job.
JobSession(t) ==
    LET s == job[t].session
    IN  s # None =>
        /\ rows[s] # None /\ rows[s].name = job[t].name /\ rows[s].call = job[t].call
        /\ job[t].pc \in Standing => Present(s)
        /\ job[t].pc \in Unsent => kicked[s] = 0
        /\ job[t].pc = "finish" /\ job[t].call # None => kicked[s] > 0
        /\ job[t].forks /\ job[t].pc \in {"discard", "clean", "branch", "reselect"} => kicked[s] = 0
        /\ job[t].pc \in {"restore", "configure", "activate"} => selected # s
        /\ job[t].pc \in Still => s \notin live
        /\ job[t].pc \in {"discard", "clean", "branch", "reselect"} /\ Present(s)
             /\ job[t].name # None => job[t].name \in left

\* What is true of the workspace of a job, and of the selection it restores.
JobWorkspace(t) ==
    LET n == job[t].name
    IN  /\ n # None =>
            /\ job[t].pc \in Housed => trees[n] # "none" /\ branches[n] # "none"
            /\ job[t].pc = "branch" /\ n \notin left => trees[n] = "none"
            /\ job[t].pc = "reselect" /\ n \notin left => Free(n)
            /\ n \notin left => \A s \in Sessions : Present(s) /\ rows[s].name = n
                                                     => s = job[t].session
            /\ job[t].forks /\ job[t].pc \in {"snapshot", "create", "restore", "discard"}
                 /\ trees[n] = "dirty" => Disputed(n)
        /\ job[t].before \notin {None, "unchanged"} =>
             Present(job[t].before) /\ job[t].before # job[t].session
        /\ job[t].call \in Forks /\ job[t].pc \in {"worktree", "snapshot", "create"} =>
             ForkOf(job[t].call) = {}

JobInv(t) == JobShape(t) /\ JobSession(t) /\ JobWorkspace(t)

\* A worktree or branch that no one reported has one session, or a job that has its name.
Owned ==
    \A n \in Names \ left :
        /\ \A s \in Sessions : Present(s) /\ rows[s].name = n => trees[n] # "none"
        /\ \A s, p \in Sessions : Present(s) /\ Present(p) /\ rows[s].name = n /\ rows[p].name = n
                                  => s = p
        /\ ~Free(n) => \/ \E s \in Sessions : Present(s) /\ rows[s].name = n
                       \/ \E t \in Tasks : job[t].name = n

\* A runtime is that of a session; one that lingers still has its worktree, which no
\* other launch was given.
Housing ==
    /\ \A s \in live : Present(s)
    /\ \A s \in lingering :
        /\ rows[s] # None
        /\ rows[s].name # None =>
            /\ trees[rows[s].name] # "none"
            /\ \A t \in Tasks : job[t].name = rows[s].name => job[t].session = s

\* The sessions a tool call made, and which of them have their prompt.
Called ==
    /\ \A s \in Sessions : rows[s] = None => kicked[s] = 0
    /\ \A c \in Creates : ledger[c] = None => Made(c) = {}
    /\ \A c \in Creates : \A s, p \in Made(c) : s = p
    /\ \A c \in Creates : ledger[c] # None /\ ledger[c].completed => \E s \in Made(c) : kicked[s] > 0
    /\ \A c \in Forks : \A s, p \in ForkOf(c) : s = p
    /\ \A c \in Forks : \A s \in Made(c) : rows[s].state = "deleted" => kicked[s] = 0
    /\ \A c \in Forks : \A s \in ForkOf(c) : ~rows[s].pending => kicked[s] > 0
    /\ \A c \in answered : \E s \in Made(c) : kicked[s] > 0

Selecting == selected # None => Present(selected)

LaunchInv ==
    /\ TypeOK /\ Locked /\ Owned /\ Housing /\ Called /\ Selecting
    /\ \A t \in Tasks : JobInv(t)

-----------------------------------------------------------------------------
(* The task that holds the lock, and the other.                            *)

LEMMA HolderKnown ==
    ASSUME LaunchInv, NEW t \in Tasks, Holds(t)
    PROVE  /\ lock = t /\ job[t] \in Job /\ job = [q \in Tasks |-> job[q]]
           /\ JobShape(t) /\ JobSession(t) /\ JobWorkspace(t)
           /\ TypeOK /\ Locked /\ Owned /\ Housing /\ Called /\ Selecting
           /\ \A q \in Tasks \ {t} : /\ job[q].pc \in Waiting /\ job[q].session = None
                                     /\ job[q].name = None /\ job[q].before = "unchanged"
  <1>1. /\ TypeOK /\ Locked /\ Owned /\ Housing /\ Called /\ Selecting
        /\ JobShape(t) /\ JobSession(t) /\ JobWorkspace(t)
    BY DEF LaunchInv, JobInv
  <1>2. lock = t /\ \A q \in Tasks \ {t} : job[q].pc \in Waiting
    BY <1>1 DEF Locked, Holds
  <1>3. \A q \in Tasks \ {t} : JobShape(q)
    BY DEF LaunchInv, JobInv
  <1>4. \A q \in Tasks \ {t} : /\ job[q].session = None
                               /\ job[q].name = None /\ job[q].before = "unchanged"
    BY <1>2, <1>3 DEF JobShape
  <1>5. job[t] \in Job /\ job = [q \in Tasks |-> job[q]]
    BY <1>1 DEF TypeOK
  <1> QED
    BY <1>1, <1>2, <1>4, <1>5

\* A job that waits has nothing that could go wrong.
LEMMA WaitingIsFine ==
    ASSUME NEW q \in Tasks, job[q].pc \in Waiting, job[q].session = None, job[q].name = None,
           job[q].before = "unchanged", job[q].call # None => (job[q].forks <=> job[q].call \in Forks)
    PROVE  JobInv(q)
  BY DEF JobInv, JobShape, JobSession, JobWorkspace, Waiting, Standing, Holds

LEMMA IdleIsWaiting ==
    /\ Idle \in Job /\ Idle.pc = "idle" /\ Idle.session = None /\ Idle.name = None
    /\ Idle.before = "unchanged" /\ Idle.call = None /\ Idle.pc \in Waiting
  BY DEF Idle, Job, Pc, Waiting

LEMMA GoesOn ==
    ASSUME LaunchInv, NEW t \in Tasks, Holds(t), NEW j \in Job, j.pc \notin Waiting,
           job' = [job EXCEPT ![t] = j], lock' = lock
    PROVE  /\ Locked' /\ job' \in [Tasks -> Job] /\ job'[t] = j
           /\ \A q \in Tasks \ {t} : JobInv(q)' /\ job'[q] = job[q] /\ job'[q].name = None
                                     /\ job'[q].session = None
  <1>1. /\ lock = t /\ job \in [Tasks -> Job] /\ TypeOK
        /\ \A q \in Tasks \ {t} : /\ job[q].pc \in Waiting /\ job[q].session = None
                                  /\ job[q].name = None /\ job[q].before = "unchanged"
    BY HolderKnown DEF TypeOK
  <1>2. job' \in [Tasks -> Job] /\ job'[t] = j /\ \A q \in Tasks \ {t} : job'[q] = job[q]
    BY <1>1
  <1>3. Locked'
    BY <1>1, <1>2 DEF Locked, Holds
  <1>4. \A q \in Tasks \ {t} : JobInv(q)'
    <2> SUFFICES ASSUME NEW q \in Tasks \ {t}
                 PROVE  JobInv(q)'
      OBVIOUS
    <2>1. job[q].call # None => (job[q].forks <=> job[q].call \in Forks)
      BY DEF LaunchInv, JobInv, JobShape
    <2> QED
      BY <1>1, <1>2, <2>1 DEF JobInv, JobShape, JobSession, JobWorkspace, Waiting, Standing
  <1> QED
    BY <1>1, <1>2, <1>3, <1>4

LEMMA Returns ==
    ASSUME LaunchInv, NEW t \in Tasks, Holds(t), Return(t)
    PROVE  /\ Locked' /\ job' \in [Tasks -> Job]
           /\ \A q \in Tasks : JobInv(q)' /\ job'[q].name = None
  <1>1. /\ lock = t /\ job \in [Tasks -> Job]
        /\ \A q \in Tasks \ {t} : /\ job[q].pc \in Waiting /\ job[q].session = None
                                  /\ job[q].name = None /\ job[q].before = "unchanged"
    BY HolderKnown DEF TypeOK
  <1>2. /\ job' \in [Tasks -> Job] /\ job'[t] = Idle /\ lock' = None
        /\ \A q \in Tasks \ {t} : job'[q] = job[q]
    BY <1>1, IdleIsWaiting DEF Return
  <1>3. Locked'
    BY <1>1, <1>2, IdleIsWaiting, LaunchesAssumption DEF Locked, Holds
  <1>4. ASSUME NEW q \in Tasks
        PROVE  JobInv(q)' /\ job'[q].name = None
    <2>1. job[q].call # None => (job[q].forks <=> job[q].call \in Forks)
      BY DEF LaunchInv, JobInv, JobShape
    <2>2. /\ job'[q].pc \in Waiting /\ job'[q].session = None /\ job'[q].name = None
          /\ job'[q].before = "unchanged"
          /\ job'[q].call # None => (job'[q].forks <=> job'[q].call \in Forks)
      BY <1>1, <1>2, <2>1, IdleIsWaiting
    <2> QED
      BY <2>2 DEF JobInv, JobShape, JobSession, JobWorkspace, Waiting, Standing
  <1> QED
    BY <1>2, <1>3, <1>4

-----------------------------------------------------------------------------
(* What does not touch a part of the invariant.                            *)

LEMMA CalledFrame ==
    ASSUME Called, UNCHANGED <<rows, ledger, answered>>,
           kicked \in [Sessions -> 0..1], kicked' \in [Sessions -> 0..1],
           \A s \in Sessions : kicked'[s] = kicked[s]
    PROVE  Called'
  BY DEF Called, Made, ForkOf, Present

\* Names are as much in use as they were.
LEMMA OwnedFrame ==
    ASSUME Owned, UNCHANGED rows, left \subseteq left',
           \A n \in Names \ left' : (trees'[n] = "none" <=> trees[n] = "none")
                                    /\ branches'[n] = branches[n],
           \A n \in Names \ left' : (\E q \in Tasks : job[q].name = n)
                => Free(n) \/ (\E q \in Tasks : job'[q].name = n)
                   \/ (\E s \in Sessions : Present(s) /\ rows[s].name = n)
    PROVE  Owned'
  <1> SUFFICES ASSUME NEW n \in Names \ left'
               PROVE  /\ \A s \in Sessions : Present(s)' /\ rows'[s].name = n => trees'[n] # "none"
                      /\ \A s, p \in Sessions : Present(s)' /\ Present(p)' /\ rows'[s].name = n
                                                /\ rows'[p].name = n => s = p
                      /\ ~Free(n)' => \/ \E s \in Sessions : Present(s)' /\ rows'[s].name = n
                                      \/ \E q \in Tasks : job'[q].name = n
    BY DEF Owned
  <1>1. n \in Names \ left
    OBVIOUS
  <1>2. \A s \in Sessions : Present(s)' <=> Present(s)
    BY DEF Present
  <1>3. Free(n)' <=> Free(n)
    BY DEF Free
  <1> QED
    BY <1>1, <1>2, <1>3 DEF Owned

\* No runtime comes, no worktree goes, and a job keeps its session and name, or loses both.
LEMMA HousingFrame ==
    ASSUME Housing, TypeOK, UNCHANGED rows, live' \subseteq live, lingering' \subseteq lingering,
           \A n \in Names : trees[n] # "none" => trees'[n] # "none",
           \A q \in Tasks : job'[q].name = None
                            \/ (job'[q].name = job[q].name /\ job'[q].session = job[q].session)
    PROVE  Housing'
  <1>1. \A s \in live' : Present(s)'
    BY DEF Housing, Present
  <1>2. ASSUME NEW s \in lingering', rows'[s].name # None
        PROVE  /\ trees'[rows'[s].name] # "none"
               /\ \A q \in Tasks : job'[q].name = rows'[s].name => job'[q].session = s
    <2>1. rows[s] # None /\ s \in lingering /\ s \in Sessions
      BY <1>2 DEF Housing, TypeOK
    <2>2. rows[s].name \in Names
      BY <1>2, <2>1 DEF TypeOK, Row
    <2> QED
      BY <1>2, <2>1, <2>2 DEF Housing
  <1>3. \A s \in lingering' : rows'[s] # None
    BY DEF Housing
  <1> QED
    BY <1>1, <1>2, <1>3 DEF Housing

-----------------------------------------------------------------------------
(* Steps that only decide where the job goes on.                           *)

\* A job goes on with its name and session.
Continues(t, j) ==
    /\ j \in Job /\ job' = [job EXCEPT ![t] = j] /\ lock' = lock
    /\ j.forks = job[t].forks /\ j.call = job[t].call /\ j.session = job[t].session
    /\ j.name = job[t].name /\ j.before \in {job[t].before, "unchanged"} /\ j.pc \notin Waiting

LEMMA GotoContinues ==
    ASSUME NEW t \in Tasks, job[t] \in Job, NEW pc \in Pc \ Waiting, Goto(t, pc), lock' = lock
    PROVE  /\ Continues(t, [job[t] EXCEPT !.pc = pc]) /\ [job[t] EXCEPT !.pc = pc].pc = pc
           /\ [job[t] EXCEPT !.pc = pc].before = job[t].before
  BY DEF Goto, Continues, Job

LEMMA DisputedFrame ==
    ASSUME LaunchInv, NEW t \in Tasks, NEW j, Continues(t, j), Holds(t), UNCHANGED rows, NEW n \in Names
    PROVE  Disputed(n)' <=> Disputed(n)
  <1>1. \A q \in Tasks : job'[q].name = job[q].name /\ job'[q].session = job[q].session
    BY HolderKnown DEF Continues
  <1> QED
    BY <1>1 DEF Disputed, Present

\* Nothing but the job and the budget of faults changes.
Quiet == UNCHANGED <<durableVars, live, lingering, historyVars>>

LEMMA QuietKeeps ==
    ASSUME LaunchInv, NEW t \in Tasks, Holds(t), NEW j, Continues(t, j), Quiet,
           faults' \in 0..MaxFaults, JobShape(t)', JobSession(t)', JobWorkspace(t)'
    PROVE  LaunchInv'
  <1>1. TypeOK /\ Owned /\ Housing /\ Called /\ Selecting
    BY HolderKnown
  <1>2. /\ UNCHANGED <<rows, ledger, selected, trees, branches, live, lingering, kicked, answered, left>>
    BY DEF Quiet, durableVars, historyVars
  <1>3. /\ Locked' /\ job' \in [Tasks -> Job] /\ job'[t] = j
        /\ \A q \in Tasks \ {t} : JobInv(q)' /\ job'[q] = job[q]
    BY GoesOn DEF Continues
  <1>4. TypeOK'
    BY <1>1, <1>2, <1>3 DEF TypeOK, Continues
  <1>5. Owned'
    BY <1>1, <1>2, <1>3, OwnedFrame DEF Continues
  <1>6. Housing'
    BY <1>1, <1>2, <1>3, HousingFrame DEF Continues
  <1>7. Called' /\ Selecting'
    BY <1>1, <1>2 DEF Called, Selecting, Made, ForkOf, Present
  <1> QED
    BY <1>3, <1>4, <1>5, <1>6, <1>7 DEF LaunchInv, JobInv

LEMMA NoWorktreeKeeps ==
    ASSUME LaunchInv, NEW t \in Tasks, NoWorktree(t)
    PROVE  LaunchInv'
  <1> DEFINE j == [job[t] EXCEPT !.pc = "create"]
  <1>1. /\ job[t].pc = "worktree" /\ Holds(t) /\ ~job[t].forks
        /\ Goto(t, "create") /\ lock' = lock /\ Quiet /\ faults' = faults
    BY DEF NoWorktree, At, Holds, Waiting, Quiet
  <1>2. job[t] \in Job /\ JobShape(t) /\ JobWorkspace(t) /\ TypeOK
    BY <1>1, HolderKnown
  <1>3. Continues(t, j) /\ j.pc = "create"
    BY <1>1, <1>2, GotoContinues DEF Pc, Waiting
  <1> HIDE DEF j
  <1>4. job'[t] = j
    BY <1>1, <1>3, HolderKnown DEF Continues
  <1>5. JobShape(t)'
    BY <1>1, <1>2, <1>3, <1>4 DEF JobShape, Continues, Waiting, Standing
  <1>6. JobSession(t)'
    BY <1>1, <1>2, <1>3, <1>4 DEF JobShape, JobSession, Continues
  <1>7. JobWorkspace(t)'
    BY <1>1, <1>2, <1>3, <1>4
       DEF JobShape, JobWorkspace, Continues, Quiet, durableVars, Present, ForkOf
  <1> QED
    BY <1>1, <1>2, <1>3, <1>5, <1>6, <1>7, QuietKeeps DEF TypeOK

LEMMA FaultTyped ==
    ASSUME TypeOK, Fault
    PROVE  faults' \in 0..MaxFaults
  BY LaunchesAssumption DEF TypeOK, Fault

LEMMA CreateFailsKeeps ==
    ASSUME LaunchInv, NEW t \in Tasks, CreateFails(t)
    PROVE  LaunchInv'
  <1> DEFINE j == [job[t] EXCEPT !.pc = IF job[t].forks THEN "discard" ELSE "clean",
                                 !.before = "unchanged"]
  <1>1. /\ job[t].pc = "create" /\ Holds(t) /\ Fault /\ lock' = lock /\ Quiet
        /\ job' = [job EXCEPT ![t] = j]
    BY HolderKnown DEF CreateFails, At, Holds, Waiting, Quiet
  <1>2. job[t] \in Job /\ JobShape(t) /\ JobWorkspace(t) /\ TypeOK
    BY <1>1, HolderKnown
  <1>3. /\ Continues(t, j) /\ j.pc = (IF job[t].forks THEN "discard" ELSE "clean")
        /\ j.before = "unchanged"
    BY <1>1, <1>2 DEF Continues, Job, Pc, Waiting
  <1> HIDE DEF j
  <1>4. job'[t] = j
    BY <1>1, <1>3, HolderKnown DEF Continues
  <1>5. JobShape(t)'
    BY <1>1, <1>2, <1>3, <1>4 DEF JobShape, Continues, Waiting, Standing
  <1>6. JobSession(t)'
    BY <1>1, <1>2, <1>3, <1>4 DEF JobShape, JobSession, Continues
  <1>7. JobWorkspace(t)'
    <2>1. \A n \in Names : Disputed(n)' <=> Disputed(n)
      BY <1>1, <1>3, DisputedFrame DEF Quiet, durableVars
    <2>2. job[t].name \in Names \cup {None}
      BY <1>2 DEF Job
    <2> QED
      BY <1>1, <1>2, <1>3, <1>4, <2>1, <2>2
         DEF JobShape, JobWorkspace, Continues, Quiet, durableVars, historyVars, Present, ForkOf, Housed, Standing
  <1> QED
    BY <1>1, <1>2, <1>3, <1>5, <1>6, <1>7, QuietKeeps, FaultTyped

LEMMA StepKeeps ==
    ASSUME LaunchInv, NEW t \in Tasks, Holds(t), NEW j, Continues(t, j),
           UNCHANGED <<rows, ledger, answered, branches>>,
           faults' \in 0..MaxFaults, left \subseteq left', left' \subseteq Names,
           selected' \in Sessions \cup {None}, Selecting',
           trees' \in [Names -> {"none", "clean", "copied", "dirty"}],
           \A n \in Names : (trees'[n] = "none") <=> (trees[n] = "none"),
           live' \subseteq live, lingering' \subseteq lingering,
           kicked' \in [Sessions -> 0..1], Called',
           JobShape(t)', JobSession(t)', JobWorkspace(t)'
    PROVE  LaunchInv'
  <1>1. TypeOK /\ Owned /\ Housing
    BY HolderKnown
  <1>2. /\ Locked' /\ job' \in [Tasks -> Job] /\ job'[t] = j
        /\ \A q \in Tasks \ {t} : JobInv(q)' /\ job'[q] = job[q]
    BY GoesOn DEF Continues
  <1>3. TypeOK'
    BY <1>1, <1>2 DEF TypeOK, Continues
  <1>4. Owned'
    <2>1. \A q \in Tasks : job'[q].name = job[q].name
      BY <1>2 DEF Continues
    <2> QED
      BY <1>1, <2>1, OwnedFrame
  <1>5. Housing'
    BY <1>1, <1>2, HousingFrame DEF Continues
  <1> QED
    BY <1>2, <1>3, <1>4, <1>5 DEF LaunchInv, JobInv

LEMMA ConfigureKeeps ==
    ASSUME LaunchInv, NEW t \in Tasks, Configure(t)
    PROVE  LaunchInv'
  <1>1. /\ job[t].pc = "configure" /\ Holds(t) /\ lock' = lock /\ Quiet
    BY HolderKnown DEF Configure, At, Holds, Waiting, Quiet
  <1>2. job[t] \in Job /\ JobShape(t) /\ JobSession(t) /\ JobWorkspace(t) /\ TypeOK
    BY <1>1, HolderKnown
  <1>3. PICK j : /\ Continues(t, j) /\ j.pc \in {"activate", "kick", "stop"}
                 /\ faults' \in 0..MaxFaults
    <2>1. CASE Goto(t, IF t = Service THEN "activate" ELSE "kick") /\ UNCHANGED faults
      <3>1. PICK pc \in {"activate", "kick"} : Goto(t, pc)
        BY <2>1
      <3>2. Continues(t, [job[t] EXCEPT !.pc = pc]) /\ [job[t] EXCEPT !.pc = pc].pc = pc
        BY <1>1, <1>2, <3>1, GotoContinues DEF Pc, Waiting
      <3> QED
        BY <1>2, <2>1, <3>2 DEF TypeOK
    <2>2. CASE Fault /\ job' = [job EXCEPT ![t].pc = "stop", ![t].before = "unchanged"]
      <3> DEFINE j == [job[t] EXCEPT !.pc = "stop", !.before = "unchanged"]
      <3>1. Continues(t, j) /\ j.pc = "stop"
        BY <1>1, <1>2, <2>2, HolderKnown DEF Continues, Job, Pc, Waiting
      <3> QED
        BY <1>2, <2>2, <3>1, FaultTyped
    <2> QED
      BY <2>1, <2>2 DEF Configure
  <1>4. job'[t] = j
    BY <1>1, <1>3, HolderKnown DEF Continues
  <1>5. JobShape(t)'
    BY <1>1, <1>2, <1>3, <1>4 DEF JobShape, Continues, Waiting, Standing
  <1>6. JobSession(t)'
    BY <1>1, <1>2, <1>3, <1>4
       DEF JobShape, JobSession, Continues, Quiet, durableVars, historyVars, Present, Standing, Unsent, Still
  <1>7. JobWorkspace(t)'
    BY <1>1, <1>2, <1>3, <1>4
       DEF JobShape, JobWorkspace, Continues, Quiet, durableVars, historyVars, Present, ForkOf, Housed, Standing
  <1> QED
    BY <1>1, <1>2, <1>3, <1>5, <1>6, <1>7, QuietKeeps

LEMMA ActivateKeeps ==
    ASSUME LaunchInv, NEW t \in Tasks, Activate(t)
    PROVE  LaunchInv'
  <1>1. /\ job[t].pc = "activate" /\ Holds(t) /\ lock' = lock
        /\ UNCHANGED <<rows, ledger, trees, branches, live, lingering, kicked, answered, left>>
    BY DEF Activate, At, Holds, Waiting, historyVars
  <1>2. /\ job[t] \in Job /\ JobShape(t) /\ JobSession(t) /\ JobWorkspace(t) /\ TypeOK /\ Called
        /\ Selecting
    BY <1>1, HolderKnown
  <1>3. PICK j : /\ Continues(t, j) /\ j.pc \in {"kick", "stop"}
                 /\ faults' \in 0..MaxFaults /\ selected' \in {selected, job[t].session}
    <2>1. CASE Goto(t, "kick") /\ UNCHANGED faults /\ selected' = job[t].session
      BY <1>1, <1>2, <2>1, GotoContinues DEF Pc, Waiting, TypeOK
    <2>2. CASE Fault /\ Goto(t, "stop") /\ UNCHANGED selected
      BY <1>1, <1>2, <2>2, GotoContinues, FaultTyped DEF Pc, Waiting
    <2> QED
      BY <2>1, <2>2 DEF Activate
  <1>4. job'[t] = j
    BY <1>1, <1>3, HolderKnown DEF Continues
  <1>5. JobShape(t)'
    BY <1>1, <1>2, <1>3, <1>4 DEF JobShape, Continues, Waiting, Standing
  <1>6. JobSession(t)'
    BY <1>1, <1>2, <1>3, <1>4
       DEF JobShape, JobSession, Continues, Present, Standing, Unsent, Still
  <1>7. JobWorkspace(t)'
    BY <1>1, <1>2, <1>3, <1>4
       DEF JobShape, JobWorkspace, Continues, Present, ForkOf, Housed, Standing
  <1>8. Selecting' /\ selected' \in Sessions \cup {None}
    BY <1>1, <1>2, <1>3 DEF JobShape, JobSession, Selecting, Present, Standing, Job, TypeOK
  <1>9. Called'
    BY <1>1, <1>2 DEF Called, Made, ForkOf, Present
  <1> QED
    BY <1>1, <1>2, <1>3, <1>5, <1>6, <1>7, <1>8, <1>9, StepKeeps DEF TypeOK

LEMMA SnapshotKeeps ==
    ASSUME LaunchInv, NEW t \in Tasks, Snapshot(t)
    PROVE  LaunchInv'
  <1>1. /\ job[t].pc = "snapshot" /\ Holds(t) /\ lock' = lock
        /\ UNCHANGED <<rows, ledger, selected, branches, live, lingering, kicked, answered, left>>
    BY DEF Snapshot, At, Holds, Waiting, historyVars
  <1>2. /\ job[t] \in Job /\ JobShape(t) /\ JobSession(t) /\ JobWorkspace(t) /\ TypeOK /\ Called
        /\ Selecting
    BY <1>1, HolderKnown
  <1>3. PICK j : /\ Continues(t, j) /\ j.pc \in {"create", "discard"} /\ j.before = job[t].before
                 /\ faults' \in 0..MaxFaults
    <2>1. CASE Goto(t, "create") /\ UNCHANGED faults
      BY <1>1, <1>2, <2>1, GotoContinues DEF Pc, Waiting, TypeOK
    <2>2. CASE Fault /\ Goto(t, "discard")
      BY <1>1, <1>2, <2>2, GotoContinues, FaultTyped DEF Pc, Waiting
    <2> QED
      BY <2>1, <2>2 DEF Snapshot
  <1>4. job'[t] = j /\ job[t].name \in Names
    BY <1>1, <1>2, <1>3, HolderKnown DEF Continues, JobShape, Job, Waiting
  <1>5. /\ trees' \in [Names -> {"none", "clean", "copied", "dirty"}]
        /\ \A n \in Names : trees'[n] = "none" <=> trees[n] = "none"
        /\ \A n \in Names : trees'[n] = "dirty" => trees[n] = "dirty"
    <2>1. PICK d \in {"clean", "copied"} :
             trees' = [trees EXCEPT ![job[t].name] = IF @ = "dirty" THEN @ ELSE d]
      BY DEF Snapshot
    <2>2. trees[job[t].name] # "none"
      BY <1>1, <1>2, <1>4, LaunchesAssumption DEF JobWorkspace, Housed
    <2> QED
      BY <1>2, <1>4, <2>1, <2>2 DEF TypeOK
  <1>6. JobShape(t)'
    BY <1>1, <1>2, <1>3, <1>4 DEF JobShape, Continues, Waiting, Standing
  <1>7. JobSession(t)'
    BY <1>1, <1>2, <1>3, <1>4 DEF JobShape, JobSession, Continues
  <1>8. JobWorkspace(t)'
    <2>1. \A n \in Names : Disputed(n)' <=> Disputed(n)
      BY <1>1, <1>3, DisputedFrame
    <2> QED
      BY <1>1, <1>2, <1>3, <1>4, <1>5, <2>1
         DEF JobShape, JobWorkspace, Continues, Present, ForkOf, Housed, Standing
  <1>9. Called' /\ Selecting'
    BY <1>1, <1>2 DEF Called, Selecting, Made, ForkOf, Present
  <1> QED
    BY <1>1, <1>2, <1>3, <1>5, <1>6, <1>7, <1>8, <1>9, StepKeeps DEF TypeOK

LEMMA DiscardKeeps ==
    ASSUME LaunchInv, NEW t \in Tasks, Discard(t)
    PROVE  LaunchInv'
  <1> DEFINE j == [job[t] EXCEPT !.pc = "clean"]
  <1>1. /\ job[t].pc = "discard" /\ Holds(t) /\ lock' = lock /\ Goto(t, "clean")
        /\ UNCHANGED <<rows, ledger, selected, branches, live, lingering, kicked, answered, left>>
    BY DEF Discard, At, Holds, Waiting, historyVars
  <1>2. /\ job[t] \in Job /\ JobShape(t) /\ JobSession(t) /\ JobWorkspace(t) /\ TypeOK /\ Called
        /\ Selecting
    BY <1>1, HolderKnown
  <1>3. Continues(t, j) /\ j.pc = "clean" /\ j.before = job[t].before
    BY <1>1, <1>2, GotoContinues DEF Pc, Waiting
  <1> HIDE DEF j
  <1>4. job'[t] = j /\ job[t].name \in Names
    BY <1>1, <1>2, <1>3, HolderKnown DEF Continues, JobShape, Job, Waiting
  <1>5. /\ trees' \in [Names -> {"none", "clean", "copied", "dirty"}]
        /\ \A n \in Names : (trees'[n] = "none") <=> (trees[n] = "none")
        /\ faults' \in 0..MaxFaults
    <2>1. \/ trees' = [trees EXCEPT ![job[t].name] = "clean"] /\ UNCHANGED faults
          \/ Fault /\ UNCHANGED trees
      BY DEF Discard
    <2>2. trees[job[t].name] # "none"
      BY <1>1, <1>2, <1>4, LaunchesAssumption DEF JobWorkspace, Housed
    <2> QED
      BY <1>2, <1>4, <2>1, <2>2, FaultTyped DEF TypeOK
  <1>6. JobShape(t)'
    BY <1>1, <1>2, <1>3, <1>4 DEF JobShape, Continues, Waiting, Standing
  <1>7. JobSession(t)'
    BY <1>1, <1>2, <1>3, <1>4
       DEF JobShape, JobSession, Continues, Present, Standing, Unsent, Still
  <1>8. JobWorkspace(t)'
    BY <1>1, <1>2, <1>3, <1>4, <1>5
         DEF JobShape, JobWorkspace, Continues, Present, ForkOf, Housed, Standing
  <1>9. Called' /\ Selecting'
    BY <1>1, <1>2 DEF Called, Selecting, Made, ForkOf, Present
  <1> QED
    BY <1>1, <1>2, <1>3, <1>5, <1>6, <1>7, <1>8, <1>9, StepKeeps DEF TypeOK

-----------------------------------------------------------------------------
(* The first prompt, and the end of a launch.                              *)

\* A prompt reaches a session that has a row: it is the first of its session.
LEMMA ArrivesKeeps ==
    ASSUME Called, TypeOK, NEW s \in Sessions, Present(s), UNCHANGED <<rows, ledger, answered>>,
           kicked[s] = 0, kicked' = [kicked EXCEPT ![s] = @ + 1] \/ kicked' = kicked
    PROVE  Called' /\ kicked' \in [Sessions -> 0..1]
           /\ \A p \in Sessions \ {s} : kicked'[p] = kicked[p]
  <1>1. /\ kicked' \in [Sessions -> 0..1] /\ \A p \in Sessions \ {s} : kicked'[p] = kicked[p]
        /\ \A p \in Sessions : kicked[p] > 0 => kicked'[p] > 0
    BY DEF TypeOK
  <1> QED
    BY <1>1 DEF Called, Made, ForkOf, Present

LEMMA ReturnKeeps ==
    ASSUME LaunchInv, NEW t \in Tasks, Holds(t), Return(t),
           UNCHANGED <<rows, trees, live, lingering>>,
           ledger' \in [Creates -> Entry \cup {None}], branches' \in [Names -> {"none", "merged", "ahead"}],
           faults' \in 0..MaxFaults, left \subseteq left', left' \subseteq Names,
           selected' \in Sessions \cup {None}, answered' \subseteq Calls,
           kicked' \in [Sessions -> 0..1], Called', Selecting', Owned'
    PROVE  LaunchInv'
  <1>1. TypeOK /\ Housing
    BY HolderKnown
  <1>2. /\ Locked' /\ job' \in [Tasks -> Job] /\ \A q \in Tasks : JobInv(q)' /\ job'[q].name = None
    BY Returns
  <1>3. TypeOK'
    BY <1>1, <1>2 DEF TypeOK, Return
  <1>4. Housing'
    BY <1>1, <1>2, HousingFrame
  <1> QED
    BY <1>2, <1>3, <1>4 DEF LaunchInv

LEMMA KickKeeps ==
    ASSUME LaunchInv, NEW t \in Tasks, Kick(t)
    PROVE  LaunchInv'
  <1> DEFINE s == job[t].session
  <1>1. /\ job[t].pc = "kick" /\ Holds(t)
        /\ UNCHANGED <<rows, ledger, selected, trees, branches, live, lingering, answered, left>>
    BY DEF Kick, At, Holds, Waiting, durableVars
  <1>2. /\ job[t] \in Job /\ JobShape(t) /\ JobSession(t) /\ JobWorkspace(t) /\ TypeOK /\ Called
        /\ Selecting /\ Owned
    BY <1>1, HolderKnown
  <1>3. s \in Sessions /\ Present(s) /\ kicked[s] = 0 /\ rows[s].name = job[t].name
    BY <1>1, <1>2 DEF JobShape, JobSession, Job, Standing, Unsent
  <1>4. Called' /\ kicked' \in [Sessions -> 0..1]
    <2>1. kicked' = [kicked EXCEPT ![s] = @ + 1] \/ kicked' = kicked
      BY DEF Kick
    <2> QED
      BY <1>1, <1>2, <1>3, <2>1, ArrivesKeeps
  <1>5. Selecting'
    BY <1>1, <1>2 DEF Selecting, Present
  <1>6. CASE Return(t) /\ Fault
    <2>1. \A n \in Names \ left' : (\E q \in Tasks : job[q].name = n)
             => \E p \in Sessions : Present(p) /\ rows[p].name = n
      BY <1>1, <1>3, HolderKnown, LaunchesAssumption
    <2>2. Owned'
      BY <1>1, <1>2, <2>1, OwnedFrame
    <2> QED
      BY <1>1, <1>2, <1>4, <1>5, <1>6, <2>2, ReturnKeeps, FaultTyped DEF TypeOK
  <1>7. CASE \/ lock' = lock /\ Goto(t, "finish") /\ faults' = faults /\ kicked' = [kicked EXCEPT ![s] = @ + 1]
             \/ lock' = lock /\ Goto(t, "stop") /\ Fault /\ ~job[t].forks
    <2>1. PICK j : /\ Continues(t, j) /\ j.before = job[t].before
                   /\ \/ j.pc = "finish" /\ kicked'[s] > 0
                      \/ j.pc = "stop" /\ ~job[t].forks
                   /\ faults' \in 0..MaxFaults
      <3>1. CASE /\ lock' = lock /\ Goto(t, "finish") /\ faults' = faults
                 /\ kicked' = [kicked EXCEPT ![s] = @ + 1]
        <4>1. kicked'[s] > 0
          BY <1>2, <1>3, <3>1 DEF TypeOK
        <4> QED
          BY <1>2, <3>1, <4>1, GotoContinues DEF Pc, Waiting, TypeOK
      <3>2. CASE lock' = lock /\ Goto(t, "stop") /\ Fault /\ ~job[t].forks
        BY <1>2, <3>2, GotoContinues, FaultTyped DEF Pc, Waiting
      <3> QED
        BY <1>7, <3>1, <3>2
    <2>2. job'[t] = j
      BY <1>1, <2>1, HolderKnown DEF Continues
    <2>3. JobShape(t)'
      BY <1>1, <1>2, <2>1, <2>2 DEF JobShape, Continues, Waiting, Standing
    <2>4. JobSession(t)'
      BY <1>1, <1>2, <2>1, <2>2
         DEF JobShape, JobSession, Continues, Present, Standing, Unsent, Still
    <2>5. JobWorkspace(t)'
      BY <1>1, <1>2, <2>1, <2>2
         DEF JobShape, JobWorkspace, Continues, Present, ForkOf, Housed, Standing
    <2> QED
      BY <1>1, <1>2, <1>4, <1>5, <2>1, <2>3, <2>4, <2>5, StepKeeps DEF TypeOK
  <1> QED
    BY <1>6, <1>7 DEF Kick

LEMMA ReselectKeeps ==
    ASSUME LaunchInv, NEW t \in Tasks, Reselect(t)
    PROVE  LaunchInv'
  <1>1. /\ job[t].pc = "reselect" /\ Holds(t) /\ Return(t)
        /\ UNCHANGED <<rows, ledger, trees, branches, live, lingering, kicked, answered, left>>
    BY DEF Reselect, At, Holds, Waiting, historyVars
  <1>2. /\ job[t] \in Job /\ JobShape(t) /\ JobWorkspace(t) /\ TypeOK /\ Called /\ Selecting /\ Owned
    BY <1>1, HolderKnown
  <1>3. Called'
    BY <1>1, <1>2 DEF Called, Made, ForkOf, Present
  <1>4. faults' \in 0..MaxFaults
    BY <1>2, FaultTyped DEF Reselect, TypeOK
  <1>5. Selecting' /\ selected' \in Sessions \cup {None}
    <2>1. selected' = selected \/ (selected' = job[t].before /\ job[t].before # "unchanged")
      BY DEF Reselect, Reselection
    <2>2. CASE selected' = selected
      BY <1>1, <1>2, <2>2 DEF Selecting, Present, TypeOK
    <2>3. CASE selected' = job[t].before /\ job[t].before # "unchanged"
      BY <1>1, <1>2, <2>3 DEF JobWorkspace, Selecting, Present, Job
    <2> QED
      BY <2>1, <2>2, <2>3
  <1>6. Owned'
    <2>1. \A n \in Names \ left' : (\E q \in Tasks : job[q].name = n) => Free(n)
      BY <1>1, <1>2, HolderKnown, LaunchesAssumption DEF JobWorkspace
    <2> QED
      BY <1>1, <1>2, <2>1, OwnedFrame
  <1> QED
    BY <1>1, <1>2, <1>3, <1>4, <1>5, <1>6, ReturnKeeps DEF TypeOK

LEMMA FinishedKeeps ==
    ASSUME LaunchInv, NEW t \in Tasks, job[t].pc = "finish", Return(t),
           rows' = [rows EXCEPT ![job[t].session].pending = FALSE],
           ledger' = (IF job[t].call \in Creates
                      THEN [ledger EXCEPT ![job[t].call].completed = TRUE] ELSE ledger),
           selected' = (IF t = Service THEN job[t].session ELSE selected),
           answered' = answered \cup ({job[t].call} \cap Calls),
           UNCHANGED <<trees, branches, live, lingering, kicked, left, faults>>
    PROVE  LaunchInv'
  <1> DEFINE s == job[t].session
             c == job[t].call
  <1>1. Holds(t)
    BY DEF Holds, Waiting
  <1>2. /\ job[t] \in Job /\ JobShape(t) /\ JobSession(t) /\ TypeOK /\ Called
        /\ Selecting /\ Owned /\ Housing
    BY <1>1, HolderKnown
  <1>3. /\ s \in Sessions /\ Present(s) /\ rows[s].call = c /\ rows[s].name = job[t].name
        /\ rows[s] \in Row /\ (c # None => kicked[s] > 0) /\ c \in Calls \cup {None}
    BY <1>1, <1>2 DEF JobShape, JobSession, Job, Standing, TypeOK, Present
  <1> HIDE DEF s, c
  <1>4. /\ rows' \in [Sessions -> Row \cup {None}] /\ rows'[s] = [rows[s] EXCEPT !.pending = FALSE]
        /\ \A p \in Sessions \ {s} : rows'[p] = rows[p]
    <2>1. [rows[s] EXCEPT !.pending = FALSE] \in Row
      BY <1>3 DEF Row
    <2> QED
      BY <1>2, <1>3, <2>1 DEF TypeOK, s
  <1>5. /\ rows'[s].state = rows[s].state /\ rows'[s].call = rows[s].call
        /\ rows'[s].name = rows[s].name /\ rows'[s].pending = FALSE /\ rows'[s] # None
    <2>1. rows'[s] \in Row
      BY <1>3, <1>4 DEF Row
    <2> QED
      BY <1>3, <1>4, <2>1, RowsAssumption DEF Row
  <1>6. \A p \in Sessions :
          /\ (rows'[p] = None <=> rows[p] = None) /\ (Present(p)' <=> Present(p))
          /\ rows[p] # None => rows'[p].name = rows[p].name /\ rows'[p].call = rows[p].call
    BY <1>3, <1>4, <1>5 DEF Present
  <1>7. \A d \in Calls : Made(d)' = Made(d)
    BY <1>6 DEF Made
  <1>8. \A d \in Calls : ForkOf(d)' = ForkOf(d)
    BY <1>6 DEF ForkOf, Present
  <1>9. c \in Creates => ledger[c] \in Entry /\ ledger[c] # None
    <2>1. c \in Creates => Made(c) # {}
      BY <1>3 DEF Made, Present
    <2> QED
      BY <1>2, <2>1 DEF Called, TypeOK
  <1>10. /\ ledger' \in [Creates -> Entry \cup {None}]
         /\ \A d \in Creates \ {c} : ledger'[d] = ledger[d]
         /\ c \in Creates => ledger'[c] # None
    <2>1. CASE c \notin Creates
      BY <1>2, <2>1 DEF TypeOK, c
    <2>2. CASE c \in Creates
      <3>1. [ledger[c] EXCEPT !.completed = TRUE] \in Entry
        BY <1>9, <2>2 DEF Entry
      <3>2. ledger' = [ledger EXCEPT ![c] = [ledger[c] EXCEPT !.completed = TRUE]]
        BY <1>2, <2>2 DEF TypeOK, c
      <3> QED
        BY <1>2, <2>2, <3>1, <3>2, RowsAssumption DEF TypeOK
    <2> QED
      BY <2>1, <2>2
  <1>11. /\ Locked' /\ job' \in [Tasks -> Job] /\ \A q \in Tasks : JobInv(q)' /\ job'[q].name = None
    BY <1>1, Returns
  <1>12. selected' \in Sessions \cup {None} /\ Selecting'
    BY <1>2, <1>3, <1>6 DEF TypeOK, Selecting, s
  <1>13. TypeOK'
    BY <1>2, <1>4, <1>10, <1>11, <1>12 DEF TypeOK, Return, c
  <1>14. Owned'
    <2> SUFFICES ASSUME NEW n \in Names \ left
                 PROVE  /\ \A p \in Sessions : Present(p)' /\ rows'[p].name = n => trees[n] # "none"
                        /\ \A r, p \in Sessions : Present(r)' /\ Present(p)' /\ rows'[r].name = n
                                                  /\ rows'[p].name = n => r = p
                        /\ ~Free(n) => \E p \in Sessions : Present(p)' /\ rows'[p].name = n
      BY DEF Owned, Free
    <2>1. \A p \in Sessions : Present(p)' /\ rows'[p].name = n <=> Present(p) /\ rows[p].name = n
      BY <1>6 DEF Present
    <2>2. \A q \in Tasks : job[q].name = n => q = t
      BY <1>1, HolderKnown, LaunchesAssumption
    <2> QED
      BY <1>2, <1>3, <2>1, <2>2 DEF Owned
  <1>15. Housing'
    <2>1. \A p \in live : Present(p)'
      BY <1>2, <1>6 DEF Housing, TypeOK
    <2>2. \A p \in lingering : /\ rows'[p] # None
                               /\ rows'[p].name # None => trees[rows'[p].name] # "none"
      BY <1>2, <1>6 DEF Housing, TypeOK
    <2> QED
      BY <1>11, <2>1, <2>2 DEF Housing
  <1>16. Called'
    <2>1. \A p \in Sessions : rows'[p] = None => kicked[p] = 0
      BY <1>2, <1>6 DEF Called
    <2>2. \A d \in Creates : /\ ledger'[d] = None => Made(d)' = {}
                             /\ \A r, p \in Made(d)' : r = p
      <3> SUFFICES ASSUME NEW d \in Creates
                   PROVE  /\ ledger'[d] = None => Made(d)' = {}
                          /\ \A r, p \in Made(d)' : r = p
        OBVIOUS
      <3>1. Made(d)' = Made(d) /\ (ledger'[d] = None => ledger[d] = None)
        BY <1>7, <1>10 DEF Calls
      <3>2. (ledger[d] = None => Made(d) = {}) /\ \A r, p \in Made(d) : r = p
        BY <1>2 DEF Called
      <3> QED
        BY <3>1, <3>2
    <2>3. \A d \in Creates : ledger'[d] # None /\ ledger'[d].completed
                             => \E p \in Made(d)' : kicked[p] > 0
      <3>1. c \in Creates => s \in Made(c) /\ kicked[s] > 0
        BY <1>3, LaunchesAssumption DEF Made, Present, Calls
      <3> SUFFICES ASSUME NEW d \in Creates, ledger'[d] # None, ledger'[d].completed
                   PROVE  \E p \in Made(d)' : kicked[p] > 0
        OBVIOUS
      <3>2. Made(d)' = Made(d)
        BY <1>7 DEF Calls
      <3>3. CASE d = c
        BY <3>1, <3>2, <3>3
      <3>4. CASE d # c
        <4>1. ledger[d] # None /\ ledger[d].completed
          BY <1>10, <3>4
        <4> QED
          BY <1>2, <3>2, <4>1 DEF Called
      <3> QED
        BY <3>3, <3>4
    <2>4. \A d \in Forks : /\ \A r, p \in ForkOf(d)' : r = p
                           /\ \A p \in Made(d)' : rows'[p].state = "deleted" => kicked[p] = 0
      <3>1. \A p \in Sessions : rows'[p].state = rows[p].state
        BY <1>4, <1>5
      <3> QED
        BY <1>2, <1>7, <1>8, <3>1 DEF Called, Calls, Made
    <2>5. \A d \in Forks : \A p \in ForkOf(d)' : ~rows'[p].pending => kicked[p] > 0
      <3> SUFFICES ASSUME NEW d \in Forks, NEW p \in ForkOf(d), ~rows'[p].pending
                   PROVE  kicked[p] > 0
        BY <1>8 DEF Calls
      <3>1. CASE p = s
        BY <1>3, <3>1, LaunchesAssumption DEF ForkOf, Calls
      <3>2. CASE p # s
        BY <1>2, <1>4, <3>2 DEF Called, ForkOf
      <3> QED
        BY <3>1, <3>2
    <2>6. \A d \in answered' : \E p \in Made(d)' : kicked[p] > 0
      <3>1. c \in Calls => s \in Made(c) /\ kicked[s] > 0
        BY <1>3, LaunchesAssumption DEF Made, Present
      <3>2. answered \subseteq Calls
        BY <1>2 DEF TypeOK
      <3> QED
        BY <1>2, <1>7, <3>1, <3>2, LaunchesAssumption DEF Called, c
    <2> QED
      BY <2>1, <2>2, <2>3, <2>4, <2>5, <2>6 DEF Called
  <1> QED
    BY <1>11, <1>12, <1>13, <1>14, <1>15, <1>16 DEF LaunchInv

LEMMA FinishKeeps ==
    ASSUME LaunchInv, NEW t \in Tasks, Finish(t)
    PROVE  LaunchInv'
  <1>1. /\ job[t].pc = "finish" /\ Holds(t)
        /\ UNCHANGED <<trees, branches, live, lingering, kicked, left>>
    BY DEF Finish, At, Holds, Waiting
  <1>2. /\ job[t] \in Job /\ JobShape(t) /\ JobSession(t) /\ JobWorkspace(t) /\ TypeOK /\ Called
        /\ Selecting /\ Owned
    BY <1>1, HolderKnown
  <1>3. CASE /\ Return(t) /\ UNCHANGED faults
             /\ rows' = [rows EXCEPT ![job[t].session].pending = FALSE]
             /\ ledger' = (IF job[t].call \in Creates
                           THEN [ledger EXCEPT ![job[t].call].completed = TRUE] ELSE ledger)
             /\ selected' = (IF t = Service THEN job[t].session ELSE selected)
             /\ answered' = answered \cup ({job[t].call} \cap Calls)
    BY <1>1, <1>3, FinishedKeeps
  <1>4. CASE /\ Fault /\ UNCHANGED <<rows, ledger, selected, answered>>
             /\ IF job[t].forks THEN Return(t) ELSE Goto(t, "stop") /\ UNCHANGED lock
    <2>1. Called' /\ Selecting' /\ faults' \in 0..MaxFaults
      BY <1>1, <1>2, <1>4, FaultTyped DEF Called, Selecting, Made, ForkOf, Present
    <2>2. CASE job[t].forks /\ Return(t)
      <3>1. \A n \in Names \ left' : (\E q \in Tasks : job[q].name = n)
               => \E p \in Sessions : Present(p) /\ rows[p].name = n
        BY <1>1, <1>2, HolderKnown, LaunchesAssumption DEF JobShape, JobSession, Job, Standing
      <3>2. Owned'
        BY <1>1, <1>2, <1>4, <3>1, OwnedFrame
      <3> QED
        BY <1>1, <1>2, <1>4, <2>1, <2>2, <3>2, ReturnKeeps DEF TypeOK
    <2>3. CASE ~job[t].forks /\ Goto(t, "stop") /\ lock' = lock
      <3> DEFINE j == [job[t] EXCEPT !.pc = "stop"]
      <3>1. Continues(t, j) /\ j.before = job[t].before /\ j.pc = "stop"
        BY <1>2, <2>3, GotoContinues DEF Pc, Waiting
      <3> HIDE DEF j
      <3>2. job'[t] = j
        BY <1>1, <3>1, HolderKnown DEF Continues
      <3>3. JobShape(t)'
        BY <1>1, <1>2, <2>3, <3>1, <3>2 DEF JobShape, Continues, Waiting, Standing
      <3>4. JobSession(t)'
        BY <1>1, <1>2, <1>4, <2>3, <3>1, <3>2
           DEF JobShape, JobSession, Continues, Present, Standing, Unsent, Still
      <3>5. JobWorkspace(t)'
        BY <1>1, <1>2, <1>4, <2>3, <3>1, <3>2
           DEF JobShape, JobWorkspace, Continues, Present, ForkOf, Housed, Standing
      <3>6. Quiet
        BY <1>1, <1>4 DEF Quiet, durableVars, historyVars
      <3> QED
        BY <1>1, <2>1, <3>1, <3>3, <3>4, <3>5, <3>6, QuietKeeps
    <2> QED
      BY <1>4, <2>2, <2>3
  <1> QED
    BY <1>3, <1>4 DEF Finish

-----------------------------------------------------------------------------
(* What is taken back.                                                     *)

LEMMA StopKeeps ==
    ASSUME LaunchInv, NEW t \in Tasks, Stop(t)
    PROVE  LaunchInv'
  <1> DEFINE j == [job[t] EXCEPT !.pc = "erase"]
             s == job[t].session
  <1>1. /\ job[t].pc = "stop" /\ Holds(t) /\ lock' = lock /\ Goto(t, "erase")
        /\ UNCHANGED <<rows, ledger, selected, trees, branches, kicked, answered, left>>
        /\ live' = live \ {s} /\ lingering' \in {lingering, lingering \cup {s}}
    BY DEF Stop, At, Holds, Waiting, historyVars, durableVars
  <1>2. /\ job[t] \in Job /\ JobShape(t) /\ JobSession(t) /\ JobWorkspace(t) /\ TypeOK /\ Called
        /\ Selecting /\ Owned /\ Housing
    BY <1>1, HolderKnown
  <1>3. Continues(t, j) /\ j.pc = "erase" /\ j.before = job[t].before
    BY <1>1, <1>2, GotoContinues DEF Pc, Waiting
  <1> HIDE DEF j
  <1>4. /\ Locked' /\ job' \in [Tasks -> Job] /\ job'[t] = j
        /\ \A q \in Tasks \ {t} : JobInv(q)' /\ job'[q] = job[q] /\ job'[q].name = None
    BY <1>1, <1>3, GoesOn DEF Continues
  <1>5. s \in Sessions /\ Present(s) /\ rows[s].name = job[t].name /\ job[t].name \in Names \cup {None}
    BY <1>1, <1>2 DEF JobShape, JobSession, Job, Standing
  <1>6. JobShape(t)'
    BY <1>1, <1>2, <1>3, <1>4 DEF JobShape, Continues, Waiting, Standing
  <1>7. JobSession(t)'
    BY <1>1, <1>2, <1>3, <1>4
       DEF JobShape, JobSession, Continues, Present, Standing, Unsent, Still
  <1>8. JobWorkspace(t)'
    BY <1>1, <1>2, <1>3, <1>4
       DEF JobShape, JobWorkspace, Continues, Present, ForkOf, Housed, Standing
  <1>9. faults' \in 0..MaxFaults
    BY <1>2, FaultTyped DEF Stop, TypeOK
  <1>10. TypeOK'
    BY <1>1, <1>2, <1>3, <1>4, <1>5, <1>9 DEF TypeOK
  <1>11. Owned'
    BY <1>1, <1>2, <1>3, <1>4, OwnedFrame DEF Continues
  <1>12. Housing'
    <2>1. \A p \in live' : Present(p)'
      BY <1>1, <1>2 DEF Housing, Present
    <2>2. ASSUME NEW p \in lingering', rows'[p].name # None
          PROVE  /\ trees'[rows'[p].name] # "none"
                 /\ \A q \in Tasks : job'[q].name = rows'[p].name => job'[q].session = p
      <3>1. CASE p = s
        <4>1. trees[job[t].name] # "none"
          BY <1>1, <1>2, <1>5, <2>2, <3>1 DEF JobWorkspace, Housed, Standing
        <4> QED
          BY <1>1, <1>3, <1>4, <1>5, <2>2, <3>1, <4>1 DEF Continues
      <3>2. CASE p # s
        BY <1>1, <1>2, <1>3, <1>4, <2>2, <3>2 DEF Housing, Continues
      <3> QED
        BY <3>1, <3>2
    <2>3. \A p \in lingering' : rows'[p] # None
      BY <1>1, <1>2, <1>5 DEF Housing, Present
    <2> QED
      BY <2>1, <2>2, <2>3 DEF Housing
  <1>13. Called' /\ Selecting'
    BY <1>1, <1>2 DEF Called, Selecting, Made, ForkOf, Present
  <1> QED
    BY <1>4, <1>6, <1>7, <1>8, <1>10, <1>11, <1>12, <1>13 DEF LaunchInv, JobInv

\* A session that is deleted is still known by its tool call.
LEMMA DeletedKeeps ==
    ASSUME TypeOK, Called, NEW s \in Sessions, NEW state \in {"deleted", "removed"}, Present(s),
           Deleted(s, state), UNCHANGED <<kicked, answered>>,
           rows[s].call \in Forks => kicked[s] = 0 \/ state = "removed"
    PROVE  /\ Called' /\ rows' \in [Sessions -> Row \cup {None}]
           /\ ledger' \in [Creates -> Entry \cup {None}]
           /\ rows'[s] # None /\ ~Present(s)'
           /\ rows'[s].name = rows[s].name /\ rows'[s].call = rows[s].call
           /\ \A p \in Sessions \ {s} : rows'[p] = rows[p]
  <1> DEFINE row == [rows[s] EXCEPT !.state = state]
  <1>1. rows[s] \in Row
    BY DEF TypeOK, Present
  <1>2. row \in Row /\ row # None /\ row.name = rows[s].name /\ row.call = rows[s].call
        /\ row.state = state
    BY <1>1, RowsAssumption DEF Row
  <1>3. /\ rows' = [rows EXCEPT ![s] = row] /\ rows'[s] = row
        /\ rows' \in [Sessions -> Row \cup {None}]
        /\ \A p \in Sessions \ {s} : rows'[p] = rows[p]
    BY <1>2 DEF Deleted, TypeOK
  <1> HIDE DEF row
  <1>4. \A c \in Creates : /\ ledger'[c] \in Entry \cup {None}
                           /\ ledger'[c] = None => ledger[c] = None
                           /\ ledger'[c] # None => ledger[c] # None
                                                   /\ ledger'[c].completed = ledger[c].completed
    <2> SUFFICES ASSUME NEW c \in Creates
                 PROVE  /\ ledger'[c] \in Entry \cup {None}
                        /\ ledger'[c] = None => ledger[c] = None
                        /\ ledger'[c] # None => ledger[c] # None
                                                /\ ledger'[c].completed = ledger[c].completed
      OBVIOUS
    <2>1. CASE ledger[c] # None /\ ledger[c].child = s
      <3> DEFINE entry == [ledger[c] EXCEPT !.child = None]
      <3>1. ledger[c] \in Entry /\ ledger'[c] = entry
        BY <2>1 DEF TypeOK, Deleted
      <3>2. entry \in Entry /\ entry.completed = ledger[c].completed
        BY <3>1 DEF Entry
      <3> HIDE DEF entry
      <3> QED
        BY <2>1, <3>1, <3>2, RowsAssumption
    <2>2. CASE ~(ledger[c] # None /\ ledger[c].child = s)
      BY <2>2 DEF TypeOK, Deleted
    <2> QED
      BY <2>1, <2>2
  <1>5. ledger' \in [Creates -> Entry \cup {None}]
    BY <1>4 DEF Deleted
  <1>6. /\ \A p \in Sessions : /\ rows'[p] = None <=> rows[p] = None
                               /\ Present(p)' <=> Present(p) /\ p # s
                               /\ rows[p] # None => rows'[p].call = rows[p].call
    BY <1>2, <1>3 DEF Present
  <1>7. \A c \in Calls : Made(c)' = Made(c)
    BY <1>6 DEF Made
  <1>8. \A c \in Calls : ForkOf(c)' \subseteq ForkOf(c) \ {s}
    BY <1>6 DEF ForkOf, Present
  <1>9. Called'
    <2>1. \A c \in Creates : /\ ledger'[c] = None => Made(c)' = {}
                             /\ \A r, p \in Made(c)' : r = p
                             /\ ledger'[c] # None /\ ledger'[c].completed => \E p \in Made(c)' : kicked[p] > 0
      <3> SUFFICES ASSUME NEW c \in Creates
                   PROVE  /\ ledger'[c] = None => Made(c)' = {}
                          /\ \A r, p \in Made(c)' : r = p
                          /\ ledger'[c] # None /\ ledger'[c].completed => \E p \in Made(c)' : kicked[p] > 0
        OBVIOUS
      <3>1. Made(c)' = Made(c)
        BY <1>7 DEF Calls
      <3> QED
        BY <1>4, <3>1 DEF Called
    <2>2. \A c \in Forks : /\ \A r, p \in ForkOf(c)' : r = p
                           /\ \A p \in ForkOf(c)' : ~rows'[p].pending => kicked[p] > 0
      BY <1>3, <1>8 DEF Called, Calls, ForkOf
    <2>3. \A c \in Forks : \A p \in Made(c)' : rows'[p].state = "deleted" => kicked[p] = 0
      BY <1>2, <1>3, <1>6, <1>7 DEF Called, Calls, Made
    <2>4. \A c \in answered : \E p \in Made(c)' : kicked[p] > 0
      <3>1. answered \subseteq Calls
        BY DEF TypeOK
      <3> QED
        BY <1>7, <3>1 DEF Called
    <2>5. \A p \in Sessions : rows'[p] = None => kicked[p] = 0
      BY <1>6 DEF Called
    <2> QED
      BY <2>1, <2>2, <2>3, <2>4, <2>5 DEF Called
  <1> QED
    BY <1>2, <1>3, <1>5, <1>6, <1>9

LEMMA DeletingKeeps ==
    ASSUME LaunchInv, NEW t \in Tasks, NEW j, Continues(t, j), lock' = lock,
           \/ job[t].pc = "restore" /\ j.pc = "discard"
           \/ job[t].pc = "erase" /\ j.pc = "clean",
           j.before = job[t].before,
           Deleted(job[t].session, "deleted"), faults' \in 0..MaxFaults,
           selected' \in {selected, None}, selected' # job[t].session \/ selected' = None,
           UNCHANGED <<trees, branches, live, lingering, kicked, answered, left>>
    PROVE  LaunchInv'
  <1>1. Holds(t)
    BY DEF Holds, Waiting
  <1>2. /\ job[t] \in Job /\ JobShape(t) /\ JobSession(t) /\ JobWorkspace(t) /\ TypeOK /\ Called
        /\ Selecting /\ Owned /\ Housing
    BY <1>1, HolderKnown
  <1>3. PICK s \in Sessions : s = job[t].session
    BY <1>1, <1>2 DEF JobShape, Job, Standing
  <1>30. /\ Present(s) /\ rows[s].name = job[t].name /\ rows[s].call = job[t].call
         /\ job[t].name \in Names \cup {None} /\ s \notin live /\ s # None
    BY <1>1, <1>2, <1>3 DEF JobShape, JobSession, Job, Standing, Still
  <1>31. (job[t].forks => kicked[s] = 0) /\ (rows[s].call \in Forks => kicked[s] = 0)
    BY <1>1, <1>2, <1>3, <1>30, LaunchesAssumption DEF JobShape, JobSession, Unsent, Calls
  <1>4. /\ Called' /\ rows' \in [Sessions -> Row \cup {None}]
        /\ ledger' \in [Creates -> Entry \cup {None}]
        /\ rows'[s] # None /\ ~Present(s)'
        /\ rows'[s].name = rows[s].name /\ rows'[s].call = rows[s].call
        /\ \A p \in Sessions \ {s} : rows'[p] = rows[p]
    <2>1. Deleted(s, "deleted") /\ UNCHANGED <<kicked, answered>>
      BY <1>3, <1>30, <1>31
    <2> QED
      BY <1>2, <1>30, <1>31, <2>1, DeletedKeeps
  <1>5. /\ Locked' /\ job' \in [Tasks -> Job] /\ job'[t] = j
        /\ \A q \in Tasks \ {t} : JobInv(q)' /\ job'[q] = job[q] /\ job'[q].name = None
    <2>1. j \in Job /\ j.pc \notin Waiting /\ job' = [job EXCEPT ![t] = j] /\ lock' = lock
      BY DEF Continues
    <2> QED
      BY <1>1, <2>1, GoesOn
  <1>6. \A p \in Sessions : Present(p)' <=> Present(p) /\ p # s
    BY <1>4 DEF Present
  <1>7. TypeOK'
    BY <1>2, <1>4, <1>5 DEF TypeOK
  <1>8. Selecting'
    BY <1>2, <1>3, <1>6 DEF Selecting, TypeOK
  <1>9. Owned'
    <2> SUFFICES ASSUME NEW n \in Names \ left
                 PROVE  /\ \A p \in Sessions : Present(p)' /\ rows'[p].name = n => trees[n] # "none"
                        /\ \A r, p \in Sessions : Present(r)' /\ Present(p)' /\ rows'[r].name = n
                                                  /\ rows'[p].name = n => r = p
                        /\ ~Free(n) => \/ \E p \in Sessions : Present(p)' /\ rows'[p].name = n
                                       \/ \E q \in Tasks : job'[q].name = n
      BY DEF Owned, Free
    <2>1. \A p \in Sessions : Present(p)' /\ rows'[p].name = n <=> Present(p) /\ rows[p].name = n /\ p # s
      BY <1>4, <1>6
    <2>2. \A q \in Tasks : job'[q].name = job[q].name
      BY <1>5 DEF Continues
    <2>3. rows[s].name = n => job'[t].name = n
      BY <1>3, <1>30, <1>31, <2>2
    <2> QED
      BY <1>2, <1>3, <1>30, <1>31, <2>1, <2>2, <2>3 DEF Owned
  <1>10. Housing'
    <2>1. \A p \in live : Present(p)'
      BY <1>2, <1>3, <1>30, <1>31, <1>6 DEF Housing, TypeOK
    <2>2. \A q \in Tasks : job'[q].name = None \/ (job'[q].name = job[q].name /\ job'[q].session = job[q].session)
      BY <1>5 DEF Continues
    <2>3. \A p \in lingering : rows'[p] # None /\ rows'[p].name = rows[p].name
      BY <1>2, <1>4 DEF Housing, TypeOK
    <2> QED
      BY <1>2, <2>1, <2>2, <2>3 DEF Housing
  <1>11. JobShape(t)'
    BY <1>1, <1>2, <1>5 DEF JobShape, Continues, Waiting, Standing
  <1>12. JobSession(t)'
    BY <1>1, <1>2, <1>3, <1>30, <1>31, <1>4, <1>5, <1>6 DEF JobSession, Continues, Standing, Unsent, Still
  <1>13. JobWorkspace(t)'
    <2>1. \A n \in Names : Disputed(n) => Disputed(n)'
      <3> SUFFICES ASSUME NEW n \in Names, NEW p \in Sessions, NEW q \in Tasks, Present(p),
                          rows[p].name = n, job[q].name = n, job[q].session # p
                   PROVE  Disputed(n)'
        BY DEF Disputed
      <3>1. q = t
        BY <1>1, HolderKnown, LaunchesAssumption
      <3>2. p # s /\ Present(p)' /\ rows'[p].name = n
        BY <1>3, <1>4, <1>6, <3>1
      <3>3. job'[t].name = n /\ job'[t].session # p
        BY <1>5, <3>1 DEF Continues
      <3> QED
        BY <3>2, <3>3 DEF Disputed
    <2>2. /\ \A b \in Sessions : b = job[t].before /\ b \notin {None, "unchanged"} => Present(b)' /\ b # s
          /\ job[t].before \in Sessions \cup {None, "unchanged"}
      BY <1>2, <1>3, <1>6 DEF JobWorkspace, Job
    <2>3. \A n \in Names : n \notin left /\ n = job[t].name
             => \A p \in Sessions : ~(Present(p)' /\ rows'[p].name = n)
      BY <1>2, <1>3, <1>4, <1>6, LaunchesAssumption DEF JobWorkspace
    <2>4. /\ job'[t].name = job[t].name /\ job'[t].session = s /\ job'[t].before = job[t].before
          /\ job'[t].forks = job[t].forks /\ job'[t].pc = j.pc /\ j.pc \in {"discard", "clean"}
          /\ job[t].pc \in Standing /\ (j.pc = "discard" => job[t].pc = "restore")
      BY <1>3, <1>5 DEF Continues, Standing
    <2>5. ASSUME job[t].name # None
          PROVE  /\ trees[job[t].name] # "none" /\ branches[job[t].name] # "none"
                 /\ job[t].forks /\ j.pc = "discard" /\ trees[job[t].name] = "dirty"
                      => Disputed(job[t].name)'
      BY <1>2, <1>30, <2>1, <2>4, <2>5 DEF JobWorkspace, Housed
    <2>6. ASSUME job[t].name # None, job[t].name \notin left, NEW p \in Sessions, Present(p)',
                 rows'[p].name = job[t].name
          PROVE  p = s
      BY <1>30, <2>3, <2>6
    <2> QED
      BY <1>30, <2>2, <2>4, <2>5, <2>6 DEF JobWorkspace
  <1> QED
    BY <1>4, <1>5, <1>7, <1>8, <1>9, <1>10, <1>11, <1>12, <1>13 DEF LaunchInv, JobInv

LEMMA EraseKeeps ==
    ASSUME LaunchInv, NEW t \in Tasks, Erase(t)
    PROVE  LaunchInv'
  <1> DEFINE j == [job[t] EXCEPT !.pc = "clean"]
             s == job[t].session
  <1>1. /\ job[t].pc = "erase" /\ Holds(t) /\ lock' = lock /\ Goto(t, "clean")
        /\ UNCHANGED <<trees, branches, live, lingering, kicked, answered>>
        /\ selected' = Deselected(s)
    BY DEF Erase, At, Holds, Waiting
  <1>2. /\ job[t] \in Job /\ JobShape(t) /\ JobSession(t) /\ JobWorkspace(t) /\ TypeOK /\ Called
        /\ Selecting
    BY <1>1, HolderKnown
  <1>3. Continues(t, j) /\ j.pc = "clean" /\ j.before = job[t].before
    BY <1>1, <1>2, GotoContinues DEF Pc, Waiting
  <1>4. selected' \in {selected, None} /\ (selected' # s \/ selected' = None)
    BY <1>1 DEF Deselected
  <1> HIDE DEF j
  <1>5. CASE Deleted(s, "deleted") /\ UNCHANGED <<left, faults>>
    BY <1>1, <1>2, <1>3, <1>4, <1>5, DeletingKeeps DEF TypeOK
  <1>6. CASE Fault /\ Reported(t) /\ UNCHANGED <<rows, ledger>>
    <2>1. job'[t] = j
      BY <1>1, <1>3, HolderKnown DEF Continues
    <2>2. left' = left \cup ({job[t].name} \cap Names) /\ job[t].name \in Names \cup {None}
      BY <1>2, <1>6 DEF Reported, Job
    <2>3. JobShape(t)'
      BY <1>1, <1>2, <1>3, <2>1 DEF JobShape, Continues, Waiting, Standing
    <2>4. JobSession(t)'
      BY <1>1, <1>2, <1>3, <1>6, <2>1, <2>2
         DEF JobShape, JobSession, Continues, Present, Standing, Unsent, Still
    <2>5. JobWorkspace(t)'
      BY <1>1, <1>2, <1>3, <1>6, <2>1, <2>2
         DEF JobShape, JobWorkspace, Continues, Present, ForkOf, Housed, Standing
    <2>6. Called' /\ Selecting' /\ selected' \in Sessions \cup {None}
      BY <1>1, <1>2, <1>4, <1>6 DEF Called, Selecting, Made, ForkOf, Present, TypeOK
    <2>7. faults' \in 0..MaxFaults /\ left' \subseteq Names
      BY <1>2, <1>6, <2>2, FaultTyped DEF TypeOK
    <2> QED
      BY <1>1, <1>2, <1>3, <1>6, <2>2, <2>3, <2>4, <2>5, <2>6, <2>7, StepKeeps DEF TypeOK
  <1> QED
    BY <1>5, <1>6 DEF Erase

LEMMA CleanKeeps ==
    ASSUME LaunchInv, NEW t \in Tasks, Clean(t)
    PROVE  LaunchInv'
  <1> DEFINE n == job[t].name
             s == job[t].session
  <1>1. /\ job[t].pc = "clean" /\ Holds(t) /\ lock' = lock
        /\ UNCHANGED <<rows, ledger, selected, branches, live, kicked, answered>>
    BY DEF Clean, At, Holds, Waiting
  <1>2. /\ job[t] \in Job /\ JobShape(t) /\ JobSession(t) /\ JobWorkspace(t) /\ TypeOK /\ Called
        /\ Selecting /\ Owned /\ Housing
    BY <1>1, HolderKnown
  <1>3. n \in Names \cup {None} /\ s \in Sessions \cup {None}
    BY <1>2 DEF Job
  <1>4. Called' /\ Selecting'
    BY <1>1, <1>2 DEF Called, Selecting, Made, ForkOf, Present
  <1>5. CASE /\ n = None \/ (left' = left \cup {n} /\ n \in Names)
             /\ Goto(t, "reselect") /\ UNCHANGED <<trees, lingering>> /\ left \subseteq left'
             /\ left' \subseteq Names /\ faults' \in 0..MaxFaults
    <2> DEFINE j == [job[t] EXCEPT !.pc = "reselect"]
    <2>1. Continues(t, j) /\ j.pc = "reselect" /\ j.before = job[t].before
      BY <1>1, <1>2, <1>5, GotoContinues DEF Pc, Waiting
    <2> HIDE DEF j
    <2>2. job'[t] = j
      BY <1>1, <2>1, HolderKnown DEF Continues
    <2>3. JobShape(t)'
      BY <1>1, <1>2, <2>1, <2>2 DEF JobShape, Continues, Waiting, Standing
    <2>4. JobSession(t)'
      BY <1>1, <1>2, <1>5, <2>1, <2>2
         DEF JobShape, JobSession, Continues, Present, Standing, Unsent, Still
    <2>5. JobWorkspace(t)'
      BY <1>1, <1>2, <1>5, <2>1, <2>2
         DEF JobShape, JobWorkspace, Continues, Present, ForkOf, Housed, Standing
    <2> QED
      BY <1>1, <1>2, <1>4, <1>5, <2>1, <2>3, <2>4, <2>5, StepKeeps DEF TypeOK
  <1>6. CASE /\ n # None /\ Removable(n) /\ trees' = [trees EXCEPT ![n] = "none"]
             /\ lingering' = lingering \ {s} /\ Goto(t, "branch") /\ UNCHANGED <<left, faults>>
    <2> DEFINE j == [job[t] EXCEPT !.pc = "branch"]
    <2>1. Continues(t, j) /\ j.pc = "branch" /\ j.before = job[t].before
      BY <1>1, <1>2, <1>6, GotoContinues DEF Pc, Waiting
    <2> HIDE DEF j
    <2>2. /\ Locked' /\ job' \in [Tasks -> Job] /\ job'[t] = j
          /\ \A q \in Tasks \ {t} : JobInv(q)' /\ job'[q] = job[q] /\ job'[q].name = None
      BY <1>1, <2>1, GoesOn DEF Continues
    <2>3. /\ n \in Names /\ trees' \in [Names -> {"none", "clean", "copied", "dirty"}]
          /\ trees'[n] = "none" /\ \A m \in Names \ {n} : trees'[m] = trees[m]
      BY <1>2, <1>3, <1>6 DEF TypeOK
    <2>4. n \notin left => \A p \in Sessions : ~(Present(p) /\ rows[p].name = n)
      BY <1>1, <1>2, <1>6, LaunchesAssumption DEF JobWorkspace, JobSession
    <2>5. TypeOK'
      BY <1>1, <1>2, <1>6, <2>2, <2>3 DEF TypeOK
    <2>6. Owned'
      <3> SUFFICES ASSUME NEW m \in Names \ left
                   PROVE  /\ \A p \in Sessions : Present(p) /\ rows[p].name = m => trees'[m] # "none"
                          /\ \A r, p \in Sessions : Present(r) /\ Present(p) /\ rows[r].name = m
                                                    /\ rows[p].name = m => r = p
                          /\ ~Free(m)' => \/ \E p \in Sessions : Present(p) /\ rows[p].name = m
                                          \/ \E q \in Tasks : job'[q].name = m
        BY <1>1, <1>6 DEF Owned, Present
      <3>1. job'[t].name = n /\ \A q \in Tasks : job'[q].name = job[q].name
        BY <2>1, <2>2 DEF Continues
      <3>2. CASE m = n
        BY <2>4, <3>1, <3>2
      <3>3. CASE m # n
        BY <1>1, <1>2, <2>3, <3>1, <3>3 DEF Owned, Free
      <3> QED
        BY <3>2, <3>3
    <2>7. Housing'
      <3>1. \A p \in live' : Present(p)'
        BY <1>1, <1>2 DEF Housing, Present
      <3>2. ASSUME NEW p \in lingering', rows'[p].name # None
            PROVE  /\ trees'[rows'[p].name] # "none"
                   /\ \A q \in Tasks : job'[q].name = rows'[p].name => job'[q].session = p
        <4>1. p \in Sessions /\ p \in lingering /\ p # s /\ rows'[p].name = rows[p].name /\ rows[p].name \in Names
          <5>1. p \in Sessions /\ p \in lingering /\ p # s /\ rows[p] # None
            BY <1>2, <1>6 DEF TypeOK, Housing
          <5> QED
            BY <1>1, <1>2, <3>2, <5>1 DEF TypeOK, Row
        <4>2. rows[p].name # n
          BY <1>2, <1>6, <4>1 DEF Housing
        <4> QED
          BY <1>1, <1>2, <2>1, <2>2, <2>3, <4>1, <4>2, <3>2 DEF Housing, Continues
      <3>3. \A p \in lingering' : rows'[p] # None
        BY <1>1, <1>2, <1>6 DEF Housing
      <3> QED
        BY <3>1, <3>2, <3>3 DEF Housing
    <2>8. JobShape(t)'
      BY <1>1, <1>2, <1>6, <2>1, <2>2 DEF JobShape, Continues, Waiting, Standing
    <2>9. JobSession(t)'
      BY <1>1, <1>2, <1>6, <2>1, <2>2
         DEF JobShape, JobSession, Continues, Present, Standing, Unsent, Still
    <2>10. JobWorkspace(t)'
      BY <1>1, <1>2, <1>6, <2>1, <2>2, <2>3
         DEF JobShape, JobWorkspace, Continues, Present, ForkOf, Housed, Standing
    <2> QED
      BY <1>4, <2>2, <2>5, <2>6, <2>7, <2>8, <2>9, <2>10 DEF LaunchInv, JobInv
  <1>7. CASE n = None /\ Goto(t, "reselect") /\ UNCHANGED <<trees, lingering, left, faults>>
    BY <1>2, <1>5, <1>7 DEF TypeOK
  <1>8. CASE /\ n # None /\ Goto(t, "reselect") /\ UNCHANGED <<trees, lingering>>
             /\ Fault \/ UNCHANGED faults
             /\ Reported(t)
    BY <1>2, <1>3, <1>5, <1>8, FaultTyped DEF TypeOK, Reported
  <1> QED
    BY <1>6, <1>7, <1>8 DEF Clean

LEMMA BranchKeeps ==
    ASSUME LaunchInv, NEW t \in Tasks, Branch(t)
    PROVE  LaunchInv'
  <1> DEFINE n == job[t].name
             j == [job[t] EXCEPT !.pc = "reselect"]
  <1>1. /\ job[t].pc = "branch" /\ Holds(t) /\ lock' = lock /\ Goto(t, "reselect")
        /\ UNCHANGED <<rows, ledger, selected, trees, live, lingering, kicked, answered>>
    BY DEF Branch, At, Holds, Waiting
  <1>2. /\ job[t] \in Job /\ JobShape(t) /\ JobSession(t) /\ JobWorkspace(t) /\ TypeOK /\ Called
        /\ Selecting /\ Owned /\ Housing
    BY <1>1, HolderKnown
  <1>3. n \in Names
    BY <1>1, <1>2 DEF Job, JobShape
  <1>4. Called' /\ Selecting'
    BY <1>1, <1>2 DEF Called, Selecting, Made, ForkOf, Present
  <1>5. Continues(t, j) /\ j.pc = "reselect" /\ j.before = job[t].before
    BY <1>1, <1>2, GotoContinues DEF Pc, Waiting
  <1> HIDE DEF j
  <1>6. /\ Locked' /\ job' \in [Tasks -> Job] /\ job'[t] = j
        /\ \A q \in Tasks \ {t} : JobInv(q)' /\ job'[q] = job[q] /\ job'[q].name = None
    BY <1>1, <1>5, GoesOn DEF Continues
  <1>7. JobShape(t)'
    BY <1>1, <1>2, <1>5, <1>6 DEF JobShape, Continues, Waiting, Standing
  <1>8. left' \in {left, left \cup {n}}
    BY <1>3 DEF Branch, Reported
  <1>9. JobSession(t)'
    BY <1>1, <1>2, <1>5, <1>6, <1>8
       DEF JobShape, JobSession, Continues, Present, Standing, Unsent, Still
  <1>10. CASE Reported(t) /\ UNCHANGED branches
    <2>1. left' = left \cup {n}
      BY <1>3, <1>10 DEF Reported
    <2>2. JobWorkspace(t)'
      BY <1>1, <1>2, <1>3, <1>5, <1>6, <1>10, <2>1
         DEF JobShape, JobWorkspace, Continues, Present, ForkOf, Housed, Standing
    <2>3. faults' \in 0..MaxFaults
      BY <1>2, FaultTyped DEF TypeOK, Branch
    <2> QED
      BY <1>1, <1>2, <1>3, <1>4, <1>5, <1>7, <1>9, <1>10, <2>1, <2>2, <2>3, StepKeeps DEF TypeOK
  <1>11. CASE Deletable(n) /\ branches' = [branches EXCEPT ![n] = "none"] /\ UNCHANGED <<left, faults>>
    <2>1. /\ branches' \in [Names -> {"none", "merged", "ahead"}] /\ trees[n] = "none"
          /\ branches'[n] = "none" /\ \A m \in Names \ {n} : branches'[m] = branches[m]
      BY <1>2, <1>3, <1>11 DEF TypeOK, Deletable
    <2>2. TypeOK'
      BY <1>1, <1>2, <1>6, <1>11, <2>1 DEF TypeOK
    <2>3. Free(n)' /\ (n \notin left => \A p \in Sessions : ~(Present(p) /\ rows[p].name = n))
      <3>1. n \notin left => \A p \in Sessions : ~(Present(p) /\ rows[p].name = n)
        BY <1>1, <1>2, <1>3, LaunchesAssumption DEF JobWorkspace, JobSession
      <3>2. Free(job[t].name)'
        BY <1>1, <1>3, <1>5, <1>6, <2>1 DEF Free, Continues
      <3> QED
        BY <3>1, <3>2
    <2>4. Owned'
      <3> SUFFICES ASSUME NEW m \in Names \ left
                   PROVE  /\ \A p \in Sessions : Present(p) /\ rows[p].name = m => trees[m] # "none"
                          /\ \A r, p \in Sessions : Present(r) /\ Present(p) /\ rows[r].name = m
                                                    /\ rows[p].name = m => r = p
                          /\ ~Free(m)' => \/ \E p \in Sessions : Present(p) /\ rows[p].name = m
                                          \/ \E q \in Tasks : job'[q].name = m
        BY <1>1, <1>11 DEF Owned, Present
      <3>1. job'[t].name = n /\ \A q \in Tasks : job'[q].name = job[q].name
        BY <1>5, <1>6 DEF Continues
      <3>2. CASE m = n
        BY <2>3, <3>1, <3>2
      <3>3. CASE m # n
        BY <1>1, <1>2, <2>1, <3>1, <3>3 DEF Owned, Free
      <3> QED
        BY <3>2, <3>3
    <2>5. Housing'
      BY <1>1, <1>2, <1>5, <1>6, HousingFrame DEF Continues
    <2>6. JobWorkspace(t)'
      <3>1. job'[t].name = n /\ job'[t].pc = "reselect" /\ job'[t].before = job[t].before
            /\ job'[t].session = job[t].session
        BY <1>5, <1>6 DEF Continues
      <3>2. job[t].before \notin {None, "unchanged"} =>
             /\ rows[job[t].before] # None /\ rows[job[t].before].state = "present"
             /\ job[t].before # job[t].session
        BY <1>1, <1>2 DEF JobWorkspace, Present
      <3>3. n \notin left => trees'[n] = "none" /\ branches'[n] = "none"
        BY <1>1, <2>1
      <3> QED
        BY <1>1, <2>3, <3>1, <3>2, <3>3, <1>11 DEF JobWorkspace, Housed, Standing, Present, Free
    <2> QED
      BY <1>4, <1>6, <1>7, <1>9, <2>2, <2>4, <2>5, <2>6 DEF LaunchInv, JobInv
  <1> QED
    BY <1>10, <1>11 DEF Branch

LEMMA RestoreForkKeeps ==
    ASSUME LaunchInv, NEW t \in Tasks, RestoreFork(t)
    PROVE  LaunchInv'
  <1>1. /\ job[t].pc = "restore" /\ Holds(t) /\ lock' = lock
        /\ UNCHANGED <<selected, trees, branches, lingering, kicked, answered>>
    BY DEF RestoreFork, At, Holds, Waiting
  <1>2. /\ job[t] \in Job /\ JobShape(t) /\ JobSession(t) /\ JobWorkspace(t) /\ TypeOK /\ Called
        /\ Selecting /\ Owned /\ Housing
    BY <1>1, HolderKnown
  <1>3. PICK s \in Sessions : s = job[t].session
    BY <1>1, <1>2 DEF JobShape, Job, Standing
  <1>4. /\ Present(s) /\ s # None /\ kicked[s] = 0 /\ selected # s /\ job[t].forks
        /\ job[t].name \in Names
    BY <1>1, <1>2, <1>3, LaunchesAssumption DEF JobShape, JobSession, Job, Standing, Unsent, Waiting
  <1>5. CASE /\ live' = live \cup {s} /\ Goto(t, IF job[t].call # None THEN "kick" ELSE "finish")
             /\ UNCHANGED <<rows, ledger, left, faults>>
    <2>1. PICK j : /\ Continues(t, j) /\ j.before = job[t].before
                   /\ j.pc = IF job[t].call # None THEN "kick" ELSE "finish"
      <3>1. CASE job[t].call # None
        <4> DEFINE j == [job[t] EXCEPT !.pc = "kick"]
        <4>1. Goto(t, "kick") /\ "kick" \in Pc \ Waiting
          BY <1>5, <3>1 DEF Pc, Waiting
        <4>2. Continues(t, j) /\ j.pc = "kick" /\ j.before = job[t].before
          BY <1>1, <1>2, <4>1, GotoContinues
        <4> HIDE DEF j
        <4> QED
          BY <3>1, <4>2
      <3>2. CASE job[t].call = None
        <4> DEFINE j == [job[t] EXCEPT !.pc = "finish"]
        <4>1. Goto(t, "finish") /\ "finish" \in Pc \ Waiting
          BY <1>5, <3>2 DEF Pc, Waiting
        <4>2. Continues(t, j) /\ j.pc = "finish" /\ j.before = job[t].before
          BY <1>1, <1>2, <4>1, GotoContinues
        <4> HIDE DEF j
        <4> QED
          BY <3>2, <4>2
      <3> QED
        BY <3>1, <3>2
    <2>2. /\ Locked' /\ job' \in [Tasks -> Job] /\ job'[t] = j
          /\ \A q \in Tasks \ {t} : JobInv(q)' /\ job'[q] = job[q] /\ job'[q].name = None
      BY <1>1, <2>1, GoesOn DEF Continues
    <2>3. TypeOK'
      BY <1>1, <1>2, <1>5, <2>2 DEF TypeOK
    <2>4. Called' /\ Selecting'
      BY <1>1, <1>2, <1>5 DEF Called, Selecting, Made, ForkOf, Present
    <2>5. Owned'
      BY <1>1, <1>2, <1>5, <2>1, <2>2, OwnedFrame DEF Continues
    <2>6. Housing'
      BY <1>1, <1>2, <1>4, <1>5, <2>1, <2>2 DEF Housing, Continues, Present
    <2>7. JobShape(t)'
      BY <1>1, <1>2, <2>1, <2>2 DEF JobShape, Continues, Waiting, Standing
    <2>8. JobSession(t)'
      BY <1>1, <1>2, <1>5, <2>1, <2>2
         DEF JobShape, JobSession, Continues, Present, Standing, Unsent, Still
    <2>9. JobWorkspace(t)'
      BY <1>1, <1>2, <1>5, <2>1, <2>2
         DEF JobShape, JobWorkspace, Continues, Present, ForkOf, Housed, Standing
    <2> QED
      BY <2>2, <2>3, <2>4, <2>5, <2>6, <2>7, <2>8, <2>9 DEF LaunchInv, JobInv
  <1>6. CASE Fault /\ Goto(t, "discard") /\ UNCHANGED live /\ Deleted(job[t].session, "deleted") /\ UNCHANGED left
    <2>1. PICK j : Continues(t, j) /\ j.before = job[t].before /\ j.pc = "discard"
      BY <1>1, <1>2, <1>6, GotoContinues DEF Pc, Waiting
    <2>2. selected' \in {selected, None} /\ (selected' # job[t].session \/ selected' = None)
      BY <1>1, <1>3, <1>4
    <2> QED
      BY <1>1, <1>2, <1>6, <2>1, <2>2, DeletingKeeps, FaultTyped
  <1>7. CASE /\ Fault /\ Goto(t, "discard") /\ UNCHANGED <<live, rows, ledger>>
             /\ left' = left \cup {job[t].name}
    <2>1. PICK j : Continues(t, j) /\ j.before = job[t].before /\ j.pc = "discard"
      BY <1>1, <1>2, <1>7, GotoContinues DEF Pc, Waiting
    <2>2. job'[t] = j
      BY <1>1, <2>1, HolderKnown DEF Continues
    <2>3. JobShape(t)'
      BY <1>1, <1>2, <2>1, <2>2 DEF JobShape, Continues, Waiting, Standing
    <2>4. JobSession(t)'
      BY <1>1, <1>2, <1>7, <2>1, <2>2
         DEF JobShape, JobSession, Continues, Present, Standing, Unsent, Still
    <2>5. \A n \in Names : Disputed(n)' <=> Disputed(n)
      BY <1>1, <1>7, <2>1, DisputedFrame
    <2>6. JobWorkspace(t)'
      BY <1>1, <1>2, <1>4, <1>7, <2>1, <2>2, <2>5
         DEF JobShape, JobWorkspace, Continues, Present, ForkOf, Housed, Standing
    <2>7. Called' /\ Selecting' /\ left' \subseteq Names /\ faults' \in 0..MaxFaults
      BY <1>1, <1>2, <1>4, <1>7, FaultTyped DEF Called, Selecting, Made, ForkOf, Present, TypeOK
    <2> QED
      BY <1>1, <1>2, <1>7, <2>1, <2>3, <2>4, <2>6, <2>7, StepKeeps DEF TypeOK
  <1> QED
    BY <1>3, <1>5, <1>6, <1>7 DEF RestoreFork

-----------------------------------------------------------------------------
(* What is asked for, and what is made.                                    *)

\* No job is under way: there is nothing to know of any.
LEMMA AllWaitFine ==
    ASSUME lock = None, LaunchInv, job' \in [Tasks -> Job], lock' = None,
           \A q \in Tasks : job'[q] = job[q] \/ job'[q] = Idle
    PROVE  Locked' /\ \A q \in Tasks : JobInv(q)' /\ job'[q].name = None
  <1> SUFFICES ASSUME NEW q \in Tasks
               PROVE  ~Holds(q)' /\ JobInv(q)' /\ job'[q].name = None
    BY LaunchesAssumption DEF Locked
  <1>1. ~Holds(q) /\ JobShape(q)
    BY LaunchesAssumption DEF LaunchInv, Locked, JobInv
  <1>2. /\ job'[q].pc \in Waiting /\ job'[q].session = None /\ job'[q].name = None
        /\ job'[q].before = "unchanged"
        /\ job'[q].call # None => (job'[q].forks <=> job'[q].call \in Forks)
    BY <1>1, IdleIsWaiting DEF JobShape, Holds
  <1> QED
    BY <1>2 DEF JobInv, JobShape, JobSession, JobWorkspace, Waiting, Standing, Holds

LEMMA AcquireKeeps ==
    ASSUME LaunchInv, NEW t \in Tasks, Acquire(t)
    PROVE  LaunchInv'
  <1>1. /\ job[t].pc = "lock" /\ lock = None
        /\ UNCHANGED <<rows, ledger, selected, trees, branches, lingering, kicked, left, faults>>
    BY DEF Acquire, At, durableVars
  <1>2. /\ TypeOK /\ Locked /\ Owned /\ Housing /\ Called /\ Selecting /\ JobShape(t)
        /\ job[t] \in Job
    BY DEF LaunchInv, JobInv, TypeOK
  <1>3. /\ job[t].session = None /\ job[t].name = None /\ job[t].before = "unchanged"
        /\ \A q \in Tasks : job[q].name = None /\ ~Holds(q)
    <2>1. \A q \in Tasks : ~Holds(q) /\ JobShape(q)
      BY <1>1, LaunchesAssumption DEF LaunchInv, JobInv, Locked
    <2> QED
      BY <2>1 DEF JobShape, Holds
  <1>4. Selecting'
    BY <1>1, <1>2 DEF Selecting, Present
  <1>5. CASE /\ job' = [job EXCEPT ![t] = Idle] /\ UNCHANGED lock
             /\ \E s \in ForkOf(job[t].call) :
                  IF rows[s].pending THEN UNCHANGED <<live, answered>>
                  ELSE live' = live \cup {s} /\ answered' = answered \cup {job[t].call}
             /\ job[t].call # None /\ job[t].forks
    <2>1. /\ job' \in [Tasks -> Job] /\ lock' = None
          /\ \A q \in Tasks : job'[q] = job[q] \/ job'[q] = Idle
      BY <1>1, <1>2, <1>5, IdleIsWaiting DEF TypeOK
    <2>2. Locked' /\ \A q \in Tasks : JobInv(q)' /\ job'[q].name = None
      BY <1>1, <2>1, AllWaitFine
    <2>3. PICK s \in ForkOf(job[t].call) :
                  IF rows[s].pending THEN UNCHANGED <<live, answered>>
                  ELSE live' = live \cup {s} /\ answered' = answered \cup {job[t].call}
      BY <1>5
    <2>4. /\ s \in Sessions /\ Present(s) /\ job[t].call \in Forks /\ job[t].call \in Calls
          /\ s \in Made(job[t].call)
      BY <1>2, <1>5, <2>3 DEF ForkOf, Made, JobShape, Present, Calls
    <2>5. rows[s].pending \/ kicked[s] > 0
      BY <1>2, <2>3, <2>4 DEF Called
    <2>6. TypeOK'
      BY <1>1, <1>2, <2>1, <2>3, <2>4 DEF TypeOK
    <2>7. Called'
      <3>1. \A c \in answered' : c \in answered \/ (c = job[t].call /\ kicked[s] > 0)
        BY <2>3, <2>5
      <3>2. \A c \in answered' : \E p \in Made(c) : kicked[p] > 0
        BY <1>2, <2>4, <3>1 DEF Called
      <3> QED
        BY <1>1, <1>2, <3>2 DEF Called, Made, ForkOf, Present
    <2>8. Owned'
      BY <1>1, <1>2, <1>3, LaunchesAssumption, OwnedFrame
    <2>9. Housing'
      <3>1. \A p \in live' : Present(p)'
        BY <1>1, <1>2, <2>3, <2>4 DEF Housing, Present
      <3> QED
        BY <1>1, <1>2, <2>2, <3>1 DEF Housing
    <2> QED
      BY <1>4, <2>2, <2>6, <2>7, <2>8, <2>9 DEF LaunchInv
  <1>6. CASE /\ lock' = t
             /\ job' = [job EXCEPT ![t].pc = "worktree",
                         ![t].before = IF t = Service /\ ~job[t].forks THEN selected ELSE @]
             /\ UNCHANGED <<live, answered>>
             /\ ~(job[t].forks /\ job[t].call # None /\ ForkOf(job[t].call) # {})
    <2> DEFINE j == [job[t] EXCEPT !.pc = "worktree",
                         !.before = IF t = Service /\ ~job[t].forks THEN selected ELSE @]
    <2>1. /\ j \in Job /\ j.pc = "worktree" /\ j.session = None /\ j.name = None
          /\ j.forks = job[t].forks /\ j.call = job[t].call /\ j.before \in {selected, "unchanged"}
          /\ (t # Service => j.before = "unchanged")
      BY <1>2, <1>3 DEF Job, Pc, TypeOK
    <2>2. job' = [job EXCEPT ![t] = j]
      BY <1>2, <1>6 DEF TypeOK
    <2> HIDE DEF j
    <2>3. /\ job' \in [Tasks -> Job] /\ job'[t] = j /\ \A q \in Tasks \ {t} : job'[q] = job[q]
      BY <1>2, <2>1, <2>2 DEF TypeOK
    <2>4. TypeOK' /\ Called'
      BY <1>1, <1>2, <1>6, <2>3 DEF TypeOK, Called, Made, ForkOf, Present
    <2>5. Locked'
      BY <1>3, <1>6, <2>1, <2>3 DEF Locked, Holds, Waiting
    <2>6. Owned'
      BY <1>1, <1>2, <1>3, LaunchesAssumption, OwnedFrame
    <2>7. Housing'
      <3>1. \A q \in Tasks : job'[q].name = None
        BY <1>3, <2>1, <2>3
      <3> QED
        BY <1>1, <1>2, <1>6, <3>1, HousingFrame
    <2>8. ASSUME NEW q \in Tasks \ {t}
          PROVE  JobInv(q)'
      <3>1. ~Holds(q) /\ JobShape(q)
        BY <1>3 DEF LaunchInv, JobInv
      <3> QED
        BY <2>3, <3>1 DEF JobInv, JobShape, JobSession, JobWorkspace, Waiting, Standing, Holds
    <2>9. JobShape(t)' /\ JobSession(t)'
      BY <1>2, <2>1, <2>3 DEF JobShape, JobSession, Standing, Waiting
    <2>10. JobWorkspace(t)'
      <3>1. job[t].call \in Forks => ForkOf(job[t].call) = {}
        BY <1>2, <1>6, LaunchesAssumption DEF JobShape, Calls
      <3>2. selected # None => selected \in Sessions
        BY <1>2 DEF TypeOK
      <3> QED
        BY <1>1, <1>2, <1>4, <2>1, <2>3, <3>1, <3>2, LaunchesAssumption
           DEF JobWorkspace, ForkOf, Present, Selecting
    <2> QED
      BY <1>4, <2>4, <2>5, <2>6, <2>7, <2>8, <2>9, <2>10 DEF LaunchInv, JobInv
  <1> QED
    BY <1>5, <1>6 DEF Acquire

\* The asks: a job waits for the lock, and the job of the other task may be under way.
LEMMA AskKeeps ==
    ASSUME LaunchInv, NEW t \in Tasks, NEW forks \in BOOLEAN, NEW call \in Calls \cup {None},
           call # None => (forks <=> call \in Forks), Ask(t, forks, call), UNCHANGED answered
    PROVE  LaunchInv'
  <1> DEFINE j == [Idle EXCEPT !.pc = "lock", !.forks = forks, !.call = call]
  <1>1. /\ job[t].pc = "idle" /\ job' = [job EXCEPT ![t] = j]
        /\ UNCHANGED <<rows, ledger, selected, trees, branches, live, lingering, lock, kicked,
                       left, faults, answered>>
    BY DEF Ask, At, durableVars
  <1>2. /\ TypeOK /\ Locked /\ Owned /\ Housing /\ Called /\ Selecting /\ JobShape(t)
    BY DEF LaunchInv, JobInv
  <1>3. /\ j \in Job /\ j.pc = "lock" /\ j.session = None /\ j.name = None /\ j.before = "unchanged"
        /\ j.forks = forks /\ j.call = call /\ job[t].name = None /\ job[t].session = None
    BY <1>1, <1>2 DEF Job, Pc, Idle, JobShape, Waiting
  <1> HIDE DEF j
  <1>4. /\ job' \in [Tasks -> Job] /\ job'[t] = j /\ \A q \in Tasks \ {t} : job'[q] = job[q]
    BY <1>1, <1>2, <1>3 DEF TypeOK
  <1>5. \A q \in Tasks : job'[q].name = job[q].name /\ job'[q].session = job[q].session
    BY <1>3, <1>4
  <1>6. TypeOK' /\ Called' /\ Selecting'
    BY <1>1, <1>2, <1>4 DEF TypeOK, Called, Made, ForkOf, Present, Selecting
  <1>7. Locked'
    BY <1>1, <1>2, <1>3, <1>4 DEF Locked, Holds, Waiting
  <1>8. Owned' /\ Housing'
    BY <1>1, <1>2, <1>5, OwnedFrame, HousingFrame
  <1>9. JobInv(t)'
    BY <1>3, <1>4 DEF JobInv, JobShape, JobSession, JobWorkspace, Waiting, Standing
  <1>10. ASSUME NEW q \in Tasks \ {t}
         PROVE  JobInv(q)'
    <2>1. JobShape(q) /\ JobSession(q) /\ JobWorkspace(q) /\ job'[q] = job[q]
      BY <1>4 DEF LaunchInv, JobInv
    <2>2. JobShape(q)'
      BY <2>1 DEF JobShape
    <2>3. JobSession(q)'
      BY <1>1, <2>1 DEF JobSession, Present
    <2>4. \A n \in Names : Disputed(n)' <=> Disputed(n)
      BY <1>1, <1>5 DEF Disputed, Present
    <2>5. job[q].name \in Names \cup {None}
      BY <1>2 DEF TypeOK, Job
    <2>6. JobWorkspace(q)'
      BY <1>1, <2>1, <2>4, <2>5 DEF JobWorkspace, Present, ForkOf, Free
    <2> QED
      BY <2>2, <2>3, <2>6 DEF JobInv
  <1> QED
    BY <1>6, <1>7, <1>8, <1>9, <1>10 DEF LaunchInv

LEMMA CreateChildKeeps ==
    ASSUME LaunchInv, NEW c \in Creates, CreateChild(c)
    PROVE  LaunchInv'
  <1>1. Gateway \in Tasks /\ c \in Calls /\ c \notin Forks /\ c # None
    BY LaunchesAssumption DEF Tasks, Calls
  <1>2. CASE Ask(Gateway, FALSE, c) /\ UNCHANGED answered
    BY <1>1, <1>2, AskKeeps
  <1>3. CASE /\ ledger[c].completed /\ ledger[c].child # None /\ ledger[c] # None
             /\ answered' = answered \cup {c}
             /\ UNCHANGED <<durableVars, live, lingering, lock, job, kicked, left, faults>>
    <2>1. UNCHANGED <<rows, ledger, selected, trees, branches, live, lingering, lock, job, kicked,
                      left, faults>>
      BY <1>3 DEF durableVars
    <2>2. TypeOK /\ Locked /\ Owned /\ Housing /\ Called /\ Selecting /\ \A t \in Tasks : JobInv(t)
      BY DEF LaunchInv
    <2>3. \E s \in Made(c) : kicked[s] > 0
      BY <1>3, <2>2 DEF Called
    <2>4. TypeOK' /\ Called'
      BY <1>1, <1>3, <2>1, <2>2, <2>3 DEF TypeOK, Called, Made, ForkOf, Present
    <2>5. Locked' /\ Owned' /\ Housing' /\ Selecting'
      BY <2>1, <2>2 DEF Locked, Holds, Owned, Housing, Selecting, Present, Free
    <2>6. \A t \in Tasks : JobInv(t)'
      BY <2>1, <2>2 DEF JobInv, JobShape, JobSession, JobWorkspace, Present, ForkOf, Free, Disputed
    <2> QED
      BY <2>4, <2>5, <2>6 DEF LaunchInv
  <1> QED
    BY <1>2, <1>3 DEF CreateChild, MayCreate

LEMMA CreateKeeps ==
    ASSUME LaunchInv, NEW t \in Tasks, Create(t)
    PROVE  LaunchInv'
  <1> DEFINE c == job[t].call
  <1>1. /\ job[t].pc = "create" /\ Holds(t) /\ lock' = lock
        /\ UNCHANGED <<selected, trees, branches, lingering, kicked, answered, left, faults>>
    BY DEF Create, At, Holds, Waiting, historyVars
  <1>2. /\ job[t] \in Job /\ JobShape(t) /\ JobSession(t) /\ JobWorkspace(t) /\ TypeOK /\ Called
        /\ Selecting /\ Owned /\ Housing
    BY <1>1, HolderKnown
  <1>23. PICK n \in Names \cup {None} : n = job[t].name
    BY <1>2 DEF Job
  <1>3. PICK s \in Sessions :
          /\ rows[s] = None /\ Insert(t, s)
          /\ live' = IF job[t].forks THEN live ELSE live \cup {s}
          /\ job' = [job EXCEPT ![t].session = s,
                                ![t].pc = IF job[t].forks THEN "restore" ELSE "configure"]
    BY DEF Create
  <1> DEFINE j == [job[t] EXCEPT !.session = s,
                                 !.pc = IF job[t].forks THEN "restore" ELSE "configure"]
  <1>4. /\ j \in Job /\ j.session = s /\ j.name = n /\ j.call = c /\ j.forks = job[t].forks
        /\ j.before = job[t].before /\ j.pc = (IF job[t].forks THEN "restore" ELSE "configure")
        /\ j.pc \notin Waiting
    BY <1>2, <1>23 DEF Job, Pc, Waiting
  <1>5. job' = [job EXCEPT ![t] = j]
    BY <1>2, <1>3 DEF TypeOK
  <1>6. c \in Calls \cup {None} /\ n \in Names \cup {None} /\ job[t].session = None /\ s # None
        /\ (c # None => (job[t].forks <=> c \in Forks)) /\ job[t].forks \in BOOLEAN
        /\ (job[t].forks => n # None)
    BY <1>1, <1>2, <1>23, LaunchesAssumption DEF JobShape, Job, Waiting
  <1> HIDE DEF j, c
  <1>7. /\ Locked' /\ job' \in [Tasks -> Job] /\ job'[t] = j
        /\ \A q \in Tasks \ {t} : JobInv(q)' /\ job'[q] = job[q] /\ job'[q].name = None
    BY <1>1, <1>4, <1>5, GoesOn
  <1>8. /\ rows' \in [Sessions -> Row \cup {None}] /\ rows'[s].name = n /\ rows'[s].call = c
        /\ rows'[s].pending = (job[t].forks /\ c # None) /\ rows'[s].state = "present"
        /\ rows'[s] # None /\ \A p \in Sessions \ {s} : rows'[p] = rows[p]
    <2>1. NewRow(t) \in Row
      BY <1>6, <1>23 DEF NewRow, Row, c
    <2>2. /\ rows' \in [Sessions -> Row \cup {None}] /\ rows'[s] = NewRow(t)
          /\ \A p \in Sessions \ {s} : rows'[p] = rows[p]
      BY <1>2, <1>3, <2>1 DEF Insert, TypeOK
    <2> QED
      BY <2>1, <2>2, RowsAssumption, <1>23 DEF NewRow, c
  <1>9. /\ ledger' \in [Creates -> Entry \cup {None}]
        /\ \A d \in Creates \ {c} : ledger'[d] = ledger[d]
        /\ c \in Creates => ledger[c] = None /\ ledger'[c] # None /\ ~ledger'[c].completed
    <2>1. [child |-> s, completed |-> FALSE] \in Entry
      BY DEF Entry
    <2> QED
      BY <1>2, <1>3, <2>1, RowsAssumption DEF Insert, TypeOK, c
  <1>10. /\ \A p \in Sessions : Present(p)' <=> Present(p) \/ p = s
         /\ ~Present(s) /\ kicked[s] = 0 /\ s \notin live /\ selected # s /\ s \notin lingering
    <2>1. ~Present(s) /\ \A p \in Sessions : Present(p)' <=> Present(p) \/ p = s
      BY <1>3, <1>8 DEF Present
    <2>2. kicked[s] = 0 /\ s \notin live /\ s \notin lingering
      BY <1>2, <1>3, <2>1 DEF Called, Housing
    <2>3. selected # s
      BY <1>2, <1>6, <2>1 DEF Selecting
    <2> QED
      BY <2>1, <2>2, <2>3
  <1>11. \A d \in Calls : Made(d)' = IF d = c THEN Made(d) \cup {s} ELSE Made(d)
    BY <1>3, <1>8 DEF Made
  <1>12. \A d \in Calls : ForkOf(d)' = IF d = c THEN ForkOf(d) \cup {s} ELSE ForkOf(d)
    <2> SUFFICES ASSUME NEW d \in Calls
                 PROVE  ForkOf(d)' = IF d = c THEN ForkOf(d) \cup {s} ELSE ForkOf(d)
      OBVIOUS
    <2>1. \A p \in Sessions : Present(p)' /\ rows'[p].call = d
             <=> (Present(p) /\ rows[p].call = d) \/ (p = s /\ d = c)
      BY <1>8, <1>10
    <2> QED
      BY <2>1 DEF ForkOf
  <1>13. Called'
    <2>1. \A p \in Sessions : rows'[p] = None => kicked[p] = 0
      BY <1>2, <1>8 DEF Called
    <2>2. ASSUME NEW d \in Creates
          PROVE  /\ ledger'[d] = None => Made(d)' = {}
                 /\ \A r, p \in Made(d)' : r = p
                 /\ ledger'[d] # None /\ ledger'[d].completed => \E p \in Made(d)' : kicked[p] > 0
      <3>1. Made(d)' = IF d = c THEN Made(d) \cup {s} ELSE Made(d)
        BY <1>11 DEF Calls
      <3>2. CASE d = c
        <4>1. Made(d)' = {s}
          BY <1>2, <1>9, <3>1, <3>2 DEF Called
        <4> QED
          BY <1>9, <3>2, <4>1
      <3>3. CASE d # c
        BY <1>2, <1>9, <3>1, <3>3 DEF Called
      <3> QED
        BY <3>2, <3>3
    <2>3. ASSUME NEW d \in Forks
          PROVE  /\ \A r, p \in ForkOf(d)' : r = p
                 /\ \A p \in ForkOf(d)' : ~rows'[p].pending => kicked[p] > 0
      <3>1. ForkOf(d)' = IF d = c THEN ForkOf(d) \cup {s} ELSE ForkOf(d)
        BY <1>12 DEF Calls
      <3>2. CASE d = c
        <4>1. ForkOf(d)' = {s}
          BY <1>1, <1>2, <3>1, <3>2 DEF JobWorkspace, c
        <4> QED
          BY <1>6, <1>8, <3>2, <4>1, LaunchesAssumption DEF Calls
      <3>3. CASE d # c
        <4>1. ForkOf(d)' = ForkOf(d) /\ \A p \in ForkOf(d) : p \in Sessions /\ p # s /\ rows'[p] = rows[p]
          BY <1>8, <1>10, <3>1, <3>3 DEF ForkOf
        <4> QED
          BY <1>2, <4>1 DEF Called
      <3> QED
        BY <3>2, <3>3
    <2>4. ASSUME NEW d \in Forks, NEW p \in Made(d)', rows'[p].state = "deleted"
          PROVE  kicked[p] = 0
      BY <1>2, <1>8, <1>10, <1>11, <2>4 DEF Called, Calls, Made
    <2>5. \A d \in answered : \E p \in Made(d)' : kicked[p] > 0
      BY <1>2, <1>11 DEF Called, TypeOK
    <2> QED
      BY <1>1, <2>1, <2>2, <2>3, <2>4, <2>5 DEF Called
  <1>14. TypeOK'
    BY <1>1, <1>2, <1>3, <1>7, <1>8, <1>9 DEF TypeOK
  <1>15. Selecting'
    BY <1>1, <1>2, <1>10 DEF Selecting, TypeOK
  <1>16. n # None => trees[n] # "none" /\ branches[n] # "none"
    BY <1>1, <1>2, <1>23 DEF JobWorkspace, Housed
  <1>17. n \notin left /\ n # None => \A p \in Sessions : Present(p) => rows[p].name # n
    BY <1>2, <1>6, LaunchesAssumption, <1>23 DEF JobWorkspace
  <1>18. Owned'
    <2> SUFFICES ASSUME NEW m \in Names \ left
                 PROVE  /\ \A p \in Sessions : Present(p)' /\ rows'[p].name = m => trees[m] # "none"
                        /\ \A r, p \in Sessions : Present(r)' /\ Present(p)' /\ rows'[r].name = m
                                                  /\ rows'[p].name = m => r = p
                        /\ ~Free(m) => \/ \E p \in Sessions : Present(p)' /\ rows'[p].name = m
                                       \/ \E q \in Tasks : job'[q].name = m
      BY <1>1 DEF Owned, Free
    <2>1. \A p \in Sessions : Present(p)' /\ rows'[p].name = m
             <=> (Present(p) /\ rows[p].name = m) \/ (p = s /\ n = m)
      BY <1>8, <1>10
    <2>2. \A q \in Tasks : job'[q].name = job[q].name
      BY <1>4, <1>7, <1>23
    <2>3. m # None
      BY LaunchesAssumption
    <2> QED
      BY <1>2, <1>16, <1>17, <2>1, <2>2, <2>3 DEF Owned
  <1>19. Housing'
    <2>1. \A p \in live' : Present(p)'
      BY <1>2, <1>3, <1>10 DEF Housing, TypeOK
    <2>2. ASSUME NEW p \in lingering
          PROVE  /\ rows'[p] # None
                 /\ rows'[p].name # None =>
                    /\ trees[rows'[p].name] # "none"
                    /\ \A q \in Tasks : job'[q].name = rows'[p].name => job'[q].session = p
      <3>1. p \in Sessions /\ p # s /\ rows'[p] = rows[p] /\ p # None
        BY <1>2, <1>8, <1>10, LaunchesAssumption DEF TypeOK
      <3>2. \A q \in Tasks : job[q].name = rows[p].name /\ rows[p].name # None => job[q].session = p
        BY <1>2, <3>1 DEF Housing
      <3>3. rows[p].name # None => job[t].name # rows[p].name
        BY <1>6, <3>1, <3>2
      <3> QED
        BY <1>2, <1>4, <1>7, <3>1, <3>2, <3>3, <1>23 DEF Housing
    <2> QED
      BY <1>1, <2>1, <2>2 DEF Housing
  <1>20. JobShape(t)'
    BY <1>2, <1>4, <1>6, <1>7 DEF JobShape, Waiting, Standing, c
  <1>21. JobSession(t)'
    <2>1. /\ job'[t].session = s /\ job'[t].pc \in {"restore", "configure"}
          /\ job'[t].call = c /\ job'[t].name = n /\ job'[t].forks = job[t].forks
      BY <1>4, <1>7
    <2>2. job'[t].pc = "restore" => s \notin live'
      BY <1>3, <1>4, <1>7, <1>10
    <2>3. rows'[s] # None /\ rows'[s].state = "present" /\ kicked'[s] = 0 /\ selected' # s
      BY <1>1, <1>8, <1>10
    <2> QED
      BY <1>8, <2>1, <2>2, <2>3 DEF JobSession, Standing, Unsent, Still, Present
  <1>22. JobWorkspace(t)'
    <2>1. n # None => trees'[n] # "none" /\ branches'[n] # "none"
      BY <1>1, <1>16
    <2>2. n # None /\ n \notin left => \A p \in Sessions : Present(p)' /\ rows'[p].name = n => p = s
      BY <1>8, <1>10, <1>17
    <2>3. \A b \in Sessions : b = job[t].before /\ b \notin {None, "unchanged"} => Present(b)' /\ b # s
      BY <1>2, <1>10, LaunchesAssumption DEF JobWorkspace
    <2>4. n # None /\ job[t].forks /\ trees[n] = "dirty" => Disputed(n)'
      <3> SUFFICES ASSUME n \in Names, Disputed(n)
                   PROVE  Disputed(n)'
        BY <1>1, <1>2, <1>6, <1>23 DEF JobWorkspace
      <3>1. PICK p \in Sessions : Present(p) /\ rows[p].name = n
        BY DEF Disputed
      <3>2. p # s /\ Present(p)' /\ rows'[p].name = n
        BY <1>8, <1>10, <3>1
      <3>3. job'[t].name = n /\ job'[t].session = s
        BY <1>4, <1>7
      <3> QED
        BY <3>2, <3>3 DEF Disputed
    <2>5. job[t].before \in Sessions \cup {None, "unchanged"}
      BY <1>2 DEF Job
    <2> QED
      BY <1>1, <1>4, <1>6, <1>7, <2>1, <2>2, <2>3, <2>4, <2>5 DEF JobWorkspace, Housed, Standing
  <1> QED
    BY <1>7, <1>13, <1>14, <1>15, <1>18, <1>19, <1>20, <1>21, <1>22 DEF LaunchInv, JobInv

LEMMA WorktreeKeeps ==
    ASSUME LaunchInv, NEW t \in Tasks, Worktree(t)
    PROVE  LaunchInv'
  <1>1. /\ job[t].pc = "worktree" /\ Holds(t)
        /\ UNCHANGED <<rows, ledger, selected, live, lingering, kicked, answered>>
    BY DEF Worktree, At, Holds, Waiting
  <1>2. /\ job[t] \in Job /\ JobShape(t) /\ JobSession(t) /\ JobWorkspace(t) /\ TypeOK /\ Called
        /\ Selecting /\ Owned /\ Housing
        /\ \A q \in Tasks : job[q].name = None
    BY <1>1, HolderKnown DEF JobShape
  <1>3. Called' /\ Selecting'
    BY <1>1, <1>2 DEF Called, Selecting, Made, ForkOf, Present
  <1>4. PICK n \in Names :
        /\ FirstFree(n)
        /\ \/ /\ trees' = [trees EXCEPT ![n] = "clean"]
              /\ \E b \in IF job[t].forks THEN {"merged", "ahead"} ELSE {"merged"} :
                    branches' = [branches EXCEPT ![n] = b]
              /\ job' = [job EXCEPT ![t].name = n,
                                    ![t].pc = IF job[t].forks THEN "snapshot" ELSE "create"]
              /\ UNCHANGED <<lock, left, faults>>
           \/ /\ Fault /\ Return(t)
              /\ \/ UNCHANGED <<branches, left>>
                 \/ branches' = [branches EXCEPT ![n] = "merged"] /\ left' = left \cup {n}
              /\ UNCHANGED trees
    BY DEF Worktree
  <1>5. n # None /\ trees[n] = "none" /\ branches[n] = "none"
    BY <1>4, LaunchesAssumption DEF FirstFree, Free
  <1>6. n \notin left => \A p \in Sessions : ~(Present(p) /\ rows[p].name = n)
    BY <1>2, <1>5 DEF Owned
  <1>7. CASE /\ Fault /\ Return(t) /\ UNCHANGED trees
             /\ \/ UNCHANGED <<branches, left>>
                \/ branches' = [branches EXCEPT ![n] = "merged"] /\ left' = left \cup {n}
    <2>1. /\ branches' \in [Names -> {"none", "merged", "ahead"}] /\ left \subseteq left'
          /\ left' \subseteq Names /\ faults' \in 0..MaxFaults
          /\ \A m \in Names \ left' : branches'[m] = branches[m]
      BY <1>2, <1>7, FaultTyped DEF TypeOK
    <2>2. Owned'
      BY <1>1, <1>2, <1>7, <2>1, LaunchesAssumption, OwnedFrame
    <2> QED
      BY <1>1, <1>2, <1>3, <1>7, <2>1, <2>2, ReturnKeeps DEF TypeOK
  <1>8. CASE /\ trees' = [trees EXCEPT ![n] = "clean"]
             /\ \E b \in IF job[t].forks THEN {"merged", "ahead"} ELSE {"merged"} :
                    branches' = [branches EXCEPT ![n] = b]
             /\ job' = [job EXCEPT ![t].name = n,
                                   ![t].pc = IF job[t].forks THEN "snapshot" ELSE "create"]
             /\ UNCHANGED <<lock, left, faults>>
    <2> DEFINE j == [job[t] EXCEPT !.name = n, !.pc = IF job[t].forks THEN "snapshot" ELSE "create"]
    <2>1. /\ j \in Job /\ j.name = n /\ j.session = job[t].session /\ j.call = job[t].call
          /\ j.forks = job[t].forks /\ j.before = job[t].before
          /\ j.pc = (IF job[t].forks THEN "snapshot" ELSE "create") /\ j.pc \notin Waiting
      BY <1>2 DEF Job, Pc, Waiting
    <2>2. job' = [job EXCEPT ![t] = j]
      BY <1>2, <1>8 DEF TypeOK
    <2> HIDE DEF j
    <2>3. /\ Locked' /\ job' \in [Tasks -> Job] /\ job'[t] = j
          /\ \A q \in Tasks \ {t} : JobInv(q)' /\ job'[q] = job[q] /\ job'[q].name = None
                                    /\ job'[q].session = None
      BY <1>1, <1>8, <2>1, <2>2, GoesOn
    <2>4. /\ trees' \in [Names -> {"none", "clean", "copied", "dirty"}] /\ trees'[n] = "clean"
          /\ \A m \in Names \ {n} : trees'[m] = trees[m]
      BY <1>2, <1>8 DEF TypeOK
    <2>5. /\ branches' \in [Names -> {"none", "merged", "ahead"}] /\ branches'[n] # "none"
          /\ \A m \in Names \ {n} : branches'[m] = branches[m]
      BY <1>2, <1>8 DEF TypeOK
    <2>6. TypeOK'
      BY <1>1, <1>2, <1>8, <2>3, <2>4, <2>5 DEF TypeOK
    <2>7. Owned'
      <3>3. rows' = rows /\ left' = left
        BY <1>1, <1>8
      <3> SUFFICES ASSUME NEW m \in Names \ left
                   PROVE  /\ \A p \in Sessions : Present(p) /\ rows[p].name = m => trees'[m] # "none"
                          /\ \A r, p \in Sessions : Present(r) /\ Present(p) /\ rows[r].name = m
                                                    /\ rows[p].name = m => r = p
                          /\ ~Free(m)' => \/ \E p \in Sessions : Present(p) /\ rows[p].name = m
                                          \/ \E q \in Tasks : job'[q].name = m
        BY <3>3 DEF Owned, Present
      <3>1. CASE m = n
        BY <1>6, <2>1, <2>3, <3>1
      <3>2. CASE m # n
        BY <1>2, <2>4, <2>5, <3>2, LaunchesAssumption DEF Owned, Free
      <3> QED
        BY <3>1, <3>2
    <2>8. Housing'
      <3>1. \A p \in live' : Present(p)'
        BY <1>1, <1>2 DEF Housing, Present
      <3>2. ASSUME NEW p \in lingering', rows'[p].name # None
            PROVE  /\ trees'[rows'[p].name] # "none"
                   /\ \A q \in Tasks : job'[q].name = rows'[p].name => job'[q].session = p
        <4>1. p \in Sessions /\ p \in lingering /\ rows[p] # None /\ rows'[p].name = rows[p].name
          BY <1>1, <1>2, <3>2 DEF TypeOK, Housing
        <4>2. rows[p].name \in Names /\ trees[rows[p].name] # "none"
          BY <1>2, <3>2, <4>1 DEF TypeOK, Row, Housing
        <4>3. rows[p].name # n
          BY <1>5, <4>2
        <4> QED
          BY <2>1, <2>3, <2>4, <3>2, <4>1, <4>2, <4>3
      <3>3. \A p \in lingering' : rows'[p] # None
        BY <1>1, <1>2 DEF Housing
      <3> QED
        BY <3>1, <3>2, <3>3 DEF Housing
    <2>9. JobShape(t)' /\ JobSession(t)'
      BY <1>1, <1>2, <1>5, <2>1, <2>3 DEF JobShape, JobSession, Waiting, Standing
    <2>10. JobWorkspace(t)'
      <3>1. trees'[n] = "clean" /\ branches'[n] # "none" /\ job'[t].name = n
            /\ job'[t].pc \in {"snapshot", "create"}
        BY <2>1, <2>3, <2>4, <2>5
      <3>2. n \notin left' => \A p \in Sessions : ~(Present(p)' /\ rows'[p].name = n)
        BY <1>1, <1>6, <1>8 DEF Present
      <3>3. job[t].before \notin {None, "unchanged"} =>
             /\ rows[job[t].before] # None /\ rows[job[t].before].state = "present"
             /\ job[t].before # job[t].session
        BY <1>2 DEF JobWorkspace, Present
      <3>4. job[t].call \in Forks => ForkOf(job[t].call) = {}
        BY <1>1, <1>2 DEF JobWorkspace
      <3> QED
        BY <1>1, <2>1, <2>3, <3>1, <3>2, <3>3, <3>4 DEF JobWorkspace, Present, ForkOf, Housed, Standing
    <2> QED
      BY <1>3, <2>3, <2>6, <2>7, <2>8, <2>9, <2>10 DEF LaunchInv, JobInv
  <1> QED
    BY <1>4, <1>7, <1>8

-----------------------------------------------------------------------------
(* Agents, restored sessions, and crashes.                                 *)

LEMMA AgentWorksKeeps ==
    ASSUME LaunchInv, NEW s \in Sessions, AgentWorks(s)
    PROVE  LaunchInv'
  <1>1. /\ s \in live \cup lingering /\ kicked[s] > 0
        /\ UNCHANGED <<rows, ledger, selected, live, lingering, lock, job, kicked, answered, left, faults>>
    BY DEF AgentWorks, historyVars
  <1>2. TypeOK /\ Locked /\ Owned /\ Housing /\ Called /\ Selecting /\ \A t \in Tasks : JobInv(t)
    BY DEF LaunchInv
  <1>3. PICK n \in Names : n = rows[s].name /\ n # None
    <2>1. rows[s] # None
      BY <1>1, <1>2 DEF Housing, Present
    <2> QED
      BY <1>2, <2>1 DEF AgentWorks, TypeOK, Row
  <1>4. /\ trees' \in [Names -> {"none", "clean", "copied", "dirty"}]
        /\ branches' \in [Names -> {"none", "merged", "ahead"}]
        /\ \A m \in Names : (trees'[m] = "none" <=> trees[m] = "none")
                            /\ (trees'[m] = "dirty" => trees[m] = "dirty" \/ m = n)
                            /\ (branches[m] # "none" => branches'[m] # "none")
                            /\ (trees[m] = "none" => branches'[m] = branches[m])
    <2>1. /\ trees[n] # "none"
          /\ \/ trees' = [trees EXCEPT ![n] = "dirty"] /\ UNCHANGED branches
             \/ branches' = [branches EXCEPT ![n] = "ahead"] /\ UNCHANGED trees
      BY <1>3 DEF AgentWorks
    <2> QED
      BY <1>2, <2>1 DEF TypeOK
  <1>5. \A m \in Names : Free(m)' <=> Free(m)
    BY <1>4 DEF Free
  <1>6. TypeOK' /\ Called' /\ Selecting' /\ Locked'
    BY <1>1, <1>2, <1>4 DEF TypeOK, Called, Selecting, Locked, Holds, Made, ForkOf, Present
  <1>7. Owned'
    BY <1>1, <1>2, <1>4, <1>5 DEF Owned, Present
  <1>8. Housing'
    BY <1>1, <1>2, <1>4, HousingFrame
  <1>9. \A m \in Names : Disputed(m)' <=> Disputed(m)
    BY <1>1 DEF Disputed, Present
  <1>10. ASSUME NEW q \in Tasks
         PROVE  JobInv(q)'
    <2>1. JobShape(q) /\ JobSession(q) /\ JobWorkspace(q) /\ job[q].name \in Names \cup {None}
          /\ job[q].session \in Sessions \cup {None}
      BY <1>2 DEF JobInv, TypeOK, Job
    <2>2. JobShape(q)' /\ JobSession(q)'
      BY <1>1, <2>1 DEF JobShape, JobSession, Present
    <2>3. ASSUME NEW m \in Names, m = job[q].name, job[q].forks,
                 job[q].pc \in {"snapshot", "create", "restore", "discard"}, trees'[m] = "dirty"
          PROVE  Disputed(m)
      <3>1. CASE trees[m] = "dirty"
        BY <2>1, <2>3, <3>1, LaunchesAssumption DEF JobWorkspace
      <3>2. CASE m = n
        <4>1. job[q].session # s
          BY <1>1, <2>1, <2>3, LaunchesAssumption DEF JobShape, JobSession, Unsent
        <4>2. s \notin lingering
          BY <1>2, <1>3, <2>3, <3>2, <4>1 DEF Housing
        <4>3. Present(s)
          BY <1>1, <1>2, <4>2 DEF Housing
        <4> QED
          BY <1>3, <2>3, <3>2, <4>1, <4>3 DEF Disputed
      <3> QED
        BY <1>4, <2>3, <3>1, <3>2
    <2>4. JobWorkspace(q)'
      <3>1. ASSUME NEW m \in Names, m = job[q].name
            PROVE  /\ job[q].pc \in Housed => trees'[m] # "none" /\ branches'[m] # "none"
                   /\ job[q].pc = "branch" /\ m \notin left => trees'[m] = "none"
                   /\ job[q].pc = "reselect" /\ m \notin left => Free(m)'
                   /\ m \notin left => \A p \in Sessions : Present(p)' /\ rows'[p].name = m
                                                            => p = job[q].session
                   /\ job[q].forks /\ job[q].pc \in {"snapshot", "create", "restore", "discard"}
                        /\ trees'[m] = "dirty" => Disputed(m)'
        <4>1. m # None
          BY LaunchesAssumption
        <4> QED
          BY <1>1, <1>4, <1>5, <1>9, <2>1, <2>3, <3>1, <4>1 DEF JobWorkspace, Present
      <3>2. /\ job[q].before \notin {None, "unchanged"} =>
                 Present(job[q].before) /\ job[q].before # job[q].session
            /\ job[q].call \in Forks /\ job[q].pc \in {"worktree", "snapshot", "create"} =>
                 ForkOf(job[q].call) = {}
        BY <2>1 DEF JobWorkspace
      <3>3. CASE job[q].name = None
        BY <1>1, <3>2, <3>3 DEF JobWorkspace, Present, ForkOf
      <3>4. CASE job[q].name # None
        <4>1. PICK m \in Names : m = job[q].name
          BY <2>1, <3>4
        <4> QED
          BY <1>1, <3>1, <3>2, <4>1 DEF JobWorkspace, Present, ForkOf, Free
      <3> QED
        BY <3>3, <3>4
    <2> QED
      BY <2>2, <2>4 DEF JobInv
  <1> QED
    BY <1>6, <1>7, <1>8, <1>10 DEF LaunchInv

\* A worktree is made again only for a session whose name a compensation reported.
LEMMA RestoreKeeps ==
    ASSUME LaunchInv, NEW s \in Sessions, Restore(s)
    PROVE  LaunchInv'
  <1>1. /\ Present(s) /\ \A t \in Tasks : job[t].session # s
        /\ live' = live \cup {s}
        /\ UNCHANGED <<rows, ledger, selected, branches, lingering, lock, job, kicked, answered,
                       left, faults>>
    BY DEF Restore, historyVars
  <1>2. TypeOK /\ Locked /\ Owned /\ Housing /\ Called /\ Selecting /\ \A t \in Tasks : JobInv(t)
    BY DEF LaunchInv
  <1>3. /\ trees' \in [Names -> {"none", "clean", "copied", "dirty"}]
        /\ \A m \in Names : \/ trees'[m] = trees[m]
                            \/ trees'[m] = "clean" /\ m \in left /\ branches[m] # "none"
    <2>1. CASE UNCHANGED trees
      BY <1>2, <2>1 DEF TypeOK
    <2>2. CASE Recreated(s) /\ trees' = [trees EXCEPT ![rows[s].name] = "clean"]
      <3>1. PICK n \in Names : n = rows[s].name
        BY <1>1, <1>2, <2>2 DEF Recreated, TypeOK, Row, Present
      <3>2. trees[n] = "none" /\ branches[n] # "none"
        BY <2>2, <3>1 DEF Recreated
      <3>3. n \in left
        BY <1>1, <1>2, <3>1, <3>2 DEF Owned
      <3> QED
        BY <1>2, <2>2, <3>1, <3>2, <3>3 DEF TypeOK
    <2> QED
      BY <2>1, <2>2 DEF Restore
  <1>4. \A m \in Names : (trees[m] # "none" => trees'[m] # "none") /\ (Free(m)' <=> Free(m))
    BY <1>1, <1>3 DEF Free
  <1>5. TypeOK' /\ Called' /\ Selecting' /\ Locked'
    BY <1>1, <1>2, <1>3 DEF TypeOK, Called, Selecting, Locked, Holds, Made, ForkOf, Present
  <1>6. Owned'
    BY <1>1, <1>2, <1>4 DEF Owned, Present
  <1>7. Housing'
    <2>1. \A p \in live' : Present(p)'
      BY <1>1, <1>2 DEF Housing, Present
    <2>2. \A p \in lingering : rows[p] # None /\ (rows[p].name # None => rows[p].name \in Names)
      BY <1>2 DEF Housing, TypeOK, Row
    <2> QED
      BY <1>1, <1>2, <1>4, <2>1, <2>2 DEF Housing
  <1>8. \A m \in Names : Disputed(m)' <=> Disputed(m)
    BY <1>1 DEF Disputed, Present
  <1>9. ASSUME NEW q \in Tasks
        PROVE  JobInv(q)'
    <2>1. JobShape(q) /\ JobSession(q) /\ JobWorkspace(q) /\ job[q].name \in Names \cup {None}
      BY <1>2 DEF JobInv, TypeOK, Job
    <2>2. JobShape(q)' /\ JobSession(q)'
      BY <1>1, <2>1 DEF JobShape, JobSession, Present
    <2>3. JobWorkspace(q)'
      <3>1. ASSUME NEW m \in Names, m = job[q].name
            PROVE  /\ job[q].pc \in Housed => trees'[m] # "none" /\ branches'[m] # "none"
                   /\ job[q].pc = "branch" /\ m \notin left => trees'[m] = "none"
                   /\ job[q].pc = "reselect" /\ m \notin left => Free(m)'
                   /\ m \notin left => \A p \in Sessions : Present(p)' /\ rows'[p].name = m
                                                            => p = job[q].session
                   /\ job[q].forks /\ job[q].pc \in {"snapshot", "create", "restore", "discard"}
                        /\ trees'[m] = "dirty" => Disputed(m)'
        <4>1. m # None
          BY LaunchesAssumption
        <4> QED
          BY <1>1, <1>3, <1>4, <1>8, <2>1, <3>1, <4>1 DEF JobWorkspace, Present
      <3>2. /\ job[q].before \notin {None, "unchanged"} =>
                 Present(job[q].before) /\ job[q].before # job[q].session
            /\ job[q].call \in Forks /\ job[q].pc \in {"worktree", "snapshot", "create"} =>
                 ForkOf(job[q].call) = {}
        BY <2>1 DEF JobWorkspace
      <3>3. CASE job[q].name = None
        BY <1>1, <3>2, <3>3 DEF JobWorkspace, Present, ForkOf
      <3>4. CASE job[q].name # None
        <4>1. PICK m \in Names : m = job[q].name
          BY <2>1, <3>4
        <4> QED
          BY <1>1, <3>1, <3>2, <4>1 DEF JobWorkspace, Present, ForkOf, Free
      <3> QED
        BY <3>3, <3>4
    <2> QED
      BY <2>2, <2>3 DEF JobInv
  <1> QED
    BY <1>5, <1>6, <1>7, <1>9 DEF LaunchInv

\* The developer deletes a session that no job is about, nor about its name.
LEMMA DeleteKeeps ==
    ASSUME LaunchInv, NEW s \in Sessions, Delete(s)
    PROVE  LaunchInv'
  <1>1. /\ job[Service].pc = "idle" /\ Present(s)
        /\ \A t \in Tasks : job[t].session # s /\ job[t].name \notin {rows[s].name} \ {None}
        /\ live' = live \ {s} /\ selected' = Deselected(s)
        /\ UNCHANGED <<lock, job, kicked, answered>>
    BY DEF Delete, At
  <1>2. TypeOK /\ Locked /\ Owned /\ Housing /\ Called /\ Selecting /\ \A t \in Tasks : JobInv(t)
    BY DEF LaunchInv
  <1>3. rows[s] \in Row /\ rows[s].name \in Names \cup {None} /\ s # None
    BY <1>1, <1>2, LaunchesAssumption DEF TypeOK, Present, Row
  <1>4. \A q \in Tasks : job[q].before = "unchanged"
    BY <1>1, <1>2, LaunchesAssumption DEF JobInv, JobShape, Waiting
  <1>5. selected' \in Sessions \cup {None} /\ (selected' # None => selected' = selected /\ selected' # s)
    BY <1>1, <1>2 DEF Deselected, TypeOK
  <1>6. \/ lingering' \subseteq lingering
        \/ Abandoned(s)
    BY DEF Delete, Reclaimed
  <1>7. CASE /\ Fault /\ (Abandoned(s) \/ UNCHANGED lingering)
             /\ UNCHANGED <<rows, ledger, trees, branches, left>>
    <2>1. TypeOK'
      BY <1>1, <1>2, <1>5, <1>7, FaultTyped DEF TypeOK, Abandoned
    <2>2. Locked' /\ Owned' /\ Called' /\ Selecting'
      BY <1>1, <1>2, <1>5, <1>7 DEF Locked, Holds, Owned, Called, Selecting, Made, ForkOf, Present, Free
    <2>3. Housing'
      BY <1>1, <1>2, <1>3, <1>7 DEF Housing, Abandoned, HasDirectory, Present
    <2>4. \A q \in Tasks : JobInv(q)'
      BY <1>1, <1>2, <1>4, <1>5, <1>7
         DEF JobInv, JobShape, JobSession, JobWorkspace, Present, ForkOf, Free, Disputed
    <2> QED
      BY <2>1, <2>2, <2>3, <2>4 DEF LaunchInv
  <1>8. CASE Deleted(s, "removed") /\ Reclaimed(s)
    <2>1. /\ Called' /\ rows' \in [Sessions -> Row \cup {None}]
          /\ ledger' \in [Creates -> Entry \cup {None}]
          /\ rows'[s] # None /\ ~Present(s)'
          /\ rows'[s].name = rows[s].name /\ rows'[s].call = rows[s].call
          /\ \A p \in Sessions \ {s} : rows'[p] = rows[p]
      BY <1>1, <1>2, <1>8, DeletedKeeps
    <2>2. \A p \in Sessions : /\ Present(p)' <=> Present(p) /\ p # s
                              /\ rows[p] # None => rows'[p] # None /\ rows'[p].name = rows[p].name
      BY <1>1, <2>1 DEF Present
    <2>3. /\ trees' \in [Names -> {"none", "clean", "copied", "dirty"}]
          /\ branches' \in [Names -> {"none", "merged", "ahead"}]
          /\ left' \subseteq Names /\ left \subseteq left' /\ faults' \in 0..MaxFaults
          /\ \A m \in Names : m # rows[s].name => trees'[m] = trees[m] /\ branches'[m] = branches[m]
          /\ rows[s].name # None => \/ rows[s].name \in left'
                                    \/ trees'[rows[s].name] = "none" /\ branches'[rows[s].name] = "none"
      <3>1. faults' = faults \/ Fault
        BY <1>8 DEF Reclaimed
      <3>2. faults' \in 0..MaxFaults
        BY <1>2, <3>1, FaultTyped DEF TypeOK
      <3>3. \/ UNCHANGED <<trees, branches>> /\ left' \in {left, left \cup {rows[s].name}}
               /\ (rows[s].name # None => left' = left \cup {rows[s].name})
            \/ /\ rows[s].name # None /\ trees' = [trees EXCEPT ![rows[s].name] = "none"]
               /\ \/ branches' = [branches EXCEPT ![rows[s].name] = "none"] /\ left' = left
                  \/ left' = left \cup {rows[s].name} /\ UNCHANGED branches
        BY <1>8 DEF Reclaimed
      <3>4. rows[s].name = None => left' = left /\ UNCHANGED <<trees, branches>>
        BY <1>8 DEF Reclaimed
      <3> QED
        BY <1>2, <1>3, <3>2, <3>3, <3>4 DEF TypeOK
    <2>4. TypeOK' /\ Locked' /\ Selecting'
      BY <1>1, <1>2, <1>5, <1>6, <2>1, <2>2, <2>3
         DEF TypeOK, Locked, Holds, Selecting, Abandoned
    <2>5. Owned'
      <3> SUFFICES ASSUME NEW n \in Names \ left'
                   PROVE  /\ \A p \in Sessions : Present(p)' /\ rows'[p].name = n => trees'[n] # "none"
                          /\ \A r, p \in Sessions : Present(r)' /\ Present(p)' /\ rows'[r].name = n
                                                    /\ rows'[p].name = n => r = p
                          /\ ~Free(n)' => \/ \E p \in Sessions : Present(p)' /\ rows'[p].name = n
                                          \/ \E q \in Tasks : job'[q].name = n
        BY DEF Owned
      <3>1. \A p \in Sessions : Present(p)' /\ rows'[p].name = n <=> Present(p) /\ rows[p].name = n /\ p # s
        BY <2>2 DEF Present
      <3>2. n \notin left
        BY <2>3
      <3>3. CASE n = rows[s].name
        <4>1. \A p \in Sessions : ~(Present(p)' /\ rows'[p].name = n)
          BY <1>1, <1>2, <3>1, <3>2, <3>3 DEF Owned
        <4>2. Free(n)'
          BY <2>3, <3>3, LaunchesAssumption DEF Free
        <4> QED
          BY <4>1, <4>2
      <3>4. CASE n # rows[s].name
        <4>1. trees'[n] = trees[n] /\ branches'[n] = branches[n] /\ (Free(n)' <=> Free(n))
          BY <2>3, <3>4 DEF Free
        <4> QED
          BY <1>1, <1>2, <3>1, <3>2, <3>4, <4>1 DEF Owned
      <3> QED
        BY <3>3, <3>4
    <2>6. Housing'
      <3>1. \A p \in live' : Present(p)'
        BY <1>1, <1>2, <2>2 DEF Housing, TypeOK
      <3>2. ASSUME NEW p \in lingering'
            PROVE  rows[p] # None /\ (rows[p].name # None =>
                     /\ trees'[rows[p].name] # "none"
                     /\ \A t \in Tasks : job[t].name = rows[p].name => job[t].session = p)
        <4>1. CASE p \in lingering
          <5>1. p \in Sessions /\ (rows[p].name # None => rows[p].name \in Names)
            BY <1>2, <4>1 DEF Housing, TypeOK, Row
          <5>2. rows[p].name # None => trees'[rows[p].name] = trees[rows[p].name] 
            BY <1>2, <1>3, <1>8, <2>3, <3>2, <5>1 DEF Reclaimed, TypeOK
          <5> QED
            BY <1>2, <4>1, <5>2 DEF Housing
        <4>2. CASE p \notin lingering
          <5>1. p = s /\ HasDirectory(s) /\ UNCHANGED trees
            BY <1>3, <1>8, <3>2, <4>2 DEF Reclaimed, Abandoned
          <5> QED
            BY <1>1, <1>3, <5>1, RowsAssumption DEF HasDirectory, Present
        <4> QED
          BY <4>1, <4>2
      <3> QED
        BY <1>1, <1>2, <2>2, <2>4, <3>1, <3>2 DEF Housing, TypeOK
    <2>7. ASSUME NEW q \in Tasks
          PROVE  JobInv(q)'
      <3>1. /\ JobShape(q) /\ JobSession(q) /\ JobWorkspace(q) /\ job[q] \in Job
            /\ job[q].session # s
        BY <1>1, <1>2 DEF JobInv, TypeOK
      <3>2. JobShape(q)'
        BY <1>1, <3>1 DEF JobShape
      <3>3. JobSession(q)'
        <4>1. CASE job[q].session = None
          BY <1>1, <4>1 DEF JobSession
        <4>2. CASE job[q].session # None
          <5>1. PICK p \in Sessions \ {s} : p = job[q].session
            BY <3>1, <4>2 DEF Job
          <5>2. rows'[p] = rows[p] /\ (Present(p)' <=> Present(p)) /\ (p \notin live => p \notin live')
                /\ (selected # p => selected' # p)
            BY <1>1, <1>5, <2>1, <2>2, <5>1, LaunchesAssumption
          <5> QED
            BY <1>1, <2>3, <3>1, <4>2, <5>1, <5>2 DEF JobSession
        <4> QED
          BY <4>1, <4>2
      <3>4. \A m \in Names : m = job[q].name => /\ m # rows[s].name /\ trees'[m] = trees[m]
                                                /\ branches'[m] = branches[m] /\ (Disputed(m) => Disputed(m)')
        <4> SUFFICES ASSUME NEW m \in Names, m = job[q].name
                     PROVE  /\ m # rows[s].name /\ trees'[m] = trees[m]
                            /\ branches'[m] = branches[m] /\ (Disputed(m) => Disputed(m)')
          OBVIOUS
        <4>1. m # rows[s].name
          BY <1>1, LaunchesAssumption
        <4>2. \A p \in Sessions : Present(p) /\ rows[p].name = m => Present(p)' /\ rows'[p].name = m
          BY <2>2, <4>1 DEF Present
        <4> QED
          BY <1>1, <2>3, <4>1, <4>2 DEF Disputed
      <3>5. JobWorkspace(q)'
        <4>1. job[q].call \in Forks /\ job[q].pc \in {"worktree", "snapshot", "create"} =>
                ForkOf(job[q].call)' = {}
          <5>1. ForkOf(job[q].call)' \subseteq ForkOf(job[q].call)
            BY <1>1, <2>1, <2>2 DEF ForkOf
          <5> QED
            BY <3>1, <5>1 DEF JobWorkspace
        <4>2. CASE job[q].name = None
          BY <1>1, <1>4, <4>1, <4>2 DEF JobWorkspace, ForkOf
        <4>3. CASE job[q].name # None
          <5>1. PICK m \in Names : m = job[q].name
            BY <3>1, <4>3 DEF Job
          <5>2. /\ trees'[m] = trees[m] /\ branches'[m] = branches[m] /\ (Disputed(m) => Disputed(m)')
                /\ (Free(m)' <=> Free(m)) /\ (m \notin left' => m \notin left)
            BY <2>3, <3>4, <5>1 DEF Free
          <5>3. \A p \in Sessions : Present(p)' /\ rows'[p].name = m => Present(p) /\ rows[p].name = m
            BY <2>2 DEF Present
          <5> QED
            BY <1>1, <1>4, <3>1, <4>1, <5>1, <5>2, <5>3 DEF JobWorkspace
        <4> QED
          BY <4>2, <4>3
      <3> QED
        BY <3>2, <3>3, <3>5 DEF JobInv
    <2> QED
      BY <2>1, <2>4, <2>5, <2>6, <2>7 DEF LaunchInv
  <1> QED
    BY <1>7, <1>8 DEF Delete

LEMMA CrashKeeps ==
    ASSUME LaunchInv, Crash
    PROVE  LaunchInv'
  <1>1. /\ live' = {} /\ lingering' = {} /\ lock' = None /\ job' = [t \in Tasks |-> Idle]
        /\ UNCHANGED <<rows, ledger, selected, trees, branches, kicked, answered>>
        /\ left' = left \cup ({job[t].name : t \in Tasks} \cap Names)
    BY DEF Crash, durableVars
  <1>2. TypeOK /\ Owned /\ Called /\ Selecting
    BY DEF LaunchInv
  <1>3. job' \in [Tasks -> Job] /\ \A q \in Tasks : job'[q] = Idle
    BY <1>1, IdleIsWaiting
  <1>4. faults' \in 0..MaxFaults
    BY <1>2, FaultTyped DEF Crash
  <1>5. TypeOK' /\ Called' /\ Selecting'
    BY <1>1, <1>2, <1>3, <1>4 DEF TypeOK, Called, Selecting, Made, ForkOf, Present
  <1>6. Locked' /\ Housing'
    BY <1>1, <1>3, IdleIsWaiting, LaunchesAssumption DEF Locked, Housing, Holds
  <1>7. Owned'
    <2>1. \A n \in Names \ left' : ~\E q \in Tasks : job[q].name = n
      BY <1>1
    <2> QED
      BY <1>1, <1>2, <2>1, OwnedFrame
  <1>8. \A q \in Tasks : JobInv(q)'
    BY <1>3, IdleIsWaiting DEF JobInv, JobShape, JobSession, JobWorkspace, Waiting, Standing
  <1> QED
    BY <1>5, <1>6, <1>7, <1>8 DEF LaunchInv

-----------------------------------------------------------------------------
(* The invariant.                                                          *)

LEMMA LaunchInit ==
    ASSUME Init
    PROVE  LaunchInv
  <1>1. TypeOK
    BY IdleIsWaiting, LaunchesAssumption DEF Init, TypeOK
  <1>2. \A t \in Tasks : job[t] = Idle
    BY DEF Init
  <1>3. Locked
    BY <1>2, IdleIsWaiting, LaunchesAssumption DEF Init, Locked, Holds
  <1>4. \A s \in Sessions : ~Present(s) /\ rows[s] = None
    BY DEF Init, Present
  <1>5. Owned /\ Housing /\ Called /\ Selecting
    BY <1>4, LaunchesAssumption DEF Init, Owned, Housing, Called, Selecting, Free, Made, ForkOf
  <1>6. \A t \in Tasks : JobInv(t)
    BY <1>2, IdleIsWaiting DEF JobInv, JobShape, JobSession, JobWorkspace, Waiting, Standing
  <1> QED
    BY <1>1, <1>3, <1>5, <1>6 DEF LaunchInv

LEMMA UserAsksKeeps ==
    ASSUME LaunchInv, UserAsks
    PROVE  LaunchInv'
  <1>1. PICK forks \in BOOLEAN : Ask(Service, forks, None) /\ UNCHANGED answered
    BY DEF UserAsks
  <1>2. Service \in Tasks
    BY DEF Tasks
  <1> QED
    BY <1>1, <1>2, AskKeeps

LEMMA ForkSessionKeeps ==
    ASSUME LaunchInv, NEW c \in Forks, ForkSession(c)
    PROVE  LaunchInv'
  <1>1. Gateway \in Tasks /\ c \in Calls
    BY DEF Tasks, Calls
  <1> QED
    BY <1>1, AskKeeps DEF ForkSession

\* Every action keeps the invariant.
LEMMA LaunchStep ==
    ASSUME LaunchInv, [Next]_vars
    PROVE  LaunchInv'
  <1>1. CASE UserAsks
    BY <1>1, UserAsksKeeps
  <1>2. CASE \E c \in Creates : CreateChild(c)
    BY <1>2, CreateChildKeeps
  <1>3. CASE \E c \in Forks : ForkSession(c)
    BY <1>3, ForkSessionKeeps
  <1>4. ASSUME NEW t \in Tasks, Proceed(t)
        PROVE  LaunchInv'
    <2>1. CASE Acquire(t) \/ NoWorktree(t) \/ Worktree(t) \/ Snapshot(t)
      BY <2>1, AcquireKeeps, NoWorktreeKeeps, WorktreeKeeps, SnapshotKeeps
    <2>2. CASE Create(t) \/ CreateFails(t) \/ RestoreFork(t) \/ Configure(t) \/ Activate(t)
      BY <2>2, CreateKeeps, CreateFailsKeeps, RestoreForkKeeps, ConfigureKeeps, ActivateKeeps
    <2>3. CASE Kick(t) \/ Finish(t) \/ Stop(t) \/ Erase(t)
      BY <2>3, KickKeeps, FinishKeeps, StopKeeps, EraseKeeps
    <2>4. CASE Discard(t) \/ Clean(t) \/ Branch(t) \/ Reselect(t)
      BY <2>4, DiscardKeeps, CleanKeeps, BranchKeeps, ReselectKeeps
    <2> QED
      BY <1>4, <2>1, <2>2, <2>3, <2>4 DEF Proceed
  <1>5. CASE \E s \in Sessions : AgentWorks(s) \/ Restore(s) \/ Delete(s)
    BY <1>5, AgentWorksKeeps, RestoreKeeps, DeleteKeeps
  <1>6. CASE Crash
    BY <1>6, CrashKeeps
  <1>7. CASE UNCHANGED vars
    <2>1. UNCHANGED <<rows, ledger, selected, trees, branches, live, lingering, lock, job, kicked,
                      answered, left, faults>>
      BY <1>7 DEF vars, durableVars, historyVars
    <2>2. TypeOK /\ Locked /\ Owned /\ Housing /\ Called /\ Selecting /\ \A t \in Tasks : JobInv(t)
      BY DEF LaunchInv
    <2>3. TypeOK' /\ Called' /\ Locked' /\ Owned' /\ Housing' /\ Selecting'
      BY <2>1, <2>2 DEF TypeOK, Called, Made, ForkOf, Locked, Holds, Owned, Housing, Selecting,
                        Present, Free
    <2>4. \A t \in Tasks : JobInv(t)'
      BY <2>1, <2>2 DEF JobInv, JobShape, JobSession, JobWorkspace, Present, ForkOf, Free, Disputed
    <2> QED
      BY <2>3, <2>4 DEF LaunchInv
  <1> QED
    BY <1>1, <1>2, <1>3, <1>4, <1>5, <1>6, <1>7 DEF Next

\* The invariant that the theorems rest on.
THEOREM LaunchInvariant == Spec => []LaunchInv
  <1> QED
    BY LaunchInit, LaunchStep, PTL DEF Spec

\* Every value of the state is of its type: a job's fields, rows, ledger and names.
THEOREM LaunchesTypeCorrect == Spec => []TypeOK
  <1>1. LaunchInv => TypeOK
    BY DEF LaunchInv
  <1> QED
    BY <1>1, LaunchInvariant, PTL

-----------------------------------------------------------------------------
(* The properties.                                                         *)

LEMMA AtMostOneMember ==
    ASSUME NEW S, \A a, b \in S : a = b
    PROVE  IsFiniteSet(S) /\ Cardinality(S) <= 1 /\ (S # {} => Cardinality(S) = 1)
  <1>1. CASE S = {}
    BY <1>1, FS_EmptySet
  <1>2. CASE S # {}
    <2>1. PICK a \in S : TRUE
      BY <1>2
    <2>2. S = {a}
      BY <2>1
    <2>3. IsFiniteSet({a}) /\ Cardinality({a}) = 1
      BY FS_Singleton
    <2> QED
      BY <2>2, <2>3
  <1> QED
    BY <1>1, <1>2

\* However often a tool call is repeated, whatever failed or crashed on the way, at most
\* one session of it got its prompt, not counting the forks that the developer deleted;
\* when the agent is told of success, one did (session_for_tool_call,
\* existing_fork_launch, upsert_session).
THEOREM PromptDeliveredOnce == Spec => []KickoffDelivered
  <1>1. ASSUME LaunchInv
        PROVE  KickoffDelivered
    <2>1. Called /\ TypeOK
      BY <1>1 DEF LaunchInv
    <2>2. ASSUME NEW c \in Creates
          PROVE  Cardinality({s \in Made(c) : kicked[s] > 0}) <= 1
      <3>1. \A a, b \in {s \in Made(c) : kicked[s] > 0} : a = b
        BY <2>1 DEF Called
      <3> QED
        BY <3>1, AtMostOneMember
    <2>4. ASSUME NEW c \in Forks
          PROVE  Cardinality({s \in Made(c) : kicked[s] > 0 /\ rows[s].state # "removed"}) <= 1
      <3> DEFINE S == {s \in Made(c) : kicked[s] > 0 /\ rows[s].state # "removed"}
      <3>1. ASSUME NEW a \in S
            PROVE  a \in ForkOf(c)
        <4>1. a \in Sessions /\ rows[a] # None /\ rows[a].call = c /\ kicked[a] # 0
          BY <2>1 DEF Made, TypeOK
        <4>2. rows[a].state = "present"
          BY <2>1, <4>1 DEF Called, Made, TypeOK, Row
        <4> QED
          BY <4>1, <4>2 DEF ForkOf, Present
      <3>2. \A a, b \in S : a = b
        BY <2>1, <3>1 DEF Called
      <3> HIDE DEF S
      <3>3. Cardinality(S) <= 1
        BY <3>2, AtMostOneMember
      <3> QED
        BY <3>3 DEF S
    <2>3. \A c \in answered : \E s \in Made(c) : kicked[s] > 0
      BY <2>1 DEF Called
    <2> QED
      BY <2>2, <2>3, <2>4 DEF KickoffDelivered
  <1> QED
    BY <1>1, LaunchInvariant, PTL

\* When no launch is under way, a worktree or a branch that no compensation reported has
\* one session, and the window shows one that is there (compensate, cleanup_worktree).
THEOREM AllTakenBack == Spec => []NothingLeftBehind
  <1>1. ASSUME LaunchInv
        PROVE  NothingLeftBehind
    <2>1. TypeOK /\ Owned /\ Selecting /\ \A t \in Tasks : JobShape(t)
      BY <1>1 DEF LaunchInv, JobInv
    <2>2. ASSUME \A t \in Tasks : job[t].pc \in {"idle", "lock"}, NEW n \in Names \ left
          PROVE  LET owners == {s \in Sessions : Present(s) /\ rows[s].name = n}
                 IN  IF Free(n) THEN owners = {} ELSE Cardinality(owners) = 1 /\ trees[n] # "none"
      <3> DEFINE owners == {s \in Sessions : Present(s) /\ rows[s].name = n}
      <3>1. \A t \in Tasks : job[t].name # n
        BY <2>1, <2>2, LaunchesAssumption DEF JobShape, Waiting
      <3>2. owners # {} => trees[n] # "none"
        BY <2>1 DEF Owned
      <3>3. \A a, b \in owners : a = b
        BY <2>1 DEF Owned
      <3>4. ~Free(n) => owners # {}
        BY <2>1, <3>1 DEF Owned
      <3>5. Free(n) => owners = {}
        BY <3>2 DEF Free
      <3> HIDE DEF owners
      <3>6. owners # {} => Cardinality(owners) = 1
        BY <3>3, AtMostOneMember
      <3> QED
        BY <3>2, <3>4, <3>5, <3>6 DEF owners
    <2> QED
      BY <2>1, <2>2 DEF NothingLeftBehind, Selecting
  <1> QED
    BY <1>1, LaunchInvariant, PTL

\* What is true of every step, for the work of agents.
Kept == \A n \in Names : /\ trees[n] = "dirty" => trees'[n] = "dirty" \/ Disputed(n)
                         /\ branches[n] = "ahead" => branches'[n] = "ahead"

LEMMA TaskKeepsWork ==
    ASSUME LaunchInv, NEW t \in Tasks, Proceed(t)
    PROVE  Kept
  <1>1. TypeOK /\ job[t] \in Job /\ JobShape(t) /\ JobWorkspace(t)
    BY DEF LaunchInv, JobInv, TypeOK
  <1>2. CASE UNCHANGED <<trees, branches>>
    BY <1>2 DEF Kept
  <1>3. CASE Worktree(t)
    BY <1>1, <1>3 DEF Worktree, FirstFree, Free, Kept, TypeOK
  <1>4. CASE Snapshot(t)
    <2>1. UNCHANGED branches
          /\ \E d \in {"clean", "copied"} :
                trees' = [trees EXCEPT ![job[t].name] = IF @ = "dirty" THEN @ ELSE d]
      BY <1>4 DEF Snapshot
    <2> QED
      BY <1>1, <2>1 DEF Kept, TypeOK
  <1>5. CASE Discard(t)
    <2>1. /\ UNCHANGED branches /\ job[t].pc = "discard"
          /\ trees' = trees \/ trees' = [trees EXCEPT ![job[t].name] = "clean"]
      BY <1>5 DEF Discard, At
    <2>2. \A n \in Names : n = job[t].name /\ trees[n] = "dirty" => Disputed(n)
      BY <1>1, <2>1, LaunchesAssumption DEF JobWorkspace, JobShape
    <2> QED
      BY <1>1, <2>1, <2>2 DEF Kept, TypeOK
  <1>6. CASE Clean(t)
    BY <1>1, <1>6 DEF Clean, Removable, Kept, TypeOK
  <1>7. CASE Branch(t)
    BY <1>1, <1>7 DEF Branch, Deletable, Kept, TypeOK
  <1>8. CASE Acquire(t) \/ NoWorktree(t)
    BY <1>2, <1>8 DEF Acquire, NoWorktree, durableVars
  <1>9. CASE Create(t) \/ CreateFails(t) \/ RestoreFork(t) \/ Configure(t) \/ Activate(t)
    BY <1>2, <1>9 DEF Create, CreateFails, RestoreFork, Configure, Activate, durableVars
  <1>10. CASE Kick(t) \/ Finish(t) \/ Stop(t) \/ Erase(t) \/ Reselect(t)
    BY <1>2, <1>10 DEF Kick, Finish, Stop, Erase, Reselect, durableVars
  <1> QED
    BY <1>3, <1>4, <1>5, <1>6, <1>7, <1>8, <1>9, <1>10 DEF Proceed

LEMMA StepKeepsWork ==
    ASSUME LaunchInv, Next
    PROVE  Kept
  <1>1. TypeOK
    BY DEF LaunchInv
  <1>2. CASE UNCHANGED <<trees, branches>>
    BY <1>2 DEF Kept
  <1>3. CASE \E t \in Tasks : Proceed(t)
    BY <1>3, TaskKeepsWork
  <1>4. CASE \E s \in Sessions : AgentWorks(s)
    BY <1>1, <1>4 DEF AgentWorks, Kept, TypeOK
  <1>5. CASE \E s \in Sessions : Restore(s)
    BY <1>1, <1>5 DEF Restore, Recreated, Kept, TypeOK
  <1>6. CASE UserAsks \/ (\E c \in Creates : CreateChild(c)) \/ (\E c \in Forks : ForkSession(c))
    <2>1. ASSUME NEW t \in Tasks, NEW forks \in BOOLEAN, NEW c \in Calls \cup {None}, Ask(t, forks, c)
          PROVE  UNCHANGED <<trees, branches>>
      BY <2>1 DEF Ask, durableVars
    <2>2. UNCHANGED <<trees, branches>>
      BY <1>6, <2>1 DEF UserAsks, CreateChild, ForkSession, durableVars, Tasks, Calls
    <2> QED
      BY <1>2, <2>2
  <1>7. CASE Crash
    BY <1>2, <1>7 DEF Crash, durableVars
  <1>8. CASE \E s \in Sessions : Delete(s)
    <2>1. CASE UNCHANGED <<trees, branches>>
      BY <1>2, <2>1
    <2>2. CASE \E s \in Sessions : Reclaimed(s)
      BY <1>1, <2>2 DEF Reclaimed, Removable, Kept, TypeOK
    <2> QED
      BY <1>8, <2>1, <2>2 DEF Delete
  <1> QED
    BY <1>3, <1>4, <1>5, <1>6, <1>7, <1>8 DEF Next

\* No step takes the uncommitted work of an agent, nor its commits, unless the worktree
\* was given to another launch since (is_clean, delete_branch_if_merged,
\* discard_snapshot_state).
THEOREM AgentsKeepTheirWork == Spec => WorkKept
  <1>1. ASSUME LaunchInv, [Next]_vars
        PROVE  [\A n \in Names : /\ trees[n] = "dirty" => trees'[n] = "dirty" \/ Disputed(n)
                                 /\ branches[n] = "ahead" => branches'[n] = "ahead"]_vars
    BY <1>1, StepKeepsWork DEF Kept
  <1> QED
    BY <1>1, LaunchInvariant, PTL DEF Spec, WorkKept

=============================================================================
