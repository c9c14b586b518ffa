----------------------- MODULE SessionLifecycleProofs -----------------------
(***************************************************************************)
(* Theorems about SessionLifecycle, for every set of sessions and every    *)
(* bound.                                                                  *)
(*                                                                         *)
(* That no hidden session has a runtime rests on the lifecycle lock: who   *)
(* is about to change a row, a record or the map holds it (Exclusive), and *)
(* so what the holder looked at stays true until it acts (Launching,       *)
(* Unhooked).  The other conjuncts of LifeInv say what the local variables *)
(* of an operation may be while it is under way.                           *)
(***************************************************************************)
EXTENDS SessionLifecycle, TLAPS

LockedPc == {"created", "stop", "capture", "remove", "erase", "rebuild",
             "apply", "clear"}

LaunchPc == {"created", "close", "unmap", "dispose"}
FamilyPc == {"pick", "stop", "capture", "remove", "erase", "reclaim"}

\* An operation under way is about a session.
Engaged(t) == ~At(t, "idle") => job[t].root \in Sessions /\ job[t].cur \in Sessions

\* Only the service thread unarchives, with the record it read.
Rebuilding(t) ==
    job[t].pc \in {"rebuild", "apply", "clear"} =>
        t = Service /\ job[t].saved \in Record

\* Whoever changes rows, records or families holds the lock.
Exclusive(t) ==
    /\ job[t].pc \in LockedPc \/ job[t].todo # {} => lifecycle = t
    /\ job[t].todo # {} => job[t].pc \in FamilyPc

\* The session being launched stays visible until its runtime is entered; only
\* an automation run deletes its session without the lock.
Launching(t) ==
    /\ job[t].pc \in LaunchPc => job[t].op \in {"launch", "automation"}
    /\ job[t].op = "automation" => job[t].root \in Automations
    /\ At(t, "created") /\ job[t].root \notin Automations => Visible(job[t].root)

\* A session being archived or deleted has lost its runtime, and gets no other.
Unhooked(t) ==
    job[t].pc \in {"stop", "capture", "erase"} => sessions[job[t].cur] = "none"

TaskInv(t) ==
    Engaged(t) /\ Rebuilding(t) /\ Exclusive(t) /\ Launching(t) /\ Unhooked(t)
JobInv == \A t \in Tasks : TaskInv(t)

Unborn == \A s \in Sessions : rows[s] = "unborn" => archive[s] = None

LifeInv == TypeOK /\ JobInv /\ Unborn /\ HiddenNotRunning

-----------------------------------------------------------------------------
(* What the helpers return.                                                *)

LEMMA IdleJob == Idle \in Job
  BY DEF Idle, Job, Op, Pc, Runtime

\* The walk along the parent links stays among the sessions.
LEMMA TargetsType ==
    ASSUME NEW s \in Sessions, NEW deep \in BOOLEAN
    PROVE  Targets(s, deep) \in SUBSET Sessions
  <1>1. Descendants(s) \in SUBSET Sessions
    BY DEF Descendants
  <1> QED  BY <1>1 DEF Targets

\* A task moves on: only its own place changes.
LEMMA GotoJob ==
    ASSUME NEW t \in Tasks, NEW p \in Pc, job \in [Tasks -> Job], Goto(t, p)
    PROVE  /\ job' \in [Tasks -> Job]
           /\ \A u \in Tasks \ {t} : job'[u] = job[u]
           /\ job'[t] = [job[t] EXCEPT !.pc = p]
  BY DEF Goto, Job

\* An operation returns: nothing of it remains.
LEMMA EndJob ==
    ASSUME NEW t \in Tasks, TypeOK, End(t)
    PROVE  /\ job' \in [Tasks -> Job]
           /\ \A u \in Tasks \ {t} : job'[u] = job[u]
           /\ job'[t] = Idle
           /\ lifecycle' = IF lifecycle = t THEN None ELSE lifecycle
           /\ lifecycle' \in Tasks \cup {None}
           /\ restoring' = restoring \ job[t].held
           /\ restoring' \in SUBSET Sessions
  BY IdleJob DEF End, TypeOK

\* One more fault keeps to the bound.
LEMMA FaultType ==
    ASSUME faults \in 0..MaxFaults, Fault
    PROVE  faults' \in 0..MaxFaults
  BY LifecycleAssumption DEF Fault, LifecycleAssumption

\* What a step of one task leaves alone for the others: their places, and while
\* one of them holds the lock, its lock and what it looked at.
Undisturbed(t) ==
    \A u \in Tasks \ {t} :
        /\ job'[u] = job[u]
        /\ lifecycle = u =>
            /\ lifecycle' = u
            /\ \A s \in Sessions \ Automations : Visible(s) => Visible(s)'
            /\ \A s \in Sessions : sessions[s] = "none" => sessions'[s] = "none"

LEMMA OthersKeep ==
    ASSUME NEW t \in Tasks, JobInv, Undisturbed(t)
    PROVE  \A u \in Tasks \ {t} : TaskInv(u)'
  <1> SUFFICES ASSUME NEW u \in Tasks \ {t} PROVE TaskInv(u)'
    OBVIOUS
  <1>1. TaskInv(u) /\ job'[u] = job[u]
    BY DEF JobInv, Undisturbed
  <1>2. Engaged(u)' /\ Rebuilding(u)'
    BY <1>1 DEF TaskInv, Engaged, Rebuilding, At
  <1>3. Exclusive(u)'
    BY <1>1 DEF TaskInv, Exclusive, Undisturbed
  <1>4. Launching(u)'
    <2>1. /\ job[u].op = "automation" => job[u].root \in Automations
          /\ job[u].pc \in LaunchPc => job[u].op \in {"launch", "automation"}
      BY <1>1 DEF TaskInv, Launching
    <2>2. ASSUME At(u, "created"), job[u].root \notin Automations
          PROVE  Visible(job[u].root)'
      <3>1. lifecycle = u /\ job[u].root \in Sessions /\ Visible(job[u].root)
        BY <1>1, <2>2 DEF TaskInv, Engaged, Exclusive, Launching, At, LockedPc
      <3> QED  BY <1>1, <2>2, <3>1 DEF Undisturbed, Visible, Present
    <2> QED  BY <1>1, <2>1, <2>2 DEF Launching, At, Visible, Present
  <1>5. Unhooked(u)'
    <2>1. SUFFICES ASSUME job[u].pc \in {"stop", "capture", "erase"}
                   PROVE  sessions'[job[u].cur] = "none"
      BY <1>1 DEF Unhooked
    <2>2. /\ lifecycle = u /\ job[u].cur \in Sessions
          /\ sessions[job[u].cur] = "none"
      BY <1>1, <2>1 DEF TaskInv, Engaged, Exclusive, Unhooked, At, LockedPc
    <2> QED  BY <2>2 DEF Undisturbed
  <1> QED  BY <1>2, <1>3, <1>4, <1>5 DEF TaskInv

\* A task that has returned is bound by nothing.
LEMMA Rests ==
    ASSUME NEW t \in Tasks, job'[t] = Idle
    PROVE  TaskInv(t)'
  BY DEF Idle, TaskInv, Engaged, Rebuilding, Exclusive, Launching, Unhooked, At,
         LockedPc, LaunchPc

-----------------------------------------------------------------------------
(* Launching.                                                              *)

LEMMA LaunchSafe ==
    ASSUME LifeInv, NEW t \in Tasks, NEW o \in {"launch", "automation"},
           NEW s \in Sessions, LaunchAs(t, o, s),
           o = "automation" => s \in Automations
    PROVE  LifeInv'
  <1> DEFINE begun == [Idle EXCEPT !.op = o, !.root = s, !.cur = s, !.deep = FALSE,
                                   !.pc = "created"]
  <1>1. begun \in Job /\ begun.op = o /\ begun.root = s /\ begun.cur = s
        /\ begun.pc = "created" /\ begun.todo = {}
    BY DEF Idle, Job, Op, Pc, Runtime
  <1>2. job' = [job EXCEPT ![t] = begun]
    BY DEF LaunchAs, Begin
  <1> HIDE DEF begun
  <1>3. /\ lifecycle = None /\ lifecycle' = t /\ rows[s] = "unborn"
        /\ rows' = [rows EXCEPT ![s] = "present"]
        /\ tree' = [tree EXCEPT ![s] = {}]
        /\ UNCHANGED <<archive, sessions, orphaned, restoring, faults>>
    BY DEF LaunchAs
  <1>4. TypeOK'
    BY <1>1, <1>2, <1>3 DEF LifeInv, TypeOK
  <1>5. \A u \in Tasks \ {t} : TaskInv(u)'
    <2>1. Undisturbed(t)
      BY <1>2, <1>3, LifecycleAssumption
         DEF LifeInv, TypeOK, Undisturbed, LifecycleAssumption
    <2> QED  BY <2>1, OthersKeep DEF LifeInv
  <1>6. job'[t] = begun
    BY <1>2 DEF LifeInv, TypeOK
  <1>7. TaskInv(t)'
    BY <1>1, <1>3, <1>6 DEF LifeInv, TypeOK, Unborn, TaskInv, Engaged, Rebuilding,
       Exclusive, Launching, Unhooked, At, Visible, Present
  <1>8. Unborn' /\ HiddenNotRunning'
    BY <1>3 DEF LifeInv, TypeOK, Unborn, HiddenNotRunning, Visible, Present
  <1> QED  BY <1>4, <1>5, <1>7, <1>8 DEF LifeInv, JobInv

LEMMA CreatedSafe ==
    ASSUME LifeInv, NEW t \in Tasks, Created(t)
    PROVE  LifeInv'
  <1> DEFINE s == job[t].root
  <1>1. /\ lifecycle = t /\ lifecycle' = None /\ s \in Sessions
        /\ s \notin Automations => Visible(s)
        /\ sessions' = [sessions EXCEPT ![s] = "live"]
        /\ UNCHANGED <<durableVars, orphaned, restoring, faults>>
    BY DEF Created, LifeInv, JobInv, TaskInv, Engaged, Exclusive, Launching, At,
           LockedPc
  <1>2. /\ job' \in [Tasks -> Job]
        /\ \A u \in Tasks \ {t} : job'[u] = job[u]
        /\ job'[t] \in {Idle, [job[t] EXCEPT !.pc = "close"]}
    BY IdleJob DEF Created, LifeInv, TypeOK, Job, Pc
  <1>3. TypeOK'
    BY <1>1, <1>2 DEF LifeInv, TypeOK, durableVars, Runtime
  <1>4. \A u \in Tasks \ {t} : TaskInv(u)'
    <2>1. Undisturbed(t)
      BY <1>1, <1>2 DEF Undisturbed
    <2> QED  BY <2>1, OthersKeep DEF LifeInv
  <1>5. TaskInv(t)'
    <2>1. TaskInv(t) /\ job[t] \in Job /\ At(t, "created")
      BY DEF LifeInv, JobInv, TypeOK, Created
    <2>2. CASE job'[t] = Idle
      BY <2>2, Rests
    <2>3. CASE job'[t] = [job[t] EXCEPT !.pc = "close"]
      <3>1. job[t].todo = {}
        BY <2>1 DEF TaskInv, Exclusive, At, FamilyPc
      <3> QED BY <1>1, <2>1, <2>3, <3>1 DEF TaskInv, Engaged, Rebuilding, Exclusive,
              Launching, Unhooked, At, LockedPc, LaunchPc, Job
    <2> QED  BY <1>2, <2>2, <2>3
  <1>6. Unborn' /\ HiddenNotRunning'
    BY <1>1 DEF LifeInv, TypeOK, durableVars, Unborn, HiddenNotRunning, Visible,
                Present
  <1> QED  BY <1>3, <1>4, <1>5, <1>6 DEF LifeInv, JobInv

-----------------------------------------------------------------------------
(* Steps that leave rows and records alone and give no session a runtime.  *)

LEMMA QuietSafe ==
    ASSUME LifeInv, NEW t \in Tasks, TypeOK', TaskInv(t)',
           UNCHANGED <<rows, archive>>,
           \A u \in Tasks \ {t} : job'[u] = job[u],
           \A u \in Tasks \ {t} : lifecycle = u => lifecycle' = u,
           \A s \in Sessions : sessions[s] = "none" => sessions'[s] = "none"
    PROVE  LifeInv'
  <1>1. Undisturbed(t)
    BY DEF Undisturbed, Visible, Present
  <1>2. \A u \in Tasks \ {t} : TaskInv(u)'
    BY <1>1, OthersKeep DEF LifeInv
  <1>3. Unborn' /\ HiddenNotRunning'
    BY DEF LifeInv, Unborn, HiddenNotRunning, Visible, Present
  <1> QED  BY <1>2, <1>3 DEF LifeInv, JobInv

\* A task that only moves on to a place where less is known of it.
FreePc == {"close", "unmap", "dispose", "drop", "list", "guard", "lock",
           "restore", "install", "discard", "pick", "reclaim"}

LEMMA MovesOn ==
    ASSUME LifeInv, NEW t \in Tasks, NEW p \in FreePc, Goto(t, p),
           ~At(t, "idle"), job[t].todo # {} => p \in FamilyPc,
           p \in LaunchPc => job[t].pc \in LaunchPc,
           lifecycle' = lifecycle
    PROVE  TaskInv(t)' /\ job' \in [Tasks -> Job]
           /\ \A u \in Tasks \ {t} : job'[u] = job[u]
  <1>1. p \in Pc
    BY DEF FreePc, Pc
  <1>2. /\ job' \in [Tasks -> Job]
        /\ \A u \in Tasks \ {t} : job'[u] = job[u]
        /\ job'[t] = [job[t] EXCEPT !.pc = p]
    BY <1>1, GotoJob DEF LifeInv, TypeOK
  <1>3. TaskInv(t) /\ job[t] \in Job
    BY DEF LifeInv, JobInv, TypeOK
  <1>4. /\ job'[t].pc = p /\ job'[t].root = job[t].root /\ job'[t].cur = job[t].cur
        /\ job'[t].todo = job[t].todo /\ job'[t].op = job[t].op
    BY <1>2, <1>3 DEF Job
  <1>5. TaskInv(t)'
    BY <1>3, <1>4 DEF TaskInv, Engaged, Rebuilding, Exclusive, Launching, Unhooked,
                      At, LockedPc, FreePc, LaunchPc
  <1> QED  BY <1>2, <1>5

LEMMA CloseSafe ==
    ASSUME LifeInv, NEW t \in Tasks, Close(t)
    PROVE  LifeInv'
  <1> DEFINE s == job[t].root
             p == IF sessions[s] = "none" THEN "dispose" ELSE "unmap"
  <1>1. /\ Goto(t, p) /\ p \in FreePc /\ ~At(t, "idle") /\ job[t].todo = {}
        /\ UNCHANGED <<durableVars, orphaned, lockVars, faults>>
        /\ sessions' = [sessions EXCEPT ![s] = IF @ = "live" THEN "gone" ELSE @]
        /\ job[t].pc \in LaunchPc
    BY DEF Close, FreePc, LaunchPc, At, LifeInv, JobInv, TaskInv, Exclusive, FamilyPc
  <1>2. TaskInv(t)' /\ job' \in [Tasks -> Job] /\ \A u \in Tasks \ {t} : job'[u] = job[u]
    BY <1>1, MovesOn DEF lockVars
  <1>3. /\ \A r \in Sessions : sessions[r] = "none" => sessions'[r] = "none"
        /\ sessions' \in [Sessions -> Runtime]
    BY <1>1 DEF LifeInv, TypeOK, Runtime
  <1>4. TypeOK'
    BY <1>1, <1>2, <1>3 DEF LifeInv, TypeOK, durableVars, lockVars
  <1> QED  BY <1>1, <1>2, <1>3, <1>4, QuietSafe DEF durableVars, lockVars

\* Taking an entry out of the map.
LEMMA UnmappedMap ==
    ASSUME LifeInv, NEW s \in Sessions, Unmapped(s)
    PROVE  /\ sessions' \in [Sessions -> Runtime] /\ orphaned' \in SUBSET Sessions
           /\ \A r \in Sessions : sessions[r] = "none" => sessions'[r] = "none"
  BY DEF Unmapped, LifeInv, TypeOK, Runtime

LEMMA UnmapSafe ==
    ASSUME LifeInv, NEW t \in Tasks, Unmap(t) \/ Drop(t)
    PROVE  LifeInv'
  <1>1. PICK p \in FreePc : Goto(t, p) /\ (p \in LaunchPc => job[t].pc \in LaunchPc)
    BY DEF Unmap, Drop, FreePc, LaunchPc, At
  <1>2. /\ ~At(t, "idle") /\ job[t].todo = {} /\ job[t].root \in Sessions
        /\ Unmapped(job[t].root)
        /\ UNCHANGED <<durableVars, lockVars, faults>>
    BY DEF Unmap, Drop, At, LifeInv, JobInv, TaskInv, Engaged, Exclusive, FamilyPc
  <1>3. TaskInv(t)' /\ job' \in [Tasks -> Job] /\ \A u \in Tasks \ {t} : job'[u] = job[u]
    BY <1>1, <1>2, MovesOn DEF lockVars
  <1>4. /\ sessions' \in [Sessions -> Runtime] /\ orphaned' \in SUBSET Sessions
        /\ \A r \in Sessions : sessions[r] = "none" => sessions'[r] = "none"
    BY <1>2, UnmappedMap
  <1>5. TypeOK'
    BY <1>2, <1>3, <1>4 DEF LifeInv, TypeOK, durableVars, lockVars
  <1> QED  BY <1>2, <1>3, <1>4, <1>5, QuietSafe DEF durableVars, lockVars

LEMMA DisposeSafe ==
    ASSUME LifeInv, NEW t \in Tasks, Dispose(t)
    PROVE  LifeInv'
  <1> DEFINE s == job[t].root
  <1>1. /\ s \in Sessions /\ job[t].todo = {} /\ job[t] \in Job /\ TaskInv(t)
        /\ job[t].op \in {"launch", "automation"} /\ ~At(t, "idle")
        /\ UNCHANGED <<tree, sessions, orphaned>>
    BY DEF Dispose, At, LifeInv, TypeOK, JobInv, TaskInv, Engaged, Exclusive,
           Launching, FamilyPc, LaunchPc
  <1>2. CASE job[t].op = "launch"
    <2> DEFINE moved == [job[t] EXCEPT !.op = "compensate", !.pc = "guard"]
    <2>1. /\ job' = [job EXCEPT ![t] = moved]
          /\ UNCHANGED <<rows, archive, lockVars, faults>>
      BY <1>2 DEF Dispose, LifeInv, TypeOK
    <2>2. /\ moved \in Job /\ moved.root = job[t].root /\ moved.cur = job[t].cur
          /\ moved.todo = job[t].todo /\ moved.pc = "guard" /\ moved.op = "compensate"
      BY <1>1 DEF Job, Op, Pc
    <2> HIDE DEF moved
    <2>3. /\ job' \in [Tasks -> Job] /\ job'[t] = moved
          /\ \A u \in Tasks \ {t} : job'[u] = job[u]
      BY <2>1, <2>2 DEF LifeInv, TypeOK
    <2>4. TaskInv(t)'
      BY <1>1, <2>2, <2>3 DEF TaskInv, Engaged, Rebuilding, Exclusive, Launching,
         Unhooked, At, LockedPc, LaunchPc
    <2>5. TypeOK'
      BY <1>1, <2>1, <2>3 DEF LifeInv, TypeOK, lockVars
    <2> QED  BY <1>1, <2>1, <2>3, <2>4, <2>5, QuietSafe DEF lockVars
  <1>3. CASE job[t].op = "automation"
    <2>1. /\ s \in Automations /\ End(t)
          /\ \/ /\ rows' = [rows EXCEPT ![s] = "deleted"]
                /\ archive' = [archive EXCEPT ![s] = None]
                /\ UNCHANGED faults
             \/ Fault /\ UNCHANGED <<rows, archive>>
      BY <1>1, <1>3 DEF Dispose, TaskInv, Launching
    <2>2. /\ job' \in [Tasks -> Job] /\ job'[t] = Idle
          /\ \A u \in Tasks \ {t} : job'[u] = job[u]
          /\ lifecycle' = IF lifecycle = t THEN None ELSE lifecycle
          /\ lifecycle' \in Tasks \cup {None} /\ restoring' \in SUBSET Sessions
      BY <2>1, EndJob DEF LifeInv
    <2>3. faults' \in 0..MaxFaults
      BY <2>1, FaultType DEF LifeInv, TypeOK
    <2>4. TypeOK'
      BY <1>1, <2>1, <2>2, <2>3 DEF LifeInv, TypeOK
    <2>5. \A r \in Sessions \ Automations : rows'[r] = rows[r] /\ archive'[r] = archive[r]
      BY <2>1 DEF LifeInv, TypeOK
    <2>6. \A u \in Tasks \ {t} : TaskInv(u)'
      <3>1. Undisturbed(t)
        BY <1>1, <2>2, <2>5 DEF Undisturbed, Visible, Present
      <3> QED  BY <3>1, OthersKeep DEF LifeInv
    <2>7. Unborn' /\ HiddenNotRunning'
      BY <1>1, <2>1, <2>5 DEF LifeInv, TypeOK, Unborn, HiddenNotRunning, Visible,
                              Present
    <2> QED  BY <2>2, <2>4, <2>6, <2>7, Rests DEF LifeInv, JobInv
  <1> QED  BY <1>1, <1>2, <1>3

-----------------------------------------------------------------------------
(* Guards, the lock, and resuming.                                         *)

\* Returning, with the map, rows and records as they are.
LEMMA EndSafe ==
    ASSUME LifeInv, NEW t \in Tasks, End(t),
           UNCHANGED <<rows, archive, sessions, orphaned>>,
           tree' \in [Sessions -> (SUBSET Edits) \cup {None}],
           faults' \in 0..MaxFaults
    PROVE  LifeInv'
  <1>1. /\ job' \in [Tasks -> Job] /\ job'[t] = Idle
        /\ \A u \in Tasks \ {t} : job'[u] = job[u]
        /\ lifecycle' = IF lifecycle = t THEN None ELSE lifecycle
        /\ lifecycle' \in Tasks \cup {None} /\ restoring' \in SUBSET Sessions
    BY EndJob DEF LifeInv
  <1>2. TypeOK'
    BY <1>1 DEF LifeInv, TypeOK
  <1> QED  BY <1>1, <1>2, Rests, QuietSafe

\* Moving on to a place where less is known.
LEMMA GoSafe ==
    ASSUME LifeInv, NEW t \in Tasks, NEW p \in FreePc, Goto(t, p),
           ~At(t, "idle"), job[t].todo # {} => p \in FamilyPc,
           p \in LaunchPc => job[t].pc \in LaunchPc,
           UNCHANGED <<rows, archive, sessions, orphaned, lockVars>>,
           tree' \in [Sessions -> (SUBSET Edits) \cup {None}],
           faults' \in 0..MaxFaults
    PROVE  LifeInv'
  <1>1. TaskInv(t)' /\ job' \in [Tasks -> Job] /\ \A u \in Tasks \ {t} : job'[u] = job[u]
    BY MovesOn DEF lockVars
  <1>2. TypeOK'
    BY <1>1 DEF LifeInv, TypeOK, lockVars
  <1> QED  BY <1>1, <1>2, QuietSafe DEF lockVars

LEMMA GuardSafe ==
    ASSUME LifeInv, NEW t \in Tasks, Guard(t)
    PROVE  LifeInv'
  <1> DEFINE s == job[t].root
             p == IF job[t].op = "resume" THEN "restore" ELSE "lock"
             guarded == [job[t] EXCEPT !.held = {s}, !.pc = p]
  <1>1. /\ s \in Sessions /\ job[t].todo = {} /\ job[t] \in Job /\ TaskInv(t)
        /\ ~At(t, "idle")
        /\ UNCHANGED <<durableVars, sessions, orphaned, faults>>
        /\ tree' \in [Sessions -> (SUBSET Edits) \cup {None}] /\ faults' \in 0..MaxFaults
    BY DEF Guard, At, LifeInv, TypeOK, JobInv, TaskInv, Engaged, Exclusive,
           FamilyPc, durableVars
  <1>2. CASE s \in restoring /\ job[t].op = "compensate"
    <2>1. Goto(t, "reclaim") /\ UNCHANGED lockVars
      BY <1>2 DEF Guard
    <2>2. "reclaim" \in FreePc /\ "reclaim" \notin LaunchPc
      BY DEF FreePc, LaunchPc
    <2> QED  BY <1>1, <2>1, <2>2, GoSafe DEF durableVars
  <1>3. CASE s \in restoring /\ job[t].op # "compensate"
    <2>1. End(t)
      BY <1>3 DEF Guard
    <2> QED  BY <1>1, <2>1, EndSafe DEF durableVars
  <1>4. CASE s \notin restoring
    <2>1. /\ restoring' = restoring \cup {s} /\ lifecycle' = lifecycle
          /\ job' = [job EXCEPT ![t] = guarded]
      BY <1>4 DEF Guard, LifeInv, TypeOK
    <2>2. /\ guarded \in Job /\ guarded.root = s /\ guarded.cur = job[t].cur
          /\ guarded.todo = {} /\ guarded.pc = p /\ guarded.op = job[t].op
          /\ p \in {"restore", "lock"}
      <3>1. p \in {"restore", "lock"} /\ p \in Pc /\ {s} \in SUBSET Sessions
        BY <1>1 DEF Pc
      <3> HIDE DEF p
      <3> QED  BY <1>1, <3>1 DEF Job
    <2> HIDE DEF guarded, p
    <2>3. /\ job' \in [Tasks -> Job] /\ job'[t] = guarded
          /\ \A u \in Tasks \ {t} : job'[u] = job[u]
      BY <2>1, <2>2 DEF LifeInv, TypeOK
    <2>4. TaskInv(t)'
      BY <1>1, <2>2, <2>3 DEF TaskInv, Engaged, Rebuilding, Exclusive, Launching,
         Unhooked, At, LockedPc, LaunchPc
    <2>5. TypeOK'
      BY <1>1, <2>1, <2>3 DEF LifeInv, TypeOK, durableVars
    <2> QED  BY <1>1, <2>1, <2>3, <2>4, <2>5, QuietSafe DEF durableVars
  <1> QED  BY <1>2, <1>3, <1>4

LEMMA LockSafe ==
    ASSUME LifeInv, NEW t \in Tasks, Lock(t)
    PROVE  LifeInv'
  <1> DEFINE s == job[t].root
             extra == Targets(s, job[t].deep) \ {s}
             picked == [job[t] EXCEPT !.pc = "pick", !.todo = extra \cup {s},
                                      !.held = @ \cup extra]
  <1>1. /\ s \in Sessions /\ job[t] \in Job /\ TaskInv(t) /\ lifecycle = None
        /\ ~At(t, "idle")
        /\ UNCHANGED <<durableVars, sessions, orphaned>>
        /\ tree' \in [Sessions -> (SUBSET Edits) \cup {None}]
    BY DEF Lock, At, LifeInv, TypeOK, JobInv, TaskInv, Engaged, durableVars
  <1>2. extra \in SUBSET Sessions
    <2>1. job[t].deep \in BOOLEAN
      BY <1>1 DEF Job
    <2> QED  BY <1>1, <2>1, TargetsType
  <1> HIDE DEF extra
  <1>3. CASE End(t) /\ (UNCHANGED faults \/ Fault)
    <2>1. faults' \in 0..MaxFaults
      BY <1>3, FaultType DEF LifeInv, TypeOK
    <2> QED  BY <1>1, <1>3, <2>1, EndSafe DEF durableVars
  <1>4. CASE /\ lifecycle' = t /\ restoring' = restoring \cup extra
             /\ job' = [job EXCEPT ![t] = picked] /\ UNCHANGED faults
    <2>1. /\ picked \in Job /\ picked.root = s /\ picked.cur = job[t].cur
          /\ picked.pc = "pick" /\ picked.op = job[t].op
      BY <1>1, <1>2 DEF Job, Pc
    <2> HIDE DEF picked
    <2>2. /\ job' \in [Tasks -> Job] /\ job'[t] = picked
          /\ \A u \in Tasks \ {t} : job'[u] = job[u]
      BY <1>4, <2>1 DEF LifeInv, TypeOK
    <2>3. TaskInv(t)'
      BY <1>1, <1>4, <2>1, <2>2 DEF TaskInv, Engaged, Rebuilding, Exclusive,
         Launching, Unhooked, At, LockedPc, LaunchPc, FamilyPc
    <2>4. TypeOK'
      BY <1>1, <1>2, <1>4, <2>2 DEF LifeInv, TypeOK, durableVars
    <2>5. \A u \in Tasks \ {t} : lifecycle # u
      BY <1>1, LifecycleAssumption DEF LifecycleAssumption
    <2> QED  BY <1>1, <2>2, <2>3, <2>4, <2>5, QuietSafe DEF durableVars
  <1>5. \/ End(t) /\ (UNCHANGED faults \/ Fault)
        \/ /\ lifecycle' = t /\ restoring' = restoring \cup extra
           /\ job' = [job EXCEPT ![t] = picked] /\ UNCHANGED faults
    BY DEF Lock, extra, LifeInv, TypeOK
  <1> QED  BY <1>3, <1>4, <1>5

\* An operation that starts at a place where nothing is known yet.
LEMMA BeginSafe ==
    ASSUME LifeInv, NEW t \in Tasks, NEW s \in Sessions, NEW deep \in BOOLEAN,
           NEW o \in {"resume", "archive", "delete"},
           NEW p \in {"list", "drop", "guard"}, Begin(t, o, s, deep, p),
           UNCHANGED <<durableVars, sessions, orphaned, lockVars, faults>>
    PROVE  LifeInv'
  <1> DEFINE begun == [Idle EXCEPT !.op = o, !.root = s, !.cur = s, !.deep = deep,
                                   !.pc = p]
  <1>1. /\ begun \in Job /\ begun.op = o /\ begun.root = s /\ begun.cur = s
        /\ begun.pc = p /\ begun.todo = {}
    BY DEF Idle, Job, Op, Pc, Runtime
  <1>2. job' = [job EXCEPT ![t] = begun]
    BY DEF Begin
  <1> HIDE DEF begun
  <1>3. /\ job' \in [Tasks -> Job] /\ job'[t] = begun
        /\ \A u \in Tasks \ {t} : job'[u] = job[u]
    BY <1>1, <1>2 DEF LifeInv, TypeOK
  <1>4. TaskInv(t)'
    BY <1>1, <1>3 DEF TaskInv, Engaged, Rebuilding, Exclusive, Launching, Unhooked,
                      At, LockedPc, LaunchPc
  <1>5. TypeOK'
    BY <1>3 DEF LifeInv, TypeOK, durableVars, lockVars
  <1> QED  BY <1>3, <1>4, <1>5, QuietSafe DEF durableVars, lockVars

LEMMA ListSafe ==
    ASSUME LifeInv, NEW t \in Tasks, List(t)
    PROVE  LifeInv'
  <1>1. /\ ~At(t, "idle") /\ job[t].todo = {}
        /\ UNCHANGED <<durableVars, sessions, orphaned>>
        /\ tree' \in [Sessions -> (SUBSET Edits) \cup {None}]
        /\ UNCHANGED faults \/ Fault
    BY DEF List, At, LifeInv, TypeOK, JobInv, TaskInv, Exclusive, FamilyPc, durableVars
  <1>2. faults' \in 0..MaxFaults
    BY <1>1, FaultType DEF LifeInv, TypeOK
  <1>3. CASE End(t)
    BY <1>1, <1>2, <1>3, EndSafe DEF durableVars
  <1>4. CASE Goto(t, "guard") /\ UNCHANGED lockVars
    <2>1. "guard" \in FreePc /\ "guard" \notin LaunchPc
      BY DEF FreePc, LaunchPc
    <2> QED  BY <1>1, <1>2, <1>4, <2>1, GoSafe DEF durableVars
  <1> QED  BY <1>3, <1>4 DEF List

LEMMA RestoreSafe ==
    ASSUME LifeInv, NEW t \in Tasks, Restore(t)
    PROVE  LifeInv'
  <1> DEFINE s == job[t].root
  <1>1. /\ s \in Sessions /\ job[t].todo = {} /\ job[t] \in Job /\ TaskInv(t)
        /\ ~At(t, "idle")
        /\ UNCHANGED <<rows, archive, sessions, orphaned>>
        /\ tree' = tree \/ tree' = [tree EXCEPT ![s] = {}]
        /\ UNCHANGED faults \/ Fault
        /\ End(t) \/ \E r \in {"live", "unavailable"} : Restored(t, r)
    BY DEF Restore, At, LifeInv, TypeOK, JobInv, TaskInv, Engaged, Exclusive, FamilyPc
  <1>2. /\ tree' \in [Sessions -> (SUBSET Edits) \cup {None}]
        /\ faults' \in 0..MaxFaults
    BY <1>1, FaultType DEF LifeInv, TypeOK
  <1>3. CASE End(t)
    BY <1>1, <1>2, <1>3, EndSafe
  <1>4. ASSUME NEW r \in {"live", "unavailable"}, Restored(t, r)
        PROVE  LifeInv'
    <2> DEFINE restored == [job[t] EXCEPT !.mine = r, !.pc = "install"]
    <2>1. job' = [job EXCEPT ![t] = restored] /\ UNCHANGED lockVars
      BY <1>4 DEF Restored, LifeInv, TypeOK
    <2>2. /\ restored \in Job /\ restored.root = s /\ restored.cur = job[t].cur
          /\ restored.todo = {} /\ restored.pc = "install" /\ restored.op = job[t].op
      BY <1>1 DEF Job, Pc, Runtime
    <2> HIDE DEF restored
    <2>3. /\ job' \in [Tasks -> Job] /\ job'[t] = restored
          /\ \A u \in Tasks \ {t} : job'[u] = job[u]
      BY <2>1, <2>2 DEF LifeInv, TypeOK
    <2>4. TaskInv(t)'
      BY <1>1, <2>2, <2>3 DEF TaskInv, Engaged, Rebuilding, Exclusive, Launching,
         Unhooked, At, LockedPc, LaunchPc
    <2>5. TypeOK'
      BY <1>1, <1>2, <2>1, <2>3 DEF LifeInv, TypeOK, lockVars
    <2> QED  BY <1>1, <2>1, <2>3, <2>4, <2>5, QuietSafe DEF lockVars
  <1> QED  BY <1>1, <1>3, <1>4

\* The one place besides a launch where a runtime enters the map.
LEMMA InstallSafe ==
    ASSUME LifeInv, NEW t \in Tasks, Install(t)
    PROVE  LifeInv'
  <1> DEFINE s == job[t].root
  <1>1. /\ s \in Sessions /\ job[t].todo = {} /\ job[t] \in Job /\ lifecycle = None
        /\ ~At(t, "idle")
        /\ UNCHANGED <<durableVars, orphaned>>
        /\ tree' \in [Sessions -> (SUBSET Edits) \cup {None}]
    BY DEF Install, At, LifeInv, TypeOK, JobInv, TaskInv, Engaged, Exclusive,
           FamilyPc, durableVars
  <1>2. CASE Goto(t, "discard") /\ UNCHANGED <<sessions, lockVars>>
             /\ (UNCHANGED faults \/ Fault)
    <2>1. "discard" \in FreePc /\ "discard" \notin LaunchPc
      BY DEF FreePc, LaunchPc
    <2>2. faults' \in 0..MaxFaults
      BY <1>2, FaultType DEF LifeInv, TypeOK
    <2> QED  BY <1>1, <1>2, <2>1, <2>2, GoSafe DEF durableVars
  <1>3. CASE /\ Visible(s) /\ sessions' = [sessions EXCEPT ![s] = job[t].mine]
             /\ End(t) /\ UNCHANGED faults
    <2>1. /\ job' \in [Tasks -> Job] /\ job'[t] = Idle
          /\ \A u \in Tasks \ {t} : job'[u] = job[u]
          /\ lifecycle' \in Tasks \cup {None} /\ restoring' \in SUBSET Sessions
      BY <1>3, EndJob DEF LifeInv
    <2>2. job[t].mine \in Runtime
      BY <1>1 DEF Job
    <2>3. TypeOK'
      BY <1>1, <1>3, <2>1, <2>2 DEF LifeInv, TypeOK, durableVars
    <2>4. \A u \in Tasks \ {t} : TaskInv(u)'
      <3>1. Undisturbed(t)
        BY <1>1, <2>1, LifecycleAssumption DEF Undisturbed, LifecycleAssumption
      <3> QED  BY <3>1, OthersKeep DEF LifeInv
    <2>5. Unborn' /\ HiddenNotRunning'
      BY <1>1, <1>3 DEF LifeInv, TypeOK, durableVars, Unborn, HiddenNotRunning,
                        Visible, Present
    <2> QED  BY <2>1, <2>3, <2>4, <2>5, Rests DEF LifeInv, JobInv
  <1> QED  BY <1>2, <1>3 DEF Install

LEMMA DiscardSafe ==
    ASSUME LifeInv, NEW t \in Tasks, Discard(t)
    PROVE  LifeInv'
  <1>1. /\ tree' \in [Sessions -> (SUBSET Edits) \cup {None}]
        /\ faults' \in 0..MaxFaults
    BY DEF Discard, LifeInv, TypeOK, durableVars
  <1> QED  BY <1>1, EndSafe DEF Discard, durableVars

-----------------------------------------------------------------------------
(* Steps of the task that holds the lock.                                  *)

LEMMA HolderSafe ==
    ASSUME LifeInv, NEW t \in Tasks, lifecycle = t, TypeOK', TaskInv(t)',
           \A u \in Tasks \ {t} : job'[u] = job[u],
           Unborn', HiddenNotRunning'
    PROVE  LifeInv'
  <1>1. Undisturbed(t)
    BY DEF Undisturbed
  <1> QED  BY <1>1, OthersKeep DEF LifeInv, JobInv

\* The holder moves on and keeps the lock.
LEMMA KeepsLock ==
    ASSUME LifeInv, NEW t \in Tasks, NEW p \in {"remove", "apply", "clear"},
           Goto(t, p), job[t].pc \in LockedPc, lifecycle' = lifecycle,
           job[t].todo # {} => p = "remove",
           p # "remove" => job[t].pc \in {"rebuild", "apply"}
    PROVE  TaskInv(t)' /\ job' \in [Tasks -> Job]
           /\ \A u \in Tasks \ {t} : job'[u] = job[u]
  <1>1. p \in Pc
    BY DEF Pc
  <1>2. /\ job' \in [Tasks -> Job]
        /\ \A u \in Tasks \ {t} : job'[u] = job[u]
        /\ job'[t] = [job[t] EXCEPT !.pc = p]
    BY <1>1, GotoJob DEF LifeInv, TypeOK
  <1>3. TaskInv(t) /\ job[t] \in Job
    BY DEF LifeInv, JobInv, TypeOK
  <1>4. /\ job'[t].pc = p /\ job'[t].root = job[t].root /\ job'[t].cur = job[t].cur
        /\ job'[t].todo = job[t].todo /\ job'[t].op = job[t].op
        /\ job'[t].saved = job[t].saved
    BY <1>2, <1>3 DEF Job
  <1>5. TaskInv(t)'
    BY <1>3, <1>4 DEF TaskInv, Engaged, Rebuilding, Exclusive, Launching, Unhooked,
                      At, LockedPc, LaunchPc, FamilyPc
  <1> QED  BY <1>2, <1>5

LEMMA PickSafe ==
    ASSUME LifeInv, NEW t \in Tasks, Pick(t)
    PROVE  LifeInv'
  <1>1. /\ job[t] \in Job /\ TaskInv(t) /\ At(t, "pick")
        /\ UNCHANGED <<durableVars, orphaned>>
        /\ tree' \in [Sessions -> (SUBSET Edits) \cup {None}]
    BY DEF Pick, LifeInv, TypeOK, JobInv, durableVars
  <1>2. CASE End(t) /\ UNCHANGED <<sessions, faults>>
    <2>1. faults' \in 0..MaxFaults
      BY <1>2 DEF LifeInv, TypeOK
    <2> QED  BY <1>1, <1>2, <2>1, EndSafe DEF durableVars
  <1>3. ASSUME NEW s \in job[t].todo, UNCHANGED faults \/ Fault,
               job' = [job EXCEPT ![t].todo = @ \ {s}],
               UNCHANGED <<sessions, lockVars>>
        PROVE  LifeInv'
    <2> DEFINE skipped == [job[t] EXCEPT !.todo = @ \ {s}]
    <2>1. job' = [job EXCEPT ![t] = skipped]
      BY <1>3 DEF LifeInv, TypeOK
    <2>2. /\ skipped \in Job /\ skipped.root = job[t].root /\ skipped.cur = job[t].cur
          /\ skipped.pc = "pick" /\ skipped.op = job[t].op
          /\ job[t].todo # {}
      BY <1>1, <1>3 DEF Job, At
    <2> HIDE DEF skipped
    <2>3. /\ job' \in [Tasks -> Job] /\ job'[t] = skipped
          /\ \A u \in Tasks \ {t} : job'[u] = job[u]
      BY <2>1, <2>2 DEF LifeInv, TypeOK
    <2>4. TaskInv(t)'
      BY <1>1, <1>3, <2>2, <2>3 DEF lockVars, TaskInv, Engaged, Rebuilding,
         Exclusive, Launching, Unhooked, At, LockedPc, LaunchPc, FamilyPc
    <2>5. faults' \in 0..MaxFaults
      BY <1>3, FaultType DEF LifeInv, TypeOK
    <2>6. TypeOK'
      BY <1>1, <1>3, <2>3, <2>5 DEF LifeInv, TypeOK, durableVars, lockVars
    <2> QED  BY <1>1, <1>3, <2>3, <2>4, <2>6, QuietSafe DEF durableVars, lockVars
  <1>4. ASSUME NEW s \in job[t].todo, UNCHANGED <<faults, lockVars>>,
               sessions' = [sessions EXCEPT ![s] = "none"],
               job' = [job EXCEPT ![t].todo = @ \ {s}, ![t].cur = s,
                         ![t].mine = sessions[s], ![t].pc = "stop"]
        PROVE  LifeInv'
    <2> DEFINE taken == [job[t] EXCEPT !.todo = @ \ {s}, !.cur = s,
                                       !.mine = sessions[s], !.pc = "stop"]
    <2>1. job' = [job EXCEPT ![t] = taken] /\ s \in Sessions
      BY <1>1, <1>4 DEF LifeInv, TypeOK, Job
    <2>2. sessions[s] \in Runtime
      BY <2>1 DEF LifeInv, TypeOK
    <2>3. /\ taken \in Job /\ taken.root = job[t].root /\ taken.cur = s
          /\ taken.pc = "stop" /\ taken.op = job[t].op /\ job[t].todo # {}
      <3>1. /\ job[t].todo \ {s} \in SUBSET Sessions /\ "stop" \in Pc
            /\ s \in Sessions \cup {None}
        BY <1>1, <2>1 DEF Job, Pc
      <3> QED  BY <1>1, <1>4, <2>2, <3>1 DEF Job
    <2> HIDE DEF taken
    <2>4. /\ job' \in [Tasks -> Job] /\ job'[t] = taken
          /\ \A u \in Tasks \ {t} : job'[u] = job[u]
          /\ sessions' \in [Sessions -> Runtime] /\ sessions'[s] = "none"
          /\ \A r \in Sessions : sessions[r] = "none" => sessions'[r] = "none"
      <3>1. /\ job' \in [Tasks -> Job] /\ job'[t] = taken
            /\ \A u \in Tasks \ {t} : job'[u] = job[u]
        BY <2>1, <2>3 DEF LifeInv, TypeOK
      <3>2. /\ sessions' \in [Sessions -> Runtime] /\ sessions'[s] = "none"
            /\ \A r \in Sessions : sessions[r] = "none" => sessions'[r] = "none"
        BY <1>4, <2>1 DEF LifeInv, TypeOK, Runtime
      <3> QED  BY <3>1, <3>2
    <2>5. TaskInv(t)'
      BY <1>1, <1>4, <2>1, <2>3, <2>4 DEF lockVars, TaskInv, Engaged, Rebuilding,
         Exclusive, Launching, Unhooked, At, LockedPc, LaunchPc, FamilyPc
    <2>6. TypeOK'
      BY <1>1, <1>4, <2>4 DEF LifeInv, TypeOK, durableVars, lockVars
    <2> QED  BY <1>1, <1>4, <2>4, <2>5, <2>6, QuietSafe DEF durableVars, lockVars
  <1> QED  BY <1>2, <1>3, <1>4 DEF Pick

LEMMA StopSafe ==
    ASSUME LifeInv, NEW t \in Tasks, Stop(t)
    PROVE  LifeInv'
  <1> DEFINE p == IF job[t].op = "archive" THEN "capture" ELSE "erase"
             stopped == [job[t] EXCEPT !.mine = "none", !.pc = p]
  <1>1. /\ job[t] \in Job /\ TaskInv(t) /\ At(t, "stop")
        /\ UNCHANGED <<durableVars, sessions, orphaned, lockVars, faults>>
        /\ job' = [job EXCEPT ![t] = stopped]
    BY DEF Stop, LifeInv, TypeOK, JobInv
  <1>2. /\ stopped \in Job /\ stopped.root = job[t].root /\ stopped.cur = job[t].cur
        /\ stopped.pc = p /\ p \in {"capture", "erase"} /\ stopped.op = job[t].op
        /\ stopped.todo = job[t].todo
    BY <1>1 DEF Job, Pc, Runtime
  <1> HIDE DEF stopped, p
  <1>3. /\ job' \in [Tasks -> Job] /\ job'[t] = stopped
        /\ \A u \in Tasks \ {t} : job'[u] = job[u]
    BY <1>1, <1>2 DEF LifeInv, TypeOK
  <1>4. TaskInv(t)'
    BY <1>1, <1>2, <1>3 DEF lockVars, TaskInv, Engaged, Rebuilding, Exclusive,
       Launching, Unhooked, At, LockedPc, LaunchPc, FamilyPc
  <1>5. TypeOK'
    BY <1>1, <1>3 DEF LifeInv, TypeOK, durableVars, lockVars
  <1> QED  BY <1>1, <1>3, <1>4, <1>5, QuietSafe DEF durableVars, lockVars

\* The record of a session that has no runtime any more.
LEMMA CaptureSafe ==
    ASSUME LifeInv, NEW t \in Tasks, Capture(t)
    PROVE  LifeInv'
  <1> DEFINE s == job[t].cur
  <1>1. /\ s \in Sessions /\ lifecycle = t /\ sessions[s] = "none"
        /\ At(t, "capture")
        /\ UNCHANGED <<rows, tree, sessions, orphaned, lockVars>>
    BY DEF Capture, LifeInv, JobInv, TaskInv, Engaged, Exclusive, Unhooked, At,
           LockedPc
  <1>2. faults' \in 0..MaxFaults
    <2>1. UNCHANGED faults \/ Fault
      BY DEF Capture
    <2> QED  BY <2>1, FaultType DEF LifeInv, TypeOK
  <1>3. PICK p \in {"pick", "remove"} : Goto(t, p)
    BY DEF Capture
  <1>4. TaskInv(t)' /\ job' \in [Tasks -> Job] /\ \A u \in Tasks \ {t} : job'[u] = job[u]
    <2>1. CASE p = "pick"
      <3>1. "pick" \in FreePc /\ "pick" \in FamilyPc /\ "pick" \notin LaunchPc
        BY DEF FreePc, FamilyPc, LaunchPc
      <3> QED  BY <1>1, <1>3, <2>1, <3>1, MovesOn DEF lockVars, At
    <2>2. CASE p = "remove"
      <3>1. job[t].pc \in LockedPc /\ lifecycle' = lifecycle
        BY <1>1 DEF At, LockedPc, lockVars
      <3> QED  BY <1>3, <2>2, <3>1, KeepsLock
    <2> QED  BY <1>3, <2>1, <2>2
  <1>5. CASE UNCHANGED archive
    <2>1. TypeOK'
      BY <1>1, <1>2, <1>4, <1>5 DEF LifeInv, TypeOK, lockVars
    <2>2. Unborn' /\ HiddenNotRunning'
      BY <1>1, <1>5 DEF LifeInv, Unborn, HiddenNotRunning, Visible, Present
    <2> QED  BY <1>1, <1>4, <2>1, <2>2, HolderSafe
  <1>6. ASSUME NEW r \in Record, Present(s), archive' = [archive EXCEPT ![s] = r]
        PROVE  LifeInv'
    <2>1. TypeOK'
      BY <1>1, <1>2, <1>4, <1>6 DEF LifeInv, TypeOK, lockVars
    <2>2. Unborn' /\ HiddenNotRunning'
      BY <1>1, <1>6 DEF LifeInv, TypeOK, Unborn, HiddenNotRunning, Visible, Present
    <2> QED  BY <1>1, <1>4, <2>1, <2>2, HolderSafe
  <1>7. \/ UNCHANGED archive
        \/ \E r \in Record : Present(s) /\ archive' = [archive EXCEPT ![s] = r]
    <2>1. CASE \E b \in BOOLEAN : Present(s)
                  /\ archive' = [archive EXCEPT ![s] = [branch |-> b, patch |-> {}]]
      <3>1. PICK b \in BOOLEAN : Present(s)
                  /\ archive' = [archive EXCEPT ![s] = [branch |-> b, patch |-> {}]]
        BY <2>1
      <3>2. [branch |-> b, patch |-> {}] \in Record
        BY DEF Record
      <3> QED  BY <3>1, <3>2
    <2>2. CASE /\ Present(s) /\ tree[s] # None
               /\ archive' = [archive EXCEPT ![s] = [branch |-> TRUE, patch |-> tree[s]]]
      <3>1. tree[s] \in SUBSET Edits
        BY <1>1, <2>2 DEF LifeInv, TypeOK
      <3>2. [branch |-> TRUE, patch |-> tree[s]] \in Record
        BY <3>1 DEF Record
      <3> QED  BY <2>2, <3>2
    <2> QED  BY <2>1, <2>2 DEF Capture
  <1> QED  BY <1>5, <1>6, <1>7

LEMMA RemoveSafe ==
    ASSUME LifeInv, NEW t \in Tasks, Remove(t) \/ Reclaim(t)
    PROVE  LifeInv'
  <1>1. /\ ~At(t, "idle") /\ Goto(t, "pick")
        /\ UNCHANGED <<rows, archive, sessions, orphaned, lockVars, faults>>
        /\ tree' = tree \/ tree' = [tree EXCEPT ![job[t].cur] = None]
    BY DEF Remove, Reclaim, At
  <1>2. "pick" \in FreePc /\ "pick" \in FamilyPc /\ "pick" \notin LaunchPc
    BY DEF FreePc, FamilyPc, LaunchPc
  <1>3. /\ tree' \in [Sessions -> (SUBSET Edits) \cup {None}]
        /\ faults' \in 0..MaxFaults
    BY <1>1 DEF LifeInv, TypeOK
  <1> QED  BY <1>1, <1>2, <1>3, GoSafe

\* The rows of a session that has no runtime any more.
LEMMA EraseSafe ==
    ASSUME LifeInv, NEW t \in Tasks, Erase(t)
    PROVE  LifeInv'
  <1> DEFINE s == job[t].cur
  <1>1. /\ s \in Sessions /\ lifecycle = t /\ sessions[s] = "none"
        /\ ~At(t, "idle")
        /\ UNCHANGED <<tree, sessions, orphaned, lockVars>>
    BY DEF Erase, LifeInv, JobInv, TaskInv, Engaged, Exclusive, Unhooked, At,
           LockedPc
  <1>2. faults' \in 0..MaxFaults
    <2>1. UNCHANGED faults \/ Fault
      BY DEF Erase
    <2> QED  BY <2>1, FaultType DEF LifeInv, TypeOK
  <1>3. PICK p \in {"pick", "reclaim"} : Goto(t, p)
    BY DEF Erase
  <1>4. TaskInv(t)' /\ job' \in [Tasks -> Job] /\ \A u \in Tasks \ {t} : job'[u] = job[u]
    <2>1. p \in FreePc /\ p \in FamilyPc /\ p \notin LaunchPc
      BY <1>3 DEF FreePc, FamilyPc, LaunchPc
    <2> QED  BY <1>1, <1>3, <2>1, MovesOn DEF lockVars
  <1>5. \/ UNCHANGED <<rows, archive>>
        \/ /\ rows' = [rows EXCEPT ![s] = "deleted"]
           /\ archive' = [archive EXCEPT ![s] = None]
    BY DEF Erase
  <1>6. TypeOK'
    BY <1>1, <1>2, <1>4, <1>5 DEF LifeInv, TypeOK, lockVars
  <1>7. Unborn' /\ HiddenNotRunning'
    BY <1>1, <1>5 DEF LifeInv, TypeOK, Unborn, HiddenNotRunning, Visible, Present
  <1> QED  BY <1>1, <1>4, <1>6, <1>7, HolderSafe

-----------------------------------------------------------------------------
(* Unarchiving.                                                            *)

LEMMA UnarchiveSafe ==
    ASSUME LifeInv, NEW s \in Sessions, Unarchive(s)
    PROVE  LifeInv'
  <1> DEFINE begun == [Idle EXCEPT !.op = "unarchive", !.root = s, !.cur = s,
                                   !.saved = archive[s], !.pc = "rebuild"]
  <1>1. /\ archive[s] \in Record /\ lifecycle = None /\ lifecycle' = Service
        /\ job' = [job EXCEPT ![Service] = begun]
        /\ UNCHANGED <<durableVars, sessions, orphaned, restoring, faults>>
    BY DEF Unarchive, LifeInv, TypeOK
  <1>2. /\ begun \in Job /\ begun.op = "unarchive" /\ begun.root = s /\ begun.cur = s
        /\ begun.pc = "rebuild" /\ begun.todo = {} /\ begun.saved = archive[s]
    BY <1>1 DEF Idle, Job, Op, Pc, Runtime
  <1> HIDE DEF begun
  <1>3. Service \in Tasks
    BY DEF Tasks
  <1>4. /\ job' \in [Tasks -> Job] /\ job'[Service] = begun
        /\ \A u \in Tasks \ {Service} : job'[u] = job[u]
    BY <1>1, <1>2, <1>3 DEF LifeInv, TypeOK
  <1>5. TaskInv(Service)'
    BY <1>1, <1>2, <1>4 DEF TaskInv, Engaged, Rebuilding, Exclusive, Launching,
       Unhooked, At, LockedPc, LaunchPc
  <1>6. TypeOK'
    BY <1>1, <1>3, <1>4 DEF LifeInv, TypeOK, durableVars
  <1>7. \A u \in Tasks \ {Service} : lifecycle # u
    BY <1>1, LifecycleAssumption DEF LifecycleAssumption
  <1> QED  BY <1>1, <1>3, <1>4, <1>5, <1>6, <1>7, QuietSafe DEF durableVars

\* Between reading the record and clearing it.
LEMMA RebuildSafe ==
    ASSUME LifeInv, NEW t \in Tasks, Rebuild(t) \/ Apply(t)
    PROVE  LifeInv'
  <1> DEFINE s == job[t].root
  <1>1. /\ job[t].pc \in {"rebuild", "apply"} /\ job[t].todo = {}
        /\ s \in Sessions /\ job[t].saved \in Record
        /\ UNCHANGED <<rows, archive, sessions, orphaned, faults>>
    BY DEF Rebuild, Apply, At, LifeInv, JobInv, TaskInv, Engaged, Rebuilding,
           Exclusive, FamilyPc
  <1>2. \/ tree' = tree \/ tree' = [tree EXCEPT ![s] = {}]
        \/ /\ tree[s] # None
           /\ tree' = [tree EXCEPT ![s] = tree[s] \cup job[t].saved.patch]
    BY DEF Rebuild, Apply, Rescued
  <1>3. /\ tree' \in [Sessions -> (SUBSET Edits) \cup {None}]
        /\ faults' \in 0..MaxFaults
    <2>1. job[t].saved.patch \in SUBSET Edits
      BY <1>1 DEF Record
    <2>2. faults' \in 0..MaxFaults /\ tree \in [Sessions -> (SUBSET Edits) \cup {None}]
      BY <1>1 DEF LifeInv, TypeOK
    <2>3. CASE tree' = tree \/ tree' = [tree EXCEPT ![s] = {}]
      BY <2>2, <2>3
    <2>4. CASE /\ tree[s] # None
               /\ tree' = [tree EXCEPT ![s] = tree[s] \cup job[t].saved.patch]
      <3>1. tree[s] \cup job[t].saved.patch \in SUBSET Edits
        BY <1>1, <2>1, <2>2, <2>4
      <3> QED  BY <2>2, <2>4, <3>1
    <2> QED  BY <1>2, <2>2, <2>3, <2>4
  <1>4. CASE End(t)
    BY <1>1, <1>3, <1>4, EndSafe
  <1>5. ASSUME NEW p \in {"apply", "clear"}, Goto(t, p), UNCHANGED lockVars
        PROVE  LifeInv'
    <2>1. job[t].pc \in LockedPc
      BY <1>1 DEF LockedPc
    <2>2. TaskInv(t)' /\ job' \in [Tasks -> Job] /\ \A u \in Tasks \ {t} : job'[u] = job[u]
      BY <1>1, <1>5, <2>1, KeepsLock DEF lockVars
    <2>3. TypeOK'
      BY <1>1, <1>3, <1>5, <2>2 DEF LifeInv, TypeOK, lockVars
    <2> QED  BY <1>1, <1>5, <2>2, <2>3, QuietSafe DEF lockVars
  <1>6. End(t) \/ \E p \in {"apply", "clear"} : Goto(t, p) /\ UNCHANGED lockVars
    BY DEF Rebuild, Apply, Rescued
  <1> QED  BY <1>4, <1>5, <1>6

\* Clearing the record makes a session visible and hides none.
LEMMA ClearSafe ==
    ASSUME LifeInv, NEW t \in Tasks, Clear(t)
    PROVE  LifeInv'
  <1> DEFINE s == job[t].root
  <1>1. /\ lifecycle = t /\ End(t)
        /\ UNCHANGED archive \/ archive' = [archive EXCEPT ![s] = None]
        /\ UNCHANGED faults \/ Fault
        /\ UNCHANGED <<rows, tree, sessions, orphaned>>
    BY DEF Clear, LifeInv, JobInv, TaskInv, Exclusive, At, LockedPc
  <1>2. /\ job' \in [Tasks -> Job] /\ job'[t] = Idle
        /\ \A u \in Tasks \ {t} : job'[u] = job[u]
        /\ lifecycle' \in Tasks \cup {None} /\ restoring' \in SUBSET Sessions
    BY <1>1, EndJob DEF LifeInv
  <1>3. faults' \in 0..MaxFaults
    BY <1>1, FaultType DEF LifeInv, TypeOK
  <1>4. TypeOK'
    BY <1>1, <1>2, <1>3 DEF LifeInv, TypeOK
  <1>5. Unborn' /\ HiddenNotRunning'
    BY <1>1 DEF LifeInv, TypeOK, Unborn, HiddenNotRunning, Visible, Present
  <1> QED  BY <1>1, <1>2, <1>4, <1>5, Rests, HolderSafe

-----------------------------------------------------------------------------
(* The world, and the whole.                                               *)

LEMMA InitSafe == Init => LifeInv
  <1> SUFFICES ASSUME Init PROVE LifeInv
    OBVIOUS
  <1>1. 0 \in 0..MaxFaults
    BY LifecycleAssumption DEF LifecycleAssumption
  <1>2. TypeOK
    BY <1>1, IdleJob DEF Init, TypeOK, Runtime
  <1>3. \A t \in Tasks : TaskInv(t)
    BY DEF Init, Idle, TaskInv, Engaged, Rebuilding, Exclusive, Launching, Unhooked,
           At, LockedPc, LaunchPc
  <1> QED  BY <1>2, <1>3 DEF Init, LifeInv, JobInv, Unborn, HiddenNotRunning

\* Whatever was under way is forgotten when the process ends.
LEMMA RestartSafe ==
    ASSUME LifeInv, Restart, faults' \in 0..MaxFaults
    PROVE  LifeInv'
  <1>1. TypeOK'
    BY IdleJob DEF Restart, LifeInv, TypeOK, durableVars, Runtime
  <1>2. \A t \in Tasks : TaskInv(t)'
    <2>1. \A t \in Tasks : job'[t] = Idle
      BY DEF Restart
    <2> QED  BY <2>1, Rests
  <1>3. Unborn' /\ HiddenNotRunning'
    BY DEF Restart, LifeInv, Unborn, HiddenNotRunning, durableVars
  <1> QED  BY <1>1, <1>2, <1>3 DEF LifeInv, JobInv

LEMMA WorldSafe ==
    ASSUME LifeInv, World
    PROVE  LifeInv'
  <1>1. CASE Quit \/ Crash
    <2>1. Restart /\ (UNCHANGED faults \/ Fault)
      BY <1>1 DEF Quit, Crash
    <2>2. faults' \in 0..MaxFaults
      BY <2>1, FaultType DEF LifeInv, TypeOK
    <2> QED  BY <2>1, <2>2, RestartSafe
  <1>2. ASSUME NEW s \in Sessions,
               \/ \E e \in Edits : AgentEdits(s, e)
               \/ ProviderCloses(s) \/ OrphanEnds(s) \/ TreeVanishes(s)
        PROVE  LifeInv'
    <2>1. /\ UNCHANGED <<rows, archive, lockVars, job>>
          /\ UNCHANGED faults \/ Fault
          /\ UNCHANGED sessions \/ (/\ sessions[s] = "live"
                                    /\ sessions' = [sessions EXCEPT ![s] = "gone"])
          /\ UNCHANGED orphaned \/ orphaned' = orphaned \ {s}
      BY <1>2 DEF AgentEdits, ProviderCloses, OrphanEnds, TreeVanishes, durableVars
    <2>2. tree' \in [Sessions -> (SUBSET Edits) \cup {None}]
      <3>1. CASE \E e \in Edits : AgentEdits(s, e)
        <4>1. PICK e \in Edits : AgentEdits(s, e)
          BY <3>1
        <4>2. tree[s] \cup {e} \in SUBSET Edits /\ tree' = [tree EXCEPT ![s] = tree[s] \cup {e}]
          BY <4>1 DEF AgentEdits, LifeInv, TypeOK
        <4> QED  BY <4>2 DEF LifeInv, TypeOK
      <3>2. CASE ProviderCloses(s) \/ OrphanEnds(s) \/ TreeVanishes(s)
        BY <3>2 DEF ProviderCloses, OrphanEnds, TreeVanishes, durableVars, LifeInv,
                    TypeOK
      <3> QED  BY <1>2, <3>1, <3>2
    <2>3. /\ sessions' \in [Sessions -> Runtime]
          /\ \A r \in Sessions : sessions'[r] = "none" <=> sessions[r] = "none"
      BY <2>1 DEF LifeInv, TypeOK, Runtime
    <2>4. faults' \in 0..MaxFaults
      BY <2>1, FaultType DEF LifeInv, TypeOK
    <2>5. TypeOK'
      BY <2>1, <2>2, <2>3, <2>4 DEF LifeInv, TypeOK, lockVars
    <2>6. \A t \in Tasks : TaskInv(t)'
      <3> SUFFICES ASSUME NEW t \in Tasks PROVE TaskInv(t)'
        OBVIOUS
      <3>1. TaskInv(t)
        BY DEF LifeInv, JobInv
      <3>2. Engaged(t)' /\ Rebuilding(t)' /\ Exclusive(t)' /\ Launching(t)'
        BY <2>1, <3>1 DEF lockVars, TaskInv, Engaged, Rebuilding, Exclusive,
                          Launching, At, Visible, Present
      <3>3. Unhooked(t)'
        <4>1. job[t].pc \in {"stop", "capture", "erase"} => job[t].cur \in Sessions
          BY <3>1 DEF TaskInv, Engaged, At
        <4> QED  BY <2>1, <2>3, <3>1, <4>1 DEF TaskInv, Unhooked
      <3> QED  BY <3>2, <3>3 DEF TaskInv
    <2>7. Unborn' /\ HiddenNotRunning'
      BY <2>1, <2>3 DEF LifeInv, Unborn, HiddenNotRunning, Visible, Present
    <2> QED  BY <2>5, <2>6, <2>7 DEF LifeInv, JobInv
  <1> QED  BY <1>1, <1>2 DEF World

LEMMA RequestSafe ==
    ASSUME LifeInv, Request
    PROVE  LifeInv'
  <1>1. Service \in Tasks /\ Gateway \in Tasks /\ Runner \in Tasks
    BY DEF Tasks
  <1>2. CASE Launch
    <2>1. PICK s \in Sessions :
            \/ s \in Automations /\ LaunchAs(Runner, "automation", s)
            \/ s \notin Automations /\ \E t \in {Service, Gateway} : LaunchAs(t, "launch", s)
      BY <1>2 DEF Launch
    <2> QED  BY <1>1, <2>1, LaunchSafe
  <1>3. ASSUME NEW s \in Sessions, NEW t \in Tasks, Resume(t, s)
        PROVE  LifeInv'
    <2>1. Begin(t, "resume", s, FALSE, "list") \/ Begin(t, "resume", s, FALSE, "drop")
      BY <1>3 DEF Resume
    <2>2. UNCHANGED <<durableVars, sessions, orphaned, lockVars, faults>>
      BY <1>3 DEF Resume
    <2> QED  BY <2>1, <2>2, BeginSafe
  <1>4. ASSUME NEW s \in Sessions, NEW deep \in BOOLEAN,
               Archive(s, deep) \/ Delete(s, deep)
        PROVE  LifeInv'
    <2>1. /\ \/ Begin(Service, "archive", s, deep, "guard")
             \/ Begin(Service, "delete", s, deep, "guard")
          /\ UNCHANGED <<durableVars, sessions, orphaned, lockVars, faults>>
      BY <1>4 DEF Archive, Delete
    <2> QED  BY <1>1, <2>1, BeginSafe
  <1> QED  BY <1>2, <1>3, <1>4, UnarchiveSafe DEF Request

LEMMA ProceedSafe ==
    ASSUME LifeInv, NEW t \in Tasks, Proceed(t)
    PROVE  LifeInv'
  BY CreatedSafe, CloseSafe, UnmapSafe, DisposeSafe, GuardSafe, LockSafe, ListSafe,
     RestoreSafe, InstallSafe, DiscardSafe, PickSafe, StopSafe, CaptureSafe,
     RemoveSafe, EraseSafe, RebuildSafe, ClearSafe
     DEF Proceed

LEMMA StutterSafe ==
    ASSUME LifeInv, UNCHANGED vars
    PROVE  LifeInv'
  BY DEF vars, LifeInv, TypeOK, JobInv, TaskInv, Engaged, Rebuilding, Exclusive,
         Launching, Unhooked, At, Unborn, HiddenNotRunning, Visible, Present

LEMMA Inductive == Spec => []LifeInv
  <1>1. LifeInv /\ [Next]_vars => LifeInv'
    BY RequestSafe, ProceedSafe, WorldSafe, StutterSafe DEF Next
  <1> QED  BY <1>1, InitSafe, PTL DEF Spec

\* Every variable keeps to its type, whichever operations meet.
THEOREM LifecycleTypeCorrect == Spec => []TypeOK
  <1>1. LifeInv => TypeOK
    BY DEF LifeInv
  <1> QED  BY <1>1, Inductive, PTL

\* install_restored_runtime: no session that is archived or deleted has a
\* runtime in the map, for any number of sessions and any parents, however
\* launching, restoring, archiving, deleting, failing and crashing interleave.
THEOREM HiddenNeverRuns == Spec => []HiddenNotRunning
  <1>1. LifeInv => HiddenNotRunning
    BY DEF LifeInv
  <1> QED  BY <1>1, Inductive, PTL

-----------------------------------------------------------------------------
(* Guards are given back.                                                  *)

FreshPc == {"idle", "created", "close", "unmap", "dispose", "drop", "list", "guard"}

\* An operation holds no guard before it has asked for one.
Fresh(t) == job[t].pc \in FreshPc => job[t].held = {}

\* Every guard is held by an operation under way, and so is the lock.
HeldInv ==
    /\ \A s \in restoring : \E t \in Tasks : s \in job[t].held
    /\ \A t \in Tasks : Fresh(t)
    /\ lifecycle # None => ~At(lifecycle, "idle")

\* What a step of one task does with guards and the lock.
HandsOver(t) ==
    /\ \A u \in Tasks \ {t} : job'[u] = job[u]
    /\ restoring' \subseteq (restoring \ job[t].held) \cup job'[t].held
    /\ Fresh(t)'
    /\ lifecycle' \in {lifecycle, t, None}
    /\ lifecycle' = t => ~At(t, "idle")'

LEMMA HandsOverSafe ==
    ASSUME TypeOK, TypeOK', HeldInv, NEW t \in Tasks, HandsOver(t)
    PROVE  HeldInv'
  <1>1. ASSUME NEW s \in restoring' PROVE \E u \in Tasks : s \in job'[u].held
    <2>1. CASE s \in job'[t].held
      BY <2>1
    <2>2. CASE s \notin job'[t].held
      <3>1. s \in restoring /\ s \notin job[t].held
        BY <1>1, <2>2 DEF HandsOver
      <3>2. PICK u \in Tasks \ {t} : s \in job[u].held
        BY <3>1 DEF HeldInv
      <3> QED  BY <3>2 DEF HandsOver
    <2> QED  BY <2>1, <2>2
  <1>2. ASSUME NEW u \in Tasks PROVE Fresh(u)'
    BY DEF HeldInv, HandsOver, Fresh
  <1>3. ASSUME lifecycle' # None PROVE ~At(lifecycle, "idle")'
    <2>1. CASE lifecycle' = t
      BY <2>1 DEF HandsOver, At
    <2>2. CASE lifecycle' # t
      <3>1. lifecycle' = lifecycle /\ lifecycle \in Tasks \ {t}
        BY <1>3, <2>2 DEF HandsOver, TypeOK
      <3> QED  BY <1>3, <3>1 DEF HandsOver, HeldInv, At
    <2> QED  BY <2>1, <2>2
  <1> QED  BY <1>1, <1>2, <1>3 DEF HeldInv

\* Returning: guards and lock go.
LEMMA EndHands ==
    ASSUME TypeOK, NEW t \in Tasks, End(t)
    PROVE  HandsOver(t)
  <1>1. job'[t] = Idle /\ Idle.held = {}
    BY EndJob DEF Idle
  <1> QED  BY <1>1, EndJob, LifecycleAssumption
           DEF HandsOver, Fresh, LifecycleAssumption

\* Moving on: guards and lock stay.
LEMMA GoHands ==
    ASSUME TypeOK, HeldInv, NEW t \in Tasks, NEW p \in Pc \ {"idle"}, NEW q,
           job' = [job EXCEPT ![t] = q], q.pc = p, q.held = job[t].held,
           p \in FreshPc => job[t].pc \in FreshPc,
           restoring' = restoring,
           lifecycle' \in {lifecycle, None}
    PROVE  HandsOver(t)
  <1>1. job'[t] = q /\ \A u \in Tasks \ {t} : job'[u] = job[u]
    BY DEF TypeOK
  <1>2. Fresh(t)
    BY DEF HeldInv
  <1> QED  BY <1>1, <1>2 DEF HandsOver, Fresh, At

LEMMA GotoHands ==
    ASSUME TypeOK, HeldInv, NEW t \in Tasks, NEW p \in Pc \ {"idle"}, Goto(t, p),
           p \in FreshPc => job[t].pc \in FreshPc,
           UNCHANGED lockVars
    PROVE  HandsOver(t)
  <1> DEFINE q == [job[t] EXCEPT !.pc = p]
  <1>1. /\ q.pc = p /\ q.held = job[t].held
        /\ job' = [job EXCEPT ![t] = q]
    BY DEF TypeOK, Goto, Job
  <1> HIDE DEF q
  <1> QED  BY <1>1, GoHands DEF lockVars

\* A command begins.
LEMMA BeginHands ==
    ASSUME TypeOK, HeldInv, NEW t \in Tasks, NEW o, NEW s, NEW deep,
           NEW p \in Pc \ {"idle"}, Begin(t, o, s, deep, p),
           restoring' = restoring, lifecycle' \in {lifecycle, t, None}
    PROVE  HandsOver(t)
  <1>1. /\ job'[t].held = {} /\ job'[t].pc = p
        /\ \A u \in Tasks \ {t} : job'[u] = job[u]
    BY DEF Begin, TypeOK, Idle
  <1>2. job[t].held = {}
    BY DEF Begin, At, HeldInv, Fresh, FreshPc
  <1> QED  BY <1>1, <1>2 DEF HandsOver, Fresh, At

\* The steps that only move on, take the lock along, or return.
LEMMA PlainHands ==
    ASSUME TypeOK, HeldInv, NEW t \in Tasks,
           \/ Close(t) \/ Unmap(t) \/ Drop(t) \/ List(t) \/ Install(t) \/ Discard(t)
           \/ Capture(t) \/ Remove(t) \/ Erase(t) \/ Reclaim(t)
           \/ Rebuild(t) \/ Apply(t) \/ Clear(t)
    PROVE  HandsOver(t)
  <1> DEFINE Steps == {"unmap", "dispose", "list", "guard", "discard", "remove",
                       "pick", "reclaim", "clear", "apply"}
  <1>1. \/ End(t)
        \/ \E p \in Steps : /\ Goto(t, p) /\ UNCHANGED lockVars
                            /\ p \in FreshPc => job[t].pc \in FreshPc
    <2>1. CASE Close(t) \/ Unmap(t) \/ Drop(t) \/ List(t)
      BY <2>1 DEF Close, Unmap, Drop, List, At, FreshPc
    <2>2. CASE Install(t) \/ Discard(t)
      BY <2>2 DEF Install, Discard, FreshPc, lockVars
    <2>3. CASE Capture(t) \/ Remove(t) \/ Erase(t) \/ Reclaim(t)
      BY <2>3 DEF Capture, Remove, Erase, Reclaim, FreshPc
    <2>4. CASE Rebuild(t) \/ Apply(t) \/ Clear(t)
      BY <2>4 DEF Rebuild, Apply, Clear, Rescued, FreshPc, lockVars
    <2> QED  BY <2>1, <2>2, <2>3, <2>4
  <1>2. Steps \subseteq Pc \ {"idle"}
    BY DEF Pc
  <1> QED  BY <1>1, <1>2, EndHands, GotoHands

LEMMA CreatedHands ==
    ASSUME TypeOK, HeldInv, NEW t \in Tasks, Created(t)
    PROVE  HandsOver(t)
  <1>1. job[t].held = {}
    BY DEF Created, At, HeldInv, Fresh, FreshPc
  <1>2. /\ \A u \in Tasks \ {t} : job'[u] = job[u]
        /\ job'[t].held = {}
        /\ restoring' = restoring /\ lifecycle' = None
    BY <1>1 DEF Created, TypeOK, Job, Idle
  <1> QED  BY <1>1, <1>2, LifecycleAssumption
           DEF HandsOver, Fresh, LifecycleAssumption

LEMMA DisposeHands ==
    ASSUME TypeOK, HeldInv, NEW t \in Tasks, Dispose(t)
    PROVE  HandsOver(t)
  <1>1. CASE job[t].op = "launch"
    <2> DEFINE q == [job[t] EXCEPT !.op = "compensate", !.pc = "guard"]
    <2>1. job' = [job EXCEPT ![t] = q] /\ UNCHANGED lockVars
      BY <1>1 DEF Dispose, TypeOK
    <2>2. q.pc = "guard" /\ q.held = job[t].held /\ "guard" \in Pc \ {"idle"}
      BY DEF TypeOK, Job, Pc
    <2>3. job[t].pc \in FreshPc
      BY DEF Dispose, At, FreshPc
    <2> HIDE DEF q
    <2> QED  BY <2>1, <2>2, <2>3, GoHands DEF lockVars
  <1>2. CASE job[t].op # "launch"
    BY <1>2, EndHands DEF Dispose
  <1> QED  BY <1>1, <1>2

LEMMA GuardHands ==
    ASSUME TypeOK, HeldInv, NEW t \in Tasks, Guard(t)
    PROVE  HandsOver(t)
  <1> DEFINE s == job[t].root
             p == IF job[t].op = "resume" THEN "restore" ELSE "lock"
             guarded == [job[t] EXCEPT !.held = {s}, !.pc = p]
  <1>1. CASE s \in restoring /\ job[t].op = "compensate"
    <2>1. Goto(t, "reclaim") /\ UNCHANGED lockVars
      BY <1>1 DEF Guard
    <2> QED  BY <2>1, GotoHands DEF Pc, FreshPc
  <1>2. CASE s \in restoring /\ job[t].op # "compensate"
    BY <1>2, EndHands DEF Guard
  <1>3. CASE s \notin restoring
    <2>1. /\ restoring' = restoring \cup {s} /\ lifecycle' = lifecycle
          /\ job' = [job EXCEPT ![t] = guarded]
      BY <1>3 DEF Guard, TypeOK
    <2>2. guarded.held = {s} /\ guarded.pc \in {"restore", "lock"}
      BY DEF TypeOK, Job
    <2> HIDE DEF guarded
    <2>3. job'[t] = guarded /\ \A u \in Tasks \ {t} : job'[u] = job[u]
      BY <2>1 DEF TypeOK
    <2>4. job[t].held = {}
      BY DEF Guard, At, HeldInv, Fresh, FreshPc
    <2> QED  BY <2>1, <2>2, <2>3, <2>4 DEF HandsOver, Fresh, FreshPc, At
  <1> QED  BY <1>1, <1>2, <1>3

LEMMA LockHands ==
    ASSUME TypeOK, HeldInv, NEW t \in Tasks, Lock(t)
    PROVE  HandsOver(t)
  <1> DEFINE s == job[t].root
             extra == Targets(s, job[t].deep) \ {s}
             picked == [job[t] EXCEPT !.pc = "pick", !.todo = extra \cup {s},
                                      !.held = job[t].held \cup extra]
  <1> HIDE DEF extra
  <1>1. CASE End(t)
    BY <1>1, EndHands
  <1>2. CASE /\ lifecycle' = t /\ restoring' = restoring \cup extra
             /\ job' = [job EXCEPT ![t] = picked]
    <2>1. picked.held = job[t].held \cup extra /\ picked.pc = "pick"
      BY DEF TypeOK, Job
    <2> HIDE DEF picked
    <2>2. job'[t] = picked /\ \A u \in Tasks \ {t} : job'[u] = job[u]
      BY <1>2 DEF TypeOK
    <2> QED  BY <1>2, <2>1, <2>2 DEF HandsOver, Fresh, FreshPc, At
  <1>3. \/ End(t)
        \/ /\ lifecycle' = t /\ restoring' = restoring \cup extra
           /\ job' = [job EXCEPT ![t] = picked]
    BY DEF Lock, extra, TypeOK
  <1> QED  BY <1>1, <1>2, <1>3

LEMMA RestoreHands ==
    ASSUME TypeOK, HeldInv, NEW t \in Tasks, Restore(t)
    PROVE  HandsOver(t)
  <1>1. CASE End(t)
    BY <1>1, EndHands
  <1>2. ASSUME NEW r \in Runtime, Restored(t, r)
        PROVE  HandsOver(t)
    <2> DEFINE q == [job[t] EXCEPT !.mine = r, !.pc = "install"]
    <2>1. job' = [job EXCEPT ![t] = q] /\ UNCHANGED lockVars
      BY <1>2 DEF Restored, TypeOK
    <2>2. q.pc = "install" /\ q.held = job[t].held /\ "install" \in Pc \ {"idle"}
      BY DEF TypeOK, Job, Pc
    <2> HIDE DEF q
    <2> QED  BY <2>1, <2>2, GoHands DEF lockVars, FreshPc
  <1>3. End(t) \/ \E r \in Runtime : Restored(t, r)
    BY DEF Restore, Runtime
  <1> QED  BY <1>1, <1>2, <1>3

LEMMA PickHands ==
    ASSUME TypeOK, HeldInv, NEW t \in Tasks, Pick(t)
    PROVE  HandsOver(t)
  <1>1. CASE End(t)
    BY <1>1, EndHands
  <1>2. ASSUME NEW s \in Sessions, UNCHANGED lockVars,
               job' = [job EXCEPT ![t].todo = @ \ {s}]
        PROVE  HandsOver(t)
    <2> DEFINE q == [job[t] EXCEPT !.todo = job[t].todo \ {s}]
    <2>1. job' = [job EXCEPT ![t] = q]
      BY <1>2 DEF TypeOK
    <2>2. job[t].pc = "pick" /\ job[t] \in Job
      BY DEF TypeOK, Pick, At
    <2>3. q.pc = "pick" /\ q.held = job[t].held /\ "pick" \in Pc \ {"idle"}
      BY <2>2 DEF Job, Pc
    <2> HIDE DEF q
    <2> QED  BY <1>2, <2>1, <2>3, GoHands DEF lockVars, FreshPc
  <1>3. ASSUME NEW s \in Sessions, UNCHANGED lockVars,
               job' = [job EXCEPT ![t].todo = @ \ {s}, ![t].cur = s,
                                  ![t].mine = sessions[s], ![t].pc = "stop"]
        PROVE  HandsOver(t)
    <2> DEFINE q == [job[t] EXCEPT !.todo = job[t].todo \ {s}, !.cur = s,
                                   !.mine = sessions[s], !.pc = "stop"]
    <2>1. job' = [job EXCEPT ![t] = q]
      BY <1>3 DEF TypeOK
    <2>2. q.pc = "stop" /\ q.held = job[t].held /\ "stop" \in Pc \ {"idle"}
      BY DEF TypeOK, Job, Pc
    <2> HIDE DEF q
    <2> QED  BY <1>3, <2>1, <2>2, GoHands DEF lockVars, FreshPc
  <1>4. job[t].todo \in SUBSET Sessions
    BY DEF TypeOK, Job
  <1> QED  BY <1>1, <1>2, <1>3, <1>4 DEF Pick

LEMMA StopHands ==
    ASSUME TypeOK, HeldInv, NEW t \in Tasks, Stop(t)
    PROVE  HandsOver(t)
  <1> DEFINE p == IF job[t].op = "archive" THEN "capture" ELSE "erase"
             q == [job[t] EXCEPT !.mine = "none", !.pc = p]
  <1>1. job' = [job EXCEPT ![t] = q] /\ UNCHANGED lockVars
    BY DEF Stop, TypeOK
  <1>2. q.pc = p /\ q.held = job[t].held
    BY DEF TypeOK, Job
  <1>3. p \in Pc \ {"idle"} /\ p \notin FreshPc
    BY DEF Pc, FreshPc
  <1> HIDE DEF p, q
  <1> QED  BY <1>1, <1>2, <1>3, GoHands DEF lockVars

LEMMA ProceedHands ==
    ASSUME TypeOK, HeldInv, NEW t \in Tasks, Proceed(t)
    PROVE  HandsOver(t)
  BY PlainHands, CreatedHands, DisposeHands, GuardHands, LockHands, RestoreHands,
     PickHands, StopHands DEF Proceed

LEMMA RequestHands ==
    ASSUME TypeOK, HeldInv, Request
    PROVE  \E t \in Tasks : HandsOver(t)
  <1>1. /\ Service \in Tasks /\ Gateway \in Tasks /\ Runner \in Tasks
        /\ {"created", "list", "drop", "guard"} \subseteq Pc \ {"idle"}
    BY DEF Tasks, Pc
  <1>2. ASSUME NEW t \in Tasks, NEW o, NEW s \in Sessions, LaunchAs(t, o, s)
        PROVE  HandsOver(t)
    BY <1>1, <1>2, BeginHands DEF LaunchAs
  <1>3. ASSUME NEW t \in Tasks, NEW s \in Sessions, Resume(t, s)
        PROVE  HandsOver(t)
    <2>1. /\ Begin(t, "resume", s, FALSE, "list") \/ Begin(t, "resume", s, FALSE, "drop")
          /\ UNCHANGED lockVars
      BY <1>3 DEF Resume
    <2> QED  BY <1>1, <2>1, BeginHands DEF lockVars
  <1>4. ASSUME NEW s \in Sessions, NEW deep \in BOOLEAN,
               Archive(s, deep) \/ Delete(s, deep)
        PROVE  HandsOver(Service)
    <2>1. /\ \/ Begin(Service, "archive", s, deep, "guard")
             \/ Begin(Service, "delete", s, deep, "guard")
          /\ UNCHANGED lockVars
      BY <1>4 DEF Archive, Delete
    <2> QED  BY <1>1, <2>1, BeginHands DEF lockVars
  <1>5. ASSUME NEW s \in Sessions, Unarchive(s)
        PROVE  HandsOver(Service)
    <2>1. /\ job'[Service].held = {} /\ job'[Service].pc = "rebuild"
          /\ \A u \in Tasks \ {Service} : job'[u] = job[u]
          /\ lifecycle' = Service /\ restoring' = restoring
      BY <1>1, <1>5 DEF Unarchive, TypeOK, Idle
    <2>2. job[Service].held = {}
      BY <1>1, <1>5 DEF Unarchive, At, HeldInv, Fresh, FreshPc
    <2> QED  BY <2>1, <2>2 DEF HandsOver, Fresh, FreshPc, At
  <1> QED  BY <1>1, <1>2, <1>3, <1>4, <1>5 DEF Request, Launch

LEMMA HeldInductive == Spec => []HeldInv
  <1>1. Init => HeldInv
    BY DEF Init, HeldInv, Fresh, Idle
  <1>2. TypeOK /\ TypeOK' /\ HeldInv /\ [Next]_vars => HeldInv'
    <2> SUFFICES ASSUME TypeOK, TypeOK', HeldInv, [Next]_vars PROVE HeldInv'
      OBVIOUS
    <2>1. CASE Request \/ \E t \in Tasks : Proceed(t)
      BY <2>1, RequestHands, ProceedHands, HandsOverSafe
    <2>2. CASE Quit \/ Crash
      BY <2>2 DEF Quit, Crash, Restart, HeldInv, Fresh, Idle
    <2>3. CASE UNCHANGED <<restoring, lifecycle, job>>
      BY <2>3 DEF HeldInv, Fresh, At
    <2>4. CASE World
      BY <2>2, <2>3, <2>4 DEF World, AgentEdits, ProviderCloses, OrphanEnds,
                             TreeVanishes, lockVars
    <2> QED  BY <2>1, <2>3, <2>4 DEF Next, vars
  <1> QED  BY <1>1, <1>2, LifecycleTypeCorrect, PTL DEF Spec

\* begin_restore, finish_restore: when no operation is under way no guard is
\* taken and the lock is free, however the operations met, failed or were cut
\* off by a crash.
THEOREM AllGivenBack == Spec => []NothingHeldAtRest
  <1>1. TypeOK /\ HeldInv => NothingHeldAtRest
    BY DEF HeldInv, NothingHeldAtRest, Fresh, FreshPc, At, TypeOK
  <1> QED  BY <1>1, LifecycleTypeCorrect, HeldInductive, PTL

-----------------------------------------------------------------------------
(* What is archived stays reduced.                                         *)

\* The steps that bring a missing worktree back.
LEMMA TreeComesBack ==
    ASSUME TypeOK, Next, NEW s \in Sessions, tree[s] = None, tree'[s] # None
    PROVE  \/ rows[s] = "unborn"
           \/ archive[s] = None
           \/ Fault
           \/ \E t \in Tasks : At(t, "rebuild") /\ job[t].root = s
  <1>1. CASE Request
    BY <1>1 DEF Request, Launch, LaunchAs, Resume, Archive, Delete, Unarchive,
                durableVars, TypeOK
  <1>2. ASSUME NEW t \in Tasks, Proceed(t)
        PROVE  \/ archive[s] = None \/ Fault
               \/ At(t, "rebuild") /\ job[t].root = s
    <2>1. CASE Restore(t)
      BY <2>1 DEF Restore, TypeOK
    <2>2. CASE Rebuild(t)
      BY <2>2 DEF Rebuild, Rescued, TypeOK
    <2>3. CASE Apply(t)
      BY <2>3 DEF Apply, Rescued, TypeOK
    <2>4. CASE Remove(t) \/ Reclaim(t)
      BY <2>4 DEF Remove, Reclaim, TypeOK
    <2>5. CASE UNCHANGED tree
      BY <2>5
    <2>6. \/ Restore(t) \/ Rebuild(t) \/ Apply(t) \/ Remove(t) \/ Reclaim(t)
          \/ UNCHANGED tree
      BY <1>2 DEF Proceed, Created, Close, Unmap, Dispose, Guard, Lock, Drop, List,
                  Install, Discard, Pick, Stop, Capture, Erase, Clear, durableVars
    <2> QED  BY <2>1, <2>2, <2>3, <2>4, <2>5, <2>6
  <1>3. CASE World
    <2>1. CASE \E r \in Sessions, e \in Edits : AgentEdits(r, e)
      BY <2>1 DEF AgentEdits, TypeOK
    <2>2. CASE \E r \in Sessions : ProviderCloses(r) \/ OrphanEnds(r) \/ TreeVanishes(r)
      BY <2>2 DEF ProviderCloses, OrphanEnds, TreeVanishes, durableVars, TypeOK
    <2>3. CASE Quit \/ Crash
      BY <2>3 DEF Quit, Crash, Restart, durableVars
    <2> QED  BY <1>3, <2>1, <2>2, <2>3 DEF World
  <1> QED  BY <1>1, <1>2, <1>3 DEF Next

\* recreate_managed_worktree: while a session stays archived nothing but
\* unarchive_session brings its worktree back, whatever else is going on, unless
\* the query for the archive record fails.
THEOREM ArchivedStaysReduced == Spec => ArchiveStaysReduced
  <1> DEFINE Reduced == \A s \in Sessions :
        /\ archive[s] # None /\ archive'[s] # None
        /\ tree[s] = None /\ tree'[s] # None
        => \/ At(Service, "rebuild") /\ job[Service].root = s
           \/ faults' # faults
  <1>1. LifeInv /\ [Next]_vars => [Reduced]_vars
    <2> SUFFICES ASSUME LifeInv, Next, NEW s \in Sessions,
                        archive[s] # None, tree[s] = None, tree'[s] # None
                 PROVE  \/ At(Service, "rebuild") /\ job[Service].root = s
                        \/ faults' # faults
      OBVIOUS
    <2>1. \/ Fault
          \/ \E t \in Tasks : At(t, "rebuild") /\ job[t].root = s
      BY TreeComesBack DEF LifeInv, Unborn
    <2>2. CASE Fault
      BY <2>2 DEF Fault, LifeInv, TypeOK
    <2>3. ASSUME NEW t \in Tasks, At(t, "rebuild"), job[t].root = s
          PROVE  At(Service, "rebuild") /\ job[Service].root = s
      BY <2>3 DEF LifeInv, JobInv, TaskInv, Rebuilding, At
    <2> QED  BY <2>1, <2>2, <2>3
  <1> QED  BY <1>1, Inductive, PTL DEF Spec, ArchiveStaysReduced

-----------------------------------------------------------------------------
(* Children are gone before their parents.                                 *)

\* The places that an operation passes.
Course(o) ==
    CASE o = "none"                       -> {"idle"}
      [] o \in {"launch", "automation"}   -> LaunchPc
      [] o = "resume"     -> {"drop", "list", "guard", "restore", "install", "discard"}
      [] o = "archive"    -> {"guard", "lock", "pick", "stop", "capture", "remove"}
      [] o \in {"delete", "compensate"}   ->
             {"guard", "lock", "pick", "stop", "erase", "reclaim"}
      [] o = "unarchive"  -> {"rebuild", "apply", "clear"}

\* Only the service thread archives, unarchives and deletes, and only on its behalf
\* do families go; a launch is about one session.
OnCourse(t) ==
    /\ job[t].pc \in Course(job[t].op)
    /\ job[t].op \in {"archive", "delete", "unarchive"} => t = Service
    /\ job[t].op = "compensate" => ~job[t].deep
    /\ job[t].op \in {"launch", "automation"} => job[t].cur = job[t].root /\ ~job[t].deep

\* While a family is deleted: who of it still has a row is still to be done, and
\* whoever is being deleted has no children any more.
ChildrenFirst(t) ==
    job[t].op = "delete" /\ job[t].deep /\ job[t].pc \in FamilyPc =>
        \A c \in Sessions : Present(c) =>
            /\ Parent[c] \in job[t].todo =>
                   \/ c \in job[t].todo
                   \/ job[t].pc \in {"stop", "erase"} /\ c = job[t].cur
            /\ job[t].pc \in {"stop", "erase"} => Parent[c] # job[t].cur

FamilyInv ==
    /\ \A t \in Tasks : OnCourse(t)
    /\ faults = 0 => \A t \in Tasks : ChildrenFirst(t)


\* A task moves on along the course of its operation.
LEMMA GotoCourse ==
    ASSUME TypeOK, NEW t \in Tasks, OnCourse(t), NEW p \in Pc, Goto(t, p),
           p \in Course(job[t].op)
    PROVE  OnCourse(t)' /\ \A u \in Tasks \ {t} : job'[u] = job[u]
  <1>1. /\ job'[t] = [job[t] EXCEPT !.pc = p] /\ job[t] \in Job
        /\ \A u \in Tasks \ {t} : job'[u] = job[u]
    BY GotoJob DEF TypeOK
  <1>2. /\ job'[t].op = job[t].op /\ job'[t].pc = p /\ job'[t].deep = job[t].deep
        /\ job'[t].cur = job[t].cur /\ job'[t].root = job[t].root
    BY <1>1 DEF Job
  <1> QED  BY <1>1, <1>2 DEF OnCourse

LEMMA IdleCourse ==
    ASSUME NEW t \in Tasks, job'[t] = Idle
    PROVE  OnCourse(t)'
  BY DEF OnCourse, Course, Idle

LEMMA EndCourse ==
    ASSUME TypeOK, NEW t \in Tasks, End(t)
    PROVE  OnCourse(t)' /\ \A u \in Tasks \ {t} : job'[u] = job[u]
  BY EndJob, IdleCourse

\* The steps that move on or return.
LEMMA PlainCourse ==
    ASSUME TypeOK, NEW t \in Tasks, OnCourse(t),
           \/ Close(t) \/ Unmap(t) \/ Drop(t) \/ List(t) \/ Install(t) \/ Discard(t)
           \/ Capture(t) \/ Remove(t) \/ Erase(t) \/ Reclaim(t)
           \/ Rebuild(t) \/ Apply(t) \/ Clear(t)
    PROVE  OnCourse(t)' /\ \A u \in Tasks \ {t} : job'[u] = job[u]
  <1>1. job[t].op \in Op
    BY DEF TypeOK, Job
  <1>2. End(t) \/ \E p \in Pc : Goto(t, p) /\ p \in Course(job[t].op)
    <2>1. CASE Close(t) \/ Unmap(t)
      BY <1>1, <2>1 DEF Close, Unmap, At, OnCourse, Course, LaunchPc, Op, Pc
    <2>2. CASE Drop(t) \/ List(t) \/ Install(t)
      BY <1>1, <2>2 DEF Drop, List, Install, At, OnCourse, Course, LaunchPc, Op, Pc
    <2>3. CASE Capture(t) \/ Remove(t)
      BY <1>1, <2>3 DEF Capture, Remove, At, OnCourse, Course, LaunchPc, Op, Pc
    <2>4. CASE Erase(t) \/ Reclaim(t)
      BY <1>1, <2>4 DEF Erase, Reclaim, At, OnCourse, Course, LaunchPc, Op, Pc
    <2>5. CASE Rebuild(t) \/ Apply(t)
      BY <1>1, <2>5 DEF Rebuild, Apply, Rescued, At, OnCourse, Course, LaunchPc, Op, Pc
    <2>6. CASE Clear(t) \/ Discard(t)
      BY <2>6 DEF Clear, Discard
    <2> QED  BY <2>1, <2>2, <2>3, <2>4, <2>5, <2>6
  <1> QED  BY <1>2, EndCourse, GotoCourse

\* The steps that change more of an operation.
LEMMA FurtherCourse ==
    ASSUME TypeOK, NEW t \in Tasks, OnCourse(t),
           \/ Created(t) \/ Dispose(t) \/ Guard(t) \/ Lock(t) \/ Restore(t)
           \/ Pick(t) \/ Stop(t)
    PROVE  OnCourse(t)' /\ \A u \in Tasks \ {t} : job'[u] = job[u]
  <1>1. job[t].op \in Op /\ job[t] \in Job
    BY DEF TypeOK, Job
  <1>2. CASE End(t)
    BY <1>2, EndCourse
  <1>3. CASE Created(t)
    <2>1. CASE job' = [job EXCEPT ![t] = Idle]
      BY <2>1, IdleCourse DEF TypeOK
    <2>2. CASE Goto(t, "close")
      <3>1. "close" \in Pc /\ "close" \in Course(job[t].op)
        BY <1>1, <1>3 DEF Created, At, OnCourse, Course, LaunchPc, Op, Pc
      <3> QED  BY <2>2, <3>1, GotoCourse
    <2> QED  BY <1>3, <2>1, <2>2 DEF Created, Goto
  <1>4. CASE Dispose(t)
    <2>1. CASE job[t].op = "launch"
      <3>1. /\ job'[t].op = "compensate" /\ job'[t].pc = "guard" /\ job'[t].deep = job[t].deep
            /\ \A u \in Tasks \ {t} : job'[u] = job[u]
        BY <1>1, <1>4, <2>1 DEF Dispose, TypeOK, Job
      <3> QED  BY <2>1, <3>1 DEF OnCourse, Course
    <2> QED  BY <1>2, <1>4, <2>1 DEF Dispose
  <1>5. CASE Guard(t) /\ ~End(t)
    <2>1. /\ job'[t].op = job[t].op /\ job'[t].deep = job[t].deep
          /\ job'[t].cur = job[t].cur /\ job'[t].root = job[t].root
          /\ \/ job'[t].pc = "reclaim" /\ job[t].op = "compensate"
             \/ job'[t].pc = IF job[t].op = "resume" THEN "restore" ELSE "lock"
          /\ \A u \in Tasks \ {t} : job'[u] = job[u]
      BY <1>1, <1>5 DEF Guard, Goto, TypeOK, Job
    <2>2. job'[t].pc \in Course(job[t].op)
      BY <1>1, <1>5, <2>1 DEF Guard, At, OnCourse, Course, LaunchPc, Op
    <2> QED  BY <2>1, <2>2 DEF OnCourse
  <1>6. CASE (Lock(t) \/ Restore(t)) /\ ~End(t)
    <2>1. /\ job'[t].op = job[t].op /\ job'[t].deep = job[t].deep
          /\ job'[t].cur = job[t].cur /\ job'[t].root = job[t].root
          /\ \/ At(t, "lock") /\ job'[t].pc = "pick"
             \/ At(t, "restore") /\ job'[t].pc = "install"
          /\ \A u \in Tasks \ {t} : job'[u] = job[u]
      BY <1>1, <1>6 DEF Lock, Restore, Restored, TypeOK, Job
    <2>2. job'[t].pc \in Course(job[t].op)
      BY <1>1, <2>1 DEF At, OnCourse, Course, LaunchPc, Op
    <2> QED  BY <2>1, <2>2 DEF OnCourse
  <1>7. CASE (Pick(t) \/ Stop(t)) /\ ~End(t)
    <2>1. /\ job'[t].op = job[t].op /\ job'[t].deep = job[t].deep
          /\ \/ At(t, "pick") /\ job'[t].pc \in {"pick", "stop"}
             \/ /\ At(t, "stop")
                /\ job'[t].pc = IF job[t].op = "archive" THEN "capture" ELSE "erase"
          /\ \A u \in Tasks \ {t} : job'[u] = job[u]
      <3>1. CASE Pick(t)
        <4>1. PICK s : \/ job' = [job EXCEPT ![t].todo = @ \ {s}]
                       \/ job' = [job EXCEPT ![t].todo = @ \ {s}, ![t].cur = s,
                                     ![t].mine = sessions[s], ![t].pc = "stop"]
          BY <1>7, <3>1 DEF Pick
        <4>2. At(t, "pick")
          BY <3>1 DEF Pick
        <4> QED  BY <1>1, <4>1, <4>2 DEF At, TypeOK, Job
      <3>2. CASE Stop(t)
        BY <1>1, <3>2 DEF Stop, At, TypeOK, Job
      <3> QED  BY <1>7, <3>1, <3>2
    <2>2. /\ job'[t].pc \in Course(job[t].op)
          /\ job[t].op \notin {"launch", "automation"}
      BY <1>1, <2>1 DEF At, OnCourse, Course, LaunchPc, Op
    <2> QED  BY <2>1, <2>2 DEF OnCourse
  <1> QED  BY <1>2, <1>3, <1>4, <1>5, <1>6, <1>7

LEMMA ProceedCourse ==
    ASSUME TypeOK, NEW t \in Tasks, OnCourse(t), Proceed(t)
    PROVE  OnCourse(t)' /\ \A u \in Tasks \ {t} : job'[u] = job[u]
  BY PlainCourse, FurtherCourse DEF Proceed

\* What an operation is when it begins.
LEMMA BeginsAs ==
    ASSUME TypeOK, NEW t \in Tasks, NEW o, NEW s, NEW deep \in BOOLEAN, NEW p,
           Begin(t, o, s, deep, p)
    PROVE  /\ job'[t].op = o /\ job'[t].root = s /\ job'[t].cur = s /\ job'[t].deep = deep
           /\ job'[t].pc = p /\ job'[t].todo = {} /\ job'[t].mine = "none"
           /\ \A u \in Tasks \ {t} : job'[u] = job[u]
  BY DEF Begin, TypeOK, Idle

LEMMA UnarchiveBegins ==
    ASSUME TypeOK, NEW s \in Sessions, Unarchive(s)
    PROVE  /\ job'[Service].op = "unarchive" /\ job'[Service].root = s
           /\ job'[Service].cur = s /\ job'[Service].saved = archive[s]
           /\ job'[Service].pc = "rebuild" /\ job'[Service].todo = {}
           /\ job'[Service].mine = "none"
           /\ \A u \in Tasks \ {Service} : job'[u] = job[u]
  BY DEF Unarchive, TypeOK, Idle, Tasks

\* The five ways in which an operation begins.
LEMMA RequestCases ==
    ASSUME TypeOK, Request
    PROVE  \/ \E t \in Tasks, s \in Sessions :
                 \/ t = Runner /\ s \in Automations /\ LaunchAs(t, "automation", s)
                 \/ s \notin Automations /\ LaunchAs(t, "launch", s)
                 \/ Resume(t, s)
           \/ \E s \in Sessions, deep \in BOOLEAN : Archive(s, deep) \/ Delete(s, deep)
           \/ \E s \in Sessions : Unarchive(s)
  BY DEF Request, Launch, Tasks

LEMMA RequestCourse ==
    ASSUME TypeOK, Request, \A t \in Tasks : OnCourse(t)
    PROVE  \A t \in Tasks : OnCourse(t)'
  <1>1. Service \in Tasks
    BY DEF Tasks
  <1>2. ASSUME NEW t \in Tasks, OnCourse(t)', \A u \in Tasks \ {t} : job'[u] = job[u]
        PROVE  \A u \in Tasks : OnCourse(u)'
    BY <1>2 DEF OnCourse
  <1>3. ASSUME NEW t \in Tasks, NEW s \in Sessions,
               \/ t = Runner /\ s \in Automations /\ LaunchAs(t, "automation", s)
               \/ s \notin Automations /\ LaunchAs(t, "launch", s)
               \/ Resume(t, s)
        PROVE  \A u \in Tasks : OnCourse(u)'
    <2>1. PICK o \in {"launch", "automation", "resume"}, p \in {"created", "list", "drop"} :
            Begin(t, o, s, FALSE, p) /\ (o = "resume" <=> p # "created")
      BY <1>3 DEF LaunchAs, Resume
    <2>2. p \in Course(o)
      BY <2>1 DEF Course, LaunchPc
    <2>3. /\ job'[t].op = o /\ job'[t].root = s /\ job'[t].cur = s
          /\ job'[t].deep = FALSE /\ job'[t].pc = p
          /\ \A u \in Tasks \ {t} : job'[u] = job[u]
      BY <2>1, BeginsAs
    <2>4. OnCourse(t)'
      BY <2>2, <2>3 DEF OnCourse
    <2> QED  BY <1>2, <2>3, <2>4
  <1>4. ASSUME NEW s \in Sessions, NEW deep \in BOOLEAN,
               Archive(s, deep) \/ Delete(s, deep)
        PROVE  \A u \in Tasks : OnCourse(u)'
    <2>1. PICK o \in {"archive", "delete"} : Begin(Service, o, s, deep, "guard")
      BY <1>4 DEF Archive, Delete
    <2>2. /\ job'[Service].op = o /\ job'[Service].pc = "guard"
          /\ \A u \in Tasks \ {Service} : job'[u] = job[u]
      BY <1>1, <2>1 DEF Begin, TypeOK, Idle
    <2>3. OnCourse(Service)'
      BY <2>2 DEF OnCourse, Course
    <2> QED  BY <1>1, <1>2, <2>2, <2>3
  <1>5. ASSUME NEW s \in Sessions, Unarchive(s)
        PROVE  \A u \in Tasks : OnCourse(u)'
    <2>1. OnCourse(Service)' /\ \A u \in Tasks \ {Service} : job'[u] = job[u]
      BY <1>1, <1>5, UnarchiveBegins DEF OnCourse, Course
    <2> QED  BY <1>1, <1>2, <2>1
  <1> QED  BY <1>3, <1>4, <1>5, RequestCases

\* The world leaves the operations alone, or ends them all.
LEMMA WorldJobs ==
    ASSUME World
    PROVE  \/ UNCHANGED <<rows, archive, lockVars, job>>
           \/ Restart
  BY DEF World, AgentEdits, ProviderCloses, OrphanEnds, TreeVanishes, Quit, Crash,
         durableVars

LEMMA NextCourse ==
    ASSUME TypeOK, [Next]_vars, \A t \in Tasks : OnCourse(t)
    PROVE  \A t \in Tasks : OnCourse(t)'
  <1>1. ASSUME NEW t \in Tasks, Proceed(t)
        PROVE  \A u \in Tasks : OnCourse(u)'
    <2>1. OnCourse(t)' /\ \A u \in Tasks \ {t} : job'[u] = job[u]
      BY <1>1, ProceedCourse
    <2> QED  BY <2>1 DEF OnCourse
  <1>2. CASE job' = job
    BY <1>2 DEF OnCourse
  <1>3. CASE Restart
    BY <1>3, IdleCourse DEF Restart
  <1> QED  BY <1>1, <1>2, <1>3, RequestCourse, WorldJobs DEF Next, vars

\* The walk leaves out no child of what it reached.
LEMMA WholeFamily ==
    ASSUME NEW s \in Sessions, NEW c \in Sessions, Present(c),
           Parent[c] \in Targets(s, TRUE)
    PROVE  c \in Targets(s, TRUE)
  <1> SUFFICES ASSUME c # s, NEW seen \in SUBSET Sessions,
                      s \in seen, Children(seen) \subseteq seen
               PROVE  c \in seen
    BY DEF Targets, Descendants
  <1>1. Parent[c] \in seen
    BY DEF Targets, Descendants
  <1> QED  BY <1>1 DEF Children

\* While the lock is held no session gets a row.
LEMMA RowsOnlyGo ==
    ASSUME TypeOK, Next, lifecycle # None
    PROVE  \A c \in Sessions : Present(c)' => Present(c)
  <1>1. CASE Request
    <2>1. UNCHANGED rows
      BY <1>1, RequestCases DEF LaunchAs, Resume, Archive, Delete, Unarchive, durableVars
    <2> QED  BY <2>1 DEF Present
  <1>2. ASSUME NEW t \in Tasks, Proceed(t)
        PROVE  \A c \in Sessions : Present(c)' => Present(c)
    <2>1. CASE Dispose(t) \/ Erase(t)
      BY <2>1 DEF Dispose, Erase, TypeOK, Present
    <2>2. CASE UNCHANGED rows
      BY <2>2 DEF Present
    <2>3. Dispose(t) \/ Erase(t) \/ UNCHANGED rows
      BY <1>2 DEF Proceed, Created, Close, Unmap, Guard, Lock, Drop, List, Restore,
         Install, Discard, Pick, Stop, Capture, Remove, Reclaim, Rebuild, Apply, Clear,
         durableVars
    <2> QED  BY <2>1, <2>2, <2>3
  <1>3. CASE World
    BY <1>3, WorldJobs DEF Restart, durableVars, Present
  <1> QED  BY <1>1, <1>2, <1>3 DEF Next

\* Faults are never taken back.
LEMMA FaultsGrow ==
    ASSUME TypeOK, [Next]_vars, faults' = 0
    PROVE  faults = 0 /\ ~Fault
  <1>1. faults \in Nat
    BY LifecycleAssumption DEF TypeOK, LifecycleAssumption
  <1>2. ~Fault
    BY <1>1 DEF Fault
  <1>3. UNCHANGED faults \/ Fault
    <2>1. ASSUME NEW t \in Tasks, Proceed(t) PROVE UNCHANGED faults \/ Fault
      BY <2>1 DEF Proceed, Created, Close, Unmap, Dispose, Guard, Lock, Drop, List,
         Restore, Install, Discard, Pick, Stop, Capture, Remove, Erase, Reclaim,
         Rebuild, Apply, Clear, Restored
    <2>2. CASE Request
      BY <2>2, RequestCases DEF LaunchAs, Resume, Archive, Delete, Unarchive
    <2>3. CASE World
      BY <2>3 DEF World, AgentEdits, ProviderCloses, OrphanEnds, TreeVanishes, Quit, Crash
    <2> QED  BY <2>1, <2>2, <2>3 DEF Next, vars
  <1> QED  BY <1>2, <1>3

\* What other tasks do does not add to a family that is being deleted.
LEMMA OthersFirst ==
    ASSUME LifeInv, Next, NEW u \in Tasks, ChildrenFirst(u), job'[u] = job[u]
    PROVE  ChildrenFirst(u)'
  <1> SUFFICES ASSUME job[u].op = "delete", job[u].deep, job[u].pc \in FamilyPc,
                      NEW c \in Sessions, Present(c)'
               PROVE  /\ Parent[c] \in job[u].todo =>
                             \/ c \in job[u].todo
                             \/ job[u].pc \in {"stop", "erase"} /\ c = job[u].cur
                      /\ job[u].pc \in {"stop", "erase"} => Parent[c] # job[u].cur
    BY DEF ChildrenFirst
  <1>1. CASE lifecycle = u
    <2>1. Present(c)
      BY <1>1, RowsOnlyGo, LifecycleAssumption DEF LifeInv, LifecycleAssumption
    <2> QED  BY <2>1 DEF ChildrenFirst
  <1>2. CASE lifecycle # u
    BY <1>2 DEF LifeInv, JobInv, TaskInv, Exclusive, LockedPc
  <1> QED  BY <1>1, <1>2

\* No other step takes part in deleting a family.
LEMMA Elsewhere ==
    ASSUME TypeOK, NEW t \in Tasks, OnCourse(t), Proceed(t)
    PROVE  \/ Lock(t) \/ Pick(t) \/ Stop(t) \/ Erase(t) \/ Reclaim(t)
           \/ job'[t].op # "delete" \/ job'[t].pc \notin FamilyPc
  <1>1. job[t] \in Job /\ job[t].op \in Op
    BY DEF TypeOK, Job
  <1>2. CASE End(t)
    BY <1>2, EndJob DEF Idle
  <1>3. CASE \E p \in Pc \ FamilyPc : Goto(t, p)
    BY <1>3 DEF Goto, TypeOK, Job
  <1>4. CASE Created(t) \/ Dispose(t)
    <2>1. CASE job' = [job EXCEPT ![t] = Idle]
      BY <2>1 DEF TypeOK, Idle
    <2>2. CASE Goto(t, "close")
      BY <1>3, <2>2 DEF Pc, FamilyPc
    <2>3. CASE job' = [job EXCEPT ![t].op = "compensate", ![t].pc = "guard"]
      BY <2>3 DEF TypeOK, Job
    <2> QED  BY <1>2, <1>4, <2>1, <2>2, <2>3 DEF Created, Dispose, Goto
  <1>5. CASE Guard(t) \/ Restore(t)
    <2>1. CASE Goto(t, "reclaim") /\ job[t].op = "compensate"
      BY <2>1 DEF Goto, TypeOK, Job
    <2>2. CASE \E p \in {"lock", "restore"} :
                  job' = [job EXCEPT ![t].held = {job[t].root}, ![t].pc = p]
      BY <2>2 DEF TypeOK, Job, FamilyPc
    <2>3. CASE \E r : job' = [job EXCEPT ![t].mine = r, ![t].pc = "install"]
      BY <2>3 DEF TypeOK, Job, FamilyPc
    <2> QED  BY <1>2, <1>5, <2>1, <2>2, <2>3 DEF Guard, Restore, Restored
  <1>6. CASE Capture(t) \/ Remove(t)
    <2>1. job[t].op = "archive"
      BY <1>1, <1>6 DEF Capture, Remove, At, OnCourse, Course, LaunchPc, Op
    <2>2. \E p \in {"pick", "remove"} : Goto(t, p)
      BY <1>6 DEF Capture, Remove
    <2> QED  BY <2>1, <2>2 DEF Goto, TypeOK, Job
  <1>7. CASE \/ Close(t) \/ Unmap(t) \/ Drop(t) \/ List(t) \/ Install(t) \/ Discard(t)
             \/ Rebuild(t) \/ Apply(t) \/ Clear(t)
    <2>1. End(t) \/ \E p \in {"unmap", "dispose", "list", "guard", "discard", "clear",
                              "apply"} : Goto(t, p)
      BY <1>7 DEF Close, Unmap, Drop, List, Install, Discard, Rebuild, Apply, Rescued,
                  Clear
    <2> QED  BY <1>2, <1>3, <2>1 DEF Pc, FamilyPc
  <1> QED  BY <1>4, <1>5, <1>6, <1>7 DEF Proceed

\* The steps of a deletion.
LEMMA OwnFirst ==
    ASSUME LifeInv, NEW t \in Tasks, OnCourse(t), ChildrenFirst(t), Proceed(t), ~Fault
    PROVE  ChildrenFirst(t)'
  <1>1. job[t] \in Job /\ TypeOK
    BY DEF LifeInv, TypeOK
  <1>2. CASE Lock(t) /\ ~End(t)
    <2> DEFINE s == job[t].root
               extra == Targets(s, job[t].deep) \ {s}
    <2>1. /\ s \in Sessions /\ UNCHANGED rows
          /\ job' = [job EXCEPT ![t].pc = "pick", ![t].todo = extra \cup {s},
                                ![t].held = @ \cup extra]
      BY <1>2 DEF Lock, durableVars, At, LifeInv, JobInv, TaskInv, Engaged
    <2>2. s \in Targets(s, job[t].deep)
      BY DEF Targets
    <2> HIDE DEF extra
    <2>3. /\ job'[t].pc = "pick" /\ job'[t].todo = extra \cup {s}
          /\ job'[t].deep = job[t].deep
      BY <1>1, <2>1 DEF TypeOK, Job
    <2>4. job'[t].todo = Targets(s, job[t].deep)
      BY <2>2, <2>3 DEF extra
    <2>5. ASSUME job[t].deep, NEW c \in Sessions, Present(c), Parent[c] \in job'[t].todo
          PROVE  c \in job'[t].todo
      <3>1. job[t].deep = TRUE
        BY <1>1, <2>5 DEF Job
      <3> QED  BY <2>1, <2>4, <2>5, <3>1, WholeFamily
    <2> QED  BY <2>1, <2>3, <2>5 DEF ChildrenFirst, Present
  <1>3. CASE Pick(t) /\ ~End(t)
    <2>1. PICK s \in job[t].todo :
            /\ Deepest(t, s)
            /\ \/ /\ Settled(t, s)
                  /\ job' = [job EXCEPT ![t].todo = @ \ {s}]
               \/ job' = [job EXCEPT ![t].todo = @ \ {s}, ![t].cur = s,
                             ![t].mine = sessions[s], ![t].pc = "stop"]
      BY <1>3 DEF Pick
    <2>2. At(t, "pick") /\ UNCHANGED rows
      BY <1>3 DEF Pick, durableVars
    <2> SUFFICES ASSUME job[t].op = "delete", job[t].deep, NEW c \in Sessions, Present(c)
                 PROVE  /\ Parent[c] \in job'[t].todo =>
                               \/ c \in job'[t].todo
                               \/ job'[t].pc \in {"stop", "erase"} /\ c = job'[t].cur
                        /\ job'[t].pc \in {"stop", "erase"} => Parent[c] # job'[t].cur
      <3>1. job'[t].op = job[t].op /\ job'[t].deep = job[t].deep
        BY <1>1, <2>1 DEF TypeOK, Job
      <3> QED  BY <2>2, <3>1 DEF ChildrenFirst, Present
    <2>3. Parent[c] \in job[t].todo => c \in job[t].todo
      BY <2>2 DEF ChildrenFirst, At, FamilyPc
    <2>4. CASE /\ Settled(t, s)
               /\ job' = [job EXCEPT ![t].todo = @ \ {s}]
      <3>1. job'[t].todo = job[t].todo \ {s} /\ job'[t].pc = "pick"
        BY <1>1, <2>2, <2>4 DEF TypeOK, Job, At
      <3>2. c # s
        BY <2>4 DEF Settled
      <3> QED  BY <2>3, <3>1, <3>2
    <2>5. CASE job' = [job EXCEPT ![t].todo = @ \ {s}, ![t].cur = s,
                             ![t].mine = sessions[s], ![t].pc = "stop"]
      <3>1. /\ job'[t].todo = job[t].todo \ {s} /\ job'[t].pc = "stop"
            /\ job'[t].cur = s
        BY <1>1, <2>2, <2>5 DEF TypeOK, Job, At
      <3>2. Parent[c] # s
        BY <2>1, <2>3 DEF Deepest
      <3> QED  BY <2>3, <3>1, <3>2
    <2> QED  BY <2>1, <2>4, <2>5
  <1>4. CASE Stop(t)
    <2>1. /\ job'[t].op = job[t].op /\ job'[t].deep = job[t].deep
          /\ job'[t].todo = job[t].todo /\ job'[t].cur = job[t].cur
          /\ job[t].op = "delete" => job'[t].pc = "erase"
          /\ job[t].pc = "stop" /\ UNCHANGED rows
      BY <1>1, <1>4 DEF Stop, TypeOK, Job, durableVars, At
    <2> QED  BY <2>1 DEF ChildrenFirst, Present, FamilyPc
  <1>5. CASE Erase(t)
    <2>1. /\ job[t].pc = "erase" /\ rows' = [rows EXCEPT ![job[t].cur] = "deleted"]
          /\ Goto(t, "reclaim") /\ job[t].cur \in Sessions
      BY <1>5 DEF Erase, At, LifeInv, JobInv, TaskInv, Engaged
    <2>2. /\ job'[t].op = job[t].op /\ job'[t].deep = job[t].deep
          /\ job'[t].todo = job[t].todo /\ job'[t].pc = "reclaim"
      BY <1>1, <2>1 DEF Goto, TypeOK, Job
    <2>3. \A c \in Sessions : Present(c)' => Present(c) /\ c # job[t].cur
      BY <1>1, <2>1 DEF TypeOK, Present
    <2> QED  BY <2>1, <2>2, <2>3 DEF ChildrenFirst, FamilyPc
  <1>6. CASE Reclaim(t)
    <2>1. /\ job[t].pc = "reclaim" /\ UNCHANGED rows /\ Goto(t, "pick")
      BY <1>6 DEF Reclaim, At
    <2>2. /\ job'[t].op = job[t].op /\ job'[t].deep = job[t].deep
          /\ job'[t].todo = job[t].todo /\ job'[t].pc = "pick"
      BY <1>1, <2>1 DEF Goto, TypeOK, Job
    <2> QED  BY <2>1, <2>2 DEF ChildrenFirst, FamilyPc, Present
  <1>7. CASE job'[t].op # "delete" \/ job'[t].pc \notin FamilyPc
    BY <1>7 DEF ChildrenFirst
  <1>8. CASE End(t)
    <2>1. job'[t].op # "delete"
      BY <1>1, <1>8, EndJob DEF Idle
    <2> QED  BY <1>7, <2>1
  <1> QED  BY <1>1, <1>2, <1>3, <1>4, <1>5, <1>6, <1>7, <1>8, Elsewhere

LEMMA FamilyInductive == Spec => []FamilyInv
  <1>1. Init => FamilyInv
    BY DEF Init, FamilyInv, OnCourse, Course, ChildrenFirst, Idle
  <1>2. LifeInv /\ FamilyInv /\ [Next]_vars => FamilyInv'
    <2> SUFFICES ASSUME LifeInv, FamilyInv, [Next]_vars PROVE FamilyInv'
      OBVIOUS
    <2>1. \A t \in Tasks : OnCourse(t)'
      BY NextCourse DEF LifeInv, FamilyInv
    <2>2. ASSUME faults' = 0, NEW u \in Tasks
          PROVE  ChildrenFirst(u)'
      <3>1. ChildrenFirst(u) /\ OnCourse(u) /\ ~Fault
        BY <2>2, FaultsGrow DEF LifeInv, FamilyInv
      <3>2. CASE Next /\ job'[u] = job[u]
        BY <3>1, <3>2, OthersFirst
      <3>3. CASE Proceed(u)
        BY <3>1, <3>3, OwnFirst
      <3>4. ASSUME NEW t \in Tasks \ {u}, Proceed(t)
            PROVE  ChildrenFirst(u)'
        BY <2>2, <3>2, <3>4, ProceedCourse DEF LifeInv, FamilyInv, Next
      <3>5. CASE Request
        <4>1. job'[u] = job[u] \/ job'[u].pc \notin FamilyPc
          <5>1. ASSUME NEW t \in Tasks, NEW o, NEW s, NEW deep \in BOOLEAN,
                       NEW p \in {"created", "list", "drop", "guard"},
                       Begin(t, o, s, deep, p)
                PROVE  job'[u] = job[u] \/ job'[u].pc \notin FamilyPc
            BY <5>1 DEF Begin, LifeInv, TypeOK, FamilyPc, Idle
          <5>2. ASSUME NEW s \in Sessions, Unarchive(s)
                PROVE  job'[u] = job[u] \/ job'[u].pc \notin FamilyPc
            BY <5>2, UnarchiveBegins DEF LifeInv, FamilyPc
          <5>3. Service \in Tasks
            BY DEF Tasks
          <5> QED  BY <3>5, <5>1, <5>2, <5>3, RequestCases
                   DEF LifeInv, LaunchAs, Resume, Archive, Delete
        <4> QED  BY <3>2, <3>5, <4>1 DEF Next, ChildrenFirst
      <3>6. CASE Restart
        BY <3>6 DEF Restart, ChildrenFirst, Idle
      <3>7. CASE UNCHANGED vars
        BY <3>1, <3>7 DEF vars, ChildrenFirst, Present
      <3> QED  BY <3>2, <3>3, <3>4, <3>5, <3>6, <3>7, WorldJobs DEF Next
    <2> QED  BY <2>1, <2>2 DEF FamilyInv
  <1> QED  BY <1>1, <1>2, Inductive, PTL DEF Spec

\* delete_session_scoped, "a child is always gone before the parent that named it":
\* while no database call fails, a parent is not deleted while a child of its has a
\* row, for any family and whatever is launched, resumed or deleted meanwhile.
THEOREM ChildrenGoFirst == Spec => ChildGoneFirst
  <1> DEFINE First == faults = 0 => \A t \in Tasks, c \in Sessions :
        /\ job[t].op = "delete" /\ job[t].deep /\ At(t, "erase")
        /\ Present(c) /\ Parent[c] = job[t].cur
        => Present(Parent[c])'
  <1>1. FamilyInv => First
    BY DEF FamilyInv, ChildrenFirst, At, FamilyPc
  <1> QED  BY <1>1, FamilyInductive, PTL DEF ChildGoneFirst

-----------------------------------------------------------------------------
(* No work is lost, where one task resumes a session.                      *)

\* close_session and resume_closed_session take out of the map what is there under
\* the name of a session, also what another task has just put there.  That may
\* happen to a fork, when fork_session is retried, and to a launch taken back.
Shared == Forks \cup Failing

\* Sessions with a worktree of GCABB's to which it cannot happen.
Sole == Managed \ Shared

\* What is at work on sessions that are not among these.
Outside(t) ==
    \/ job[t].op \in {"compensate", "automation"}
    \/ job[t].op = "launch" /\ ~At(t, "created")
    \/ job[t].op = "resume" /\ t # Service

OutsideOnly(t) ==
    Outside(t) => /\ job[t].root \notin Sole /\ job[t].cur \notin Sole
                  /\ job[t].todo \cap Sole = {}

\* What the map says of a session that is about to be entered or resumed.
Mapped(t) ==
    /\ At(t, "created") /\ job[t].root \in Sole => sessions[job[t].root] = "none"
    /\ At(t, "drop") /\ job[t].root \in Sole =>
           sessions[job[t].root] \in {"gone", "unavailable"}

\* Between capturing a worktree and removing it nobody writes into it.
Captured(t) ==
    /\ job[t].pc \in {"idle", "created", "capture", "remove"} => job[t].mine = "none"
    /\ At(t, "capture") \/ (At(t, "stop") /\ job[t].op = "archive") =>
           archive[job[t].cur] = None
    /\ At(t, "remove") => /\ sessions[job[t].cur] = "none"
                          /\ job[t].cur \notin Shared =>
                                 Work(job[t].cur) \subseteq Patch(job[t].cur)

\* The record that is unarchived is the one that was read, and its work is in the
\* worktree before it is cleared.
Rescuing(t) ==
    job[t].op = "unarchive" =>
        /\ archive[job[t].root] \in {None, job[t].saved}
        /\ ~job[t].saved.branch \/ job[t].root \notin Managed => job[t].saved.patch = {}
        /\ At(t, "clear") => job[t].saved.patch \subseteq Work(job[t].root)

\* An operation is about a session that was launched.
AboutBorn(t) == ~At(t, "idle") => rows[job[t].root] # "unborn"

Minding(t) ==
    OutsideOnly(t) /\ Mapped(t) /\ Captured(t) /\ Rescuing(t) /\ AboutBorn(t)

\* What is true of a session, whoever is doing what.
Kept(s) ==
    /\ rows[s] = "unborn" => tree[s] = None
    /\ s \notin Managed => Work(s) = {} /\ Patch(s) = {}
    /\ archive[s] # None /\ ~archive[s].branch => archive[s].patch = {}
    /\ s \in orphaned => s \notin Sole

WorkInv == (\A s \in Sessions : Kept(s)) /\ (\A t \in Tasks : Minding(t))

\* What a step of one task leaves to the others.
Respects(t) ==
    /\ \A u \in Tasks \ {t} : job'[u] = job[u]
    /\ \A s \in Sessions : rows[s] # "unborn" => rows'[s] # "unborn"
    /\ \A u \in Tasks \ {t} : lifecycle = u =>
           \A s \in Sessions :
               /\ archive'[s] \in {archive[s], None}
               /\ s \in Managed => archive'[s] = archive[s]
               /\ sessions[s] = "none" => sessions'[s] = "none"
               /\ Work(s)' = Work(s)
    /\ t # Service => \A s \in Sole :
           sessions[s] \in {"gone", "unavailable"} => sessions'[s] = sessions[s]

\* The steps that change the map.
LEMMA MapRespects ==
    ASSUME LifeInv, WorkInv, NEW t \in Tasks, OnCourse(t), OnCourse(t)',
           \A u \in Tasks \ {t} : job'[u] = job[u],
           \/ Created(t) \/ Close(t) \/ Unmap(t) \/ Drop(t) \/ Install(t) \/ Pick(t)
    PROVE  Respects(t)
  <1>1. /\ TypeOK /\ TaskInv(t) /\ Minding(t) /\ job[t].root \in Sessions
        /\ job[t].todo \in SUBSET Sessions /\ job[t].op \in Op
        /\ UNCHANGED durableVars
    BY DEF LifeInv, JobInv, TypeOK, Job, WorkInv, TaskInv, Engaged, At, Created, Close,
           Unmap, Drop, Install, Pick
  <1>2. \A u \in Tasks \ {t} : lifecycle = u =>
            \A s \in Sessions : sessions[s] = "none" => sessions'[s] = "none"
    <2>1. CASE Created(t)
      BY <1>1, <2>1 DEF Created, TaskInv, Exclusive, At, LockedPc
    <2>2. CASE Close(t) \/ Unmap(t) \/ Drop(t) \/ Pick(t)
      BY <1>1, <2>2 DEF Close, Unmap, Drop, Pick, Unmapped, TypeOK
    <2>3. CASE Install(t)
      BY <2>3, LifecycleAssumption DEF Install, LifecycleAssumption
    <2> QED  BY <2>1, <2>2, <2>3
  <1>3. ASSUME t # Service, NEW s \in Sole, sessions[s] \in {"gone", "unavailable"}
        PROVE  sessions'[s] = sessions[s]
    <2>1. s \in Sessions
      BY LifecycleAssumption DEF LifecycleAssumption, Sole
    <2>2. CASE Created(t)
      <3>1. s # job[t].root
        BY <1>1, <1>3, <2>2 DEF Created, Minding, Mapped
      <3> QED  BY <1>1, <2>1, <2>2, <3>1 DEF Created, TypeOK
    <2>3. CASE Close(t) \/ Unmap(t) \/ Drop(t) \/ Install(t)
      <3>1. Outside(t)
        BY <1>1, <1>3, <2>3
           DEF Close, Unmap, Drop, Install, Outside, At, OnCourse, Course, LaunchPc, Op
      <3>2. s # job[t].root
        BY <1>1, <3>1 DEF Minding, OutsideOnly
      <3> QED  BY <1>1, <2>1, <2>3, <3>2 DEF Close, Unmap, Drop, Install, Unmapped, TypeOK
    <2>4. CASE Pick(t)
      <3>1. Outside(t)
        BY <1>1, <1>3, <2>4 DEF Pick, Outside, At, OnCourse, Course, LaunchPc, Op
      <3>2. s \notin job[t].todo
        BY <1>1, <3>1 DEF Minding, OutsideOnly
      <3> QED  BY <1>1, <2>1, <2>4, <3>2 DEF Pick, TypeOK
    <2> QED  BY <2>2, <2>3, <2>4
  <1> QED  BY <1>1, <1>2, <1>3 DEF Respects, durableVars, Work

\* Those that change worktrees.
LEMMA TreeRespects ==
    ASSUME LifeInv, WorkInv, NEW t \in Tasks,
           \A u \in Tasks \ {t} : job'[u] = job[u],
           \/ Restore(t) \/ Remove(t) \/ Reclaim(t) \/ Rebuild(t) \/ Apply(t)
    PROVE  Respects(t)
  <1>1. TypeOK /\ TaskInv(t) /\ UNCHANGED <<rows, archive, sessions>>
    BY DEF LifeInv, JobInv, Restore, Remove, Reclaim, Rebuild, Apply
  <1>2. ASSUME NEW u \in Tasks \ {t}, lifecycle = u, NEW s \in Sessions
        PROVE  Work(s)' = Work(s)
    <2>1. ~(Remove(t) \/ Rebuild(t) \/ Apply(t))
      BY <1>1, <1>2 DEF Remove, Rebuild, Apply, TaskInv, Exclusive, At, LockedPc
    <2>2. CASE Restore(t)
      BY <1>1, <2>2 DEF Restore, Work, TypeOK
    <2>3. CASE Reclaim(t)
      BY <1>1, <2>3 DEF Reclaim, Work, TypeOK
    <2> QED  BY <2>1, <2>2, <2>3
  <1> QED  BY <1>1, <1>2 DEF Respects

\* Those that change records and rows.
LEMMA RowRespects ==
    ASSUME LifeInv, WorkInv, NEW t \in Tasks,
           \A u \in Tasks \ {t} : job'[u] = job[u],
           \/ Dispose(t) \/ Capture(t) \/ Erase(t) \/ Clear(t)
    PROVE  Respects(t)
  <1>1. TypeOK /\ TaskInv(t) /\ UNCHANGED <<tree, sessions>>
    BY DEF LifeInv, JobInv, Dispose, Capture, Erase, Clear
  <1>2. \A s \in Sessions : rows[s] # "unborn" => rows'[s] # "unborn"
    BY <1>1 DEF Dispose, Capture, Erase, Clear, TypeOK
  <1>3. ASSUME NEW u \in Tasks \ {t}, lifecycle = u, NEW s \in Sessions
        PROVE  /\ archive'[s] \in {archive[s], None}
               /\ s \in Managed => archive'[s] = archive[s]
    <2>1. Dispose(t)
      BY <1>1, <1>3 DEF Capture, Erase, Clear, TaskInv, Exclusive, At, LockedPc
    <2>2. \/ UNCHANGED archive
          \/ /\ archive' = [archive EXCEPT ![job[t].root] = None]
             /\ job[t].root \in Automations
      BY <1>1, <2>1 DEF Dispose, TaskInv, Launching, At, LaunchPc
    <2>3. Automations \cap Managed = {}
      BY LifecycleAssumption DEF LifecycleAssumption
    <2> QED  BY <1>1, <2>2, <2>3 DEF TypeOK
  <1> QED  BY <1>1, <1>2, <1>3 DEF Respects, Work

LEMMA ProceedRespects ==
    ASSUME LifeInv, WorkInv, NEW t \in Tasks, OnCourse(t), OnCourse(t)',
           \A u \in Tasks \ {t} : job'[u] = job[u], Proceed(t)
    PROVE  Respects(t)
  <1>1. CASE Guard(t) \/ Lock(t) \/ List(t) \/ Discard(t) \/ Stop(t)
    <2>1. UNCHANGED <<durableVars, sessions>>
      BY <1>1 DEF Guard, Lock, List, Discard, Stop
    <2> QED  BY <2>1 DEF Respects, durableVars, Work
  <1> QED  BY <1>1, MapRespects, TreeRespects, RowRespects DEF Proceed

\* What the others look after stays as they left it.
LEMMA OthersMind ==
    ASSUME LifeInv, WorkInv, \A u \in Tasks : OnCourse(u),
           \A s \in Sessions : Kept(s)', NEW t \in Tasks, Respects(t)
    PROVE  \A u \in Tasks \ {t} : Minding(u)'
  <1> SUFFICES ASSUME NEW u \in Tasks \ {t} PROVE Minding(u)'
    OBVIOUS
  <1>1. /\ Minding(u) /\ TaskInv(u) /\ OnCourse(u) /\ job'[u] = job[u]
        /\ job[u] \in Job /\ Managed \subseteq Sessions /\ Sole \subseteq Sessions
    BY LifecycleAssumption
       DEF WorkInv, LifeInv, JobInv, TypeOK, Respects, LifecycleAssumption, Sole
  <1>2. OutsideOnly(u)'
    BY <1>1 DEF Minding, OutsideOnly, Outside, At
  <1>3. Mapped(u)'
    <2>1. ASSUME At(u, "created"), job[u].root \in Sole
          PROVE  sessions'[job[u].root] = "none"
      <3>1. lifecycle = u /\ sessions[job[u].root] = "none"
        BY <1>1, <2>1 DEF Minding, Mapped, TaskInv, Exclusive, At, LockedPc
      <3> QED  BY <1>1, <2>1, <3>1 DEF Respects
    <2>2. ASSUME At(u, "drop"), job[u].root \in Sole
          PROVE  sessions'[job[u].root] \in {"gone", "unavailable"}
      <3>1. u = Service
        <4>1. job[u].op = "resume"
          BY <1>1, <2>2 DEF OnCourse, Course, At, LaunchPc, Job, Op
        <4> QED  BY <1>1, <2>2, <4>1 DEF Minding, OutsideOnly, Outside
      <3> QED  BY <1>1, <2>2, <3>1 DEF Minding, Mapped, Respects
    <2> QED  BY <1>1, <2>1, <2>2 DEF Mapped, At
  <1>4. Captured(u)'
    <2>1. CASE job[u].pc \in {"stop", "capture", "remove"}
      <3>1. lifecycle = u /\ job[u].cur \in Sessions
        BY <1>1, <2>1 DEF TaskInv, Exclusive, Engaged, At, LockedPc
      <3>2. /\ archive'[job[u].cur] \in {archive[job[u].cur], None}
            /\ job[u].cur \in Managed => archive'[job[u].cur] = archive[job[u].cur]
            /\ sessions[job[u].cur] = "none" => sessions'[job[u].cur] = "none"
            /\ Work(job[u].cur)' = Work(job[u].cur)
        BY <3>1 DEF Respects
      <3>3. At(u, "remove") /\ job[u].cur \notin Shared =>
                Work(job[u].cur)' \subseteq Patch(job[u].cur)'
        <4>1. CASE job[u].cur \in Managed
          BY <1>1, <3>2, <4>1 DEF Minding, Captured, Patch
        <4>2. CASE job[u].cur \notin Managed
          BY <1>1, <3>1, <4>2 DEF Kept, Work
        <4> QED  BY <4>1, <4>2
      <3> QED  BY <1>1, <3>2, <3>3 DEF Minding, Captured, At
    <2>2. CASE job[u].pc \notin {"stop", "capture", "remove"}
      BY <1>1, <2>2 DEF Minding, Captured, At
    <2> QED  BY <2>1, <2>2
  <1>5. Rescuing(u)'
    <2> SUFFICES ASSUME job[u].op = "unarchive"
                 PROVE  /\ archive'[job[u].root] \in {None, job[u].saved}
                        /\ ~job[u].saved.branch \/ job[u].root \notin Managed =>
                               job[u].saved.patch = {}
                        /\ At(u, "clear") =>
                               job[u].saved.patch \subseteq Work(job[u].root)'
      BY <1>1 DEF Rescuing, At, Work
    <2>1. lifecycle = u /\ job[u].root \in Sessions
      BY <1>1 DEF OnCourse, Course, TaskInv, Exclusive, Engaged, At, LockedPc
    <2> QED  BY <1>1, <2>1 DEF Respects, Minding, Rescuing
  <1>6. AboutBorn(u)'
    BY <1>1 DEF Minding, AboutBorn, At, TaskInv, Engaged, Respects
  <1> QED  BY <1>2, <1>3, <1>4, <1>5, <1>6 DEF Minding

\* A task at rest minds nothing.
LEMMA RestMinds ==
    ASSUME NEW t \in Tasks, job'[t] = Idle
    PROVE  Minding(t)'
  BY DEF Idle, Minding, OutsideOnly, Outside, Mapped, Captured, Rescuing, AboutBorn, At

\* One that only moves on, to a place that asks for nothing more.
LEMMA GoMinds ==
    ASSUME LifeInv, NEW t \in Tasks, Minding(t),
           job'[t].op = job[t].op, job'[t].root = job[t].root,
           job'[t].cur = job[t].cur, job'[t].saved = job[t].saved,
           Outside(t)' => Outside(t) /\ job'[t].todo \cap Sole = {},
           ~At(t, "idle"), job[t].op # "unarchive",
           job'[t].pc \notin {"idle", "created", "drop", "stop", "capture", "remove"},
           UNCHANGED rows
    PROVE  Minding(t)'
  <1>1. OutsideOnly(t)'
    BY DEF Minding, OutsideOnly
  <1>2. Mapped(t)' /\ Captured(t)' /\ Rescuing(t)' /\ AboutBorn(t)'
    BY DEF Minding, Mapped, Captured, Rescuing, AboutBorn, At
  <1> QED  BY <1>1, <1>2 DEF Minding

\* Launches, resumptions, guards and deletions.
LEMMA PlainMinds ==
    ASSUME LifeInv, NEW t \in Tasks, OnCourse(t), Minding(t),
           \/ Close(t) \/ Unmap(t) \/ Drop(t) \/ List(t) \/ Install(t) \/ Discard(t)
           \/ Remove(t) \/ Erase(t) \/ Reclaim(t)
    PROVE  Minding(t)'
  <1>1. UNCHANGED rows \/ Erase(t)
    BY DEF Close, Unmap, Drop, List, Install, Discard, Remove, Reclaim, durableVars
  <1>2. TypeOK /\ job[t] \in Job /\ job[t].op \in Op
    BY DEF LifeInv, TypeOK, Job
  <1>3. CASE End(t)
    BY <1>2, <1>3, EndJob, RestMinds
  <1>4. ASSUME NEW p \in {"unmap", "dispose", "list", "guard", "discard", "pick", "reclaim"},
               Goto(t, p)
        PROVE  Minding(t)'
    <2>1. /\ job'[t].op = job[t].op /\ job'[t].root = job[t].root
          /\ job'[t].cur = job[t].cur /\ job'[t].saved = job[t].saved
          /\ job'[t].todo = job[t].todo /\ job'[t].pc = p
      BY <1>2, <1>4 DEF Goto, TypeOK, Job
    <2>2. /\ ~At(t, "idle") /\ ~At(t, "created") /\ job[t].op # "unarchive"
      BY <1>2 DEF Close, Unmap, Drop, List, Install, Discard, Remove, Erase, Reclaim,
         At, OnCourse, Course, LaunchPc, Op
    <2>3. Outside(t)' => Outside(t) /\ job'[t].todo \cap Sole = {}
      BY <2>1, <2>2 DEF Outside, Minding, OutsideOnly, At
    <2>4. OutsideOnly(t)' /\ Mapped(t)' /\ Captured(t)' /\ Rescuing(t)'
      BY <2>1, <2>2, <2>3 DEF Minding, OutsideOnly, Mapped, Captured, Rescuing, At
    <2>5. AboutBorn(t)'
      <3>1. rows[job[t].root] # "unborn" => rows'[job[t].root] # "unborn"
        <4>1. \A s \in Sessions : rows[s] # "unborn" => rows'[s] # "unborn"
          BY <1>1, <1>2 DEF Erase, TypeOK
        <4>2. job[t].root \in Sessions
          BY <2>2 DEF LifeInv, JobInv, TaskInv, Engaged
        <4> QED  BY <4>1, <4>2
      <3> QED  BY <2>1, <2>2, <3>1 DEF Minding, AboutBorn, At
    <2> QED  BY <2>4, <2>5 DEF Minding
  <1>5. End(t) \/ \E p \in {"unmap", "dispose", "list", "guard", "discard", "pick",
                            "reclaim"} : Goto(t, p)
    BY DEF Close, Unmap, Drop, List, Install, Discard, Remove, Erase, Reclaim
  <1> QED  BY <1>3, <1>4, <1>5

\* The steps of a launch, and those that take a guard or the lock.
LEMMA TakingMinds ==
    ASSUME LifeInv, NEW t \in Tasks, OnCourse(t), Minding(t),
           Created(t) \/ Dispose(t) \/ Guard(t) \/ Lock(t) \/ Restore(t)
    PROVE  Minding(t)'
  <1>1. TypeOK /\ job[t] \in Job /\ job[t].op \in Op /\ job[t].root \in Sessions
        /\ TaskInv(t) /\ ~At(t, "idle")
    BY DEF LifeInv, JobInv, TaskInv, Engaged, TypeOK, Job, Created, Dispose, Guard, Lock,
           Restore, At
  <1>2. CASE End(t)
    BY <1>1, <1>2, EndJob, RestMinds
  <1>3. CASE Created(t)
    <2>1. CASE job' = [job EXCEPT ![t] = Idle]
      BY <1>1, <2>1, RestMinds DEF TypeOK
    <2>2. CASE Goto(t, "close") /\ job[t].root \in Failing \cup Automations
      <3>1. /\ job'[t].op = job[t].op /\ job'[t].root = job[t].root
            /\ job'[t].cur = job[t].cur /\ job'[t].saved = job[t].saved
            /\ job'[t].todo = job[t].todo /\ job'[t].pc = "close"
        BY <1>1, <2>2 DEF Goto, TypeOK, Job
      <3>2. job[t].op \in {"launch", "automation"} /\ job[t].todo = {}
        BY <1>1, <1>3 DEF Created, At, TaskInv, Launching, Exclusive, LaunchPc, FamilyPc
      <3>3. job[t].cur = job[t].root /\ job[t].root \notin Sole
        BY <2>2, <3>2, LifecycleAssumption
           DEF OnCourse, Sole, Shared, LifecycleAssumption
      <3>4. UNCHANGED rows
        BY <1>3 DEF Created, durableVars
      <3> QED  BY <1>1, <3>1, <3>2, <3>3, <3>4
               DEF Minding, OutsideOnly, Mapped, Captured, Rescuing, AboutBorn, At
    <2>3. Goto(t, "close") => job'[t].pc = "close"
      BY <1>1 DEF Goto, TypeOK, Job
    <2> QED  BY <1>3, <2>1, <2>2, <2>3 DEF Created, Goto
  <1>4. CASE Dispose(t) /\ ~End(t)
    <2>1. /\ job[t].op = "launch" /\ At(t, "dispose") /\ UNCHANGED rows
          /\ job' = [job EXCEPT ![t].op = "compensate", ![t].pc = "guard"]
      BY <1>4 DEF Dispose
    <2>2. /\ job'[t].op = "compensate" /\ job'[t].root = job[t].root
          /\ job'[t].cur = job[t].cur
          /\ job'[t].todo = job[t].todo /\ job'[t].pc = "guard"
      BY <1>1, <2>1 DEF TypeOK, Job
    <2>3. Outside(t)
      BY <2>1 DEF Outside, At
    <2> QED  BY <1>1, <2>1, <2>2, <2>3
             DEF Minding, OutsideOnly, Mapped, Captured, Rescuing, AboutBorn, At
  <1>5. CASE (Guard(t) \/ Restore(t)) /\ ~End(t)
    <2>1. /\ job'[t].op = job[t].op /\ job'[t].root = job[t].root
          /\ job'[t].cur = job[t].cur /\ job'[t].saved = job[t].saved
          /\ job'[t].todo = job[t].todo
          /\ job'[t].pc \in {"reclaim", "restore", "lock", "install"}
      <3>1. CASE Goto(t, "reclaim")
        BY <1>1, <3>1 DEF Goto, TypeOK, Job
      <3>2. CASE \E p \in {"lock", "restore"} :
                    job' = [job EXCEPT ![t].held = {job[t].root}, ![t].pc = p]
        BY <1>1, <3>2 DEF TypeOK, Job
      <3>3. CASE \E r : job' = [job EXCEPT ![t].mine = r, ![t].pc = "install"]
        BY <1>1, <3>3 DEF TypeOK, Job
      <3> QED  BY <1>5, <3>1, <3>2, <3>3 DEF Guard, Restore, Restored
    <2>2. job[t].op # "unarchive" /\ ~At(t, "created") /\ UNCHANGED rows
      BY <1>1, <1>5 DEF Guard, Restore, At, OnCourse, Course, LaunchPc, Op, durableVars
    <2>3. Outside(t)' => Outside(t) /\ job'[t].todo \cap Sole = {}
      BY <2>1, <2>2 DEF Outside, Minding, OutsideOnly, At
    <2> QED  BY <1>1, <2>1, <2>2, <2>3, GoMinds
  <1>6. CASE Lock(t) /\ ~End(t)
    <2> DEFINE s == job[t].root
               extra == Targets(s, job[t].deep) \ {s}
    <2>1. job' = [job EXCEPT ![t].pc = "pick", ![t].todo = extra \cup {s},
                             ![t].held = @ \cup extra]
      BY <1>6 DEF Lock
    <2>2. job[t].deep = FALSE => extra = {}
      BY DEF Targets
    <2> HIDE DEF extra
    <2>3. /\ job'[t].op = job[t].op /\ job'[t].root = job[t].root
          /\ job'[t].cur = job[t].cur /\ job'[t].saved = job[t].saved
          /\ job'[t].todo = extra \cup {s} /\ job'[t].pc = "pick"
      BY <1>1, <2>1 DEF TypeOK, Job
    <2>4. /\ job[t].op \in {"archive", "delete", "compensate"} /\ UNCHANGED rows
      BY <1>1, <1>6 DEF Lock, At, OnCourse, Course, LaunchPc, Op, durableVars
    <2>5. Outside(t)' => Outside(t) /\ job'[t].todo \cap Sole = {}
      <3>1. Outside(t)' => job[t].op = "compensate"
        BY <2>3, <2>4 DEF Outside
      <3>2. job[t].op = "compensate" => job[t].deep = FALSE
        BY <1>1 DEF OnCourse, Job
      <3> QED  BY <2>2, <2>3, <3>1, <3>2 DEF Outside, Minding, OutsideOnly
    <2> QED  BY <1>1, <2>3, <2>4, <2>5, GoMinds
  <1> QED  BY <1>2, <1>3, <1>4, <1>5, <1>6

\* Taking the next session of a family, and capturing it.
LEMMA FamilyMinds ==
    ASSUME LifeInv, NEW t \in Tasks, OnCourse(t), Minding(t),
           \A s \in Sessions : Kept(s),
           Pick(t) \/ Stop(t) \/ Capture(t)
    PROVE  Minding(t)'
  <1>1. TypeOK /\ job[t] \in Job /\ job[t].op \in Op /\ TaskInv(t)
        /\ job[t].root \in Sessions /\ job[t].cur \in Sessions /\ UNCHANGED rows
        /\ job[t].op \in {"archive", "delete", "compensate"} /\ ~At(t, "idle")
    <2>1. /\ TypeOK /\ job[t] \in Job /\ job[t].op \in Op /\ TaskInv(t) /\ UNCHANGED rows
          /\ job[t].pc \in {"pick", "stop", "capture"}
      BY DEF LifeInv, JobInv, TypeOK, Job, Pick, Stop, Capture, At, durableVars
    <2> QED  BY <2>1 DEF OnCourse, Course, LaunchPc, Op, TaskInv, Engaged, At
  <1>2. CASE End(t)
    BY <1>1, <1>2, EndJob, RestMinds
  <1>3. CASE Pick(t) /\ ~End(t)
    <2>1. PICK s \in job[t].todo :
            \/ job' = [job EXCEPT ![t].todo = @ \ {s}]
            \/ /\ ~Settled(t, s)
               /\ job' = [job EXCEPT ![t].todo = @ \ {s}, ![t].cur = s,
                             ![t].mine = sessions[s], ![t].pc = "stop"]
      BY <1>3 DEF Pick
    <2>2. At(t, "pick") /\ UNCHANGED archive /\ s \in Sessions
      BY <1>1, <1>3, <2>1 DEF Pick, durableVars, Job
    <2>3. CASE job' = [job EXCEPT ![t].todo = @ \ {s}]
      <3>1. /\ job'[t].op = job[t].op /\ job'[t].root = job[t].root
            /\ job'[t].cur = job[t].cur /\ job'[t].saved = job[t].saved
            /\ job'[t].todo = job[t].todo \ {s} /\ job'[t].pc = "pick"
        BY <1>1, <2>2, <2>3 DEF TypeOK, Job, At
      <3>2. Outside(t)' => Outside(t) /\ job'[t].todo \cap Sole = {}
        BY <1>1, <3>1 DEF Outside, Minding, OutsideOnly
      <3> QED  BY <1>1, <3>1, <3>2, GoMinds
    <2>4. CASE /\ ~Settled(t, s)
               /\ job' = [job EXCEPT ![t].todo = @ \ {s}, ![t].cur = s,
                             ![t].mine = sessions[s], ![t].pc = "stop"]
      <3>1. /\ job'[t].op = job[t].op /\ job'[t].root = job[t].root
            /\ job'[t].cur = s /\ job'[t].todo = job[t].todo \ {s}
            /\ job'[t].pc = "stop"
        BY <1>1, <2>4 DEF TypeOK, Job
      <3>2. OutsideOnly(t)'
        BY <1>1, <2>1, <3>1 DEF Outside, Minding, OutsideOnly
      <3>3. Captured(t)'
        BY <2>2, <2>4, <3>1 DEF Captured, At, Settled
      <3> QED  BY <1>1, <3>1, <3>2, <3>3 DEF Minding, Mapped, Rescuing, AboutBorn, At
    <2> QED  BY <2>1, <2>3, <2>4
  <1>4. CASE Stop(t)
    <2> DEFINE p == IF job[t].op = "archive" THEN "capture" ELSE "erase"
    <2>1. /\ job' = [job EXCEPT ![t].mine = "none", ![t].pc = p]
          /\ At(t, "stop") /\ UNCHANGED archive
      BY <1>4 DEF Stop, durableVars
    <2>2. p \in {"capture", "erase"} /\ (p = "capture" => job[t].op = "archive")
      OBVIOUS
    <2> HIDE DEF p
    <2>3. /\ job'[t].op = job[t].op /\ job'[t].root = job[t].root
          /\ job'[t].cur = job[t].cur /\ job'[t].todo = job[t].todo
          /\ job'[t].pc = p /\ job'[t].mine = "none"
      BY <1>1, <2>1 DEF TypeOK, Job
    <2>4. OutsideOnly(t)'
      BY <1>1, <2>3 DEF Outside, Minding, OutsideOnly
    <2>5. Captured(t)'
      BY <2>1, <2>2, <2>3 DEF Minding, Captured, At
    <2> QED  BY <1>1, <2>2, <2>3, <2>4, <2>5 DEF Minding, Mapped, Rescuing, AboutBorn, At
  <1>5. CASE Capture(t)
    <2>1. PICK p \in {"pick", "remove"} :
            /\ Goto(t, p)
            /\ p = "remove" =>
                 /\ tree[job[t].cur] # None
                 /\ archive' = [archive EXCEPT ![job[t].cur] =
                                  [branch |-> TRUE, patch |-> tree[job[t].cur]]]
      BY <1>5 DEF Capture
    <2>2. /\ job'[t].op = job[t].op /\ job'[t].root = job[t].root
          /\ job'[t].cur = job[t].cur /\ job'[t].todo = job[t].todo
          /\ job'[t].pc = p /\ job'[t].mine = job[t].mine
      BY <1>1, <2>1 DEF Goto, TypeOK, Job
    <2>3. OutsideOnly(t)'
      BY <1>1, <2>2 DEF Outside, Minding, OutsideOnly
    <2>4. At(t, "capture") /\ UNCHANGED <<tree, sessions>>
      BY <1>5 DEF Capture
    <2>5. Captured(t)'
      <3>1. sessions'[job'[t].cur] = "none" /\ job'[t].mine = "none"
        BY <1>1, <2>2, <2>4 DEF Minding, Captured, TaskInv, Unhooked, At
      <3>2. ASSUME p = "remove"
            PROVE  \A s \in Sessions : s = job'[t].cur => Work(s)' \subseteq Patch(s)'
        <4> SUFFICES ASSUME NEW s \in Sessions, s = job[t].cur
                     PROVE  Work(s)' \subseteq Patch(s)'
          BY <2>2
        <4>1. /\ tree'[s] = tree[s] /\ tree[s] # None /\ tree[s] \in SUBSET Edits
              /\ archive'[s] = [branch |-> TRUE, patch |-> tree[s]]
          BY <1>1, <2>1, <2>4, <3>2 DEF TypeOK
        <4>2. archive'[s] # None => Patch(s)' = tree[s]
          BY <4>1 DEF Patch
        <4>3. archive'[s] # None
          <5>1. [branch |-> TRUE, patch |-> tree[s]] \in Record
            BY <4>1 DEF Record
          <5> QED  BY <4>1, <5>1, NoneIsNothing
        <4> QED  BY <4>1, <4>2, <4>3 DEF Work
      <3> QED  BY <1>1, <2>2, <3>1, <3>2 DEF Captured, At, Work, Patch
    <2> QED  BY <1>1, <2>2, <2>3, <2>5 DEF Minding, Mapped, Rescuing, AboutBorn, At
  <1> QED  BY <1>2, <1>3, <1>4, <1>5

\* Unarchiving: the saved work is in the worktree when the record is cleared.
LEMMA RescueMinds ==
    ASSUME LifeInv, NEW t \in Tasks, OnCourse(t), Minding(t),
           Rebuild(t) \/ Apply(t) \/ Clear(t)
    PROVE  Minding(t)'
  <1> DEFINE s == job[t].root
             saved == job[t].saved
  <1>1. /\ TypeOK /\ job[t] \in Job /\ job[t].op = "unarchive" /\ s \in Sessions
        /\ saved \in Record /\ UNCHANGED <<rows, sessions>>
    BY DEF LifeInv, JobInv, TaskInv, Engaged, Rebuilding, TypeOK, Rebuild, Apply, Clear,
           At, OnCourse, Course, LaunchPc, Op, Job
  <1>2. CASE End(t)
    BY <1>1, <1>2, EndJob, RestMinds
  <1>3. ASSUME NEW p \in {"apply", "clear"}, Goto(t, p)
        PROVE  Minding(t)'
    <2>1. /\ job'[t].op = "unarchive" /\ job'[t].root = s /\ job'[t].saved = saved
          /\ job'[t].pc = p
      BY <1>1, <1>3 DEF Goto, TypeOK, Job
    <2>2. UNCHANGED archive
      <3>1. ~End(t)
        BY <1>1, <2>1, EndJob DEF Idle
      <3> QED  BY <3>1 DEF Rebuild, Apply, Clear
    <2>3. ASSUME p = "clear"
          PROVE  \A r \in Sessions : r = s => saved.patch \subseteq Work(r)'
      <3> SUFFICES saved.patch = {} \/ (tree'[s] # None /\ saved.patch \subseteq tree'[s])
        BY <2>1 DEF Work
      <3>1. CASE saved.patch = {}
        BY <3>1
      <3>2. CASE saved.patch # {}
        <4>1. tree[s] # None /\ tree' = [tree EXCEPT ![s] = @ \cup saved.patch]
          <5>1. saved.branch
            BY <1>1, <3>2 DEF Minding, Rescuing
          <5>2. job'[t].pc # "apply" /\ job'[t].pc # "idle"
            BY <2>1, <2>3
          <5>3. ~End(t)
            BY <1>1, <5>2, EndJob DEF Idle
          <5>4. ~Goto(t, "apply")
            BY <1>1, <5>2 DEF Goto, TypeOK, Job
          <5> QED  BY <3>2, <5>1, <5>3, <5>4 DEF Rebuild, Apply, Clear, Rescued
        <4>2. tree'[s] = tree[s] \cup saved.patch /\ tree'[s] \in SUBSET Edits
          BY <1>1, <4>1 DEF TypeOK, Record
        <4> QED  BY <4>2, NoneIsNothing
      <3> QED  BY <3>1, <3>2
    <2>4. Rescuing(t)'
      BY <1>1, <2>1, <2>2, <2>3 DEF Minding, Rescuing, At
    <2>5. ~At(t, "idle")
      BY DEF Rebuild, Apply, Clear, At
    <2> QED  BY <1>1, <2>1, <2>4, <2>5
             DEF Minding, OutsideOnly, Outside, Mapped, Captured, AboutBorn, At
  <1> QED  BY <1>2, <1>3 DEF Rebuild, Apply, Clear, Rescued

LEMMA ProceedMinds ==
    ASSUME LifeInv, WorkInv, NEW t \in Tasks, OnCourse(t), Proceed(t)
    PROVE  Minding(t)'
  BY PlainMinds, TakingMinds, FamilyMinds, RescueMinds DEF Proceed, WorkInv

\* No step of an operation loses what is true of the sessions.
LEMMA ProceedKeeps ==
    ASSUME LifeInv, WorkInv, NEW t \in Tasks, OnCourse(t), Proceed(t),
           NEW s \in Sessions
    PROVE  Kept(s)'
  <1>1. TypeOK /\ Kept(s) /\ Minding(t) /\ TaskInv(t) /\ job[t].op \in Op
    BY DEF LifeInv, JobInv, WorkInv, TypeOK, Job
  <1>2. CASE UNCHANGED <<durableVars, orphaned>>
    BY <1>1, <1>2 DEF Kept, durableVars, Work, Patch
  <1>3. CASE Unmap(t) \/ Drop(t)
    <2>1. Unmapped(job[t].root) /\ UNCHANGED durableVars
      BY <1>3 DEF Unmap, Drop
    <2>2. sessions[job[t].root] = "live" => job[t].root \notin Sole
      <3>1. CASE Unmap(t)
        BY <1>1, <3>1 DEF Unmap, At, OnCourse, Course, LaunchPc, Op, Minding,
                          OutsideOnly, Outside
      <3>2. CASE Drop(t)
        BY <1>1, <3>2 DEF Drop, Minding, Mapped
      <3> QED  BY <1>3, <3>1, <3>2
    <2>3. s \in orphaned' => s \notin Sole
      BY <1>1, <2>1, <2>2 DEF Unmapped, Kept
    <2> QED  BY <1>1, <2>1, <2>3 DEF Kept, durableVars, Work, Patch
  <1>4. CASE Restore(t)
    <2>1. /\ UNCHANGED <<rows, archive, orphaned>>
          /\ tree' = tree \/ (/\ tree[job[t].root] = None
                              /\ tree' = [tree EXCEPT ![job[t].root] = {}])
      BY <1>4 DEF Restore
    <2>2. rows[job[t].root] # "unborn" /\ job[t].root \in Sessions
      BY <1>1, <1>4 DEF Restore, At, Minding, AboutBorn, TaskInv, Engaged
    <2> QED  BY <1>1, <2>1, <2>2 DEF Kept, Work, Patch, TypeOK
  <1>5. CASE Remove(t) \/ Reclaim(t)
    BY <1>1, <1>5 DEF Remove, Reclaim, Kept, Work, Patch, TypeOK
  <1>6. CASE Rebuild(t) \/ Apply(t)
    <2>1. /\ UNCHANGED <<rows, archive, orphaned>>
          /\ \/ tree' = tree
             \/ tree' = [tree EXCEPT ![job[t].root] = {}]
             \/ /\ tree[job[t].root] # None
                /\ tree' = [tree EXCEPT ![job[t].root] =
                               tree[job[t].root] \cup job[t].saved.patch]
      BY <1>6 DEF Rebuild, Apply, Rescued
    <2>2. /\ rows[job[t].root] # "unborn" /\ job[t].root \in Sessions
          /\ job[t].root \notin Managed => job[t].saved.patch = {}
      BY <1>1, <1>6 DEF Rebuild, Apply, At, Minding, AboutBorn, Rescuing, TaskInv,
                        Engaged, OnCourse, Course, LaunchPc, Op
    <2>3. CASE s = job[t].root
      <3>1. s \notin Managed => Work(s)' = {}
        BY <1>1, <2>1, <2>2, <2>3 DEF Kept, Work, TypeOK
      <3>2. Patch(s)' = Patch(s)
        BY <2>1 DEF Patch
      <3> QED  BY <1>1, <2>1, <2>2, <2>3, <3>1, <3>2 DEF Kept
    <2>4. CASE s # job[t].root
      <3>1. tree'[s] = tree[s]
        BY <1>1, <2>1, <2>2, <2>4 DEF TypeOK
      <3> QED  BY <1>1, <2>1, <3>1 DEF Kept, Work, Patch
    <2> QED  BY <2>3, <2>4
  <1>7. CASE Dispose(t) \/ Erase(t) \/ Clear(t)
    <2>1. /\ UNCHANGED <<tree, orphaned>>
          /\ rows'[s] = rows[s] \/ rows'[s] = "deleted"
          /\ archive'[s] \in {archive[s], None}
      BY <1>1, <1>7 DEF Dispose, Erase, Clear, TypeOK
    <2> QED  BY <1>1, <2>1 DEF Kept, Work, Patch
  <1>8. CASE Capture(t)
    <2>1. /\ UNCHANGED <<rows, tree, orphaned>>
          /\ \/ archive'[s] = archive[s]
             \/ /\ s \in Managed /\ tree[s] # None
                /\ archive'[s] = [branch |-> TRUE, patch |-> tree[s]]
             \/ \E b \in BOOLEAN : archive'[s] = [branch |-> b, patch |-> {}]
      BY <1>1, <1>8 DEF Capture, TypeOK
    <2>2. Work(s)' = Work(s)
      BY <2>1 DEF Work
    <2>3. CASE archive'[s] = archive[s]
      BY <1>1, <2>1, <2>2, <2>3 DEF Kept, Patch
    <2>4. CASE s \in Managed /\ archive'[s] = [branch |-> TRUE, patch |-> tree[s]]
      BY <1>1, <2>1, <2>4 DEF Kept
    <2>5. ASSUME NEW b \in BOOLEAN, archive'[s] = [branch |-> b, patch |-> {}]
          PROVE  Kept(s)'
      <3>1. Patch(s)' = {} /\ archive'[s].patch = {}
        BY <2>5 DEF Patch
      <3> QED  BY <1>1, <2>1, <2>2, <3>1 DEF Kept
    <2> QED  BY <2>1, <2>3, <2>4, <2>5
  <1>9. \/ UNCHANGED <<durableVars, orphaned>>
        \/ Unmap(t) \/ Drop(t) \/ Restore(t) \/ Remove(t) \/ Reclaim(t) \/ Rebuild(t)
        \/ Apply(t) \/ Dispose(t) \/ Erase(t) \/ Clear(t) \/ Capture(t)
    BY DEF Proceed, Created, Close, Guard, Lock, List, Install, Discard, Pick, Stop
  <1> QED  BY <1>2, <1>3, <1>4, <1>5, <1>6, <1>7, <1>8, <1>9

\* A command begins.
LEMMA BeginKeeps ==
    ASSUME LifeInv, WorkInv, \A t \in Tasks : OnCourse(t),
           \A t \in Tasks : OnCourse(t)', Request
    PROVE  WorkInv'
  <1>1. TypeOK /\ Automations \cap Sole = {} /\ Service \in Tasks
    BY LifecycleAssumption DEF LifeInv, LifecycleAssumption, Tasks, Sole
  <1>2. ASSUME NEW t \in Tasks, Minding(t)', Respects(t), \A s \in Sessions : Kept(s)'
        PROVE  WorkInv'
    BY <1>2, OthersMind DEF WorkInv
  <1>3. ASSUME NEW t \in Tasks, NEW s \in Sessions, NEW o \in {"launch", "automation"},
               LaunchAs(t, o, s), o = "automation" <=> s \in Automations
        PROVE  WorkInv'
    <2>1. /\ lifecycle = None /\ rows[s] = "unborn" /\ tree[s] = None
          /\ rows' = [rows EXCEPT ![s] = "present"]
          /\ tree' = [tree EXCEPT ![s] = {}]
          /\ UNCHANGED <<archive, sessions, orphaned>>
      BY <1>3 DEF LaunchAs, WorkInv, Kept
    <2>2. Begin(t, o, s, FALSE, "created")
      BY <1>3 DEF LaunchAs
    <2>3. /\ job'[t].op = o /\ job'[t].root = s /\ job'[t].cur = s
          /\ job'[t].pc = "created" /\ job'[t].todo = {} /\ job'[t].mine = "none"
          /\ \A u \in Tasks \ {t} : job'[u] = job[u]
      BY <1>1, <2>2 DEF Begin, TypeOK, Idle
    <2>4. Respects(t)
      BY <1>1, <2>1, <2>3, LifecycleAssumption
         DEF Respects, TypeOK, LifecycleAssumption
    <2>5. s \in Sole => sessions[s] = "none"
      BY <1>1, <2>1 DEF LifeInv, HiddenNotRunning, Visible, Present, Sole
    <2>6. Minding(t)'
      BY <1>1, <1>3, <2>1, <2>3, <2>5
         DEF Minding, OutsideOnly, Outside, Mapped, Captured, Rescuing, AboutBorn, At,
             TypeOK
    <2>7. \A r \in Sessions : Kept(r)'
      BY <1>1, <2>1 DEF WorkInv, Kept, Work, Patch, TypeOK
    <2> QED  BY <1>2, <2>4, <2>6, <2>7
  <1>4. ASSUME NEW t \in Tasks, NEW o \in {"resume", "archive", "delete"},
               NEW s \in Sessions, NEW deep \in BOOLEAN, NEW p \in {"list", "drop", "guard"},
               Begin(t, o, s, deep, p), rows[s] # "unborn",
               o = "resume" /\ t # Service => s \notin Sole,
               p = "drop" => sessions[s] \in {"gone", "unavailable"},
               UNCHANGED <<durableVars, sessions, orphaned>>
        PROVE  WorkInv'
    <2>1. /\ job'[t].op = o /\ job'[t].root = s /\ job'[t].cur = s
          /\ job'[t].pc = p /\ job'[t].todo = {}
          /\ \A u \in Tasks \ {t} : job'[u] = job[u]
      BY <1>1, <1>4 DEF Begin, TypeOK, Idle
    <2>2. Respects(t)
      BY <1>4, <2>1 DEF Respects, durableVars, Work
    <2>3. Minding(t)'
      BY <1>4, <2>1
         DEF Minding, OutsideOnly, Outside, Mapped, Captured, Rescuing, AboutBorn, At,
             durableVars
    <2>4. \A r \in Sessions : Kept(r)'
      BY <1>4 DEF WorkInv, Kept, Work, Patch, durableVars
    <2> QED  BY <1>2, <2>2, <2>3, <2>4
  <1>5. ASSUME NEW t \in Tasks, NEW s \in Sessions, Resume(t, s)
        PROVE  WorkInv'
    <2>1. PICK p \in {"list", "drop"} :
            /\ Begin(t, "resume", s, FALSE, p)
            /\ p = "drop" => sessions[s] # "none"
      BY <1>5 DEF Resume
    <2>2. /\ rows[s] # "unborn" /\ sessions[s] # "live"
          /\ t # Service => s \in Forks
          /\ UNCHANGED <<durableVars, sessions, orphaned>>
      BY <1>5 DEF Resume
    <2>3. sessions[s] \in {"none", "live", "gone", "unavailable"}
      BY <1>1 DEF TypeOK, Runtime
    <2>4. t # Service => s \notin Sole
      BY <2>2 DEF Sole, Shared
    <2> QED  BY <1>4, <2>1, <2>2, <2>3, <2>4
  <1>6. ASSUME NEW s \in Sessions, NEW deep \in BOOLEAN,
               Archive(s, deep) \/ Delete(s, deep)
        PROVE  WorkInv'
    <2>1. PICK o \in {"archive", "delete"} : Begin(Service, o, s, deep, "guard")
      BY <1>6 DEF Archive, Delete
    <2>2. rows[s] # "unborn" /\ UNCHANGED <<durableVars, sessions, orphaned>>
      BY <1>6 DEF Archive, Delete, Present
    <2> QED  BY <1>1, <1>4, <2>1, <2>2
  <1>7. ASSUME NEW s \in Sessions, Unarchive(s)
        PROVE  WorkInv'
    <2>1. /\ job'[Service].op = "unarchive" /\ job'[Service].root = s
          /\ job'[Service].cur = s /\ job'[Service].saved = archive[s]
          /\ job'[Service].pc = "rebuild" /\ job'[Service].todo = {}
          /\ \A u \in Tasks \ {Service} : job'[u] = job[u]
      BY <1>1, <1>7, UnarchiveBegins
    <2>2. /\ rows[s] # "unborn" /\ archive[s] # None
          /\ UNCHANGED <<durableVars, sessions, orphaned>>
      BY <1>7 DEF Unarchive, Present
    <2>3. Respects(Service)
      BY <2>1, <2>2 DEF Respects, durableVars, Work
    <2>4. ~archive[s].branch \/ s \notin Managed => archive[s].patch = {}
      BY <2>2 DEF WorkInv, Kept, Patch
    <2>5. Minding(Service)'
      BY <2>1, <2>2, <2>4
         DEF Minding, OutsideOnly, Outside, Mapped, Captured, Rescuing, AboutBorn, At,
             durableVars
    <2>6. \A r \in Sessions : Kept(r)'
      BY <2>2 DEF WorkInv, Kept, Work, Patch, durableVars
    <2> QED  BY <1>1, <1>2, <2>3, <2>5, <2>6
  <1>8. ASSUME NEW t \in Tasks, NEW s \in Sessions,
               \/ s \in Automations /\ LaunchAs(t, "automation", s)
               \/ s \notin Automations /\ LaunchAs(t, "launch", s)
        PROVE  WorkInv'
    <2>1. CASE s \in Automations /\ LaunchAs(t, "automation", s)
      BY <1>3, <2>1
    <2>2. CASE s \notin Automations /\ LaunchAs(t, "launch", s)
      BY <1>3, <2>2
    <2> QED  BY <1>8, <2>1, <2>2
  <1> QED  BY <1>1, <1>5, <1>6, <1>7, <1>8, RequestCases

\* Whoever could write into a worktree that is being captured has no runtime.
LEMMA CapturedIsStill ==
    ASSUME LifeInv, WorkInv, \A t \in Tasks : OnCourse(t), NEW t \in Tasks,
           At(t, "remove"), job[t].cur \in Sole
    PROVE  ~Running(job[t].cur)
  <1>1. /\ Minding(t) /\ OnCourse(t) /\ job[t].op \in Op /\ job[t].cur \in Sessions
    BY LifecycleAssumption
       DEF WorkInv, LifeInv, TypeOK, Job, LifecycleAssumption, Sole
  <1>2. t = Service
    BY <1>1 DEF OnCourse, Course, LaunchPc, Op, At
  <1>3. ASSUME NEW u \in Tasks, Carries(u, job[t].cur)
        PROVE  FALSE
    <2>1. CASE u = Service
      BY <1>1, <1>2, <1>3, <2>1 DEF Minding, Captured, Carries, At
    <2>2. CASE u # Service
      <3>1. /\ Minding(u) /\ OnCourse(u) /\ job[u].op \in Op
        BY DEF WorkInv, LifeInv, TypeOK, Job
      <3>2. ~At(u, "idle") /\ ~At(u, "created")
        BY <1>3, <3>1 DEF Minding, Captured, Carries, At
      <3>3. Outside(u)
        BY <2>2, <3>1, <3>2 DEF OnCourse, Course, Outside, Op, At
      <3> QED  BY <1>3, <3>1, <3>3 DEF Minding, OutsideOnly, Carries
    <2> QED  BY <2>1, <2>2
  <1>4. job[t].cur \notin orphaned /\ sessions[job[t].cur] # "live"
    BY <1>1 DEF WorkInv, Kept, Minding, Captured, At
  <1> QED  BY <1>3, <1>4 DEF Running

LEMMA WorldKeeps ==
    ASSUME LifeInv, WorkInv, \A t \in Tasks : OnCourse(t), World
    PROVE  WorkInv'
  <1>1. TypeOK /\ Sole \subseteq Sessions
    BY LifecycleAssumption DEF LifeInv, LifecycleAssumption, Sole
  <1>2. CASE Restart
    <2>1. \A s \in Sessions : Kept(s)'
      BY <1>2 DEF Restart, durableVars, WorkInv, Kept, Work, Patch
    <2>2. \A t \in Tasks : Minding(t)'
      BY <1>2, RestMinds DEF Restart
    <2> QED  BY <2>1, <2>2 DEF WorkInv
  <1>3. ASSUME UNCHANGED <<rows, archive, job>>,
               orphaned' \subseteq orphaned,
               \A s \in Sessions :
                   /\ sessions'[s] = sessions[s]
                      \/ (sessions[s] = "live" /\ sessions'[s] = "gone")
                   /\ Work(s) \subseteq Work(s)'
                   /\ Work(s)' # Work(s) => s \in Managed /\ Running(s)
                   /\ tree[s] = None => tree'[s] = None
        PROVE  WorkInv'
    <2>1. \A s \in Sessions : Kept(s)'
      BY <1>3 DEF WorkInv, Kept, Patch
    <2>2. ASSUME NEW t \in Tasks
          PROVE  Minding(t)'
      <3>1. Minding(t) /\ TaskInv(t) /\ OnCourse(t)
        BY DEF WorkInv, LifeInv, JobInv
      <3>2. OutsideOnly(t)' /\ AboutBorn(t)'
        BY <1>3, <3>1 DEF Minding, OutsideOnly, Outside, AboutBorn, At
      <3>3. Mapped(t)'
        BY <1>1, <1>3, <3>1 DEF Minding, Mapped, At
      <3>4. Captured(t)'
        <4>1. CASE At(t, "remove")
          <5>1. job[t].cur \in Sessions
            BY <3>1, <4>1 DEF TaskInv, Engaged, At
          <5>2. job[t].cur \notin Shared => Work(job[t].cur)' = Work(job[t].cur)
            BY <1>3, <4>1, <5>1, CapturedIsStill DEF Sole
          <5>3. sessions'[job[t].cur] = "none"
            BY <1>3, <3>1, <4>1, <5>1 DEF Minding, Captured
          <5> QED  BY <1>3, <3>1, <4>1, <5>2, <5>3 DEF Minding, Captured, At, Patch
        <4>2. CASE ~At(t, "remove")
          BY <1>3, <3>1, <4>2 DEF Minding, Captured, At
        <4> QED  BY <4>1, <4>2
      <3>5. Rescuing(t)'
        <4>1. job[t].op = "unarchive" => job[t].root \in Sessions
          BY <3>1 DEF TaskInv, Engaged, OnCourse, Course, At
        <4>2. job[t].op = "unarchive" => Work(job[t].root) \subseteq Work(job[t].root)'
          BY <1>3, <4>1 DEF Work
        <4> QED  BY <1>3, <3>1, <4>2 DEF Minding, Rescuing, At
      <3> QED  BY <3>2, <3>3, <3>4, <3>5 DEF Minding
    <2> QED  BY <2>1, <2>2 DEF WorkInv
  <1>4. ASSUME NEW s \in Sessions, NEW e \in Edits, AgentEdits(s, e)
        PROVE  WorkInv'
    <2>1. /\ s \in Managed /\ Running(s) /\ tree[s] # None
          /\ tree' = [tree EXCEPT ![s] = @ \cup {e}]
          /\ UNCHANGED <<rows, archive, job, orphaned, sessions>>
      BY <1>4 DEF AgentEdits
    <2>2. tree'[s] = tree[s] \cup {e} /\ tree'[s] # None
      <3>1. tree[s] \cup {e} \in SUBSET Edits
        BY <1>1, <2>1 DEF TypeOK
      <3> QED  BY <1>1, <2>1, <3>1, NoneIsNothing DEF TypeOK
    <2>3. \A r \in Sessions \ {s} : tree'[r] = tree[r]
      BY <1>1, <2>1 DEF TypeOK
    <2> QED  BY <1>3, <2>1, <2>2, <2>3 DEF Work
  <1>5. ASSUME NEW s \in Sessions, ProviderCloses(s) \/ OrphanEnds(s)
        PROVE  WorkInv'
    <2>1. /\ UNCHANGED <<rows, archive, tree, job>> /\ orphaned' \subseteq orphaned
          /\ \A r \in Sessions : \/ sessions'[r] = sessions[r]
                                 \/ sessions[r] = "live" /\ sessions'[r] = "gone"
      BY <1>1, <1>5 DEF ProviderCloses, OrphanEnds, durableVars, TypeOK
    <2> QED  BY <1>3, <2>1 DEF Work
  <1>6. ASSUME NEW s \in Sessions, TreeVanishes(s)
        PROVE  WorkInv'
    <2>1. /\ UNCHANGED <<rows, archive, job, orphaned, sessions>>
          /\ \A r \in Sessions : Work(r)' = Work(r) /\ (tree[r] = None => tree'[r] = None)
      BY <1>1, <1>6 DEF TreeVanishes, TypeOK, Work
    <2> QED  BY <1>3, <2>1
  <1> QED  BY <1>2, <1>4, <1>5, <1>6 DEF World, Quit, Crash

LEMMA WorkInductive == Spec => []WorkInv
  <1>1. Init => WorkInv
    <2> SUFFICES ASSUME Init PROVE WorkInv
      OBVIOUS
    <2>1. \A s \in Sessions : Kept(s)
      BY LifecycleAssumption DEF Init, Kept, Work, Patch, LifecycleAssumption
    <2>2. \A t \in Tasks : Minding(t)
      BY DEF Init, Idle, Minding, OutsideOnly, Outside, Mapped, Captured, Rescuing,
             AboutBorn, At
    <2> QED  BY <2>1, <2>2 DEF WorkInv
  <1>2. LifeInv /\ FamilyInv /\ FamilyInv' /\ WorkInv /\ [Next]_vars => WorkInv'
    <2> SUFFICES ASSUME LifeInv, FamilyInv, FamilyInv', WorkInv, [Next]_vars
                 PROVE  WorkInv'
      OBVIOUS
    <2>1. \A t \in Tasks : OnCourse(t) /\ OnCourse(t)'
      BY DEF FamilyInv
    <2>2. ASSUME NEW t \in Tasks, Proceed(t)
          PROVE  WorkInv'
      <3>1. Respects(t)
        BY <2>1, <2>2, ProceedCourse, ProceedRespects DEF LifeInv
      <3>2. Minding(t)' /\ \A s \in Sessions : Kept(s)'
        BY <2>1, <2>2, ProceedMinds, ProceedKeeps
      <3> QED  BY <2>1, <3>1, <3>2, OthersMind DEF WorkInv
    <2>3. CASE UNCHANGED vars
      BY <2>3 DEF vars, WorkInv, Kept, Work, Patch, Minding, OutsideOnly, Outside,
                  Mapped, Captured, Rescuing, AboutBorn, At
    <2> QED  BY <2>1, <2>2, <2>3, BeginKeeps, WorldKeeps DEF Next
  <1> QED  BY <1>1, <1>2, Inductive, FamilyInductive, PTL DEF Spec

-----------------------------------------------------------------------------
(* No step loses work.                                                     *)

\* What a step may do to the work in a worktree or on record: leave it, or throw
\* the record away with a session that is deleted.
KeepsWork(s) ==
    \A e \in Work(s) \cup Patch(s) :
        \/ e \in Work(s)' \cup Patch(s)'
        \/ e \notin Work(s) /\ ~Present(s)'

\* Capturing moves the work to the record, and removing leaves it there.
LEMMA CaptureKeepsWork ==
    ASSUME TypeOK, NEW s \in Sessions, NEW t \in Tasks, TaskInv(t), Minding(t),
           Capture(t) \/ Remove(t),
           s \notin Shared
    PROVE  KeepsWork(s)
  <1>1. CASE s # job[t].cur
    <2>1. Work(s)' = Work(s) /\ Patch(s)' = Patch(s)
      BY <1>1 DEF Capture, Remove, Work, Patch, TypeOK
    <2> QED  BY <2>1 DEF KeepsWork
  <1>2. CASE s = job[t].cur /\ Capture(t)
    <2>1. archive[s] = None
      BY <1>2 DEF Capture, Minding, Captured
    <2>2. Patch(s) = {} /\ Work(s)' = Work(s)
      BY <1>2, <2>1 DEF Capture, Work, Patch
    <2> QED  BY <2>2 DEF KeepsWork
  <1>3. CASE s = job[t].cur /\ Remove(t)
    <2>1. Work(s) \subseteq Patch(s) /\ Patch(s)' = Patch(s)
      BY <1>3 DEF Remove, Minding, Captured, Patch
    <2> QED  BY <2>1 DEF KeepsWork
  <1> QED  BY <1>1, <1>2, <1>3

\* A record is deleted with its session, or cleared when its work is back.
LEMMA ClearKeepsWork ==
    ASSUME TypeOK, NEW s \in Sessions, NEW t \in Tasks, OnCourse(t), Minding(t),
           Dispose(t) \/ Erase(t) \/ Clear(t)
    PROVE  KeepsWork(s)
  <1>1. Work(s)' = Work(s) /\ job[t].op \in Op
    BY DEF Dispose, Erase, Clear, Work, TypeOK, Job
  <1>2. CASE archive'[s] = archive[s]
    BY <1>1, <1>2 DEF KeepsWork, Patch
  <1>3. CASE archive'[s] # archive[s] /\ (Dispose(t) \/ Erase(t))
    <2>1. rows'[s] = "deleted"
      BY <1>3 DEF Dispose, Erase, TypeOK
    <2> QED  BY <1>1, <2>1 DEF KeepsWork, Present
  <1>4. CASE archive'[s] # archive[s] /\ Clear(t)
    <2>1. s = job[t].root /\ job[t].op = "unarchive" /\ At(t, "clear")
      BY <1>1, <1>4 DEF Clear, TypeOK, At, OnCourse, Course, LaunchPc, Op
    <2>2. Patch(s) \subseteq job[t].saved.patch
      BY <2>1 DEF Minding, Rescuing, Patch
    <2>3. job[t].saved.patch \subseteq Work(s)
      BY <2>1 DEF Minding, Rescuing
    <2> QED  BY <1>1, <2>2, <2>3 DEF KeepsWork
  <1> QED  BY <1>2, <1>3, <1>4

\* Worktrees are recreated where none was, and written into.
LEMMA RestoreKeepsWork ==
    ASSUME LifeInv, NEW s \in Sessions, NEW t \in Tasks, OnCourse(t),
           Restore(t) \/ Reclaim(t) \/ Rebuild(t) \/ Apply(t)
    PROVE  KeepsWork(s)
  <1> USE DEF LifeInv
  <1>1. Patch(s)' = Patch(s)
    BY DEF Restore, Reclaim, Rebuild, Apply, Patch
  <1>2. Work(s) \subseteq Work(s)'
    <2>1. CASE Restore(t)
      BY <2>1 DEF Restore, Work, TypeOK
    <2>2. CASE Reclaim(t)
      BY <2>2 DEF Reclaim, Work, TypeOK
    <2>3. CASE Rebuild(t) \/ Apply(t)
      <3>1. \/ tree' = tree
            \/ tree[job[t].root] = None /\ tree' = [tree EXCEPT ![job[t].root] = {}]
            \/ /\ tree[job[t].root] # None
               /\ tree' = [tree EXCEPT ![job[t].root] =
                              tree[job[t].root] \cup job[t].saved.patch]
        BY <2>3 DEF Rebuild, Apply, Rescued
      <3>2. CASE tree' = tree
        BY <3>2 DEF Work
      <3>3. CASE tree[job[t].root] = None /\ tree' = [tree EXCEPT ![job[t].root] = {}]
        BY <3>3 DEF Work, TypeOK
      <3>4. CASE /\ tree[job[t].root] # None
                 /\ tree' = [tree EXCEPT ![job[t].root] =
                                tree[job[t].root] \cup job[t].saved.patch]
        <4>1. tree[s] # None => tree[s] \subseteq tree'[s]
          BY <3>4 DEF TypeOK
        <4>2. tree[s] # None => tree'[s] # None
          <5>1. job[t].saved \in Record /\ tree[job[t].root] \in SUBSET Edits
            BY <2>3, <3>4
               DEF JobInv, TaskInv, Engaged, Rebuilding, TypeOK, Rebuild, Apply, At, Job,
                   OnCourse, Course, LaunchPc, Op
          <5>2. s # job[t].root => tree'[s] = tree[s]
            BY <3>4 DEF TypeOK
          <5>3. s = job[t].root => tree'[s] = tree[s] \cup job[t].saved.patch
            BY <3>4 DEF TypeOK
          <5> QED  BY <3>4, <5>1, <5>2, <5>3, NoneIsNothing DEF Record
        <4> QED  BY <4>1, <4>2 DEF Work
      <3> QED  BY <3>1, <3>2, <3>3, <3>4
    <2> QED  BY <2>1, <2>2, <2>3
  <1> QED  BY <1>1, <1>2 DEF KeepsWork

LEMMA NextKeepsWork ==
    ASSUME LifeInv, WorkInv, \A t \in Tasks : OnCourse(t), [Next]_vars,
           NEW s \in Sessions \ Shared
    PROVE  KeepsWork(s)
  <1>1. TypeOK /\ \A t \in Tasks : Minding(t) /\ TaskInv(t)
    BY DEF LifeInv, JobInv, WorkInv
  <1>2. CASE UNCHANGED durableVars
    BY <1>2 DEF durableVars, KeepsWork, Work, Patch
  <1>3. ASSUME NEW t \in Tasks, Proceed(t)
        PROVE  KeepsWork(s)
    <2>1. \/ UNCHANGED durableVars
          \/ Capture(t) \/ Remove(t) \/ Dispose(t) \/ Erase(t) \/ Clear(t)
          \/ Restore(t) \/ Reclaim(t) \/ Rebuild(t) \/ Apply(t)
      BY <1>3 DEF Proceed, Created, Close, Unmap, Drop, Guard, Lock, List, Install,
                  Discard, Pick, Stop
    <2> QED  BY <1>1, <1>2, <2>1, CaptureKeepsWork, ClearKeepsWork, RestoreKeepsWork
  <1>4. CASE Request
    <2>1. ASSUME NEW t, NEW o, NEW r \in Sessions, LaunchAs(t, o, r)
          PROVE  KeepsWork(s)
      <3>1. Patch(s)' = Patch(s)
        BY <2>1 DEF LaunchAs, Patch
      <3>2. tree[r] = None /\ tree' = [tree EXCEPT ![r] = {}]
        BY <2>1 DEF LaunchAs, WorkInv, Kept
      <3>3. Work(s) \subseteq Work(s)'
        BY <1>1, <3>2 DEF Work, TypeOK
      <3> QED  BY <3>1, <3>3 DEF KeepsWork
    <2>2. ASSUME NEW t, NEW r, Resume(t, r)
          PROVE  KeepsWork(s)
      BY <1>2, <2>2 DEF Resume
    <2>3. ASSUME NEW r, NEW deep, Archive(r, deep) \/ Delete(r, deep) \/ Unarchive(r)
          PROVE  KeepsWork(s)
      BY <1>2, <2>3 DEF Archive, Delete, Unarchive
    <2> QED  BY <1>1, <1>4, <2>1, <2>2, <2>3, RequestCases
  <1>5. ASSUME NEW r \in Sessions, NEW e \in Edits, AgentEdits(r, e)
        PROVE  KeepsWork(s)
    <2>1. /\ UNCHANGED <<rows, archive>> /\ tree[r] # None
          /\ tree' = [tree EXCEPT ![r] = tree[r] \cup {e}]
      BY <1>5 DEF AgentEdits
    <2>2. Patch(s)' = Patch(s)
      BY <2>1 DEF Patch
    <2>3. Work(s) \subseteq Work(s)'
      <3>1. CASE s # r
        BY <1>1, <2>1, <3>1 DEF Work, TypeOK
      <3>2. CASE s = r
        <4>1. tree'[s] = tree[s] \cup {e} /\ tree[s] \in SUBSET Edits
          BY <1>1, <2>1, <3>2 DEF TypeOK
        <4>2. tree'[s] # None
          BY <4>1, NoneIsNothing
        <4> QED  BY <4>1, <4>2 DEF Work
      <3> QED  BY <3>1, <3>2
    <2> QED  BY <2>2, <2>3 DEF KeepsWork
  <1>6. ASSUME NEW r \in Sessions, TreeVanishes(r)
        PROVE  KeepsWork(s)
    <2>1. Work(s)' = Work(s) /\ Patch(s)' = Patch(s)
      BY <1>1, <1>6 DEF TreeVanishes, Work, Patch, TypeOK
    <2> QED  BY <2>1 DEF KeepsWork
  <1>7. CASE World
    BY <1>2, <1>5, <1>6, <1>7
       DEF World, ProviderCloses, OrphanEnds, Quit, Crash, Restart
  <1> QED  BY <1>2, <1>3, <1>4, <1>7 DEF Next, vars, durableVars

\* archive_known_session_locked, rebuild_worktree, rescue_patch and
\* reclaim_worktree, "the patch that record holds is the only copy": of a session
\* that one task resumes, no step of any operation, of an agent or of the process
\* loses uncommitted work, but that a developer deletes it while it is archived.
THEOREM SoleWorkIsKept == Spec => [][\A s \in Sessions \ Shared : KeepsWork(s)]_vars
  <1>1. LifeInv /\ FamilyInv /\ WorkInv /\ [Next]_vars
            => \A s \in Sessions \ Shared : KeepsWork(s)
    BY NextKeepsWork DEF FamilyInv
  <1> QED  BY <1>1, WorkInductive, Inductive, FamilyInductive, PTL DEF Spec

=============================================================================
