---------------------------- MODULE UpdatesProofs ----------------------------
(***************************************************************************)
(* Theorems about Updates, for any builds, files, platforms and bounds.    *)
(*                                                                         *)
(* A swap can be undone because of where the builds are at each of its     *)
(* steps (Placed), as long as no job begins over an installation in part:  *)
(* the old one is whole in the installation until all of it is in the      *)
(* backup, and stays there until all of the new one is installed.  The banner is true because the worker's offer is the last   *)
(* one told (OfferKnown), and because a build that is announced as ready   *)
(* is not touched before the window has heard of the next installation     *)
(* (ReadyIsThere).                                                         *)
(***************************************************************************)
EXTENDS Updates, SequenceTheorems, TLAPS

(***************************************************************************)
(* The inductive invariant.                                                *)
(***************************************************************************)

SwapSteps == {"clear", "aside", "in", "back"}
Tidying == {"tidy backup", "tidy staging"}

Both(a, b) == disk[a] # None /\ disk[b] # None

\* How far a job can be, and what it remembers.
JobShape ==
    /\ job.step \in {"idle", "stage"} => job.how = "none"
    /\ job.step \in {"clear"} \cup Tidying => job.how = "delete"
    /\ job.step \in {"aside", "in", "back"} => job.how \in {"rename", "copy", "delete"}
    /\ job.step # "idle" => job.result = "none"
    /\ job.step \in {"stage"} \cup SwapSteps \/ job.result # "none" => job.build \in Builds
    /\ job.step = "aside" /\ job.how = "copy" => Both("install", "backup")
    /\ job.step = "in" /\ job.how = "copy" => Both("staging", "install")
    /\ job.step = "back" /\ job.how = "copy" => Both("backup", "install")

\* Whose the job is: the worker's, from the request on that it serves, or the helper's.
Owned ==
    /\ job.step # "idle" => running # None \/ helping
    /\ helping => running = None /\ platform = "windows" /\ job.step \in {"idle"} \cup SwapSteps
    /\ platform = "windows" /\ ~helping => job.step \notin SwapSteps /\ job.result # "applied"
    /\ platform # "windows" => job.result # "staged"
    /\ ~helping /\ job.step \in {"stage"} \cup SwapSteps => serving.kind = "install"
    /\ ~helping /\ job.result # "none" => serving.kind = "install"
    /\ job.step \in Tidying => serving.kind = "none"
    /\ stray => running # None /\ job.step = "idle" /\ banner.kind = "hidden" /\ events = <<>>
                /\ requests = <<>> /\ serving.kind = "none"

\* What was copied so far.
Copying(a, b) ==
    \A f \in Files \ job.left : disk[a][f] # None => disk[b][f] = disk[a][f]

\* Where the builds are while nothing is done to the directories.
AtRest ==
    /\ Works("install") \/ Works("backup")
    /\ job.result \in {"failed", "rolled back"} => Runs("install", job.before)
    /\ job.result = "not aside" => Runs("install", job.before) \/ Runs("backup", job.before)
    /\ job.result = "applied" => Runs("install", job.build)
    /\ job.result = "staged" => Runs("staging", job.build)

\* The installation goes to the backup.
AtAside ==
    /\ job.how \in {"rename", "copy"} => Runs("install", job.before)
    /\ job.how = "copy" => Copying("install", "backup")
    /\ job.how = "delete" => Runs("backup", job.before)
    /\ Runs("staging", job.build)

\* The staged build goes to the installation.
AtIn ==
    /\ Runs("backup", job.before)
    /\ job.how = "rename" => disk["install"] = None
    /\ job.how = "copy" => Copying("staging", "install")
    /\ job.how = "delete" => Runs("install", job.build)
    /\ job.how # "delete" => Runs("staging", job.build)

\* The backup goes to the installation.
AtBack ==
    /\ job.how \in {"rename", "copy"} => Runs("backup", job.before)
    /\ job.how = "copy" => Copying("backup", "install")
    /\ job.how = "delete" => Runs("install", job.before)

\* Where the builds are at each step.
Placed ==
    /\ job.step = "idle" => AtRest
    /\ job.step \in Tidying => Works("install")
    /\ job.step \in {"stage"} \cup SwapSteps => job.before \in Builds
    /\ job.step \in {"stage", "clear"} => Runs("install", job.before)
    /\ job.step = "clear" => Runs("staging", job.build)
    /\ job.step = "aside" => AtAside
    /\ job.step = "in" => AtIn
    /\ job.step = "back" => AtBack

\* What the worker said of a build, or the window shows of it, is about one.
Named ==
    /\ banner.kind \in {"available", "ready"} => banner.build \in Builds
    /\ \A i \in 1..Len(events) :
          events[i].kind \in {"available", "installed"} => events[i].build \in Builds

\* The worker's offer is the last that the window has seen or will see.
OfferKnown ==
    /\ events = <<>> /\ banner.kind = "available" => offered = banner.build
    /\ events # <<>> /\ events[Len(events)].kind = "available" =>
          offered = events[Len(events)].build
    /\ serving.kind = "install" /\ (job.step # "idle" \/ job.result # "none") =>
          offered = job.build

\* No installation begins with event i or a later one.
Quiet(es, i) == \A j \in i..Len(es) : es[j].kind # "progress"

\* Build v is shown or will be announced as ready, and no later installation.
Announced(b, es, v) ==
    \/ b.kind = "ready" /\ b.build = v /\ Quiet(es, 1)
    \/ \E i \in 1..Len(es) : es[i].kind = "installed" /\ es[i].build = v /\ Quiet(es, i)

\* It is on disk, and the worker has not begun another installation.
ReadyIsThere ==
    \A v \in Builds : running # None /\ Announced(banner, events, v) =>
        /\ job.step = "idle"
        /\ serving.kind = "install" => job.result = "none"
        /\ ~torn => Runs(IF platform = "windows" THEN "staging" ELSE "install", v)

UpdatesInv ==
    /\ TypeOK /\ JobShape /\ Owned /\ Named /\ OfferKnown /\ ReadyIsThere
    /\ ~torn => Placed

-----------------------------------------------------------------------------
(* What the operators of the swap are.                                     *)

LEMMA Basics ==
    /\ 1 \in Builds /\ None \notin Builds
    /\ None \notin Dir /\ Empty \in Dir /\ Empty # None
    /\ \A v \in Builds : Whole(v) \in Dir
    /\ \A v \in Builds : FilesOf[v] \subseteq Files /\ Exe \in FilesOf[v]
    /\ Exe \in Files /\ None \notin Files
BY UpdateSwapAssumption, NoneIsNoDir DEF Empty, Dir, Whole

DiskOK == disk \in [Place -> Dir \cup {None}]

LEMMA IdleJob == Idle \in Job
BY DEF Idle, Job, Step, Result

LEMMA EndedRecord ==
    ASSUME job \in Job, NEW r, Ended(r)
    PROVE  job' = [step |-> "idle", how |-> "none", left |-> {}, build |-> job.build,
                   before |-> job.before, result |-> r]
BY DEF Job, Ended

LEMMA MoveOnRecord ==
    ASSUME job \in Job, NEW s, MoveOn(s)
    PROVE  job' = [step |-> s, how |-> "rename", left |-> {}, build |-> job.build,
                   before |-> job.before, result |-> job.result]
BY DEF Job, MoveOn

LEMMA StartRecords ==
    ASSUME NEW v
    PROVE  /\ job' = StartApply(v) =>
                job' = [step |-> "clear", how |-> "delete", left |-> {}, build |-> v,
                        before |-> Current, result |-> "none"]
           /\ job' = StartStage(v) =>
                job' = [step |-> "stage", how |-> "none", left |-> {}, build |-> v,
                        before |-> Current, result |-> "none"]
           /\ job' = StartTidy =>
                job' = [step |-> "tidy backup", how |-> "delete", left |-> {}, build |-> None,
                        before |-> None, result |-> "none"]
<1>1. ASSUME job' = StartApply(v)
      PROVE  job' = [step |-> "clear", how |-> "delete", left |-> {}, build |-> v,
                     before |-> Current, result |-> "none"]
    BY <1>1 DEF StartApply, Idle
<1>2. ASSUME job' = StartStage(v)
      PROVE  job' = [step |-> "stage", how |-> "none", left |-> {}, build |-> v,
                     before |-> Current, result |-> "none"]
    BY <1>2 DEF StartStage, Idle
<1>3. ASSUME job' = StartTidy
      PROVE  job' = [step |-> "tidy backup", how |-> "delete", left |-> {}, build |-> None,
                     before |-> None, result |-> "none"]
    BY <1>3 DEF StartTidy, Idle
<1> QED BY <1>1, <1>2, <1>3

LEMMA CurrentType ==
    ASSUME DiskOK
    PROVE  Current \in Builds \cup {None}
BY Basics DEF DiskOK, Current, Dir, Place

LEMMA StartTypes ==
    ASSUME DiskOK, NEW v \in Builds \cup {None},
           job' \in {StartApply(v), StartStage(v), StartTidy}
    PROVE  job' \in Job
<1>1. Current \in Builds \cup {None} /\ {} \in SUBSET Files
    BY CurrentType
<1>2. CASE job' = StartApply(v)
  <2>1. job' = [step |-> "clear", how |-> "delete", left |-> {}, build |-> v,
                before |-> Current, result |-> "none"]
      BY <1>2, StartRecords
  <2>2. [step |-> "clear", how |-> "delete", left |-> {}, build |-> v,
         before |-> Current, result |-> "none"] \in Job
      BY <1>1 DEF Job, Step, Result
  <2> QED BY <2>1, <2>2
<1>3. CASE job' = StartStage(v)
  <2>1. job' = [step |-> "stage", how |-> "none", left |-> {}, build |-> v,
                before |-> Current, result |-> "none"]
      BY <1>3, StartRecords
  <2>2. [step |-> "stage", how |-> "none", left |-> {}, build |-> v,
         before |-> Current, result |-> "none"] \in Job
      BY <1>1 DEF Job, Step, Result
  <2> QED BY <2>1, <2>2
<1>4. CASE job' = StartTidy
  <2>1. job' = [step |-> "tidy backup", how |-> "delete", left |-> {}, build |-> None,
                before |-> None, result |-> "none"]
      BY <1>4, StartRecords
  <2>2. [step |-> "tidy backup", how |-> "delete", left |-> {}, build |-> None,
         before |-> None, result |-> "none"] \in Job
      BY <1>1 DEF Job, Step, Result
  <2> QED BY <2>1, <2>2
<1> QED BY <1>2, <1>3, <1>4

\* The directories of each step.
LEMMA FromTo ==
    /\ job.step = "clear" => From = "backup"
    /\ job.step = "aside" => From = "install" /\ To = "backup"
    /\ job.step = "in" => From = "staging" /\ To = "install"
    /\ job.step = "back" => From = "backup" /\ To = "install"
    /\ job.step = "tidy backup" => From = "backup"
    /\ job.step = "tidy staging" => From = "staging"
    /\ From \in Place /\ To \in Place /\ To \in {"install", "backup"}
BY DEF From, To, Place

\* What a step that was done, or failed, leads to.
LEMMA DoneIs ==
    ASSUME job \in Job, Done
    PROVE  /\ job.step = "clear" => MoveOn("aside")
           /\ job.step = "aside" => MoveOn("in")
           /\ job.step = "in" => Ended("applied")
           /\ job.step = "back" => Ended("rolled back")
           /\ job.step = "tidy backup" => job' = [job EXCEPT !.step = "tidy staging"]
           /\ job.step = "tidy staging" => job' = Idle
<1>1. CASE job.step = "clear" BY <1>1 DEF Done
<1>2. CASE job.step = "aside" BY <1>2 DEF Done
<1>3. CASE job.step = "in" BY <1>3 DEF Done
<1>4. CASE job.step = "back" BY <1>4 DEF Done
<1>5. CASE job.step = "tidy backup" BY <1>5 DEF Done
<1>6. CASE job.step = "tidy staging" BY <1>6 DEF Done
<1> QED BY <1>1, <1>2, <1>3, <1>4, <1>5, <1>6

LEMMA ErredIs ==
    ASSUME job \in Job, Erred
    PROVE  /\ job.step = "clear" => Ended("failed")
           /\ job.step = "aside" => Ended("not aside")
           /\ job.step = "in" => MoveOn("back")
           /\ job.step = "back" => Ended("stranded")
           /\ job.step = "tidy backup" => job' = [job EXCEPT !.step = "tidy staging"]
           /\ job.step = "tidy staging" => job' = Idle
<1>1. CASE job.step = "clear" BY <1>1 DEF Erred
<1>2. CASE job.step = "aside" BY <1>2 DEF Erred
<1>3. CASE job.step = "in" BY <1>3 DEF Erred
<1>4. CASE job.step = "back" BY <1>4 DEF Erred
<1>5. CASE job.step = "tidy backup" BY <1>5 DEF Erred
<1>6. CASE job.step = "tidy staging" BY <1>6 DEF Erred
<1> QED BY <1>1, <1>2, <1>3, <1>4, <1>5, <1>6

\* Both lead to a job of the right shape, which copies nothing.
LEMMA NextJob ==
    ASSUME job \in Job, JobShape, job.step \notin {"idle", "stage"}, Done \/ Erred
    PROVE  /\ job' \in Job
           /\ job'.step \in {"idle"} => job'.how = "none"
           /\ job'.step # "stage"
           /\ job'.step \in {"clear"} \cup Tidying => job'.how = "delete"
           /\ job'.step \in {"aside", "in", "back"} => job'.how = "rename"
           /\ job'.step # "idle" => job'.result = "none"
           /\ job'.step \in SwapSteps \/ job'.result # "none" => job'.build \in Builds
           /\ job'.how # "copy"
<1>1. /\ job.step \in {"clear", "aside", "in", "back", "tidy backup", "tidy staging"}
      /\ job.left \subseteq Files /\ job.build \in Builds \cup {None}
      /\ job.before \in Builds \cup {None} /\ job.result = "none"
    BY DEF Job, Step, JobShape
<1>2. \/ job.step \in SwapSteps /\ \E r \in Result : Ended(r)
      \/ job.step \in SwapSteps /\ \E s \in {"aside", "in", "back"} : MoveOn(s)
      \/ job.step = "tidy backup" /\ job' = [job EXCEPT !.step = "tidy staging"]
      \/ job' = Idle
    BY <1>1, DoneIs, ErredIs DEF Result, SwapSteps
<1>3. CASE job.step \in SwapSteps /\ \E r \in Result : Ended(r)
  <2>1. PICK r \in Result : Ended(r)
      BY <1>3
  <2>2. job' = [step |-> "idle", how |-> "none", left |-> {}, build |-> job.build,
                before |-> job.before, result |-> r]
      BY <2>1, EndedRecord
  <2>3. job' \in Job
      BY <1>1, <2>2 DEF Job, Step
  <2>4. job.build \in Builds
      BY <1>3 DEF JobShape
  <2> QED BY <2>2, <2>3, <2>4 DEF Tidying, SwapSteps
<1>4. CASE job.step \in SwapSteps /\ \E s \in {"aside", "in", "back"} : MoveOn(s)
  <2>1. job.build \in Builds
      BY <1>4 DEF JobShape
  <2>2. PICK s \in {"aside", "in", "back"} : MoveOn(s)
      BY <1>4
  <2>3. job' = [step |-> s, how |-> "rename", left |-> {}, build |-> job.build,
                before |-> job.before, result |-> "none"]
      BY <1>1, <2>2, MoveOnRecord
  <2>4. job' \in Job
      BY <1>1, <2>2, <2>3 DEF Job, Step, Result
  <2> QED BY <2>1, <2>2, <2>3, <2>4 DEF Tidying, SwapSteps
<1>5. CASE job.step = "tidy backup" /\ job' = [job EXCEPT !.step = "tidy staging"]
  <2>1. job.how = "delete"
      BY <1>5 DEF JobShape, Tidying
  <2>2. job' = [step |-> "tidy staging", how |-> job.how, left |-> job.left,
                build |-> job.build, before |-> job.before, result |-> job.result]
      BY <1>5 DEF Job
  <2>3. job' \in Job
      BY <1>1, <2>1, <2>2 DEF Job, Step, Result
  <2> QED BY <1>1, <2>1, <2>2, <2>3 DEF Tidying, SwapSteps
<1>6. CASE job' = Idle
    BY <1>6, IdleJob DEF Idle, Tidying, SwapSteps
<1> QED BY <1>2, <1>3, <1>4, <1>5, <1>6

-----------------------------------------------------------------------------
(* What the steps of the swap do to the directories, and what they keep of *)
(* the job.                                                                *)

SwapOK == DiskOK /\ job \in Job /\ JobShape

\* A file of a directory that is there is written or deleted.
LEMMA WriteIs ==
    ASSUME DiskOK, NEW d \in Place, disk[d] # None, NEW f \in Files,
           NEW v \in Builds \cup {None}, Write(d, f, v)
    PROVE  /\ DiskOK'
           /\ \A e \in Place : e # d => disk'[e] = disk[e]
           /\ disk'[d] # None /\ disk'[d][f] = v
           /\ \A g \in Files : g # f => disk'[d][g] = disk[d][g]
<1>1. disk[d] \in Dir
    BY DEF DiskOK
<1> DEFINE new == [disk[d] EXCEPT ![f] = v]
<1>2. new \in Dir /\ new[f] = v /\ \A g \in Files : g # f => new[g] = disk[d][g]
    BY <1>1 DEF Dir
<1>3. disk' = [disk EXCEPT ![d] = new]
    BY DEF Write
<1>4. new # None
    BY <1>2, Basics
<1> HIDE DEF new
<1> QED BY <1>2, <1>3, <1>4 DEF DiskOK

\* A directory takes the place of another one.
LEMMA RenameIs ==
    ASSUME SwapOK, Rename
    PROVE  /\ DiskOK'
           /\ disk'[To] = disk[From] /\ disk'[From] = None
           /\ \A e \in Place : e \notin {From, To} => disk'[e] = disk[e]
           /\ job.step \in {"aside", "in", "back"} /\ Done
           /\ job.how = "rename" /\ disk[From] # None
<1>1. job.step \in {"aside", "in", "back"} /\ job.how = "rename" /\ disk[From] # None /\ Done
    BY DEF SwapOK, Job, Step, JobShape, Rename, Tidying
<1>2. From \in Place /\ To \in Place /\ From # To
    BY <1>1, FromTo
<1> DEFINE a == From
           b == To
<1>3. disk' = [disk EXCEPT ![b] = disk[a], ![a] = None]
    BY DEF Rename
<1>4. a \in Place /\ b \in Place /\ a # b
    BY <1>2
<1> HIDE DEF a, b
<1>5. /\ DiskOK'
      /\ disk'[b] = disk[a] /\ disk'[a] = None
      /\ \A e \in Place : e \notin {a, b} => disk'[e] = disk[e]
    BY <1>3, <1>4 DEF SwapOK, DiskOK
<1> QED BY <1>1, <1>5 DEF a, b

\* The target is created where it is not there, and what is in the source is to be copied.
LEMMA RenameFailsIs ==
    ASSUME SwapOK, RenameFails
    PROVE  /\ DiskOK'
           /\ \A e \in Place : e # To => disk'[e] = disk[e]
           /\ disk'[To] # None
           /\ disk[To] # None => disk'[To] = disk[To]
           /\ disk[To] = None => disk'[To] = Empty
           /\ job.step \in {"aside", "in", "back"} /\ job.how = "rename"
           /\ disk[From] = None => Erred
           /\ disk[From] # None =>
                job' = [step |-> job.step, how |-> "copy",
                        left |-> {f \in Files : disk[From][f] # None},
                        build |-> job.build, before |-> job.before, result |-> job.result]
<1>1. job.step \in {"aside", "in", "back"} /\ job.how = "rename"
    BY DEF SwapOK, Job, Step, JobShape, RenameFails, Tidying
<1>2. To \in Place
    BY FromTo
<1> DEFINE b == To
           new == IF disk[b] = None THEN Empty ELSE disk[b]
<1>3. disk' = [disk EXCEPT ![b] = new]
    BY DEF RenameFails
<1>4. b \in Place
    BY <1>2
<1>5. new \in Dir /\ new # None
    BY <1>4, Basics DEF SwapOK, DiskOK
<1> HIDE DEF b, new
<1>6. DiskOK' /\ (\A e \in Place : e # b => disk'[e] = disk[e]) /\ disk'[b] = new
    BY <1>3, <1>4, <1>5 DEF SwapOK, DiskOK
<1> DEFINE rest == {f \in Files : disk[From][f] # None}
<1>7. disk[From] # None => job' = [job EXCEPT !.how = "copy", !.left = rest]
    BY DEF RenameFails
<1>8. disk[From] = None => Erred
    BY DEF RenameFails
<1> HIDE DEF rest
<1>9. disk[From] # None =>
        job' = [step |-> job.step, how |-> "copy", left |-> rest,
                build |-> job.build, before |-> job.before, result |-> job.result]
    BY <1>7 DEF SwapOK, Job
<1> QED BY <1>1, <1>5, <1>6, <1>8, <1>9 DEF b, new, rest

\* A directory is gone.
LEMMA DeletedIs ==
    ASSUME SwapOK, Deleted
    PROVE  /\ DiskOK'
           /\ disk'[From] = None
           /\ \A e \in Place : e # From => disk'[e] = disk[e]
           /\ Done /\ job.how = "delete" /\ job.step \notin {"idle", "stage"}
<1>1. Done /\ job.how = "delete" /\ job.step \notin {"idle", "stage"}
    BY DEF Deleted, SwapOK, JobShape
<1> DEFINE a == From
<1>2. a \in Place
    BY FromTo
<1>3. disk' = [disk EXCEPT ![a] = None]
    BY DEF Deleted
<1> HIDE DEF a
<1>4. DiskOK' /\ disk'[a] = None /\ \A e \in Place : e # a => disk'[e] = disk[e]
    BY <1>2, <1>3 DEF SwapOK, DiskOK
<1> QED BY <1>1, <1>4 DEF a

\* One more file is copied, or it cannot be.
LEMMA CopyIs ==
    ASSUME SwapOK, Copy
    PROVE  /\ DiskOK' /\ job.step \in {"aside", "in", "back"} /\ job.how = "copy"
           /\ From \in Place /\ To \in Place /\ From # To
           /\ disk[From] # None /\ disk'[From] = disk[From] /\ disk'[To] # None
           /\ \A e \in Place : e # To => disk'[e] = disk[e]
           /\ \/ Erred
              \/ \E f \in job.left :
                   /\ disk'[To][f] = disk[From][f]
                   /\ \A g \in Files : g # f => disk'[To][g] = disk[To][g]
                   /\ job' = [step |-> job.step, how |-> "copy", left |-> job.left \ {f},
                              build |-> job.build, before |-> job.before,
                              result |-> job.result]
<1>1. job.step \in {"aside", "in", "back"} /\ job.how = "copy" /\ job.left \subseteq Files
    BY DEF SwapOK, Job, Step, JobShape, Copy, Tidying
<1>2. From \in Place /\ To \in Place /\ From # To
    BY <1>1, FromTo
<1>3. disk[From] # None /\ disk[To] # None
    BY <1>1, FromTo DEF SwapOK, JobShape, Both
<1>4. disk[From] \in Dir
    BY <1>2, <1>3 DEF SwapOK, DiskOK
<1>5. PICK f \in job.left :
        \/ /\ Write(To, f, disk[From][f])
           /\ job' = [job EXCEPT !.left = @ \ {f}]
           /\ UNCHANGED faults
        \/ /\ Write(To, f, None)
           /\ Fault /\ Erred
    BY DEF Copy
<1>6. f \in Files /\ disk[From][f] \in Builds \cup {None}
    BY <1>1, <1>4 DEF Dir
<1>7. CASE Write(To, f, disk[From][f]) /\ job' = [job EXCEPT !.left = @ \ {f}]
  <2>1. /\ DiskOK' /\ disk'[To] # None /\ disk'[To][f] = disk[From][f]
        /\ \A e \in Place : e # To => disk'[e] = disk[e]
        /\ \A g \in Files : g # f => disk'[To][g] = disk[To][g]
      BY <1>2, <1>3, <1>6, <1>7, WriteIs DEF SwapOK
  <2>2. job' = [step |-> job.step, how |-> "copy", left |-> job.left \ {f},
                build |-> job.build, before |-> job.before, result |-> job.result]
      BY <1>1, <1>7 DEF SwapOK, Job
  <2> QED BY <1>1, <1>2, <1>3, <2>1, <2>2
<1>8. CASE Write(To, f, None) /\ Erred
  <2>1. /\ DiskOK' /\ disk'[To] # None
        /\ \A e \in Place : e # To => disk'[e] = disk[e]
      BY <1>2, <1>3, <1>6, <1>8, WriteIs DEF SwapOK
  <2> QED BY <1>1, <1>2, <1>3, <1>8, <2>1
<1> QED BY <1>5, <1>7, <1>8

\* One more file is deleted, or it cannot be.
LEMMA DeleteIs ==
    ASSUME SwapOK, Delete
    PROVE  /\ DiskOK' /\ job.how = "delete" /\ job.step \notin {"idle", "stage"}
           /\ \A e \in Place : e # From => disk'[e] = disk[e]
           /\ \/ job' = job
              \/ Erred /\ disk' = disk
<1>1. job.how = "delete" /\ job.step \notin {"idle", "stage"} /\ disk[From] # None
    BY DEF Delete, SwapOK, JobShape
<1>2. From \in Place
    BY FromTo
<1>3. PICK f \in Files :
        \/ Write(From, f, None) /\ UNCHANGED <<job, faults>>
        \/ Fault /\ Erred /\ UNCHANGED disk
    BY DEF Delete
<1>4. CASE Write(From, f, None) /\ UNCHANGED <<job, faults>>
    BY <1>1, <1>2, <1>4, WriteIs DEF SwapOK
<1>5. CASE Erred /\ UNCHANGED disk
    BY <1>1, <1>5 DEF SwapOK, DiskOK
<1> QED BY <1>3, <1>4, <1>5

\* The archive is unpacked, wholly or in part.
LEMMA StageIs ==
    ASSUME SwapOK, Stage
    PROVE  /\ DiskOK' /\ job.step = "stage" /\ job.build \in Builds
           /\ \A e \in Place : e # "staging" => disk'[e] = disk[e]
           /\ \/ /\ disk'["staging"] = Whole(job.build)
                 /\ platform = "windows" =>
                      job' = [step |-> "idle", how |-> "none", left |-> job.left,
                              build |-> job.build, before |-> job.before, result |-> "staged"]
                 /\ platform # "windows" => job' = StartApply(job.build)
              \/ Ended("failed")
<1>1. job.step = "stage" /\ job.how = "none" /\ job.build \in Builds /\ "staging" \in Place
    BY DEF SwapOK, JobShape, Stage, Place
<1>2. CASE /\ disk' = [disk EXCEPT !["staging"] = Whole(job.build)]
           /\ job' = IF platform = "windows" THEN [job EXCEPT !.step = "idle", !.result = "staged"]
                     ELSE StartApply(job.build)
  <2>1. Whole(job.build) \in Dir
      BY <1>1, Basics
  <2>2. /\ DiskOK' /\ disk'["staging"] = Whole(job.build)
        /\ \A e \in Place : e # "staging" => disk'[e] = disk[e]
      BY <1>1, <1>2, <2>1 DEF SwapOK, DiskOK
  <2>3. platform = "windows" =>
          job' = [step |-> "idle", how |-> "none", left |-> job.left, build |-> job.build,
                  before |-> job.before, result |-> "staged"]
      BY <1>1, <1>2 DEF SwapOK, Job
  <2> QED BY <1>1, <1>2, <2>2, <2>3
<1>3. CASE /\ \E S \in SUBSET FilesOf[job.build] :
                 disk' = [disk EXCEPT !["staging"] = [f \in Files |->
                            IF f \in S THEN job.build ELSE None]]
           /\ Ended("failed")
  <2>1. PICK S \in SUBSET FilesOf[job.build] :
          disk' = [disk EXCEPT !["staging"] = [f \in Files |->
                     IF f \in S THEN job.build ELSE None]]
      BY <1>3
  <2> DEFINE part == [f \in Files |-> IF f \in S THEN job.build ELSE None]
  <2>2. part \in Dir
      BY <1>1 DEF Dir
  <2>3. disk' = [disk EXCEPT !["staging"] = part]
      BY <2>1
  <2> HIDE DEF part
  <2>4. DiskOK' /\ \A e \in Place : e # "staging" => disk'[e] = disk[e]
      BY <1>1, <2>2, <2>3 DEF SwapOK, DiskOK
  <2> QED BY <1>1, <1>3, <2>4
<1> QED BY <1>2, <1>3 DEF Stage

-----------------------------------------------------------------------------
(* A step of the swap keeps the job in shape.                              *)

LEMMA NextShape ==
    ASSUME SwapOK, job.step \notin {"idle", "stage"}, Done \/ Erred
    PROVE  job' \in Job /\ JobShape'
BY NextJob DEF SwapOK, JobShape, Tidying, SwapSteps

LEMMA EndedShape ==
    ASSUME SwapOK, job.build \in Builds, NEW r \in Result, Ended(r)
    PROVE  job' \in Job /\ JobShape'
<1>1. job' = [step |-> "idle", how |-> "none", left |-> {}, build |-> job.build,
              before |-> job.before, result |-> r]
    BY EndedRecord DEF SwapOK
<1>2. job.build \in Builds \cup {None} /\ job.before \in Builds \cup {None}
    BY DEF SwapOK, Job
<1>3. job' \in Job
    BY <1>1, <1>2 DEF Job, Step
<1>4. JobShape'
    BY <1>1 DEF JobShape, Tidying, SwapSteps
<1> QED BY <1>3, <1>4

\* A job that begins is in shape.
LEMMA StartShape ==
    ASSUME DiskOK, NEW v \in Builds,
           job' \in {StartApply(v), StartStage(v), StartTidy, Idle}
    PROVE  job' \in Job /\ JobShape'
<1>1. CASE job' = StartApply(v)
  <2>1. job' = [step |-> "clear", how |-> "delete", left |-> {}, build |-> v,
                before |-> Current, result |-> "none"]
      BY <1>1, StartRecords
  <2>2. job' \in Job
      BY <1>1, StartTypes
  <2>3. JobShape'
      BY <2>1 DEF JobShape, Tidying, SwapSteps
  <2> QED BY <2>2, <2>3
<1>2. CASE job' = StartStage(v)
  <2>1. job' = [step |-> "stage", how |-> "none", left |-> {}, build |-> v,
                before |-> Current, result |-> "none"]
      BY <1>2, StartRecords
  <2>2. job' \in Job
      BY <1>2, StartTypes
  <2>3. JobShape'
      BY <2>1 DEF JobShape, Tidying, SwapSteps
  <2> QED BY <2>2, <2>3
<1>3. CASE job' = StartTidy
  <2>1. job' = [step |-> "tidy backup", how |-> "delete", left |-> {}, build |-> None,
                before |-> None, result |-> "none"]
      BY <1>3, StartRecords
  <2>2. job' \in Job
      BY <1>3, StartTypes
  <2>3. JobShape'
      BY <2>1 DEF JobShape, Tidying, SwapSteps
  <2> QED BY <2>2, <2>3
<1>4. CASE job' = Idle
  <2>1. /\ job'.step = "idle" /\ job'.how = "none" /\ job'.result = "none"
      BY <1>4 DEF Idle
  <2> QED BY <1>4, <2>1, IdleJob DEF JobShape, Tidying, SwapSteps
<1> QED BY <1>1, <1>2, <1>3, <1>4

LEMMA SwapShape ==
    ASSUME SwapOK, SwapStep
    PROVE  SwapOK'
<1>1. CASE Stage
  <2>1. PICK v \in Builds : v = job.build
      BY <1>1, StageIs
  <2>2. CASE Ended("failed")
      BY <1>1, <2>2, StageIs, EndedShape DEF SwapOK, Result
  <2>3. CASE platform # "windows" /\ job' = StartApply(job.build)
      BY <1>1, <2>1, <2>3, StageIs, StartShape DEF SwapOK
  <2>4. CASE platform = "windows" /\
             job' = [step |-> "idle", how |-> "none", left |-> job.left, build |-> job.build,
                     before |-> job.before, result |-> "staged"]
    <3>1. job.build \in Builds /\ job.before \in Builds \cup {None} /\ job.left \subseteq Files
        BY <2>1 DEF SwapOK, Job
    <3>2. job' \in Job
        BY <2>4, <3>1 DEF Job, Step, Result
    <3>3. JobShape'
        BY <2>4, <3>1 DEF JobShape, Tidying, SwapSteps
    <3> QED BY <1>1, <3>2, <3>3, StageIs DEF SwapOK
  <2> QED BY <1>1, <2>2, <2>3, <2>4, StageIs
<1>2. CASE Rename
    BY <1>2, RenameIs, NextShape DEF SwapOK
<1>3. CASE RenameFails
  <2>1. CASE disk[From] = None
      BY <1>3, <2>1, RenameFailsIs, NextShape DEF SwapOK
  <2>2. CASE disk[From] # None
    <3> DEFINE rest == {f \in Files : disk[From][f] # None}
    <3>1. job' = [step |-> job.step, how |-> "copy", left |-> rest, build |-> job.build,
                  before |-> job.before, result |-> job.result]
        BY <1>3, <2>2, RenameFailsIs
    <3>2. rest \in SUBSET Files
        OBVIOUS
    <3> HIDE DEF rest
    <3>3. /\ job.build \in Builds \cup {None} /\ job.before \in Builds \cup {None}
          /\ job.result \in Result /\ job.step \in Step
        BY DEF SwapOK, Job
    <3>4. job' \in Job
        BY <3>1, <3>2, <3>3 DEF Job
    <3>5. From \in Place /\ To \in Place /\ From # To /\ job.step \in {"aside", "in", "back"}
        BY <1>3, RenameFailsIs, FromTo
    <3>6. disk'[From] # None /\ disk'[To] # None
        BY <1>3, <2>2, <3>5, RenameFailsIs
    <3>7. /\ job'.step = "aside" => disk'["install"] # None /\ disk'["backup"] # None
          /\ job'.step = "in" => disk'["staging"] # None /\ disk'["install"] # None
          /\ job'.step = "back" => disk'["backup"] # None /\ disk'["install"] # None
        BY <3>1, <3>6, FromTo
    <3>8. job'.result = "none" /\ (job'.step \in SwapSteps => job'.build \in Builds)
        BY <3>1, <3>5 DEF SwapOK, JobShape
    <3>9. JobShape'
        BY <3>1, <3>5, <3>7, <3>8 DEF JobShape, Both, Tidying, SwapSteps
    <3> QED BY <1>3, <3>4, <3>9, RenameFailsIs DEF SwapOK
  <2> QED BY <2>1, <2>2
<1>4. CASE Copy
  <2>1. /\ DiskOK' /\ job.step \in {"aside", "in", "back"} /\ job.how = "copy"
        /\ From \in Place /\ To \in Place
        /\ disk'[From] # None /\ disk'[To] # None
      BY <1>4, CopyIs
  <2>2. CASE Erred
      BY <1>4, <2>1, <2>2, NextShape DEF SwapOK
  <2>3. CASE \E f \in job.left :
               job' = [step |-> job.step, how |-> "copy", left |-> job.left \ {f},
                       build |-> job.build, before |-> job.before, result |-> job.result]
    <3>1. PICK f \in job.left :
               job' = [step |-> job.step, how |-> "copy", left |-> job.left \ {f},
                       build |-> job.build, before |-> job.before, result |-> job.result]
        BY <2>3
    <3>2. /\ job.build \in Builds \cup {None} /\ job.before \in Builds \cup {None}
          /\ job.result \in Result /\ job.step \in Step /\ job.left \ {f} \in SUBSET Files
        BY DEF SwapOK, Job
    <3>3. job' \in Job
        BY <3>1, <3>2 DEF Job
    <3>4. /\ job'.step = "aside" => disk'["install"] # None /\ disk'["backup"] # None
          /\ job'.step = "in" => disk'["staging"] # None /\ disk'["install"] # None
          /\ job'.step = "back" => disk'["backup"] # None /\ disk'["install"] # None
        BY <2>1, <3>1, FromTo
    <3>5. job'.result = "none" /\ (job'.step \in SwapSteps => job'.build \in Builds)
        BY <2>1, <3>1 DEF SwapOK, JobShape
    <3>6. JobShape'
        BY <2>1, <3>1, <3>4, <3>5 DEF JobShape, Both, Tidying, SwapSteps
    <3> QED BY <2>1, <3>3, <3>6 DEF SwapOK
  <2> QED BY <1>4, <2>2, <2>3, CopyIs
<1>5. CASE Copied
  <2>1. job.how = "copy" /\ job' = [job EXCEPT !.how = "delete"] /\ disk' = disk
      BY <1>5 DEF Copied
  <2>2. job.step \in {"aside", "in", "back"}
      BY <2>1 DEF SwapOK, Job, Step, JobShape, Tidying
  <2>3. job' \in Job /\ job'.step = job.step /\ job'.how = "delete"
        /\ job'.build = job.build /\ job'.result = job.result
      BY <2>1 DEF SwapOK, Job
  <2>4. JobShape'
      BY <2>2, <2>3 DEF SwapOK, JobShape, Tidying, SwapSteps
  <2> QED BY <2>1, <2>3, <2>4 DEF SwapOK, DiskOK
<1>6. CASE Delete
  <2>1. CASE job' = job
    <3>1. DiskOK' /\ job.how = "delete"
        BY <1>6, DeleteIs
    <3> QED BY <2>1, <3>1 DEF SwapOK, JobShape
  <2>2. CASE Erred
      BY <1>6, <2>2, DeleteIs, NextShape DEF SwapOK
  <2> QED BY <1>6, <2>1, <2>2, DeleteIs
<1>7. CASE Deleted
    BY <1>7, DeletedIs, NextShape DEF SwapOK
<1> QED BY <1>1, <1>2, <1>3, <1>4, <1>5, <1>6, <1>7 DEF SwapStep

-----------------------------------------------------------------------------
(* A step of the swap leaves the builds where they have to be.             *)

LEMMA RunsSame ==
    ASSUME NEW d, NEW v, disk'[d] = disk[d]
    PROVE  Runs(d, v)' <=> Runs(d, v)
BY DEF Runs

LEMMA RunsWorks ==
    ASSUME NEW d, NEW v \in Builds, Runs(d, v)
    PROVE  Works(d)
BY DEF Works

\* What has been copied wholly runs where it was copied to.
LEMMA CopiedAll ==
    ASSUME NEW a, NEW b, NEW v \in Builds, job.left = {}, Copying(a, b), Runs(a, v),
           disk[b] # None
    PROVE  Runs(b, v)
<1>1. FilesOf[v] \subseteq Files /\ v # None
    BY Basics
<1> QED BY <1>1 DEF Copying, Runs

\* The build of a directory that runs one is that of its executable.
LEMMA CurrentRuns ==
    ASSUME NEW v \in Builds, Runs("install", v)
    PROVE  Current = v
<1>1. Exe \in FilesOf[v]
    BY Basics
<1> QED BY <1>1 DEF Runs, Current

LEMMA PlacedAtRest ==
    ASSUME job'.step = "idle", AtRest'
    PROVE  Placed'
BY DEF Placed, Tidying, SwapSteps

\* A job that ended where the old build is installed.
LEMMA PlacedAsBefore ==
    ASSUME job'.step = "idle", job'.before \in Builds, Runs("install", job.before)',
           job'.result \notin {"applied", "staged"}
    PROVE  Placed'
<1>1. Works("install")'
    BY DEF Works
<1>2. AtRest'
    BY <1>1 DEF AtRest
<1> QED BY <1>2, PlacedAtRest

LEMMA PlacedInSwap ==
    ASSUME job'.step \in {"aside", "in", "back"}, job'.before \in Builds,
           job'.step = "aside" => AtAside',
           job'.step = "in" => AtIn',
           job'.step = "back" => AtBack'
    PROVE  Placed'
BY DEF Placed, Tidying, SwapSteps

LEMMA PlacedTidying ==
    ASSUME job'.step \in Tidying, Works("install")'
    PROVE  Placed'
BY DEF Placed, Tidying, SwapSteps

LEMMA StagePlaced ==
    ASSUME SwapOK, Placed, Stage
    PROVE  Placed'
<1>1. /\ job.step = "stage" /\ job.build \in Builds
      /\ job.before \in Builds /\ Runs("install", job.before)
    BY StageIs DEF Placed
<1>2. disk'["install"] = disk["install"]
    BY StageIs DEF Place
<1>3. Runs("install", job.before)' \/ job'.before # job.before
    BY <1>1, <1>2 DEF Runs
<1>4. CASE Ended("failed")
  <2>1. job' = [step |-> "idle", how |-> "none", left |-> {}, build |-> job.build,
                before |-> job.before, result |-> "failed"]
      BY <1>4, EndedRecord DEF SwapOK
  <2> QED BY <1>1, <1>3, <2>1, PlacedAsBefore
<1>5. CASE disk'["staging"] = Whole(job.build)
  <2>1. /\ job.build # None /\ FilesOf[job.build] \subseteq Files
        /\ Whole(job.build) \in Dir /\ Whole(job.build) # None
      BY <1>1, Basics
  <2>2. \A f \in FilesOf[job.build] : Whole(job.build)[f] = job.build
      BY <2>1 DEF Whole
  <2>3. CASE platform = "windows" /\
             job' = [step |-> "idle", how |-> "none", left |-> job.left, build |-> job.build,
                     before |-> job.before, result |-> "staged"]
    <3>1. Runs("staging", job.build)'
        BY <1>5, <2>1, <2>2, <2>3 DEF Runs
    <3>2. Works("install")'
        BY <1>1, <1>3, <2>3 DEF Works
    <3>3. AtRest'
        BY <2>3, <3>1, <3>2 DEF AtRest
    <3> QED BY <2>3, <3>3, PlacedAtRest
  <2>4. CASE platform # "windows" /\ job' = StartApply(job.build)
    <3>1. job' = [step |-> "clear", how |-> "delete", left |-> {}, build |-> job.build,
                  before |-> job.before, result |-> "none"]
        BY <1>1, <2>4, StartRecords, CurrentRuns
    <3>2. Runs("staging", job.build)'
        BY <1>5, <2>1, <2>2, <3>1 DEF Runs
    <3>3. Runs("install", job.before)'
        BY <1>3, <3>1
    <3> QED BY <1>1, <3>1, <3>2, <3>3 DEF Placed, Tidying, SwapSteps
  <2> QED BY <1>1, <1>5, <2>3, <2>4, StageIs, <1>4
<1> QED BY <1>4, <1>5, StageIs

\* The backup is cleared away.
LEMMA ClearPlaced ==
    ASSUME SwapOK, Placed, job.step = "clear", Delete \/ Deleted
    PROVE  Placed'
<1>1. From = "backup" /\ job.how = "delete" /\ job.before \in Builds
    BY FromTo DEF SwapOK, JobShape, Placed, SwapSteps
<1>2. disk'["install"] = disk["install"] /\ disk'["staging"] = disk["staging"]
    BY <1>1, DeleteIs, DeletedIs DEF Place
<1>3. Runs("install", job.before) /\ Runs("staging", job.build)
    BY DEF Placed
<1>4. job'.before = job.before /\ job'.build = job.build =>
        Runs("install", job.before)' /\ Runs("staging", job.build)'
    BY <1>2, <1>3 DEF Runs
<1>5. CASE job' = job
    BY <1>1, <1>4, <1>5 DEF Placed, Tidying, SwapSteps
<1>6. CASE Erred
  <2>1. job' = [step |-> "idle", how |-> "none", left |-> {}, build |-> job.build,
                before |-> job.before, result |-> "failed"]
      BY <1>6, ErredIs, EndedRecord DEF SwapOK
  <2> QED BY <1>1, <1>4, <2>1, PlacedAsBefore
<1>7. CASE Done
  <2>1. job' = [step |-> "aside", how |-> "rename", left |-> {}, build |-> job.build,
                before |-> job.before, result |-> job.result]
      BY <1>7, DoneIs, MoveOnRecord DEF SwapOK
  <2>2. AtAside'
      BY <1>4, <2>1 DEF AtAside
  <2> QED BY <1>1, <2>1, <2>2, PlacedInSwap
<1> QED BY <1>5, <1>6, <1>7, DeleteIs, DeletedIs

\* What the steps on the directories are, by what is done to them.
Moves == Rename \/ RenameFails \/ Copy \/ Copied \/ Delete \/ Deleted

\* The installation goes to the backup.
LEMMA AsidePlaced ==
    ASSUME SwapOK, Placed, job.step = "aside", Moves
    PROVE  Placed'
<1>1. /\ From = "install" /\ To = "backup" /\ From # To
      /\ job.before \in Builds /\ job.before # None /\ job.build \in Builds
    BY FromTo, Basics DEF Placed, SwapSteps, SwapOK, JobShape
<1>2. AtAside
    BY DEF Placed
<1>3. ASSUME Ended("not aside"), NEW v \in Builds, v = job.before,
             Runs("install", v)' \/ Runs("backup", v)'
      PROVE  Placed'
  <2>1. job' = [step |-> "idle", how |-> "none", left |-> {}, build |-> job.build,
                before |-> job.before, result |-> "not aside"]
      BY <1>3, EndedRecord DEF SwapOK
  <2>2. Runs("install", job.before)' \/ Runs("backup", job.before)'
      BY <1>3, <2>1 DEF Runs
  <2>3. Works("install")' \/ Works("backup")'
      BY <1>3 DEF Works
  <2>4. AtRest'
      BY <2>1, <2>2, <2>3 DEF AtRest
  <2> QED BY <2>1, <2>4, PlacedAtRest
<1>4. ASSUME Done, disk'["install"] = None, disk'["staging"] = disk["staging"],
             NEW v \in Builds, v = job.before, Runs("backup", v)'
      PROVE  Placed'
  <2>1. job' = [step |-> "in", how |-> "rename", left |-> {}, build |-> job.build,
                before |-> job.before, result |-> job.result]
      BY <1>4, DoneIs, MoveOnRecord DEF SwapOK
  <2>2. Runs("staging", job.build)'
      BY <1>2, <1>4, <2>1 DEF AtAside, Runs
  <2>3. Runs("backup", job.before)'
      BY <1>4, <2>1 DEF Runs
  <2>4. AtIn'
      BY <1>4, <2>1, <2>2, <2>3 DEF AtIn
  <2> QED BY <1>1, <2>1, <2>4, PlacedInSwap
<1>5. CASE Rename
  <2>1. /\ disk'["backup"] = disk["install"] /\ disk'["install"] = None /\ Done
        /\ disk'["staging"] = disk["staging"] /\ job.how = "rename"
      BY <1>1, <1>5, RenameIs DEF Place
  <2>2. \A v \in Builds : v = job.before => Runs("backup", v)'
      BY <1>2, <2>1 DEF AtAside, Runs
  <2> QED BY <1>1, <1>4, <2>1, <2>2
<1>6. CASE RenameFails
  <2>1. job.how = "rename" /\ Runs("install", job.before) /\ disk["install"] # None
      BY <1>2, <1>6, RenameFailsIs DEF AtAside, Runs
  <2>2. /\ disk'["install"] = disk["install"] /\ disk'["staging"] = disk["staging"]
        /\ disk'["backup"] # None
      BY <1>1, <1>6, RenameFailsIs DEF Place
  <2>3. job' = [step |-> "aside", how |-> "copy",
                left |-> {f \in Files : disk["install"][f] # None},
                build |-> job.build, before |-> job.before, result |-> job.result]
      BY <1>1, <1>6, <2>1, RenameFailsIs
  <2>4. Copying("install", "backup")'
      BY <2>2, <2>3 DEF Copying
  <2>5. Runs("install", job.before)' /\ Runs("staging", job.build)'
      BY <1>2, <2>1, <2>2, <2>3 DEF Runs, AtAside
  <2>6. AtAside'
      BY <2>3, <2>4, <2>5 DEF AtAside
  <2> QED BY <1>1, <2>3, <2>6, PlacedInSwap
<1>7. CASE Copy
  <2>1. /\ job.how = "copy" /\ disk'["install"] = disk["install"]
        /\ disk'["staging"] = disk["staging"]
      BY <1>1, <1>7, CopyIs DEF Place
  <2>2. CASE Erred
    <3>1. Ended("not aside")
        BY <2>2, ErredIs DEF SwapOK
    <3>2. \A v \in Builds : v = job.before => Runs("install", v)'
        BY <1>2, <2>1 DEF AtAside, Runs
    <3> QED BY <1>1, <1>3, <3>1, <3>2
  <2>3. ASSUME NEW f \in job.left,
               disk'["backup"][f] = disk["install"][f],
               \A g \in Files : g # f => disk'["backup"][g] = disk["backup"][g],
               job' = [step |-> job.step, how |-> "copy", left |-> job.left \ {f},
                       build |-> job.build, before |-> job.before, result |-> job.result]
        PROVE  Placed'
    <3>1. Copying("install", "backup")'
        BY <1>2, <2>1, <2>3 DEF AtAside, Copying
    <3>2. Runs("install", job.before)' /\ Runs("staging", job.build)'
        BY <1>2, <2>1, <2>3 DEF Runs, AtAside
    <3>3. AtAside'
        BY <2>3, <3>1, <3>2 DEF AtAside
    <3> QED BY <1>1, <2>3, <3>3, PlacedInSwap
  <2> QED BY <1>1, <1>7, <2>2, <2>3, CopyIs
<1>8. CASE Copied
  <2>1. /\ job.how = "copy" /\ job.left = {} /\ disk' = disk
        /\ job' = [job EXCEPT !.how = "delete"]
      BY <1>8 DEF Copied
  <2>2. /\ job'.step = "aside" /\ job'.how = "delete" /\ job'.before = job.before
        /\ job'.build = job.build
      BY <2>1 DEF SwapOK, Job
  <2>3. disk["backup"] # None
      BY <2>1 DEF SwapOK, JobShape, Both
  <2>4. Runs("backup", job.before)
      BY <1>1, <1>2, <2>1, <2>3, CopiedAll DEF AtAside
  <2>5. Runs("backup", job.before)' /\ Runs("staging", job.build)'
      BY <1>2, <2>1, <2>2, <2>4 DEF Runs, AtAside
  <2>6. AtAside'
      BY <2>2, <2>5 DEF AtAside
  <2> QED BY <1>1, <2>2, <2>6, PlacedInSwap
<1>9. CASE Delete
  <2>1. /\ job.how = "delete" /\ disk'["backup"] = disk["backup"]
        /\ disk'["staging"] = disk["staging"]
      BY <1>1, <1>9, DeleteIs DEF Place
  <2>2. CASE job' = job
    <3>1. Runs("backup", job.before)' /\ Runs("staging", job.build)'
        BY <1>2, <2>1, <2>2 DEF Runs, AtAside
    <3>2. AtAside'
        BY <2>1, <2>2, <3>1 DEF AtAside
    <3> QED BY <1>1, <2>2, <3>2, PlacedInSwap
  <2>3. CASE Erred
    <3>1. Ended("not aside")
        BY <2>3, ErredIs DEF SwapOK
    <3>2. \A v \in Builds : v = job.before => Runs("backup", v)'
        BY <1>2, <2>1 DEF AtAside, Runs
    <3> QED BY <1>1, <1>3, <3>1, <3>2
  <2> QED BY <1>9, <2>2, <2>3, DeleteIs
<1>10. CASE Deleted
  <2>1. /\ job.how = "delete" /\ disk'["backup"] = disk["backup"] /\ disk'["install"] = None
        /\ disk'["staging"] = disk["staging"] /\ Done
      BY <1>1, <1>10, DeletedIs DEF Place
  <2>2. \A v \in Builds : v = job.before => Runs("backup", v)'
      BY <1>2, <2>1 DEF Runs, AtAside
  <2> QED BY <1>1, <1>4, <2>1, <2>2
<1> QED BY <1>5, <1>6, <1>7, <1>8, <1>9, <1>10 DEF Moves

\* The staged build goes to the installation.
LEMMA InPlaced ==
    ASSUME SwapOK, Placed, job.step = "in", Moves
    PROVE  Placed'
<1>1. /\ From = "staging" /\ To = "install" /\ From # To
      /\ job.before \in Builds /\ job.before # None /\ job.build \in Builds
    BY FromTo, Basics DEF Placed, SwapSteps, SwapOK, JobShape
<1>2. AtIn
    BY DEF Placed
<1>3. ASSUME MoveOn("back"), disk'["backup"] = disk["backup"]
      PROVE  Placed'
  <2>1. job' = [step |-> "back", how |-> "rename", left |-> {}, build |-> job.build,
                before |-> job.before, result |-> job.result]
      BY <1>3, MoveOnRecord DEF SwapOK
  <2>2. Runs("backup", job.before)'
      BY <1>2, <1>3, <2>1 DEF Runs, AtIn
  <2>3. AtBack'
      BY <2>1, <2>2 DEF AtBack
  <2> QED BY <1>1, <2>1, <2>3, PlacedInSwap
<1>4. ASSUME Done, NEW v \in Builds, v = job.build, Runs("install", v)'
      PROVE  Placed'
  <2>1. job' = [step |-> "idle", how |-> "none", left |-> {}, build |-> job.build,
                before |-> job.before, result |-> "applied"]
      BY <1>4, DoneIs, EndedRecord DEF SwapOK
  <2>2. Runs("install", job.build)' /\ Works("install")'
      BY <1>4, <2>1 DEF Runs, Works
  <2>3. AtRest'
      BY <2>1, <2>2 DEF AtRest
  <2> QED BY <2>1, <2>3, PlacedAtRest
<1>5. CASE Rename
  <2>1. disk'["install"] = disk["staging"] /\ Done /\ job.how = "rename"
      BY <1>1, <1>5, RenameIs
  <2>2. \A v \in Builds : v = job.build => Runs("install", v)'
      BY <1>2, <2>1 DEF AtIn, Runs
  <2> QED BY <1>1, <1>4, <2>1, <2>2
<1>6. CASE RenameFails
  <2>1. job.how = "rename" /\ Runs("staging", job.build) /\ disk["staging"] # None
      BY <1>2, <1>6, RenameFailsIs DEF AtIn, Runs
  <2>2. /\ disk'["staging"] = disk["staging"] /\ disk'["backup"] = disk["backup"]
        /\ disk'["install"] # None
      BY <1>1, <1>6, RenameFailsIs DEF Place
  <2>3. job' = [step |-> "in", how |-> "copy",
                left |-> {f \in Files : disk["staging"][f] # None},
                build |-> job.build, before |-> job.before, result |-> job.result]
      BY <1>1, <1>6, <2>1, RenameFailsIs
  <2>4. Copying("staging", "install")'
      BY <2>2, <2>3 DEF Copying
  <2>5. Runs("backup", job.before)' /\ Runs("staging", job.build)'
      BY <1>2, <2>1, <2>2, <2>3 DEF Runs, AtIn
  <2>6. AtIn'
      BY <2>3, <2>4, <2>5 DEF AtIn
  <2> QED BY <1>1, <2>3, <2>6, PlacedInSwap
<1>7. CASE Copy
  <2>1. /\ job.how = "copy" /\ disk'["staging"] = disk["staging"]
        /\ disk'["backup"] = disk["backup"]
      BY <1>1, <1>7, CopyIs DEF Place
  <2>2. CASE Erred
    <3>1. MoveOn("back")
        BY <2>2, ErredIs DEF SwapOK
    <3> QED BY <1>3, <2>1, <3>1
  <2>3. ASSUME NEW f \in job.left,
               disk'["install"][f] = disk["staging"][f],
               \A g \in Files : g # f => disk'["install"][g] = disk["install"][g],
               job' = [step |-> job.step, how |-> "copy", left |-> job.left \ {f},
                       build |-> job.build, before |-> job.before, result |-> job.result]
        PROVE  Placed'
    <3>1. Copying("staging", "install")'
        BY <1>2, <2>1, <2>3 DEF AtIn, Copying
    <3>2. Runs("backup", job.before)' /\ Runs("staging", job.build)'
        BY <1>2, <2>1, <2>3 DEF Runs, AtIn
    <3>3. AtIn'
        BY <2>3, <3>1, <3>2 DEF AtIn
    <3> QED BY <1>1, <2>3, <3>3, PlacedInSwap
  <2> QED BY <1>1, <1>7, <2>2, <2>3, CopyIs
<1>8. CASE Copied
  <2>1. /\ job.how = "copy" /\ job.left = {} /\ disk' = disk
        /\ job' = [job EXCEPT !.how = "delete"]
      BY <1>8 DEF Copied
  <2>2. /\ job'.step = "in" /\ job'.how = "delete" /\ job'.before = job.before
        /\ job'.build = job.build
      BY <2>1 DEF SwapOK, Job
  <2>3. disk["install"] # None
      BY <2>1 DEF SwapOK, JobShape, Both
  <2>4. Runs("install", job.build)
      BY <1>1, <1>2, <2>1, <2>3, CopiedAll DEF AtIn
  <2>5. Runs("backup", job.before)' /\ Runs("install", job.build)'
      BY <1>2, <2>1, <2>2, <2>4 DEF Runs, AtIn
  <2>6. AtIn'
      BY <2>2, <2>5 DEF AtIn
  <2> QED BY <1>1, <2>2, <2>6, PlacedInSwap
<1>9. CASE Delete
  <2>1. /\ job.how = "delete" /\ disk'["backup"] = disk["backup"]
        /\ disk'["install"] = disk["install"]
      BY <1>1, <1>9, DeleteIs DEF Place
  <2>2. CASE job' = job
    <3>1. Runs("backup", job.before)' /\ Runs("install", job.build)'
        BY <1>2, <2>1, <2>2 DEF Runs, AtIn
    <3>2. AtIn'
        BY <2>1, <2>2, <3>1 DEF AtIn
    <3> QED BY <1>1, <2>2, <3>2, PlacedInSwap
  <2>3. CASE Erred
    <3>1. MoveOn("back")
        BY <2>3, ErredIs DEF SwapOK
    <3> QED BY <1>3, <2>1, <3>1
  <2> QED BY <1>9, <2>2, <2>3, DeleteIs
<1>10. CASE Deleted
  <2>1. job.how = "delete" /\ disk'["install"] = disk["install"] /\ Done
      BY <1>1, <1>10, DeletedIs DEF Place
  <2>2. \A v \in Builds : v = job.build => Runs("install", v)'
      BY <1>2, <2>1 DEF Runs, AtIn
  <2> QED BY <1>1, <1>4, <2>1, <2>2
<1> QED BY <1>5, <1>6, <1>7, <1>8, <1>9, <1>10 DEF Moves

\* The backup goes to the installation.
LEMMA BackPlaced ==
    ASSUME SwapOK, Placed, job.step = "back", Moves
    PROVE  Placed'
<1>1. /\ From = "backup" /\ To = "install" /\ From # To
      /\ job.before \in Builds /\ job.before # None /\ job.build \in Builds
    BY FromTo, Basics DEF Placed, SwapSteps, SwapOK, JobShape
<1>2. AtBack
    BY DEF Placed
<1>3. ASSUME NEW r \in {"rolled back", "stranded"}, Ended(r),
             NEW v \in Builds, v = job.before, Runs("install", v)'
      PROVE  Placed'
  <2>1. job' = [step |-> "idle", how |-> "none", left |-> {}, build |-> job.build,
                before |-> job.before, result |-> r]
      BY <1>3, EndedRecord DEF SwapOK
  <2>2. Runs("install", job.before)'
      BY <1>3, <2>1 DEF Runs
  <2> QED BY <1>1, <1>3, <2>1, <2>2, PlacedAsBefore
<1>4. CASE Rename
  <2>1. disk'["install"] = disk["backup"] /\ Ended("rolled back") /\ job.how = "rename"
      BY <1>1, <1>4, RenameIs, DoneIs DEF SwapOK
  <2>2. \A v \in Builds : v = job.before => Runs("install", v)'
      BY <1>2, <2>1 DEF AtBack, Runs
  <2> QED BY <1>1, <1>3, <2>1, <2>2
<1>5. CASE RenameFails
  <2>1. job.how = "rename" /\ Runs("backup", job.before) /\ disk["backup"] # None
      BY <1>2, <1>5, RenameFailsIs DEF AtBack, Runs
  <2>2. disk'["backup"] = disk["backup"] /\ disk'["install"] # None
      BY <1>1, <1>5, RenameFailsIs DEF Place
  <2>3. job' = [step |-> "back", how |-> "copy",
                left |-> {f \in Files : disk["backup"][f] # None},
                build |-> job.build, before |-> job.before, result |-> job.result]
      BY <1>1, <1>5, <2>1, RenameFailsIs
  <2>4. Copying("backup", "install")'
      BY <2>2, <2>3 DEF Copying
  <2>5. Runs("backup", job.before)'
      BY <2>1, <2>2, <2>3 DEF Runs
  <2>6. AtBack'
      BY <2>3, <2>4, <2>5 DEF AtBack
  <2> QED BY <1>1, <2>3, <2>6, PlacedInSwap
<1>6. CASE Copy
  <2>1. job.how = "copy" /\ disk'["backup"] = disk["backup"]
      BY <1>1, <1>6, CopyIs DEF Place
  <2>2. CASE Erred
    <3>1. Ended("stranded")
        BY <2>2, ErredIs DEF SwapOK
    <3>2. job' = [step |-> "idle", how |-> "none", left |-> {}, build |-> job.build,
                  before |-> job.before, result |-> "stranded"]
        BY <3>1, EndedRecord DEF SwapOK
    <3>3. \A v \in Builds : v = job.before => Runs("backup", v)'
        BY <1>2, <2>1 DEF AtBack, Runs
    <3>4. Works("backup")'
        BY <1>1, <3>3 DEF Works
    <3>5. AtRest'
        BY <3>2, <3>4 DEF AtRest
    <3> QED BY <3>2, <3>5, PlacedAtRest
  <2>3. ASSUME NEW f \in job.left,
               disk'["install"][f] = disk["backup"][f],
               \A g \in Files : g # f => disk'["install"][g] = disk["install"][g],
               job' = [step |-> job.step, how |-> "copy", left |-> job.left \ {f},
                       build |-> job.build, before |-> job.before, result |-> job.result]
        PROVE  Placed'
    <3>1. Copying("backup", "install")'
        BY <1>2, <2>1, <2>3 DEF AtBack, Copying
    <3>2. Runs("backup", job.before)'
        BY <1>2, <2>1, <2>3 DEF Runs, AtBack
    <3>3. AtBack'
        BY <2>3, <3>1, <3>2 DEF AtBack
    <3> QED BY <1>1, <2>3, <3>3, PlacedInSwap
  <2> QED BY <1>1, <1>6, <2>2, <2>3, CopyIs
<1>7. CASE Copied
  <2>1. /\ job.how = "copy" /\ job.left = {} /\ disk' = disk
        /\ job' = [job EXCEPT !.how = "delete"]
      BY <1>7 DEF Copied
  <2>2. job'.step = "back" /\ job'.how = "delete" /\ job'.before = job.before
      BY <2>1 DEF SwapOK, Job
  <2>3. disk["install"] # None
      BY <2>1 DEF SwapOK, JobShape, Both
  <2>4. Runs("install", job.before)
      BY <1>1, <1>2, <2>1, <2>3, CopiedAll DEF AtBack
  <2>5. Runs("install", job.before)'
      BY <2>1, <2>2, <2>4 DEF Runs
  <2>6. AtBack'
      BY <2>2, <2>5 DEF AtBack
  <2> QED BY <1>1, <2>2, <2>6, PlacedInSwap
<1>8. CASE Delete
  <2>1. job.how = "delete" /\ disk'["install"] = disk["install"]
      BY <1>1, <1>8, DeleteIs DEF Place
  <2>2. \A v \in Builds : v = job.before => Runs("install", v)'
      BY <1>2, <2>1 DEF Runs, AtBack
  <2>3. CASE job' = job
    <3>1. Runs("install", job.before)'
        BY <1>1, <2>2, <2>3 DEF Runs
    <3>2. AtBack'
        BY <2>1, <2>3, <3>1 DEF AtBack
    <3> QED BY <1>1, <2>3, <3>2, PlacedInSwap
  <2>4. CASE Erred
    <3>1. Ended("stranded")
        BY <2>4, ErredIs DEF SwapOK
    <3> QED BY <1>1, <1>3, <2>2, <3>1
  <2> QED BY <1>8, <2>3, <2>4, DeleteIs
<1>9. CASE Deleted
  <2>1. job.how = "delete" /\ disk'["install"] = disk["install"] /\ Ended("rolled back")
      BY <1>1, <1>9, DeletedIs, DoneIs DEF Place, SwapOK
  <2>2. \A v \in Builds : v = job.before => Runs("install", v)'
      BY <1>2, <2>1 DEF Runs, AtBack
  <2> QED BY <1>1, <1>3, <2>1, <2>2
<1> QED BY <1>4, <1>5, <1>6, <1>7, <1>8, <1>9 DEF Moves

\* What an update left behind is cleared away.
LEMMA TidyPlaced ==
    ASSUME SwapOK, Placed, job.step \in Tidying, Delete \/ Deleted
    PROVE  Placed'
<1>1. From # "install" /\ Works("install") /\ job.how = "delete"
    BY FromTo DEF Tidying, Placed, SwapOK, JobShape
<1>2. disk'["install"] = disk["install"]
    BY <1>1, DeleteIs, DeletedIs DEF Place
<1>3. Works("install")'
    BY <1>1, <1>2 DEF Works, Runs
<1>4. CASE job' = job
    BY <1>3, <1>4, PlacedTidying
<1>5. CASE job' = [job EXCEPT !.step = "tidy staging"]
  <2>1. job'.step = "tidy staging"
      BY <1>5 DEF SwapOK, Job
  <2> QED BY <1>3, <2>1, PlacedTidying DEF Tidying
<1>6. CASE job' = Idle
  <2>1. job'.step = "idle" /\ job'.result = "none"
      BY <1>6 DEF Idle
  <2>2. AtRest'
      BY <1>3, <2>1 DEF AtRest
  <2> QED BY <2>1, <2>2, PlacedAtRest
<1>7. CASE Done \/ Erred
    BY <1>5, <1>6, <1>7, DoneIs, ErredIs DEF SwapOK, Tidying
<1> QED BY <1>4, <1>7, DeleteIs, DeletedIs

LEMMA SwapPlaced ==
    ASSUME SwapOK, Placed, SwapStep
    PROVE  Placed'
<1>1. CASE Stage
    BY <1>1, StagePlaced
<1>2. CASE Moves
  <2>1. job.how # "none" /\ job.step \notin {"idle", "stage"}
      BY <1>2 DEF Moves, Rename, RenameFails, Copy, Copied, Delete, Deleted, SwapOK, JobShape
  <2>2. job.step \in {"clear"} \cup Tidying => Delete \/ Deleted
      BY <1>2 DEF Moves, Rename, RenameFails, Copy, Copied, SwapOK, JobShape
  <2>3. job.step \in {"clear", "aside", "in", "back"} \cup Tidying
      BY <2>1 DEF SwapOK, Job, Step, Tidying
  <2> QED BY <1>2, <2>2, <2>3, ClearPlaced, AsidePlaced, InPlaced, BackPlaced, TidyPlaced
<1> QED BY <1>1, <1>2 DEF SwapStep, Moves

-----------------------------------------------------------------------------
(* Types.                                                                  *)

LEMMA ShapeSame ==
    ASSUME JobShape, UNCHANGED <<job, disk>>
    PROVE  JobShape'
BY DEF JobShape, Both

\* An event that is told is the last one.
LEMMA TellIs ==
    ASSUME events \in Seq(Event), NEW v \in Builds \cup {None},
           NEW kind \in {"checking", "none", "available", "progress", "installed", "failed"},
           Tell(kind, v)
    PROVE  /\ events' \in Seq(Event) /\ Len(events') = Len(events) + 1 /\ Len(events) \in Nat
           /\ \A i \in 1..Len(events) : events'[i] = events[i]
           /\ events'[Len(events) + 1] = [kind |-> kind, build |-> v]
           /\ events' # <<>>
<1> DEFINE e == [kind |-> kind, build |-> v]
<1>1. e \in Event /\ events' = Append(events, e)
    BY DEF Event, Tell
<1> HIDE DEF e
<1>2. events' \in Seq(Event) /\ Len(events') = Len(events) + 1 /\ Len(events) \in Nat
      /\ (\A i \in 1..Len(events) : events'[i] = events[i]) /\ events'[Len(events) + 1] = e
    BY <1>1
<1>3. events' # <<>>
    BY <1>2
<1> QED BY <1>2, <1>3 DEF e

\* A build that is launched has nothing on its way, and tidies up where it is installed.
LEMMA LaunchedIs ==
    ASSUME DiskOK, NEW d \in {"install", "backup"}, Launched(d)
    PROVE  /\ running' \in Builds /\ running' # None /\ home' = d
           /\ torn \in BOOLEAN => torn' \in BOOLEAN
           /\ d = "install" => BeginsOver
           /\ torn => torn'
           /\ stray' \in BOOLEAN /\ (stray' <=> d = "backup")
           /\ d = "backup" => job' = Idle
           /\ d = "install" => job' = StartTidy
           /\ job' \in Job /\ JobShape'
           /\ banner' = Hidden /\ requests' = <<>> /\ pending' = FALSE
           /\ worker' = "starting" /\ skipped' = None
           /\ offered' = None /\ serving' = NoRequest /\ events' = <<>>
           /\ disk[d] \in Dir /\ disk[d][Exe] # None
<1>1. disk[d] \in Dir /\ disk[d][Exe] # None /\ disk[d][Exe] \in Builds
    BY Basics DEF DiskOK, Launched, Startable, Place, Dir
<1>2. running' = disk[d][Exe] /\ home' = d /\ stray' = (d = "backup")
      /\ (d = "backup" => job' = Idle) /\ (d = "install" => job' = StartTidy)
    BY DEF Launched
<1>3. 1 \in Builds /\ None \notin Builds
    BY Basics
<1>4. job' \in Job /\ JobShape'
    BY <1>2, <1>3, StartShape
<1>5. /\ torn \in BOOLEAN => torn' \in BOOLEAN
      /\ d = "install" => BeginsOver
      /\ torn => torn'
    BY DEF Launched, BeginsOver
<1> QED BY <1>1, <1>2, <1>3, <1>4, <1>5 DEF Launched, FreshWindow, FreshWorker

LEMMA FreshTypes ==
    /\ Hidden \in Showing /\ NoRequest \in Request
    /\ <<>> \in Seq(Request) /\ <<>> \in Seq(Event)
BY DEF Hidden, Showing, NoRequest, Request

LEMMA HeadTail ==
    /\ events \in Seq(Event) /\ events # <<>> =>
         /\ Head(events) \in Event /\ Tail(events) \in Seq(Event) /\ Head(events) = events[1]
         /\ Len(events) \in Nat \ {0} /\ Len(Tail(events)) = Len(events) - 1
         /\ \A i \in 1..Len(Tail(events)) : Tail(events)[i] = events[i + 1]
    /\ requests \in Seq(Request) /\ requests # <<>> =>
         Head(requests) \in Request /\ Tail(requests) \in Seq(Request)
<1>1. ASSUME events \in Seq(Event), events # <<>>
      PROVE  /\ Head(events) \in Event /\ Tail(events) \in Seq(Event) /\ Head(events) = events[1]
             /\ Len(events) \in Nat \ {0} /\ Len(Tail(events)) = Len(events) - 1
             /\ \A i \in 1..Len(Tail(events)) : Tail(events)[i] = events[i + 1]
    BY <1>1, HeadTailProperties, EmptySeq
<1>2. ASSUME requests \in Seq(Request), requests # <<>>
      PROVE  Head(requests) \in Request /\ Tail(requests) \in Seq(Request)
    BY <1>2, HeadTailProperties
<1> QED BY <1>1, <1>2

LEMMA ShownIs ==
    ASSUME NEW e \in Event
    PROVE  /\ Shown(e) \in Showing
           /\ Shown(e).kind = "available" => e.kind = "available" /\ Shown(e).build = e.build
           /\ Shown(e).kind = "ready" => e.kind = "installed" /\ Shown(e).build = e.build
           /\ e.kind = "available" => Shown(e).kind = "available"
<1>1. e.kind \in {"checking", "none", "available", "progress", "installed", "failed"}
      /\ e.build \in Builds \cup {None}
    BY DEF Event
<1>2. CASE e.kind = "checking"
  <2>1. Shown(e) = [kind |-> "checking", build |-> None]
      BY <1>2 DEF Shown
  <2> QED BY <1>2, <2>1 DEF Showing
<1>3. CASE e.kind = "none"
  <2>1. Shown(e) = [kind |-> "hidden", build |-> None]
      BY <1>3 DEF Shown, Hidden
  <2> QED BY <1>3, <2>1 DEF Showing
<1>4. CASE e.kind = "available"
  <2>1. Shown(e) = [kind |-> "available", build |-> e.build]
      BY <1>4 DEF Shown
  <2> QED BY <1>1, <1>4, <2>1 DEF Showing
<1>5. CASE e.kind = "progress"
  <2>1. Shown(e) = [kind |-> "downloading", build |-> None]
      BY <1>5 DEF Shown
  <2> QED BY <1>5, <2>1 DEF Showing
<1>6. CASE e.kind = "installed"
  <2>1. Shown(e) = [kind |-> "ready", build |-> e.build]
      BY <1>6 DEF Shown
  <2> QED BY <1>1, <1>6, <2>1 DEF Showing
<1>7. CASE e.kind = "failed"
  <2>1. Shown(e) = [kind |-> "failed", build |-> None]
      BY <1>7 DEF Shown
  <2> QED BY <1>7, <2>1 DEF Showing
<1> QED BY <1>1, <1>2, <1>3, <1>4, <1>5, <1>6, <1>7

\* What is asked is put in the queue, or dropped.
LEMMA AskIs ==
    ASSUME requests \in Seq(Request), pending \in BOOLEAN, NEW automatic \in BOOLEAN,
           NEW kind \in {"check", "install", "defer"}, Ask(kind, automatic)
    PROVE  requests' \in Seq(Request) /\ pending' \in BOOLEAN
<1> DEFINE q == [kind |-> kind, automatic |-> automatic]
<1>1. q \in Request
    BY DEF Request
<1>2. \/ requests' = requests /\ pending' = pending
      \/ requests' = Append(requests, q) /\ pending' \in BOOLEAN
    BY DEF Ask
<1> HIDE DEF q
<1> QED BY <1>1, <1>2

LEMMA FaultType ==
    ASSUME faults \in 0..MaxFaults, Fault
    PROVE  faults' \in 0..MaxFaults
BY UpdateSwapAssumption DEF Fault

\* The swap leaves alone what is not on disk; it counts the faults.
LEMMA SwapLeaves ==
    ASSUME SwapStep, faults \in 0..MaxFaults
    PROVE  UNCHANGED <<crossing, platform, torn>> /\ faults' \in 0..MaxFaults
<1>1. CASE Stage BY <1>1, FaultType DEF Stage
<1>2. CASE Rename BY <1>2 DEF Rename
<1>3. CASE RenameFails BY <1>3, FaultType DEF RenameFails
<1>4. CASE Copy BY <1>4, FaultType DEF Copy
<1>5. CASE Copied BY <1>5 DEF Copied
<1>6. CASE Delete BY <1>6, FaultType DEF Delete
<1>7. CASE Deleted BY <1>7 DEF Deleted
<1> QED BY <1>1, <1>2, <1>3, <1>4, <1>5, <1>6, <1>7 DEF SwapStep

\* The file of the running build is in one of the two places, or gone.
LEMMA FollowedType ==
    ASSUME home \in {"install", "backup", None}
    PROVE  Followed \in {"install", "backup", None}
<1>1. To \in {"install", "backup"}
    BY FromTo
<1>2. Followed \in {home, To, None}
  <2>1. CASE home # From \/ disk[home][Exe] = None
      BY <2>1 DEF Followed
  <2>2. CASE job.how = "rename"
      BY <2>2 DEF Followed
  <2>3. CASE job.how = "delete"
      BY <2>3 DEF Followed
  <2>4. CASE job.how \notin {"rename", "delete"}
      BY <2>4 DEF Followed
  <2> QED BY <2>1, <2>2, <2>3, <2>4
<1> QED BY <1>1, <1>2

Shaped == TypeOK /\ JobShape

LEMMA ShapedInit == Init => Shaped
<1> SUFFICES ASSUME Init PROVE Shaped
    OBVIOUS
<1>1. Whole(1) \in Dir /\ 1 \in Builds
    BY Basics
<1>2. disk \in [Place -> Dir \cup {None}]
    BY <1>1 DEF Init, SwapInit, Place
<1>3. job = Idle /\ job \in Job
    BY IdleJob DEF Init, SwapInit
<1>4. SwapTypeOK
  <2>1. crossing \in BOOLEAN /\ platform \in Platforms /\ torn \in BOOLEAN
      BY DEF Init, SwapInit
  <2>2. faults \in 0..MaxFaults
      BY UpdateSwapAssumption DEF Init, SwapInit
  <2> QED BY <1>2, <1>3, <2>1, <2>2 DEF SwapTypeOK
<1>5. JobShape
    BY <1>3 DEF JobShape, Idle, Tidying, SwapSteps
<1>6. TypeOK
    BY <1>1, <1>4, FreshTypes DEF Init, TypeOK
<1> QED BY <1>5, <1>6 DEF Shaped

LEMMA ShapedNext ==
    ASSUME Shaped, Named, Next
    PROVE  Shaped'
<1> USE DEF Shaped
<1>1. CASE Publish
    BY <1>1, ShapeSame DEF Publish, TypeOK, SwapTypeOK, swapVars, windowVars, workerVars
<1>2. CASE Start
  <2>1. Launched("install") /\ DiskOK
      BY <1>2 DEF Start, TypeOK, SwapTypeOK, DiskOK
  <2> QED BY <1>2, <2>1, LaunchedIs, FreshTypes DEF Start, TypeOK, SwapTypeOK
<1>3. CASE Quit
  <2>1. faults' \in 0..MaxFaults
      BY <1>3, FaultType DEF Quit, TypeOK, SwapTypeOK
  <2>2. job' = Idle /\ torn' \in BOOLEAN
      BY <1>3 DEF Quit, SwapDies, TypeOK, SwapTypeOK
  <2>3. job' \in Job /\ JobShape'
      BY <2>2, Basics, StartShape DEF TypeOK, SwapTypeOK, DiskOK
  <2> QED BY <1>3, <2>1, <2>2, <2>3, FreshTypes
          DEF Quit, FreshWindow, FreshWorker, TypeOK, SwapTypeOK
<1>4. ASSUME NEW automatic \in BOOLEAN, Check(automatic)
      PROVE  Shaped'
  <2>1. requests' \in Seq(Request) /\ pending' \in BOOLEAN
      BY <1>4, AskIs DEF Check, TypeOK
  <2> QED BY <1>4, <2>1, ShapeSame DEF Check, TypeOK, SwapTypeOK, swapVars, worldVars, workerVars
<1>5. ASSUME NEW kind \in {"install", "defer"}, Answer(kind)
      PROVE  Shaped'
  <2>1. requests' \in Seq(Request) /\ pending' \in BOOLEAN
      BY <1>5, AskIs DEF Answer, TypeOK
  <2> QED BY <1>5, <2>1, ShapeSame DEF Answer, TypeOK, SwapTypeOK, swapVars, worldVars, workerVars
<1>6. CASE Drain
  <2>1. events \in Seq(Event) /\ events # <<>> /\ banner' = Shown(Head(events))
        /\ events' = Tail(events)
      BY <1>6 DEF Drain, TypeOK
  <2>2. banner' \in Showing /\ events' \in Seq(Event)
      BY <2>1, HeadTail, ShownIs
  <2> QED BY <1>6, <2>2, ShapeSame DEF Drain, TypeOK, SwapTypeOK, swapVars, worldVars
<1>7. CASE Dismiss
    BY <1>7, ShapeSame, FreshTypes DEF Dismiss, TypeOK, SwapTypeOK, swapVars, worldVars, workerVars
<1>8. CASE Restart
  <2>1. torn \in BOOLEAN /\ DiskOK
      BY <1>8 DEF Restart, TypeOK, SwapTypeOK, DiskOK
  <2>2. CASE platform = "windows"
    <3>1. job' = StartApply(banner.build) /\ banner.build \in Builds
        BY <1>8, <2>2 DEF Restart, Named
    <3>2. job' \in Job /\ JobShape'
      <4>1. PICK v \in Builds : v = banner.build
          BY <3>1
      <4>2. job' = StartApply(v)
          BY <3>1, <4>1
      <4>3. DiskOK /\ disk' = disk
          BY <1>8 DEF Restart, TypeOK, SwapTypeOK, DiskOK
      <4> QED BY <4>2, <4>3, StartShape
    <3>3. running' = None /\ home' = None /\ helping' = TRUE /\ stray' = stray
          /\ torn' = (torn \/ ~Works("install") \/ HalfStaged)
          /\ FreshWindow /\ FreshWorker
        BY <1>8, <2>2 DEF Restart
    <3> QED BY <1>8, <2>1, <3>2, <3>3, FreshTypes
            DEF Restart, FreshWindow, FreshWorker, TypeOK, SwapTypeOK
  <2>3. CASE platform # "windows"
    <3>1. Launched(Home) /\ UNCHANGED helping /\ DiskOK
        BY <1>8, <2>3 DEF Restart, TypeOK, SwapTypeOK, DiskOK
    <3>2. PICK d \in {"install", "backup"} : d = Home /\ Launched(d)
        BY <3>1 DEF Home, Launched, Startable, TypeOK
    <3> QED BY <1>8, <2>1, <3>1, <3>2, LaunchedIs, FreshTypes DEF Restart, TypeOK, SwapTypeOK
  <2> QED BY <2>2, <2>3
<1>9. CASE RestartFails
  <2>1. faults' \in 0..MaxFaults
      BY <1>9, FaultType DEF RestartFails, TypeOK, SwapTypeOK
  <2>2. banner' \in Showing
      BY <1>9 DEF RestartFails, Showing
  <2> QED BY <1>9, <2>1, <2>2, ShapeSame
          DEF RestartFails, TypeOK, SwapTypeOK, worldVars, workerVars
<1>10. CASE Take
  <2>1. serving' = Head(requests) /\ requests' = Tail(requests) /\ requests # <<>>
        /\ requests \in Seq(Request)
      BY <1>10 DEF Take, TypeOK
  <2>2. serving' \in Request /\ requests' \in Seq(Request)
      BY <2>1, HeadTail
  <2>3. events' \in Seq(Event)
      BY <1>10, TellIs DEF Take, TypeOK
  <2> QED BY <1>10, <2>2, <2>3, ShapeSame DEF Take, TypeOK, SwapTypeOK, swapVars, worldVars
<1>20. CASE WorkerStarts
  <2>1. /\ worker' \in {"starting", "serving", "gone"} /\ skipped' \in Builds \cup {None}
        /\ requests' \in Seq(Request) /\ events' \in Seq(Event)
    <3>1. CASE worker' = "serving" /\ skipped' = deferred /\ UNCHANGED <<requests, events>>
        BY <3>1 DEF TypeOK
    <3>2. CASE /\ worker' = "gone" /\ requests' = <<>> /\ UNCHANGED skipped
               /\ (\E kind \in {"none", "failed"} : Tell(kind, None)) \/ UNCHANGED events
      <4>1. events' \in Seq(Event)
          BY <3>2, TellIs DEF TypeOK
      <4> QED BY <3>2, <4>1, FreshTypes DEF TypeOK
    <3> QED BY <1>20, <3>1, <3>2 DEF WorkerStarts
  <2> QED BY <1>20, <2>1, ShapeSame DEF WorkerStarts, TypeOK, SwapTypeOK, swapVars, worldVars
<1>11. CASE Checked
  <2>1. events' \in Seq(Event) /\ offered' \in Builds \cup {None}
      BY <1>11, TellIs DEF Checked, TypeOK
  <2>2. serving' \in Request /\ pending' \in BOOLEAN
      BY <1>11, FreshTypes DEF Checked, Allowed
  <2> QED BY <1>11, <2>1, <2>2, ShapeSame DEF Checked, TypeOK, SwapTypeOK, swapVars, worldVars
<1>12. CASE CheckFails
  <2>1. events' \in Seq(Event)
      BY <1>12, TellIs DEF CheckFails, TypeOK
  <2>2. serving' \in Request /\ pending' \in BOOLEAN
      BY <1>12, FreshTypes DEF CheckFails, Allowed
  <2>3. faults' \in 0..MaxFaults
      BY <1>12, FaultType DEF CheckFails, TypeOK, SwapTypeOK
  <2> QED BY <1>12, <2>1, <2>2, <2>3, ShapeSame DEF CheckFails, TypeOK, SwapTypeOK, worldVars
<1>13. CASE Install
  <2>1. events' \in Seq(Event)
      BY <1>13, TellIs DEF Install, TypeOK
  <2>2. serving' \in Request
      BY <1>13, FreshTypes DEF Install, TypeOK
  <2>3. CASE offered = None
      BY <1>13, <2>1, <2>2, <2>3, ShapeSame
      DEF Install, TypeOK, SwapTypeOK, worldVars, windowVars
  <2>4. CASE offered # None
    <3>1. PICK v \in Builds : v = offered
        BY <2>4 DEF TypeOK
    <3>2. job' = StartStage(v) /\ DiskOK /\ disk' = disk
        BY <1>13, <2>4, <3>1 DEF Install, TypeOK, SwapTypeOK, DiskOK
    <3>3. job' \in Job /\ JobShape'
        BY <3>2, StartShape
    <3>4. torn' \in BOOLEAN
        BY <1>13 DEF Install, BeginsOver, TypeOK, SwapTypeOK
    <3> QED BY <1>13, <2>1, <2>2, <3>3, <3>4
            DEF Install, TypeOK, SwapTypeOK, worldVars, windowVars
  <2> QED BY <2>3, <2>4
<1>14. CASE InstallFails
  <2>1. events' \in Seq(Event)
      BY <1>14, TellIs DEF InstallFails, TypeOK
  <2>2. serving' \in Request
      BY <1>14, FreshTypes DEF InstallFails
  <2>3. faults' \in 0..MaxFaults
      BY <1>14, FaultType DEF InstallFails, TypeOK, SwapTypeOK
  <2> QED BY <1>14, <2>1, <2>2, <2>3, ShapeSame
          DEF InstallFails, TypeOK, SwapTypeOK, worldVars, windowVars
<1>15. CASE Installed
  <2>1. events' \in Seq(Event) /\ offered' \in Builds \cup {None}
      BY <1>15, TellIs DEF Installed, TypeOK
  <2>2. serving' \in Request
      BY <1>15, FreshTypes DEF Installed
  <2>3. job' \in Job /\ JobShape'
      BY <1>15, Basics, StartShape DEF Installed, TypeOK, SwapTypeOK, DiskOK
  <2> QED BY <1>15, <2>1, <2>2, <2>3 DEF Installed, TypeOK, SwapTypeOK, worldVars, windowVars
<1>16. CASE Defer
  <2>1. events' \in Seq(Event)
      BY <1>16, TellIs DEF Defer, TypeOK
  <2>2. /\ serving' \in Request /\ offered' = None
        /\ deferred' \in Builds \cup {None} /\ skipped' \in Builds \cup {None}
        /\ faults' \in 0..MaxFaults
      BY <1>16, FreshTypes, FaultType DEF Defer, Recorded, TypeOK, SwapTypeOK
  <2> QED BY <1>16, <2>1, <2>2, ShapeSame DEF Defer, TypeOK, SwapTypeOK, windowVars
<1>17. CASE Swap
  <2>1. SwapStep /\ home' = Followed /\ UNCHANGED <<feed, deferred, running, helping, stray>>
        /\ UNCHANGED <<windowVars, workerVars>>
      BY <1>17 DEF Swap
  <2>2. SwapOK
      BY DEF SwapOK, DiskOK, TypeOK, SwapTypeOK
  <2>3. SwapOK'
      BY <2>1, <2>2, SwapShape
  <2>4. UNCHANGED <<crossing, platform, torn>> /\ faults' \in 0..MaxFaults
      BY <2>1, SwapLeaves DEF TypeOK, SwapTypeOK
  <2>5. home' \in {"install", "backup", None}
      BY <2>1, FollowedType DEF TypeOK
  <2>6. SwapTypeOK' /\ JobShape'
      BY <2>3, <2>4 DEF SwapOK, DiskOK, TypeOK, SwapTypeOK
  <2> QED BY <2>1, <2>5, <2>6 DEF TypeOK, windowVars, workerVars
<1>18. CASE HelperEnds
  <2>1. CASE Launched("install") /\ UNCHANGED faults
      BY <1>18, <2>1, LaunchedIs, FreshTypes DEF HelperEnds, TypeOK, SwapTypeOK, DiskOK
  <2>2. CASE /\ IF Startable("install") THEN Fault ELSE UNCHANGED faults
             /\ job' = Idle
             /\ UNCHANGED <<torn, running, home, stray, windowVars, workerVars>>
    <3>1. faults' \in 0..MaxFaults
        BY <2>2, FaultType DEF TypeOK, SwapTypeOK
    <3>2. job' \in Job /\ JobShape'
        BY <2>2, Basics, StartShape DEF TypeOK, SwapTypeOK, DiskOK
    <3> QED BY <1>18, <2>2, <3>1, <3>2
            DEF HelperEnds, TypeOK, SwapTypeOK, windowVars, workerVars
  <2> QED BY <1>18, <2>1, <2>2 DEF HelperEnds
<1>19. CASE HelperDies
  <2>1. faults' \in 0..MaxFaults
      BY <1>19, FaultType DEF HelperDies, TypeOK, SwapTypeOK
  <2>2. job' = Idle /\ torn' \in BOOLEAN
      BY <1>19 DEF HelperDies, SwapDies, TypeOK, SwapTypeOK
  <2>3. job' \in Job /\ JobShape'
      BY <2>2, Basics, StartShape DEF TypeOK, SwapTypeOK, DiskOK
  <2> QED BY <1>19, <2>1, <2>2, <2>3 DEF HelperDies, TypeOK, SwapTypeOK, windowVars, workerVars
<1> QED BY <1>1, <1>2, <1>3, <1>4, <1>5, <1>6, <1>7, <1>8, <1>9, <1>10, <1>11, <1>12, <1>13,
           <1>14, <1>15, <1>16, <1>17, <1>18, <1>19, <1>20 DEF Next, WindowStep, WorkerStep

-----------------------------------------------------------------------------
(* Whose the job is.                                                       *)

\* Where a step of the swap leads.
LEMMA SwapLeads ==
    ASSUME SwapOK, SwapStep
    PROVE  /\ job.step # "idle"
           /\ job.step = "stage" =>
                \/ /\ job'.step = "idle" /\ job'.result \in {"staged", "failed"}
                   /\ job'.result = "staged" => platform = "windows"
                \/ job'.step = "clear" /\ platform # "windows" /\ job'.result = "none"
           /\ job.step \in SwapSteps =>
                job'.step \in {"idle"} \cup SwapSteps /\ job'.result # "staged"
           /\ job.step \in Tidying => job'.step \in {"idle"} \cup Tidying /\ job'.result = "none"
           /\ job.step \notin Tidying => job'.build = job.build
<1>1. CASE Stage
  <2>1. job.step = "stage"
      BY <1>1, StageIs
  <2>2. CASE Ended("failed")
      BY <2>1, <2>2, EndedRecord DEF SwapOK, Tidying, SwapSteps
  <2>3. CASE platform = "windows" /\
             job' = [step |-> "idle", how |-> "none", left |-> job.left, build |-> job.build,
                     before |-> job.before, result |-> "staged"]
      BY <2>1, <2>3 DEF Tidying, SwapSteps
  <2>4. CASE platform # "windows" /\ job' = StartApply(job.build)
    <3>1. job' = [step |-> "clear", how |-> "delete", left |-> {}, build |-> job.build,
                  before |-> Current, result |-> "none"]
        BY <2>4, StartRecords
    <3> QED BY <2>1, <2>4, <3>1 DEF Tidying, SwapSteps
  <2> QED BY <1>1, <2>2, <2>3, <2>4, StageIs
<1>2. CASE Moves
  <2>1. job.step \notin {"idle", "stage"} /\ job.result = "none"
      BY <1>2 DEF Moves, Rename, RenameFails, Copy, Copied, Delete, Deleted, SwapOK, JobShape
  <2>2. job.step \in SwapSteps \cup Tidying
      BY <2>1 DEF SwapOK, Job, Step, SwapSteps, Tidying
  <2>3. \/ job'.step = job.step /\ job'.build = job.build /\ job'.result = job.result
        \/ Done \/ Erred
    <3>1. CASE Rename BY <3>1 DEF Rename
    <3>2. CASE RenameFails BY <3>2, RenameFailsIs
    <3>3. CASE Copy BY <3>3, CopyIs
    <3>4. CASE Copied BY <3>4 DEF Copied, SwapOK, Job
    <3>5. CASE Delete BY <3>5, DeleteIs
    <3>6. CASE Deleted BY <3>6 DEF Deleted
    <3> QED BY <1>2, <3>1, <3>2, <3>3, <3>4, <3>5, <3>6 DEF Moves
  <2>4. CASE job'.step = job.step /\ job'.build = job.build /\ job'.result = job.result
      BY <2>1, <2>2, <2>4 DEF SwapSteps, Tidying
  <2>5. CASE (Done \/ Erred) /\ job.step \in SwapSteps
    <3>1. \/ \E r \in Result \ {"none", "staged"} : Ended(r)
          \/ \E s \in {"aside", "in", "back"} : MoveOn(s)
        BY <2>5, DoneIs, ErredIs DEF SwapOK, SwapSteps, Result
    <3>2. CASE \E r \in Result \ {"none", "staged"} : Ended(r)
      <4>1. PICK r \in Result \ {"none", "staged"} : Ended(r)
          BY <3>2
      <4>2. job' = [step |-> "idle", how |-> "none", left |-> {}, build |-> job.build,
                    before |-> job.before, result |-> r]
          BY <4>1, EndedRecord DEF SwapOK
      <4> QED BY <2>1, <2>5, <4>2 DEF SwapSteps, Tidying
    <3>3. CASE \E s \in {"aside", "in", "back"} : MoveOn(s)
      <4>1. PICK s \in {"aside", "in", "back"} : MoveOn(s)
          BY <3>3
      <4>2. job'.step = s /\ job'.result = "none" /\ job'.build = job.build
          BY <2>1, <4>1, MoveOnRecord DEF SwapOK
      <4> QED BY <2>1, <2>5, <4>2 DEF SwapSteps, Tidying
    <3> QED BY <3>1, <3>2, <3>3
  <2>6. CASE (Done \/ Erred) /\ job.step \in Tidying
    <3>1. job' = [job EXCEPT !.step = "tidy staging"] \/ job' = Idle
        BY <2>6, DoneIs, ErredIs DEF SwapOK, Tidying
    <3>2. CASE job' = [job EXCEPT !.step = "tidy staging"]
      <4>1. job'.step = "tidy staging" /\ job'.result = "none"
          BY <2>1, <3>2 DEF SwapOK, Job
      <4> QED BY <2>1, <2>6, <4>1 DEF SwapSteps, Tidying
    <3>3. CASE job' = Idle
      <4>1. job'.step = "idle" /\ job'.result = "none"
          BY <3>3 DEF Idle
      <4> QED BY <2>1, <2>6, <4>1 DEF SwapSteps, Tidying
    <3> QED BY <3>1, <3>2, <3>3
  <2> QED BY <2>2, <2>3, <2>4, <2>5, <2>6
<1> QED BY <1>1, <1>2 DEF SwapStep, Moves

LEMMA OwnedSame ==
    ASSUME Owned, UNCHANGED <<job, running, helping, platform, serving, stray>>,
           stray => banner'.kind = "hidden" /\ events' = <<>> /\ requests' = <<>>
    PROVE  Owned'
BY DEF Owned

\* A build that has just been launched.
LEMMA OwnedLaunched ==
    ASSUME DiskOK, NEW d \in {"install", "backup"}, Launched(d), helping' = FALSE
    PROVE  Owned'
<1>1. /\ running' # None /\ banner' = Hidden /\ requests' = <<>> /\ serving' = NoRequest
      /\ events' = <<>> /\ (stray' <=> d = "backup")
      /\ (d = "backup" => job' = Idle) /\ (d = "install" => job' = StartTidy)
    BY LaunchedIs
<1>2. job'.result = "none" /\ job'.step \in {"idle"} \cup Tidying
      /\ (d = "backup" => job'.step = "idle")
  <2>1. CASE d = "backup"
      BY <1>1, <2>1 DEF Idle
  <2>2. CASE d = "install"
    <3>1. job' = [step |-> "tidy backup", how |-> "delete", left |-> {}, build |-> None,
                  before |-> None, result |-> "none"]
        BY <1>1, <2>2, StartRecords
    <3> QED BY <2>2, <3>1 DEF Tidying
  <2> QED BY <2>1, <2>2
<1>3. banner'.kind = "hidden" /\ serving'.kind = "none"
    BY <1>1 DEF Hidden, NoRequest
<1> QED BY <1>1, <1>2, <1>3 DEF Owned, SwapSteps, Tidying

LEMMA OwnedNext ==
    ASSUME Shaped, Named, Owned, Next
    PROVE  Owned'
<1> USE DEF Shaped
<1>0. DiskOK /\ SwapOK /\ helping \in BOOLEAN
    BY DEF SwapOK, DiskOK, TypeOK, SwapTypeOK
<1>1. CASE Publish
    BY <1>1, OwnedSame DEF Publish, Owned, swapVars, windowVars, workerVars
<1>2. CASE Start
    BY <1>0, <1>2, OwnedLaunched DEF Start
<1>3. CASE Quit
  <2>1. job'.step = "idle" /\ job'.result = "none"
      BY <1>3 DEF Quit, SwapDies, Idle
  <2>2. helping' = FALSE /\ running' = None /\ stray' = FALSE /\ platform' = platform
      BY <1>0, <1>3 DEF Quit, Owned
  <2> QED BY <2>1, <2>2 DEF Owned, SwapSteps, Tidying
<1>4. ASSUME NEW automatic \in BOOLEAN, Check(automatic)
      PROVE  Owned'
    BY <1>4, OwnedSame DEF Check, Open, Up, swapVars, worldVars, workerVars
<1>5. ASSUME NEW kind \in {"install", "defer"}, Answer(kind)
      PROVE  Owned'
    BY <1>5, OwnedSame DEF Answer, Open, Up, swapVars, worldVars, workerVars
<1>6. CASE Drain
    BY <1>6, OwnedSame DEF Drain, Owned, swapVars, worldVars
<1>7. CASE Dismiss
    BY <1>7, OwnedSame DEF Dismiss, Owned, swapVars, worldVars, workerVars, Hidden
<1>8. CASE Restart
  <2>1. ~stray /\ running # None /\ helping = FALSE
      BY <1>0, <1>8 DEF Restart, Owned
  <2>2. CASE platform = "windows"
    <3>1. job' = StartApply(banner.build) /\ running' = None /\ helping' = TRUE
          /\ UNCHANGED <<stray, platform>>
        BY <1>8, <2>2 DEF Restart
    <3>2. job' = [step |-> "clear", how |-> "delete", left |-> {}, build |-> banner.build,
                  before |-> Current, result |-> "none"]
        BY <3>1, StartRecords
    <3>3. job'.step = "clear" /\ job'.result = "none"
        BY <3>2
    <3>4. running' = None /\ helping' /\ ~stray' /\ platform' = "windows"
        BY <2>1, <2>2, <3>1
    <3> QED BY <3>3, <3>4 DEF Owned, SwapSteps, Tidying
  <2>3. CASE platform # "windows"
    <3>1. Launched(Home) /\ UNCHANGED helping
        BY <1>8, <2>3 DEF Restart
    <3>2. PICK d \in {"install", "backup"} : d = Home /\ Launched(d)
        BY <3>1 DEF Home, Launched, Startable, TypeOK
    <3> QED BY <1>0, <2>1, <3>1, <3>2, OwnedLaunched
  <2> QED BY <2>2, <2>3
<1>9. CASE RestartFails
    BY <1>9, OwnedSame DEF RestartFails, Owned, worldVars, workerVars
<1>10. CASE Take
  <2>1. job.step = "idle" /\ serving.kind = "none" /\ running # None /\ requests # <<>>
      BY <1>10 DEF Take, Busy
  <2>2. ~helping /\ ~stray /\ job.result = "none"
      BY <2>1 DEF Owned
  <2>3. UNCHANGED <<job, running, helping, platform, stray>>
      BY <1>10 DEF Take, swapVars, worldVars
  <2> QED BY <2>1, <2>2, <2>3 DEF Owned, SwapSteps, Tidying
<1>11. CASE Checked \/ CheckFails \/ Defer
  <2>1. job.step = "idle" /\ serving.kind \in {"check", "defer"} /\ running # None
        /\ UNCHANGED <<job, running, helping, platform, stray>> /\ serving' = NoRequest
      BY <1>11 DEF Checked, CheckFails, Defer, Serves, swapVars, worldVars
  <2>2. ~helping /\ ~stray /\ job.result = "none"
      BY <2>1 DEF Owned
  <2> QED BY <2>1, <2>2 DEF Owned, SwapSteps, Tidying
<1>12. CASE Install
  <2>1. /\ job.step = "idle" /\ job.result = "none" /\ serving.kind = "install"
        /\ running # None /\ UNCHANGED <<running, helping, platform, stray>>
      BY <1>12 DEF Install, Serves, worldVars
  <2>2. ~helping /\ ~stray
      BY <2>1 DEF Owned
  <2>3. CASE serving' = NoRequest /\ job' = job
      BY <2>1, <2>2, <2>3 DEF Owned, SwapSteps, Tidying
  <2>4. CASE job' = StartStage(offered) /\ serving' = serving
    <3>1. job' = [step |-> "stage", how |-> "none", left |-> {}, build |-> offered,
                  before |-> Current, result |-> "none"]
        BY <2>4, StartRecords
    <3> QED BY <2>1, <2>2, <2>4, <3>1 DEF Owned, SwapSteps, Tidying
  <2> QED BY <1>12, <2>3, <2>4 DEF Install
<1>13. CASE InstallFails
  <2>1. /\ job.step = "idle" /\ job.result = "none" /\ serving.kind = "install"
        /\ running # None /\ serving' = NoRequest
        /\ UNCHANGED <<job, running, helping, platform, stray>>
      BY <1>13 DEF InstallFails, Serves, worldVars
  <2> QED BY <2>1 DEF Owned, SwapSteps, Tidying
<1>14. CASE Installed
  <2>1. /\ serving.kind = "install" /\ running # None /\ job' = Idle
        /\ UNCHANGED <<running, helping, platform, stray>>
      BY <1>14 DEF Installed, Serves, worldVars
  <2>2. job'.step = "idle" /\ job'.result = "none" /\ ~helping /\ ~stray
      BY <2>1 DEF Idle, Owned
  <2> QED BY <2>1, <2>2 DEF Owned, SwapSteps, Tidying
<1>15. CASE Swap
  <2>1. SwapStep /\ UNCHANGED <<running, helping, stray, banner, requests, serving, events>>
        /\ UNCHANGED platform
      BY <1>15, SwapLeaves DEF Swap, windowVars, workerVars, TypeOK, SwapTypeOK
  <2>2. job.step # "idle" /\ ~stray
      BY <1>0, <2>1, SwapLeads DEF Owned
  <2>3. CASE job.step = "stage"
    <3>1. /\ ~helping /\ running # None /\ serving.kind = "install"
        BY <2>3 DEF Owned, SwapSteps
    <3> QED BY <1>0, <2>1, <2>2, <2>3, <3>1, SwapLeads DEF Owned, SwapSteps, Tidying
  <2>4. CASE job.step \in SwapSteps
    <3>1. /\ platform = "windows" => helping
          /\ ~helping => running # None /\ serving.kind = "install"
          /\ helping => running = None /\ platform = "windows"
        BY <1>0, <2>4 DEF Owned, SwapSteps
    <3>2. job'.step \in {"idle"} \cup SwapSteps /\ job'.result # "staged"
        BY <1>0, <2>1, <2>4, SwapLeads
    <3> QED BY <2>1, <2>2, <3>1, <3>2 DEF Owned, SwapSteps, Tidying
  <2>5. CASE job.step \in Tidying
    <3>1. ~helping /\ running # None /\ serving.kind = "none"
        BY <2>5 DEF Owned, SwapSteps, Tidying
    <3>2. job'.step \in {"idle"} \cup Tidying /\ job'.result = "none"
        BY <1>0, <2>1, <2>5, SwapLeads
    <3> QED BY <2>1, <2>2, <3>1, <3>2 DEF Owned, SwapSteps, Tidying
  <2> QED BY <1>0, <2>2, <2>3, <2>4, <2>5 DEF SwapOK, Job, Step, SwapSteps, Tidying
<1>16. CASE HelperEnds
  <2>1. CASE Launched("install")
      BY <1>0, <1>16, <2>1, OwnedLaunched DEF HelperEnds
  <2>2. CASE job' = Idle /\ UNCHANGED <<torn, running, home, stray, windowVars, workerVars>>
    <3>1. running = None /\ ~stray /\ helping' = FALSE /\ UNCHANGED platform
        BY <1>16 DEF HelperEnds, Owned
    <3>2. job'.step = "idle" /\ job'.result = "none"
        BY <2>2 DEF Idle
    <3> QED BY <2>2, <3>1, <3>2 DEF Owned, SwapSteps, Tidying
  <2> QED BY <1>16, <2>1, <2>2 DEF HelperEnds
<1>17. CASE HelperDies
  <2>1. running = None /\ ~stray /\ helping' = FALSE /\ UNCHANGED <<platform, running, stray>>
      BY <1>17 DEF HelperDies, Owned
  <2>2. job'.step = "idle" /\ job'.result = "none"
      BY <1>17 DEF HelperDies, SwapDies, Idle
  <2> QED BY <2>1, <2>2 DEF Owned, SwapSteps, Tidying
<1>18. CASE WorkerStarts
    BY <1>18, OwnedSame DEF WorkerStarts, Up, swapVars, worldVars
<1> QED BY <1>1, <1>2, <1>3, <1>4, <1>5, <1>6, <1>7, <1>8, <1>9, <1>10, <1>11, <1>12, <1>13,
           <1>14, <1>15, <1>16, <1>17, <1>18 DEF Next, WindowStep, WorkerStep

-----------------------------------------------------------------------------
(* Where the builds are, whoever dies.                                     *)

\* Whatever is being done, something whole is installed or backed up.
Survives == Works("install") \/ Works("backup")

LEMMA SurvivesAll ==
    ASSUME Shaped, Placed
    PROVE  Survives
<1> USE DEF Shaped, Survives
<1>1. CASE job.step = "idle"
    BY <1>1 DEF Placed, AtRest
<1>2. CASE job.step \in Tidying
    BY <1>2 DEF Placed
<1>3. CASE job.step \in {"stage", "clear"}
    BY <1>3, RunsWorks DEF Placed, SwapSteps
<1>4. CASE job.step = "aside"
  <2>1. job.how \in {"rename", "copy", "delete"} /\ job.before \in Builds /\ AtAside
      BY <1>4 DEF JobShape, Placed, SwapSteps
  <2> QED BY <2>1, RunsWorks DEF AtAside
<1>5. CASE job.step = "in"
  <2>1. job.before \in Builds /\ AtIn
      BY <1>5 DEF Placed, SwapSteps
  <2> QED BY <2>1, RunsWorks DEF AtIn
<1>6. CASE job.step = "back"
  <2>1. job.how \in {"rename", "copy", "delete"} /\ job.before \in Builds /\ AtBack
      BY <1>6 DEF JobShape, Placed, SwapSteps
  <2> QED BY <2>1, RunsWorks DEF AtBack
<1> QED BY <1>1, <1>2, <1>3, <1>4, <1>5, <1>6 DEF TypeOK, SwapTypeOK, Job, Step, Tidying

LEMMA PlacedSame ==
    ASSUME Placed, UNCHANGED <<job, disk>>
    PROVE  Placed'
<1>1. Works("install")' <=> Works("install")
    BY DEF Works, Runs
<1>2. Works("backup")' <=> Works("backup")
    BY DEF Works, Runs
<1>4. job.step = "idle" => AtRest'
    BY <1>1, <1>2 DEF Placed, AtRest, Runs
<1>5. job.step = "aside" => AtAside'
    BY DEF Placed, AtAside, Runs, Copying
<1>6. job.step = "in" => AtIn'
    BY DEF Placed, AtIn, Runs, Copying
<1>7. job.step = "back" => AtBack'
    BY DEF Placed, AtBack, Runs, Copying
<1> QED BY <1>1, <1>4, <1>5, <1>6, <1>7 DEF Placed, Runs

\* The process is gone, and its job with it; or the job is over.
LEMMA PlacedDropped ==
    ASSUME Survives, disk' = disk, job' = Idle
    PROVE  Placed'
<1>1. job'.step = "idle" /\ job'.result = "none"
    BY DEF Idle
<1>2. (Works("install")' <=> Works("install")) /\ (Works("backup")' <=> Works("backup"))
    BY DEF Works, Runs
<1>3. AtRest'
    BY <1>1, <1>2 DEF Survives, AtRest
<1> QED BY <1>1, <1>3, PlacedAtRest

LEMMA PlacedLaunched ==
    ASSUME Shaped, Survives, disk' = disk, ~torn',
           NEW d \in {"install", "backup"}, Launched(d)
    PROVE  Placed'
<1>1. DiskOK
    BY DEF Shaped, TypeOK, SwapTypeOK, DiskOK
<1>2. CASE d = "backup"
  <2>1. job' = Idle
      BY <1>1, <1>2, LaunchedIs
  <2> QED BY <2>1, PlacedDropped
<1>3. CASE d = "install"
  <2>1. BeginsOver
      BY <1>1, <1>3, LaunchedIs
  <2>2. Works("install")
      BY <2>1 DEF BeginsOver
  <2>3. Works("install")'
      BY <2>2 DEF Works, Runs
  <2>4. job' = StartTidy
      BY <1>1, <1>3, LaunchedIs
  <2>5. job' = [step |-> "tidy backup", how |-> "delete", left |-> {}, build |-> None,
                before |-> None, result |-> "none"]
      BY <2>4, StartRecords
  <2> QED BY <2>3, <2>5, PlacedTidying DEF Tidying
<1> QED BY <1>2, <1>3

LEMMA PlacedNext ==
    ASSUME Shaped, Named, Owned, ~torn => Placed, Next, ~torn'
    PROVE  Placed'
<1> USE DEF Shaped
<1>0. DiskOK /\ SwapOK
    BY DEF SwapOK, DiskOK, TypeOK, SwapTypeOK
<1>1. CASE Publish
    BY <1>1, PlacedSame DEF Publish, swapVars, windowVars, workerVars
<1>2. CASE Start
  <2>1. Launched("install") /\ disk' = disk
      BY <1>2 DEF Start
  <2>2. ~torn
      BY <1>0, <2>1, LaunchedIs
  <2> QED BY <2>1, <2>2, SurvivesAll, PlacedLaunched
<1>3. CASE Quit
  <2>1. ~torn /\ job' = Idle /\ disk' = disk
      BY <1>3 DEF Quit, SwapDies
  <2> QED BY <2>1, SurvivesAll, PlacedDropped
<1>4. ASSUME NEW automatic \in BOOLEAN, Check(automatic)
      PROVE  Placed'
    BY <1>4, PlacedSame DEF Check, swapVars, worldVars, workerVars
<1>5. ASSUME NEW kind \in {"install", "defer"}, Answer(kind)
      PROVE  Placed'
    BY <1>5, PlacedSame DEF Answer, swapVars, worldVars, workerVars
<1>6. CASE Drain
    BY <1>6, PlacedSame DEF Drain, swapVars, worldVars
<1>7. CASE Dismiss
    BY <1>7, PlacedSame DEF Dismiss, swapVars, worldVars, workerVars
<1>8. CASE Restart
  <2>1. disk' = disk /\ banner.build \in Builds
      BY <1>8 DEF Restart, Named
  <2>2. CASE platform = "windows"
    <3>1. /\ job' = StartApply(banner.build)
          /\ torn' = (torn \/ ~Works("install") \/ HalfStaged)
        BY <1>8, <2>2 DEF Restart
    <3>2. job' = [step |-> "clear", how |-> "delete", left |-> {}, build |-> banner.build,
                  before |-> Current, result |-> "none"]
        BY <3>1, StartRecords
    <3>3. Works("install") /\ Runs("staging", banner.build)
        BY <3>1 DEF HalfStaged
    <3>4. PICK v \in Builds : Runs("install", v)
        BY <3>3 DEF Works
    <3>5. Current = v
        BY <3>4, CurrentRuns
    <3>6. job'.step = "clear" /\ job'.before = v /\ job'.build = banner.build
        BY <3>2, <3>5
    <3>7. Runs("install", job.before)' /\ Runs("staging", job.build)'
        BY <2>1, <3>3, <3>4, <3>6 DEF Runs
    <3> QED BY <3>6, <3>7 DEF Placed, SwapSteps, Tidying
  <2>3. CASE platform # "windows"
    <3>1. Launched(Home)
        BY <1>8, <2>3 DEF Restart
    <3>2. PICK d \in {"install", "backup"} : d = Home /\ Launched(d)
        BY <3>1 DEF Home, Launched, Startable, TypeOK
    <3>3. ~torn
        BY <1>0, <3>2, LaunchedIs
    <3> QED BY <2>1, <3>2, <3>3, SurvivesAll, PlacedLaunched
  <2> QED BY <2>2, <2>3
<1>9. CASE RestartFails
    BY <1>9, PlacedSame DEF RestartFails, worldVars, workerVars
<1>10. CASE Take
    BY <1>10, PlacedSame DEF Take, swapVars, worldVars
<1>20. CASE WorkerStarts
    BY <1>20, PlacedSame DEF WorkerStarts, swapVars
<1>11. CASE Checked
    BY <1>11, PlacedSame DEF Checked, swapVars, worldVars
<1>12. CASE CheckFails
    BY <1>12, PlacedSame DEF CheckFails, worldVars
<1>13. CASE Install
  <2>1. disk' = disk
      BY <1>13 DEF Install
  <2>2. CASE job' = job /\ torn' = torn
      BY <2>1, <2>2, PlacedSame
  <2>3. CASE job' = StartStage(offered) /\ BeginsOver
    <3>1. job' = [step |-> "stage", how |-> "none", left |-> {}, build |-> offered,
                  before |-> Current, result |-> "none"]
        BY <2>3, StartRecords
    <3>2. Works("install")
        BY <2>3 DEF BeginsOver
    <3>3. PICK v \in Builds : Runs("install", v)
        BY <3>2 DEF Works
    <3>4. job'.step = "stage" /\ job'.before = v
        BY <3>1, <3>3, CurrentRuns
    <3>5. Runs("install", job.before)'
        BY <2>1, <3>3, <3>4 DEF Runs
    <3> QED BY <3>4, <3>5 DEF Placed, SwapSteps, Tidying
  <2> QED BY <1>13, <2>2, <2>3 DEF Install
<1>14. CASE InstallFails
    BY <1>14, PlacedSame DEF InstallFails, worldVars
<1>15. CASE Installed
  <2>1. ~torn /\ disk' = disk /\ job' = Idle
      BY <1>15 DEF Installed
  <2> QED BY <2>1, SurvivesAll, PlacedDropped
<1>16. CASE Defer
    BY <1>16, PlacedSame DEF Defer
<1>17. CASE Swap
  <2>1. SwapStep /\ ~torn
      BY <1>17, SwapLeaves DEF Swap, TypeOK, SwapTypeOK
  <2> QED BY <1>0, <2>1, SwapPlaced
<1>18. CASE HelperEnds
  <2>1. disk' = disk
      BY <1>18 DEF HelperEnds
  <2>2. CASE Launched("install")
    <3>1. ~torn
        BY <1>0, <2>2, LaunchedIs
    <3> QED BY <2>1, <2>2, <3>1, SurvivesAll, PlacedLaunched
  <2>3. CASE job' = Idle /\ torn' = torn
      BY <2>1, <2>3, SurvivesAll, PlacedDropped
  <2> QED BY <1>18, <2>2, <2>3 DEF HelperEnds
<1>19. CASE HelperDies
  <2>1. ~torn /\ job' = Idle /\ disk' = disk
      BY <1>19 DEF HelperDies, SwapDies
  <2> QED BY <2>1, SurvivesAll, PlacedDropped
<1> QED BY <1>1, <1>2, <1>3, <1>4, <1>5, <1>6, <1>7, <1>8, <1>9, <1>10, <1>11, <1>12, <1>13,
           <1>14, <1>15, <1>16, <1>17, <1>18, <1>19, <1>20 DEF Next, WindowStep, WorkerStep

-----------------------------------------------------------------------------
(* What was told, and what it says.                                        *)

LEMMA NamedTell ==
    ASSUME events \in Seq(Event), Named, banner' = banner, NEW v \in Builds \cup {None},
           NEW kind \in {"checking", "none", "available", "progress", "installed", "failed"},
           Tell(kind, v), kind \in {"available", "installed"} => v \in Builds
    PROVE  Named'
<1>1. /\ Len(events') = Len(events) + 1 /\ Len(events) \in Nat
      /\ \A i \in 1..Len(events) : events'[i] = events[i]
      /\ events'[Len(events) + 1] = [kind |-> kind, build |-> v]
    BY TellIs
<1>2. ASSUME NEW i \in 1..Len(events'), events'[i].kind \in {"available", "installed"}
      PROVE  events'[i].build \in Builds
  <2>1. CASE i = Len(events) + 1
      BY <1>1, <1>2, <2>1
  <2>2. CASE i # Len(events) + 1
    <3>1. i \in 1..Len(events)
        BY <1>1, <2>2
    <3> QED BY <1>1, <1>2, <3>1 DEF Named
  <2> QED BY <2>1, <2>2
<1> QED BY <1>2 DEF Named

LEMMA NamedSame ==
    ASSUME Named, events' = events,
           banner' = banner \/ banner'.kind \notin {"available", "ready"}
    PROVE  Named'
BY DEF Named

LEMMA NamedFresh ==
    ASSUME banner' = Hidden, events' = <<>>
    PROVE  Named'
<1>1. banner'.kind = "hidden" /\ Len(events') = 0
    BY DEF Hidden
<1> QED BY <1>1 DEF Named

\* The job that is done, or was done last, is that of the update on offer.
OfferServed ==
    serving.kind = "install" /\ (job.step # "idle" \/ job.result # "none") =>
        offered = job.build

LEMMA OfferTell ==
    ASSUME events \in Seq(Event), OfferKnown, banner' = banner, NEW v \in Builds \cup {None},
           NEW kind \in {"checking", "none", "available", "progress", "installed", "failed"},
           Tell(kind, v), kind = "available" => offered' = v, OfferServed'
    PROVE  OfferKnown'
<1>1. /\ Len(events') = Len(events) + 1 /\ Len(events) \in Nat
      /\ events'[Len(events) + 1] = [kind |-> kind, build |-> v]
      /\ events' # <<>>
    BY TellIs
<1> QED BY <1>1 DEF OfferKnown, OfferServed

LEMMA OfferSame ==
    ASSUME OfferKnown, events' = events, offered' = offered, OfferServed',
           banner' = banner \/ banner'.kind # "available"
    PROVE  OfferKnown'
BY DEF OfferKnown, OfferServed

LEMMA OfferFresh ==
    ASSUME banner' = Hidden, events' = <<>>, serving' = NoRequest
    PROVE  OfferKnown'
BY DEF OfferKnown, Hidden, NoRequest

\* What is announced as ready after one more event was so before it, or the event says
\* it; and the event is not the beginning of another installation, which takes it back.
LEMMA AnnouncedTell ==
    ASSUME events \in Seq(Event), banner' = banner, NEW w \in Builds \cup {None},
           NEW kind \in {"checking", "none", "available", "progress", "installed", "failed"},
           Tell(kind, w), NEW v \in Builds, Announced(banner', events', v)
    PROVE  /\ kind # "progress"
           /\ Announced(banner, events, v) \/ (kind = "installed" /\ w = v)
<1> DEFINE n == Len(events)
<1>1. /\ Len(events') = n + 1 /\ n \in Nat
      /\ \A i \in 1..n : events'[i] = events[i]
      /\ events'[n + 1] = [kind |-> kind, build |-> w]
    BY TellIs
<1> HIDE DEF n
<1>2. ASSUME NEW i \in 1..(n + 1), Quiet(events', i)
      PROVE  kind # "progress"
    BY <1>1, <1>2 DEF Quiet
<1>3. ASSUME NEW i \in 1..(n + 1), Quiet(events', i)
      PROVE  Quiet(events, i)
    BY <1>1, <1>3 DEF Quiet, n
<1>4. CASE banner.kind = "ready" /\ banner.build = v /\ Quiet(events', 1)
  <2>1. 1 \in 1..(n + 1)
      BY <1>1
  <2> QED BY <1>2, <1>3, <1>4, <2>1 DEF Announced
<1>5. CASE \E i \in 1..(n + 1) :
             events'[i].kind = "installed" /\ events'[i].build = v /\ Quiet(events', i)
  <2>1. PICK i \in 1..(n + 1) :
             events'[i].kind = "installed" /\ events'[i].build = v /\ Quiet(events', i)
      BY <1>5
  <2>2. kind # "progress" /\ Quiet(events, i)
      BY <1>2, <1>3, <2>1
  <2>3. CASE i = n + 1
      BY <1>1, <2>1, <2>2, <2>3
  <2>4. CASE i # n + 1
    <3>1. i \in 1..n
        BY <1>1, <2>4
    <3>2. events[i].kind = "installed" /\ events[i].build = v
        BY <1>1, <2>1, <3>1
    <3> QED BY <2>2, <3>1, <3>2 DEF Announced, n
  <2> QED BY <2>3, <2>4
<1> QED BY <1>1, <1>4, <1>5 DEF Announced

\* What the window is shown next had been announced before.
LEMMA AnnouncedDrain ==
    ASSUME events \in Seq(Event), events # <<>>, banner' = Shown(Head(events)),
           events' = Tail(events), NEW v \in Builds, Announced(banner', events', v)
    PROVE  Announced(banner, events, v)
<1>1. /\ Head(events) \in Event /\ Head(events) = events[1] /\ Len(events) \in Nat \ {0}
      /\ Len(events') = Len(events) - 1
      /\ \A i \in 1..Len(events') : events'[i] = events[i + 1]
    BY HeadTail
<1>2. ASSUME NEW i \in 1..Len(events), Quiet(events', i), events[i].kind # "progress"
      PROVE  Quiet(events, i)
  <2> SUFFICES ASSUME NEW j \in i..Len(events) PROVE events[j].kind # "progress"
      BY DEF Quiet
  <2>1. CASE j = i
      BY <1>2, <2>1
  <2>2. CASE j # i
    <3>1. j - 1 \in i..Len(events') /\ j - 1 \in 1..Len(events')
        BY <1>1, <2>2
    <3>2. events'[j - 1].kind # "progress"
        BY <1>2, <3>1 DEF Quiet
    <3>3. events'[j - 1] = events[(j - 1) + 1] /\ (j - 1) + 1 = j
        BY <1>1, <3>1
    <3> QED BY <3>2, <3>3
  <2> QED BY <2>1, <2>2
<1>3. CASE banner'.kind = "ready" /\ banner'.build = v /\ Quiet(events', 1)
  <2>1. events[1].kind = "installed" /\ events[1].build = v /\ 1 \in 1..Len(events)
      BY <1>1, <1>3, ShownIs
  <2>2. Quiet(events, 1)
      BY <1>2, <1>3, <2>1
  <2> QED BY <2>1, <2>2 DEF Announced
<1>4. CASE \E i \in 1..Len(events') :
             events'[i].kind = "installed" /\ events'[i].build = v /\ Quiet(events', i)
  <2>1. PICK i \in 1..Len(events') :
             events'[i].kind = "installed" /\ events'[i].build = v /\ Quiet(events', i)
      BY <1>4
  <2>2. i + 1 \in 1..Len(events) /\ events[i + 1].kind = "installed" /\ events[i + 1].build = v
      BY <1>1, <2>1
  <2>3. Quiet(events', i + 1)
      BY <1>1, <2>1 DEF Quiet
  <2>4. Quiet(events, i + 1)
      BY <1>2, <2>2, <2>3
  <2> QED BY <2>2, <2>4 DEF Announced
<1> QED BY <1>3, <1>4 DEF Announced

\* What was ready stays so while nothing more is announced and nothing is done to it.
LEMMA ReadySame ==
    ASSUME ReadyIsThere, UNCHANGED <<job, disk, platform>>, torn => torn',
           running' # None => running # None,
           serving'.kind = "install" => job.result = "none" \/ serving.kind = "install",
           \A v \in Builds : Announced(banner', events', v) => Announced(banner, events, v)
    PROVE  ReadyIsThere'
<1> SUFFICES ASSUME NEW v \in Builds, running' # None, Announced(banner', events', v)
             PROVE  /\ job'.step = "idle"
                    /\ serving'.kind = "install" => job'.result = "none"
                    /\ ~torn' => Runs(IF platform = "windows" THEN "staging" ELSE "install", v)'
    BY DEF ReadyIsThere
<1>1. /\ job.step = "idle"
      /\ serving.kind = "install" => job.result = "none"
      /\ ~torn => Runs(IF platform = "windows" THEN "staging" ELSE "install", v)
    BY DEF ReadyIsThere
<1> QED BY <1>1 DEF Runs

LEMMA ReadyFresh ==
    ASSUME banner' = Hidden, events' = <<>>
    PROVE  ReadyIsThere'
<1>1. banner'.kind = "hidden" /\ Len(events') = 0
    BY DEF Hidden
<1>2. \A v \in Builds : ~Announced(banner', events', v)
    BY <1>1 DEF Announced
<1> QED BY <1>2 DEF ReadyIsThere

LEMMA ReadyGone ==
    ASSUME running' = None \/ \A v \in Builds : ~Announced(banner', events', v)
    PROVE  ReadyIsThere'
BY DEF ReadyIsThere

Known == Named /\ OfferKnown /\ ReadyIsThere

LEMMA KnownFresh ==
    ASSUME banner' = Hidden, events' = <<>>, serving' = NoRequest
    PROVE  Known'
BY NamedFresh, OfferFresh, ReadyFresh DEF Known

\* The window draws something else and the worker does nothing.
LEMMA KnownSame ==
    ASSUME Known, UNCHANGED <<job, disk, platform, torn, running, events, offered, serving>>,
           banner' = banner \/ banner'.kind \in {"hidden", "failed"}
    PROVE  Known'
<1>1. Named'
    BY NamedSame DEF Known
<1>2. OfferKnown'
    BY OfferSame DEF Known, OfferKnown, OfferServed
<1>3. \A v \in Builds : Announced(banner', events', v) => Announced(banner, events, v)
    BY DEF Announced
<1>4. ReadyIsThere'
    BY <1>3, ReadySame DEF Known
<1> QED BY <1>1, <1>2, <1>4 DEF Known

\* The worker has done with a request, or taken one, and tells something, or nothing.
LEMMA KnownTold ==
    ASSUME events \in Seq(Event), Known, UNCHANGED <<job, disk, platform, torn, running, banner>>,
           NEW v \in Builds \cup {None},
           NEW kind \in {"checking", "none", "available", "failed"},
           Tell(kind, v) \/ (events' = events /\ offered' = offered),
           kind = "available" => offered' = v /\ v \in Builds,
           \/ serving' = serving /\ offered' = offered
           \/ serving'.kind = "install" => job.step = "idle" /\ job.result = "none"
    PROVE  Known'
<1>1. OfferServed'
    BY DEF OfferServed, Known, OfferKnown
<1>2. CASE Tell(kind, v)
  <2>1. Named'
      BY <1>2, NamedTell DEF Known
  <2>2. OfferKnown'
      BY <1>1, <1>2, OfferTell DEF Known
  <2>3. ASSUME NEW w \in Builds, Announced(banner', events', w)
        PROVE  Announced(banner, events, w)
      BY <1>2, <2>3, AnnouncedTell
  <2>4. ReadyIsThere'
      BY <2>3, ReadySame DEF Known
  <2> QED BY <2>1, <2>2, <2>4 DEF Known
<1>3. CASE events' = events /\ offered' = offered
  <2>1. Named' /\ OfferKnown'
      BY <1>1, <1>3, NamedSame, OfferSame DEF Known
  <2>2. ReadyIsThere'
      BY <1>3, ReadySame DEF Known
  <2> QED BY <2>1, <2>2 DEF Known
<1> QED BY <1>2, <1>3

LEMMA KnownDrain ==
    ASSUME Shaped, Known, Drain
    PROVE  Known'
<1>1. /\ events \in Seq(Event) /\ events # <<>> /\ banner' = Shown(Head(events))
      /\ events' = Tail(events)
      /\ UNCHANGED <<job, disk, platform, torn, running, offered, serving>>
    BY DEF Drain, Shaped, TypeOK, swapVars, worldVars
<1>2. /\ Head(events) \in Event /\ Head(events) = events[1] /\ Len(events) \in Nat \ {0}
      /\ events' \in Seq(Event) /\ Len(events') = Len(events) - 1
      /\ \A i \in 1..Len(events') : events'[i] = events[i + 1]
    BY <1>1, HeadTail
<1>3. /\ banner'.kind = "available" => events[1].kind = "available" /\ banner'.build = events[1].build
      /\ banner'.kind = "ready" => events[1].kind = "installed" /\ banner'.build = events[1].build
    BY <1>1, <1>2, ShownIs
<1>4. Named'
  <2>1. banner'.kind \in {"available", "ready"} => banner'.build \in Builds
      BY <1>2, <1>3 DEF Known, Named
  <2>2. ASSUME NEW i \in 1..Len(events'), events'[i].kind \in {"available", "installed"}
        PROVE  events'[i].build \in Builds
    <3>1. i + 1 \in 1..Len(events) /\ events'[i] = events[i + 1]
        BY <1>2
    <3> QED BY <2>2, <3>1 DEF Known, Named
  <2> QED BY <2>1, <2>2 DEF Named
<1>5. OfferKnown'
  <2>1. CASE events' = <<>>
    <3>1. Len(events) = 1
        BY <1>2, <2>1
    <3> QED BY <1>1, <1>3, <2>1, <3>1 DEF Known, OfferKnown
  <2>2. CASE events' # <<>>
    <3>1. Len(events') \in Nat \ {0}
        BY <1>2, <2>2
    <3>2. events'[Len(events')] = events[Len(events)]
        BY <1>2, <3>1
    <3> QED BY <1>1, <2>2, <3>2 DEF Known, OfferKnown
  <2> QED BY <2>1, <2>2
<1>6. ReadyIsThere'
  <2>1. ASSUME NEW v \in Builds, Announced(banner', events', v)
        PROVE  Announced(banner, events, v)
      BY <1>1, <2>1, AnnouncedDrain
  <2> QED BY <1>1, <2>1, ReadySame DEF Known
<1> QED BY <1>4, <1>5, <1>6 DEF Known

LEMMA KnownInstall ==
    ASSUME Shaped, Known, Install
    PROVE  Known'
<1>1. /\ job.step = "idle" /\ job.result = "none" /\ serving.kind = "install"
      /\ events \in Seq(Event) /\ offered \in Builds \cup {None}
      /\ UNCHANGED <<disk, platform, running, banner, offered>>
    BY DEF Install, Serves, Shaped, TypeOK, worldVars, windowVars
<1>2. CASE offered = None
  <2>1. UNCHANGED <<job, torn, events>> /\ serving' = NoRequest
      BY <1>2 DEF Install
  <2>2. serving'.kind = "none"
      BY <2>1 DEF NoRequest
  <2>3. None \in Builds \cup {None}
      OBVIOUS
  <2> QED BY <1>1, <2>1, <2>2, <2>3, KnownTold
<1>3. CASE offered # None
  <2>1. Tell("progress", None) /\ job' = StartStage(offered) /\ serving' = serving
      BY <1>3 DEF Install
  <2>2. job' = [step |-> "stage", how |-> "none", left |-> {}, build |-> offered,
                before |-> Current, result |-> "none"]
      BY <2>1, StartRecords
  <2>3. OfferServed'
      BY <1>1, <2>2 DEF OfferServed
  <2>4. Named'
      BY <1>1, <2>1, NamedTell DEF Known
  <2>5. OfferKnown'
      BY <1>1, <2>1, <2>3, OfferTell DEF Known
  <2>6. ASSUME NEW v \in Builds, Announced(banner', events', v)
        PROVE  FALSE
      BY <1>1, <2>1, <2>6, AnnouncedTell
  <2>7. ReadyIsThere'
      BY <2>6, ReadyGone
  <2> QED BY <2>4, <2>5, <2>7 DEF Known
<1> QED BY <1>2, <1>3

\* An installation that ended well left its build where it is announced.
LEMMA KnownInstalled ==
    ASSUME Shaped, Owned, Known, ~torn => Placed, Installed
    PROVE  Known'
<1>1. /\ job.step = "idle" /\ job.result # "none" /\ serving.kind = "install"
      /\ running # None /\ job' = Idle /\ serving' = NoRequest
      /\ events \in Seq(Event) /\ job.build \in Builds
      /\ UNCHANGED <<disk, platform, torn, running, banner>>
    BY DEF Installed, Serves, Shaped, TypeOK, JobShape, worldVars, windowVars
<1>2. job'.step = "idle" /\ job'.result = "none" /\ serving'.kind = "none"
    BY <1>1 DEF Idle, NoRequest
<1>3. offered = job.build
    BY <1>1 DEF Known, OfferKnown
<1>4. OfferServed'
    BY <1>2 DEF OfferServed
<1>5. \A v \in Builds : ~Announced(banner, events, v)
    BY <1>1 DEF Known, ReadyIsThere
<1>6. CASE job.result \in {"applied", "staged"}
  <2>1. Tell("installed", offered)
      BY <1>6 DEF Installed
  <2>2. Named'
      BY <1>1, <1>3, <2>1, NamedTell DEF Known
  <2>3. OfferKnown'
      BY <1>1, <1>3, <1>4, <2>1, OfferTell DEF Known
  <2>4. ~helping
      BY <1>1 DEF Owned
  <2>5. ~torn => Runs(IF platform = "windows" THEN "staging" ELSE "install", job.build)
      BY <1>1, <1>6, <2>4 DEF Placed, AtRest, Owned
  <2>6. ASSUME NEW v \in Builds, Announced(banner', events', v)
        PROVE  v = job.build
      BY <1>1, <1>3, <1>5, <2>1, <2>6, AnnouncedTell
  <2>7. ~torn' => Runs(IF platform = "windows" THEN "staging" ELSE "install", job.build)
      BY <1>1, <2>5
  <2>8. ASSUME NEW v \in Builds, v = job.build, ~torn'
        PROVE  Runs(IF platform = "windows" THEN "staging" ELSE "install", v)'
      BY <1>1, <2>7, <2>8 DEF Runs
  <2>9. ReadyIsThere'
      BY <1>2, <2>6, <2>8 DEF ReadyIsThere
  <2> QED BY <2>2, <2>3, <2>9 DEF Known
<1>7. CASE job.result \notin {"applied", "staged"}
  <2>1. Tell("failed", None) /\ offered' = offered
      BY <1>7 DEF Installed
  <2>2. Named'
      BY <1>1, <2>1, NamedTell DEF Known
  <2>3. OfferKnown'
      BY <1>1, <1>4, <2>1, OfferTell DEF Known
  <2>4. ASSUME NEW v \in Builds, Announced(banner', events', v)
        PROVE  FALSE
      BY <1>1, <1>5, <2>1, <2>4, AnnouncedTell
  <2>5. ReadyIsThere'
      BY <2>4, ReadyGone
  <2> QED BY <2>2, <2>3, <2>5 DEF Known
<1> QED BY <1>6, <1>7

LEMMA KnownSwap ==
    ASSUME Shaped, Owned, Known, Swap
    PROVE  Known'
<1>1. /\ SwapStep /\ SwapOK
      /\ UNCHANGED <<platform, running, banner, events, offered, serving>>
    BY SwapLeaves DEF Swap, Shaped, TypeOK, SwapTypeOK, SwapOK, DiskOK, windowVars, workerVars
<1>2. job.step # "idle" /\ (job.step \notin Tidying => job'.build = job.build)
    BY <1>1, SwapLeads
<1>3. OfferServed'
    BY <1>1, <1>2 DEF OfferServed, Known, OfferKnown, Owned
<1>4. Named' /\ OfferKnown'
    BY <1>1, <1>3, NamedSame, OfferSame DEF Known
<1>5. running' = None \/ \A v \in Builds : ~Announced(banner', events', v)
    BY <1>1, <1>2 DEF Known, ReadyIsThere
<1> QED BY <1>4, <1>5, ReadyGone DEF Known

\* The helper works while nothing runs.
LEMMA KnownHelper ==
    ASSUME Known, running' = None, banner' = banner, events' = events, offered' = offered,
           job' = Idle
    PROVE  Known'
<1>1. job'.step = "idle" /\ job'.result = "none"
    BY DEF Idle
<1>2. OfferServed'
    BY <1>1 DEF OfferServed
<1> QED BY <1>2, NamedSame, OfferSame, ReadyGone DEF Known

LEMMA KnownNext ==
    ASSUME Shaped, Owned, Known, ~torn => Placed, Next
    PROVE  Known'
<1> USE DEF Shaped
<1>0. DiskOK /\ events \in Seq(Event)
    BY DEF TypeOK, SwapTypeOK, DiskOK
<1>1. CASE Publish
    BY <1>1, KnownSame DEF Publish, swapVars, windowVars, workerVars
<1>2. CASE Start
    BY <1>0, <1>2, KnownFresh, LaunchedIs DEF Start
<1>3. CASE Quit
    BY <1>3, KnownFresh DEF Quit, FreshWindow, FreshWorker
<1>4. ASSUME NEW automatic \in BOOLEAN, Check(automatic)
      PROVE  Known'
    BY <1>4, KnownSame DEF Check, swapVars, worldVars, workerVars
<1>5. ASSUME NEW kind \in {"install", "defer"}, Answer(kind)
      PROVE  Known'
    BY <1>5, KnownSame DEF Answer, swapVars, worldVars, workerVars
<1>6. CASE Drain
    BY <1>6, KnownDrain
<1>7. CASE Dismiss
    BY <1>7, KnownSame DEF Dismiss, swapVars, worldVars, workerVars, Hidden
<1>8. CASE Restart
  <2>1. CASE platform = "windows"
      BY <1>8, <2>1, KnownFresh DEF Restart, FreshWindow, FreshWorker
  <2>2. CASE platform # "windows"
    <3>1. Launched(Home)
        BY <1>8, <2>2 DEF Restart
    <3> QED BY <3>1, KnownFresh DEF Launched, FreshWindow, FreshWorker
  <2> QED BY <2>1, <2>2
<1>9. CASE RestartFails
    BY <1>9, KnownSame DEF RestartFails, worldVars, workerVars
<1>10. CASE Take
  <2>1. /\ job.step = "idle" /\ serving.kind = "none" /\ running # None
        /\ UNCHANGED <<job, disk, platform, torn, running, banner, offered>>
        /\ Tell("checking", None) \/ events' = events
      BY <1>10 DEF Take, Busy, swapVars, worldVars
  <2>2. job.result = "none"
      BY <2>1 DEF Owned
  <2>3. None \in Builds \cup {None}
      OBVIOUS
  <2> QED BY <1>0, <2>1, <2>2, <2>3, KnownTold
<1>19. CASE WorkerStarts
  <2>1. /\ UNCHANGED <<job, disk, platform, torn, running, banner, offered, serving>>
        /\ (\E kind \in {"none", "failed"} : Tell(kind, None)) \/ events' = events
      BY <1>19 DEF WorkerStarts, swapVars, worldVars
  <2>2. None \in Builds \cup {None}
      OBVIOUS
  <2> QED BY <1>0, <2>1, <2>2, KnownTold
<1>11. CASE Checked
  <2>1. /\ UNCHANGED <<job, disk, platform, torn, running, banner>> /\ serving' = NoRequest
      BY <1>11 DEF Checked, swapVars, worldVars
  <2>2. serving'.kind = "none"
      BY <2>1 DEF NoRequest
  <2>3. \/ Tell("available", feed) /\ offered' = feed
        \/ Tell("none", None) /\ offered' = offered
      BY <1>11 DEF Checked
  <2>4. CASE Tell("available", feed) /\ offered' = feed
    <3>1. PICK v \in Builds : v = feed
        BY DEF TypeOK
    <3>2. Tell("available", v) /\ offered' = v /\ v \in Builds \cup {None}
        BY <2>4, <3>1
    <3> QED BY <1>0, <2>1, <2>2, <3>2, KnownTold
  <2>5. CASE Tell("none", None) /\ offered' = offered
    <3>1. None \in Builds \cup {None}
        OBVIOUS
    <3> QED BY <1>0, <2>1, <2>2, <2>5, <3>1, KnownTold
  <2> QED BY <2>3, <2>4, <2>5
<1>12. CASE CheckFails \/ InstallFails
  <2>1. /\ UNCHANGED <<job, disk, platform, torn, running, banner, offered>>
        /\ serving' = NoRequest /\ (Tell("failed", None) \/ events' = events)
      BY <1>12 DEF CheckFails, InstallFails, worldVars, windowVars
  <2>2. serving'.kind = "none" /\ None \in Builds \cup {None}
      BY <2>1 DEF NoRequest
  <2> QED BY <1>0, <2>1, <2>2, KnownTold
<1>13. CASE Install
    BY <1>13, KnownInstall
<1>14. CASE Installed
    BY <1>14, KnownInstalled
<1>15. CASE Defer
  <2>1. /\ UNCHANGED <<job, disk, platform, torn, running, banner>>
        /\ serving' = NoRequest /\ Tell("none", None)
      BY <1>15 DEF Defer, windowVars
  <2>2. serving'.kind = "none" /\ None \in Builds \cup {None}
      BY <2>1 DEF NoRequest
  <2> QED BY <1>0, <2>1, <2>2, KnownTold
<1>16. CASE Swap
    BY <1>16, KnownSwap
<1>17. CASE HelperEnds
  <2>1. CASE Launched("install")
      BY <1>0, <2>1, KnownFresh, LaunchedIs
  <2>2. CASE job' = Idle /\ UNCHANGED <<torn, running, home, stray, windowVars, workerVars>>
    <3>1. running = None
        BY <1>17 DEF HelperEnds, Owned
    <3> QED BY <2>2, <3>1, KnownHelper DEF windowVars, workerVars
  <2> QED BY <1>17, <2>1, <2>2 DEF HelperEnds
<1>18. CASE HelperDies
  <2>1. running = None
      BY <1>18 DEF HelperDies, Owned
  <2> QED BY <1>18, <2>1, KnownHelper DEF HelperDies, SwapDies, windowVars, workerVars
<1> QED BY <1>1, <1>2, <1>3, <1>4, <1>5, <1>6, <1>7, <1>8, <1>9, <1>10, <1>11, <1>12, <1>13,
           <1>14, <1>15, <1>16, <1>17, <1>18, <1>19 DEF Next, WindowStep, WorkerStep

-----------------------------------------------------------------------------
(* The theorems.                                                           *)

LEMMA InvInit == Init => UpdatesInv
<1> SUFFICES ASSUME Init PROVE UpdatesInv
    OBVIOUS
<1>1. TypeOK /\ JobShape
    BY ShapedInit DEF Shaped
<1>2. job.step = "idle" /\ job.result = "none" /\ ~helping /\ ~stray /\ serving.kind = "none"
    BY DEF Init, SwapInit, Idle, NoRequest
<1>3. Owned
    BY <1>2 DEF Owned, SwapSteps, Tidying
<1>4. banner.kind = "hidden" /\ events = <<>> /\ Len(events) = 0
    BY DEF Init, Hidden
<1>5. Named /\ OfferKnown
    BY <1>2, <1>4 DEF Named, OfferKnown
<1>6. ReadyIsThere
    BY <1>4 DEF ReadyIsThere, Announced
<1>7. Placed
  <2>1. disk["install"] = Whole(1) /\ 1 \in Builds
      BY Basics DEF Init, SwapInit, Place
  <2>2. Whole(1) \in Dir /\ Whole(1) # None /\ FilesOf[1] \subseteq Files
      BY <2>1, Basics
  <2>3. \A f \in FilesOf[1] : Whole(1)[f] = 1
      BY <2>2 DEF Whole
  <2>4. Works("install")
      BY <2>1, <2>2, <2>3 DEF Works, Runs
  <2> QED BY <1>2, <2>4 DEF Placed, AtRest, SwapSteps, Tidying
<1> QED BY <1>1, <1>3, <1>5, <1>6, <1>7 DEF UpdatesInv

LEMMA InvNext == UpdatesInv /\ [Next]_vars => UpdatesInv'
<1> SUFFICES ASSUME UpdatesInv, [Next]_vars PROVE UpdatesInv'
    OBVIOUS
<1>1. Shaped /\ Known /\ Owned /\ Named /\ (~torn => Placed)
    BY DEF UpdatesInv, Shaped, Known
<1>2. CASE Next
  <2>1. Shaped' /\ Owned' /\ Known'
      BY <1>1, <1>2, ShapedNext, OwnedNext, KnownNext
  <2>2. ~torn' => Placed'
      BY <1>1, <1>2, PlacedNext
  <2> QED BY <2>1, <2>2 DEF UpdatesInv, Shaped, Known
<1>3. CASE UNCHANGED vars
  <2>1. /\ UNCHANGED <<disk, crossing, platform, job, torn, faults>>
        /\ UNCHANGED <<feed, deferred, running, helping, home, stray>>
        /\ UNCHANGED <<banner, requests, pending, worker, skipped, offered, serving, events>>
      BY <1>3 DEF vars, swapVars, worldVars, windowVars, workerVars
  <2>2. TypeOK' /\ JobShape'
      BY <1>1, <2>1, ShapeSame DEF Shaped, TypeOK, SwapTypeOK
  <2>3. Owned'
      BY <1>1, <2>1, OwnedSame DEF Owned
  <2>4. Known'
      BY <1>1, <2>1, KnownSame
  <2>5. ~torn' => Placed'
      BY <1>1, <2>1, PlacedSame
  <2> QED BY <2>2, <2>3, <2>4, <2>5 DEF UpdatesInv, Known
<1> QED BY <1>2, <1>3

THEOREM UpdatesInvariant == Spec => []UpdatesInv
<1>1. Init => UpdatesInv
    BY InvInit
<1>2. UpdatesInv /\ [Next]_vars => UpdatesInv'
    BY InvNext
<1> QED BY <1>1, <1>2, PTL DEF Spec

\* Every variable keeps to its values.
THEOREM UpdatesTypeCorrect == Spec => []TypeOK
<1>1. UpdatesInv => TypeOK
    BY DEF UpdatesInv
<1> QED BY <1>1, UpdatesInvariant, PTL

\* A whole build is installed or backed up, whoever dies and whatever fails, and an
\* update that failed left the old build where it says, until a job begins over an
\* installation in part.
THEOREM SwapCanBeUndone == Spec => []UndoPossible
<1>1. ASSUME UpdatesInv
      PROVE  UndoPossible
  <2> SUFFICES ASSUME ~torn
               PROVE  /\ Works("install") \/ Works("backup")
                      /\ job.result \in {"failed", "rolled back"} => Runs("install", job.before)
                      /\ job.result = "not aside" =>
                             Runs("install", job.before) \/ Runs("backup", job.before)
      BY DEF UndoPossible
  <2>1. Shaped /\ Placed
      BY <1>1 DEF UpdatesInv, Shaped
  <2>2. Works("install") \/ Works("backup")
      BY <2>1, SurvivesAll DEF Survives
  <2>3. job.result # "none" => job.step = "idle"
      BY <2>1 DEF Shaped, JobShape
  <2> QED BY <2>1, <2>2, <2>3 DEF Placed, AtRest
<1> QED BY <1>1, UpdatesInvariant, PTL

\* Once the window has taken every event, the update it offers is the one the worker
\* would install, and the one it says is ready is where the restart expects it.
THEOREM BannerTold == Spec => []BannerIsTrue
<1>1. ASSUME UpdatesInv
      PROVE  BannerIsTrue
  <2> SUFFICES ASSUME running # None, events = <<>>
               PROVE  /\ banner.kind = "available" => offered = banner.build
                      /\ banner.kind = "ready" /\ ~torn =>
                           Runs(IF platform = "windows" THEN "staging" ELSE "install",
                                banner.build)
      BY DEF BannerIsTrue
  <2>1. banner.kind = "available" => offered = banner.build
      BY <1>1 DEF UpdatesInv, OfferKnown
  <2>2. ASSUME banner.kind = "ready", ~torn
        PROVE  Runs(IF platform = "windows" THEN "staging" ELSE "install", banner.build)
    <3>1. banner.build \in Builds
        BY <1>1, <2>2 DEF UpdatesInv, Named
    <3>2. Announced(banner, events, banner.build)
        BY <2>2 DEF Announced, Quiet
    <3> QED BY <1>1, <2>2, <3>1, <3>2 DEF UpdatesInv, ReadyIsThere
  <2> QED BY <2>1, <2>2
<1> QED BY <1>1, UpdatesInvariant, PTL
=============================================================================
