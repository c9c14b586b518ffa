------------------------------ MODULE Updates ------------------------------
(***************************************************************************)
(* How a running build looks for updates, offers one to the user, installs *)
(* it and hands over to it.                                                *)
(*                                                                         *)
(* The window draws a banner and sends requests; one worker thread serves  *)
(* them in turn and answers with events, which the window takes at its     *)
(* next frame.  The worker keeps the release it offered last, and swaps    *)
(* the directories itself; on Windows a copied helper does that once the   *)
(* application is gone.                                                    *)
(***************************************************************************)
EXTENDS UpdateSwap, Sequences

CONSTANTS
    MaxRequests  \* bound: requests waiting for the worker, and events waiting for
                 \* the window when the worker takes one

ASSUME UpdatesAssumption == MaxRequests \in Nat

VARIABLES
    feed,        \* the newest release of the feed
    deferred,    \* durable: settings.deferred_version
    running,     \* the build that runs, or None
    helping,     \* Windows: the helper swaps, and then launches what is installed
    home,        \* where the file that the build was started from is now, or None
    stray,       \* the build was started from the backup
    banner,      \* what the window shows
    requests,    \* requests on their way to the worker
    pending,     \* check_pending
    worker,      \* the worker: "starting", "serving", or "gone" before it served
    skipped,     \* the worker: its copy of settings.deferred_version
    offered,     \* the worker: the update on offer
    serving,     \* the worker: the request it serves
    events       \* events on their way to the window

worldVars  == <<feed, deferred, running, helping, home, stray>>
windowVars == <<banner, requests, pending>>
workerVars == <<worker, skipped, offered, serving, events>>
vars == <<swapVars, worldVars, windowVars, workerVars>>

Showing == [kind : {"hidden", "checking", "available", "downloading", "ready", "failed"},
            build : Builds \cup {None}]
Hidden == [kind |-> "hidden", build |-> None]
Event  == [kind : {"checking", "none", "available", "progress", "installed", "failed"},
           build : Builds \cup {None}]
Request == [kind : {"check", "install", "defer", "none"}, automatic : BOOLEAN]
NoRequest == [kind |-> "none", automatic |-> FALSE]

Tell(kind, v) == events' = Append(events, [kind |-> kind, build |-> v])

-----------------------------------------------------------------------------
(* The world: releases appear, the application starts, quits and crashes.  *)

Publish ==
    /\ feed + 1 \in Builds
    /\ feed' = feed + 1
    /\ UNCHANGED <<swapVars, deferred, running, helping, home, stray, windowVars, workerVars>>

FreshWindow == banner' = Hidden /\ requests' = <<>> /\ pending' = FALSE
FreshWorker ==
    /\ worker' = "starting" /\ skipped' = None
    /\ offered' = None /\ serving' = NoRequest /\ events' = <<>>

Startable(d) == d # None /\ disk[d] # None /\ disk[d][Exe] # None

\* A build runs from directory d; prepare_data_directory_for_build cleans up behind a
\* completed update, in the directories beside the one it runs from.
Launched(d) ==
    /\ Startable(d)
    /\ running' = disk[d][Exe] /\ home' = d /\ stray' = (d = "backup")
    /\ IF d = "backup" THEN job' = Idle /\ UNCHANGED torn
                       ELSE job' = StartTidy /\ BeginsOver
    /\ FreshWindow /\ FreshWorker

Start ==
    /\ running = None /\ ~helping
    /\ Launched("install")
    /\ UNCHANGED <<disk, crossing, platform, faults, feed, deferred, helping>>

\* The window is closed, or the process dies, in whatever its worker was doing.
Quit ==
    /\ running # None
    /\ \/ job.step = "idle" /\ UNCHANGED faults
       \/ job.step # "idle" /\ Fault
    /\ running' = None /\ home' = None /\ stray' = FALSE /\ SwapDies
    /\ FreshWindow /\ FreshWorker
    /\ UNCHANGED <<disk, crossing, platform, feed, deferred, helping>>

-----------------------------------------------------------------------------
(* The window.                                                             *)

\* The window opens, and the worker is started, when the directories are tidied.  A
\* build started from the backup updates directories of its own: not modelled.
Up == running # None /\ ~stray /\ job.step \notin {"tidy backup", "tidy staging"}

Open == Up /\ Len(requests) < MaxRequests

\* UpdateService::request: one check at a time.  What is asked of a worker that is gone
\* is dropped, and a check given back.
Ask(kind, automatic) ==
    IF worker = "gone" THEN UNCHANGED <<requests, pending>>
    ELSE /\ requests' = Append(requests, [kind |-> kind, automatic |-> automatic])
         /\ pending' = (pending \/ kind = "check")

Check(automatic) ==
    /\ Open /\ ~pending
    /\ automatic \/ banner.kind # "checking"
    /\ Ask("check", automatic)
    /\ UNCHANGED <<swapVars, worldVars, banner, workerVars>>

\* The buttons "Update" and "Later".
Answer(kind) ==
    /\ Open /\ banner.kind = "available"
    /\ Ask(kind, FALSE)
    /\ UNCHANGED <<swapVars, worldVars, banner, workerVars>>

\* UpdateUi::apply.
Shown(e) ==
    CASE e.kind = "checking"  -> [kind |-> "checking", build |-> None]
      [] e.kind = "none"      -> Hidden
      [] e.kind = "available" -> [kind |-> "available", build |-> e.build]
      [] e.kind = "progress"  -> [kind |-> "downloading", build |-> None]
      [] e.kind = "installed" -> [kind |-> "ready", build |-> e.build]
      [] e.kind = "failed"    -> [kind |-> "failed", build |-> None]

\* UpdateService::drain.
Drain ==
    /\ running # None /\ events # <<>>
    /\ banner' = Shown(Head(events))
    /\ events' = Tail(events)
    /\ UNCHANGED <<swapVars, worldVars, requests, pending, worker, skipped, offered, serving>>

Dismiss ==
    /\ running # None /\ banner.kind = "failed"
    /\ banner' = Hidden
    /\ UNCHANGED <<swapVars, worldVars, requests, pending, workerVars>>

\* Where current_exe says the running build is: Linux follows a renamed directory.
Home == IF platform = "linux" THEN home ELSE "install"

\* A build that is not wholly unpacked, because the worker began another installation
\* that the window has not heard of, is handed to the helper (history, for properties).
HalfStaged == ~Runs("staging", banner.build)

\* restart_into_updated_build: elsewhere the build found is started, and this one
\* quits; on Windows the helper waits until it has quit.
Restart ==
    /\ running # None /\ banner.kind = "ready"
    /\ IF platform = "windows"
       THEN /\ running' = None /\ home' = None /\ helping' = TRUE /\ UNCHANGED stray
            /\ job' = StartApply(banner.build)
            /\ torn' = (torn \/ ~Works("install") \/ HalfStaged)
            /\ FreshWindow /\ FreshWorker
       ELSE Launched(Home) /\ UNCHANGED helping
    /\ UNCHANGED <<disk, crossing, platform, faults, feed, deferred>>

\* The executable is not there, or no process can be started.
RestartFails ==
    /\ running # None /\ banner.kind = "ready"
    /\ IF Startable(Home) THEN Fault ELSE UNCHANGED faults
    /\ banner' = [kind |-> "failed", build |-> None]
    /\ UNCHANGED <<disk, crossing, platform, job, torn, worldVars, requests, pending,
                   workerVars>>

-----------------------------------------------------------------------------
(* The worker.                                                             *)

Busy == job.step # "idle" \/ serving.kind # "none"

\* run_worker begins; or it cannot, or there is no thread or no updater.  Then what is
\* in the queue goes with it, and the flag of a check in it is not given back.
WorkerStarts ==
    /\ Up /\ worker = "starting"
    /\ \/ /\ worker' = "serving" /\ skipped' = deferred
          /\ UNCHANGED <<requests, events>>
       \/ /\ worker' = "gone" /\ requests' = <<>>
          /\ \/ \E kind \in {"none", "failed"} : Tell(kind, None)
             \/ UNCHANGED events
          /\ UNCHANGED skipped
    /\ UNCHANGED <<swapVars, worldVars, banner, pending, offered, serving>>

Take ==
    /\ running # None /\ worker = "serving" /\ ~Busy /\ requests # <<>> /\ Len(events) < MaxRequests
    /\ serving' = Head(requests)
    /\ requests' = Tail(requests)
    /\ IF serving'.kind = "check" /\ ~serving'.automatic
       THEN Tell("checking", None) ELSE UNCHANGED events
    /\ UNCHANGED <<swapVars, worldVars, banner, pending, worker, skipped, offered>>

Serves(kind) == running # None /\ serving.kind = kind /\ job.step = "idle"

\* Mutant: a check that failed returns early.
AllowedUnless(failed) == pending' = (pending /\ failed)

\* The next check may be asked for.
Allowed(failed) == pending' = FALSE

\* Updater::check: the newest release, unless it is not newer or was deferred.
Checked ==
    /\ Serves("check")
    /\ IF feed > running /\ feed # skipped
       THEN Tell("available", feed) /\ offered' = feed
       ELSE Tell("none", None) /\ UNCHANGED offered
    /\ serving' = NoRequest
    /\ Allowed(FALSE)
    /\ UNCHANGED <<swapVars, worldVars, banner, requests, worker, skipped>>

CheckFails ==
    /\ Serves("check")
    /\ Fault
    /\ IF serving.automatic THEN UNCHANGED events ELSE Tell("failed", None)
    /\ serving' = NoRequest
    /\ Allowed(TRUE)
    /\ UNCHANGED <<disk, crossing, platform, job, torn, worldVars, banner, requests,
                   worker, skipped, offered>>

\* The download arrives, is verified, and is handed to the swap.
Install ==
    /\ Serves("install") /\ job.result = "none"
    /\ IF offered = None
       THEN serving' = NoRequest /\ UNCHANGED <<events, job, torn>>
       ELSE /\ Tell("progress", None) /\ UNCHANGED serving
            /\ job' = StartStage(offered) /\ BeginsOver
    /\ UNCHANGED <<disk, crossing, platform, faults, worldVars, windowVars, worker, skipped,
                   offered>>

InstallFails ==
    /\ Serves("install") /\ job.result = "none" /\ offered # None
    /\ Fault
    /\ Tell("failed", None)
    /\ serving' = NoRequest
    /\ UNCHANGED <<disk, crossing, platform, job, torn, worldVars, windowVars, worker, skipped,
                   offered>>

Installed ==
    /\ Serves("install") /\ job.result # "none"
    /\ IF job.result \in {"applied", "staged"}
       THEN Tell("installed", offered) /\ offered' = None
       ELSE Tell("failed", None) /\ UNCHANGED offered
    /\ serving' = NoRequest /\ job' = Idle
    /\ UNCHANGED <<disk, crossing, platform, torn, faults, worldVars, windowVars, worker,
                   skipped>>

\* The deferral is recorded; a write that fails leaves the old settings, or none that
\* can be read.
Recorded ==
    \/ deferred' = offered /\ UNCHANGED faults
    \/ deferred' \in {deferred, None} /\ Fault

\* Mutant: the window is not told that the offer is withdrawn.
DeferQuietly ==
    /\ Serves("defer")
    /\ IF offered = None THEN UNCHANGED <<deferred, faults, skipped>>
       ELSE Recorded /\ skipped' = offered
    /\ offered' = None
    /\ serving' = NoRequest
    /\ UNCHANGED <<disk, crossing, platform, job, torn, feed, running, helping, home, stray,
                   windowVars, worker, events>>

Defer ==
    /\ Serves("defer")
    /\ IF offered = None THEN UNCHANGED <<deferred, faults, skipped>>
       ELSE Recorded /\ skipped' = offered
    /\ offered' = None
    /\ Tell("none", None)
    /\ serving' = NoRequest
    /\ UNCHANGED <<disk, crossing, platform, job, torn, feed, running, helping, home, stray,
                   windowVars, worker>>

\* Where a step takes the file of the running build: a renamed directory takes it
\* along, a deleted one does not.
Followed ==
    IF home # From \/ disk[home][Exe] = None THEN home
    ELSE CASE job.how = "rename" /\ disk'[home] = None -> To
           [] job.how = "delete" /\ disk'[home][Exe] = None -> None
           [] OTHER -> home

\* The worker, or the helper, goes on with the directories.
Swap ==
    /\ SwapStep
    /\ home' = Followed
    /\ UNCHANGED <<feed, deferred, running, helping, stray, windowVars, workerVars>>

\* The helper launches what is installed now, whether or not it could be swapped.
HelperEnds ==
    /\ helping /\ job.step = "idle"
    /\ helping' = FALSE
    /\ \/ Launched("install") /\ UNCHANGED faults
       \/ /\ IF Startable("install") THEN Fault ELSE UNCHANGED faults
          /\ job' = Idle
          /\ UNCHANGED <<torn, running, home, stray, windowVars, workerVars>>
    /\ UNCHANGED <<disk, crossing, platform, feed, deferred>>

HelperDies ==
    /\ helping /\ Fault
    /\ helping' = FALSE /\ SwapDies
    /\ UNCHANGED <<disk, crossing, platform, feed, deferred, running, home, stray, windowVars,
                   workerVars>>

-----------------------------------------------------------------------------
Init ==
    /\ SwapInit
    /\ feed = 1 /\ deferred = None /\ running = 1 /\ helping = FALSE
    /\ home = "install" /\ stray = FALSE
    /\ banner = Hidden /\ requests = <<>> /\ pending = FALSE
    /\ worker = "starting" /\ skipped = None
    /\ offered = None /\ serving = NoRequest /\ events = <<>>

WindowStep ==
    \/ \E automatic \in BOOLEAN : Check(automatic)
    \/ \E kind \in {"install", "defer"} : Answer(kind)
    \/ Drain \/ Dismiss \/ Restart \/ RestartFails

WorkerStep ==
    \/ WorkerStarts \/ Take \/ Checked \/ CheckFails \/ Install \/ InstallFails \/ Installed \/ Defer
    \/ Swap \/ HelperEnds \/ HelperDies

Next == Publish \/ Start \/ Quit \/ WindowStep \/ WorkerStep

Spec == Init /\ [][Next]_vars

\* The worker and the helper are threads of the operating system; the network and
\* the file system answer; the window takes events at every frame.  Nobody must ask,
\* restart or publish.
FairSpec == Spec /\ WF_vars(WorkerStep) /\ WF_vars(Drain)

-----------------------------------------------------------------------------
(* Properties.                                                             *)

TypeOK ==
    /\ SwapTypeOK
    /\ feed \in Builds /\ deferred \in Builds \cup {None}
    /\ running \in Builds \cup {None} /\ helping \in BOOLEAN
    /\ home \in {"install", "backup", None} /\ stray \in BOOLEAN
    /\ banner \in Showing /\ requests \in Seq(Request) /\ pending \in BOOLEAN
    /\ worker \in {"starting", "serving", "gone"} /\ skipped \in Builds \cup {None}
    /\ offered \in Builds \cup {None} /\ serving \in Request /\ events \in Seq(Event)

\* "The previous installation is kept as a backup until the new one has started
\* successfully, so a failed swap can always be undone": whenever a file operation
\* fails, or the application, the worker or the helper dies, a whole build is installed
\* or backed up.  An update that failed before the swap, or was undone, leaves the old
\* build installed; one that failed because the old build could not be moved aside
\* leaves it installed or backed up (apply says "was restored" then, too).  It ends
\* when the next start or the next update begins over an installation in part, or the
\* helper over a staged build in part: neither looks, and both delete the backup.
UndoPossible ==
    ~torn => /\ Works("install") \/ Works("backup")
             /\ job.result \in {"failed", "rolled back"} => Runs("install", job.before)
             /\ job.result = "not aside" =>
                    Runs("install", job.before) \/ Runs("backup", job.before)

\* The window's banner follows the worker: once nothing is on its way, a build on
\* offer is the one the worker would install, and one announced as ready is on disk.
BannerIsTrue ==
    running # None /\ events = <<>> =>
        /\ banner.kind = "available" => offered = banner.build
        /\ banner.kind = "ready" /\ ~torn =>
             Runs(IF platform = "windows" THEN "staging" ELSE "install", banner.build)

\* request swaps check_pending, and only a worker that serves gives it back.  Again and
\* again there is a moment when no check keeps later ones out and the banner shows no
\* work under way: so neither ever stays, whether a check finds something, fails, or
\* waits behind an installation.  (Of a worker that is gone the flag may stay: then no
\* check is answered at all.)  A restart on Windows ends with a running application,
\* unless something failed on the way.
NothingHangs ==
    /\ []<>(/\ ~pending \/ worker = "gone"
           /\ banner.kind \notin {"checking", "downloading"})
    /\ helping ~> ~helping /\ (running # None \/ faults > 0)

=============================================================================
