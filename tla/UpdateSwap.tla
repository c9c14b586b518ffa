----------------------------- MODULE UpdateSwap -----------------------------
(***************************************************************************)
(* How a downloaded build is unpacked and swapped with the installed one.  *)
(*                                                                         *)
(* Three directories lie beside each other: the installation, the backup   *)
(* of the previous one and the staged build.  A directory is moved by a    *)
(* rename, or, where that does not work, copied file by file and then      *)
(* deleted file by file.  A deletion that fails half way leaves a part.    *)
(***************************************************************************)
EXTENDS Naturals, FiniteSets

CONSTANTS
    Files,
    FilesOf,     \* FilesOf[v]: the files build v consists of
    Builds,      \* version numbers, from 1
    Platforms,   \* some of "linux", "macos" and "windows"
    Exe,         \* the file a build is started from
    None,
    MaxFaults    \* bound: file operations and requests that fail, and crashes

ASSUME UpdateSwapAssumption ==
    /\ Builds = 1..Cardinality(Builds) /\ 1 \in Builds
    /\ FilesOf \in [Builds -> (SUBSET Files) \ {{}}]
    /\ Exe \in Files /\ (\A v \in Builds : Exe \in FilesOf[v])
    /\ Platforms \subseteq {"linux", "macos", "windows"}
    /\ None \notin Files \cup Builds /\ MaxFaults \in Nat

VARIABLES
    disk,        \* durable: what each directory holds, or None
    crossing,    \* whether a rename between the directories is refused
    platform,    \* where the program runs
    job,         \* what is being done to the directories
    torn,        \* a job began on a build left in part (history, for properties)
    faults       \* bound

swapVars == <<disk, crossing, platform, job, torn, faults>>

Place == {"install", "backup", "staging"}
Dir   == [Files -> Builds \cup {None}]
\* A directory that is not there differs from one that is.
ASSUME NoneIsNoDir == None \notin Dir

Empty == [f \in Files |-> None]
Whole(v) == [f \in Files |-> IF f \in FilesOf[v] THEN v ELSE None]

\* Every file of build v is there; files of others may lie beside them.
Runs(d, v) == disk[d] # None /\ \A f \in FilesOf[v] : disk[d][f] = v
Works(d) == \E v \in Builds : Runs(d, v)

\* A job begins although no whole build is installed: nothing looks (history).
BeginsOver == torn' = (torn \/ ~Works("install"))

Step   == {"idle", "stage", "clear", "aside", "in", "back", "tidy backup", "tidy staging"}
Result == {"none", "staged", "applied", "failed", "rolled back", "not aside",
            "stranded"}
Job    == [step : Step, how : {"none", "rename", "copy", "delete"}, left : SUBSET Files,
           build : Builds \cup {None}, before : Builds \cup {None}, result : Result]

Idle == [step |-> "idle", how |-> "none", left |-> {}, build |-> None,
         before |-> None, result |-> "none"]

\* A file of a directory is written (a build's) or deleted (None).
Write(d, f, v) == disk' = [disk EXCEPT ![d] = [@ EXCEPT ![f] = v]]

Fault == faults < MaxFaults /\ faults' = faults + 1

Ended(result) == job' = [job EXCEPT !.step = "idle", !.how = "none", !.left = {},
                                    !.result = result]

MoveOn(step) == job' = [job EXCEPT !.step = step, !.how = "rename", !.left = {}]

-----------------------------------------------------------------------------
\* The build that would start if the installation were launched now.
Current == IF disk["install"] = None THEN None ELSE disk["install"][Exe]

\* apply: first the previous backup goes.  (`before` is history, for properties.)
StartApply(v) ==
    [Idle EXCEPT !.step = "clear", !.how = "delete", !.build = v, !.before = Current]

\* stage: whatever an earlier attempt left is cleared and the archive unpacked.
StartStage(v) == [Idle EXCEPT !.step = "stage", !.build = v, !.before = Current]

\* clean_completed_updates, at startup.
StartTidy == [Idle EXCEPT !.step = "tidy backup", !.how = "delete"]

Stage ==
    /\ job.step = "stage"
    /\ \/ /\ disk' = [disk EXCEPT !["staging"] = Whole(job.build)]
          /\ job' = IF platform = "windows" THEN [job EXCEPT !.step = "idle", !.result = "staged"]
                    ELSE StartApply(job.build)
          /\ UNCHANGED faults
       \/ /\ Fault
          /\ \E S \in SUBSET FilesOf[job.build] :
                disk' = [disk EXCEPT !["staging"] = [f \in Files |->
                           IF f \in S THEN job.build ELSE None]]
          /\ Ended("failed")
    /\ UNCHANGED <<crossing, platform, torn>>

From == CASE job.step = "aside" -> "install" [] job.step = "in" -> "staging"
          [] job.step = "back" -> "backup" [] job.step = "clear" -> "backup"
          [] job.step = "tidy backup" -> "backup" [] OTHER -> "staging"
To   == CASE job.step = "aside" -> "backup" [] OTHER -> "install"

\* What follows a step that was done.
Done ==
    CASE job.step = "clear" -> MoveOn("aside")
      [] job.step = "aside" -> MoveOn("in")
      [] job.step = "in"    -> Ended("applied")
      [] job.step = "back"  -> Ended("rolled back")
      [] job.step = "tidy backup"  -> job' = [job EXCEPT !.step = "tidy staging"]
      [] job.step = "tidy staging" -> job' = Idle

\* Mutant: the old build is not put back.
ErredForward ==
    CASE job.step = "clear" -> Ended("failed")
      [] job.step \in {"aside", "in"} -> Ended("rolled back")
      [] OTHER -> job' = Idle

\* What follows a step that failed: the old build is put back, unless it could not
\* be moved aside.  (apply words "not aside" and "rolled back" alike.)
Erred ==
    CASE job.step = "clear" -> Ended("failed")
      [] job.step = "aside" -> Ended("not aside")
      [] job.step = "in"    -> MoveOn("back")
      [] job.step = "back"  -> Ended("stranded")
      [] job.step = "tidy backup"  -> job' = [job EXCEPT !.step = "tidy staging"]
      [] job.step = "tidy staging" -> job' = Idle

\* rename_dir; an empty target is in the way on Windows only.
Rename ==
    /\ job.how = "rename" /\ disk[From] # None /\ ~crossing
    /\ disk[To] = None \/ (disk[To] = Empty /\ platform # "windows")
    /\ disk' = [disk EXCEPT ![To] = disk[From], ![From] = None]
    /\ Done
    /\ UNCHANGED <<crossing, platform, torn, faults>>

\* It did not work: copy_dir creates the target and reads the source.
RenameFails ==
    /\ job.how = "rename"
    /\ IF disk[From] # None /\ ~crossing
          /\ (disk[To] = None \/ (disk[To] = Empty /\ platform # "windows"))
       THEN Fault ELSE UNCHANGED faults
    /\ disk' = [disk EXCEPT ![To] = IF @ = None THEN Empty ELSE @]
    /\ IF disk[From] = None THEN Erred
       ELSE job' = [job EXCEPT !.how = "copy",
                               !.left = {f \in Files : disk[From][f] # None}]
    /\ UNCHANGED <<crossing, platform, torn>>

\* copy_dir, one file after the other; what is there is written over.
Copy ==
    /\ job.how = "copy" /\ job.left # {}
    /\ \E f \in job.left :
        \/ /\ Write(To, f, disk[From][f])
           /\ job' = [job EXCEPT !.left = @ \ {f}]
           /\ UNCHANGED faults
        \/ /\ Write(To, f, None)
           /\ Fault /\ Erred
    /\ UNCHANGED <<crossing, platform, torn>>

Copied ==
    /\ job.how = "copy" /\ job.left = {}
    /\ job' = [job EXCEPT !.how = "delete"]
    /\ UNCHANGED <<disk, crossing, platform, torn, faults>>

\* remove_dir_all, one file after the other.
Delete ==
    /\ job.how = "delete" /\ disk[From] # None /\ disk[From] # Empty
    /\ \E f \in Files :
        /\ disk[From][f] # None
        /\ \/ /\ Write(From, f, None)
              /\ UNCHANGED <<job, faults>>
           \/ Fault /\ Erred /\ UNCHANGED disk
    /\ UNCHANGED <<crossing, platform, torn>>

Deleted ==
    /\ job.how = "delete" /\ disk[From] \in {None, Empty}
    /\ disk' = [disk EXCEPT ![From] = None]
    /\ Done
    /\ UNCHANGED <<crossing, platform, torn, faults>>

\* The process dies: what it was doing is forgotten, and stays as it is.
SwapDies == job' = Idle /\ UNCHANGED torn

SwapStep == Stage \/ Rename \/ RenameFails \/ Copy \/ Copied \/ Delete \/ Deleted

SwapInit ==
    /\ disk = [d \in Place |-> IF d = "install" THEN Whole(1) ELSE None]
    /\ crossing \in BOOLEAN /\ platform \in Platforms
    /\ job = Idle /\ torn = FALSE /\ faults = 0

SwapTypeOK ==
    /\ disk \in [Place -> Dir \cup {None}]
    /\ crossing \in BOOLEAN /\ platform \in Platforms /\ torn \in BOOLEAN
    /\ job \in Job /\ faults \in 0..MaxFaults

=============================================================================
