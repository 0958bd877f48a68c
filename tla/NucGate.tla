------------------------------ MODULE NucGate ------------------------------
(***************************************************************************)
(* scripts/nuc-gate.py: the CI gate service of the owner's NUC.            *)
(*                                                                         *)
(* Every `submit` is a short process, every accepted job is one transient  *)
(* systemd unit that executes `run`, and the two kinds of process meet     *)
(* only through files: job.json, result.json and src/ in the directory of  *)
(* the job, and flock locks.  A lock is the name of the process that holds *)
(* it; a process that dies loses its locks, as the kernel closes its files.*)
(***************************************************************************)
EXTENDS FiniteSets

CONSTANTS
  Jobs,        \* the exact revisions (repo, sha) somebody submits
  Repos,       \* the repositories of the allowlist
  RepoOf,      \* the repository of each job
  Submitters,  \* concurrent `nuc-gate.py submit` processes
  Units,       \* systemd units alive at one time; a finished one is reused
  Slots,       \* slot-0 .. slot-(NUC_GATE_SLOTS - 1)
  Faults,      \* the faults that may happen, a subset of FaultKinds
  Free, NoJob

(***************************************************************************)
(* crash     a submit process dies (SSH session, out of memory, reboot)    *)
(* term      systemd's RuntimeMaxSec expires: one SIGTERM                  *)
(* kill      SIGKILL: TimeoutStopSec after the SIGTERM, or out of memory   *)
(* rm        `podman rm --force` fails or exceeds its 30 seconds           *)
(* ambiguous systemd-run reports an error although the unit was started    *)
(* uncaught  an exception that no handler of the code catches: an allowlist*)
(*           or a job.json that does not load, a KeyError, a response that *)
(*           is no HTTP, a devcontainer.json that is a list, a full disk   *)
(***************************************************************************)
FaultKinds == {"crash", "term", "kill", "rm", "ambiguous", "uncaught"}

Procs == Submitters \cup Units

ASSUME NamesAssumption ==
  /\ Submitters \cap Units = {}
  /\ Free \notin Procs
  /\ NoJob \notin Jobs
ASSUME RepoAssumption == RepoOf \in [Jobs -> Repos]
ASSUME FaultAssumption == Faults \subseteq FaultKinds

Verdicts == {"success", "failure", "error"}

VARIABLES
  jobFile,           \* jobFile[j]: job.json exists
  result,            \* result[j]: the state in result.json, or "none"
  publicationError,  \* publicationError[j]: that key of result.json is there
  src,               \* src[j]: the checkout: "none", "cloned" or "ready"
  cut,               \* cut[j] (history): the last attempt at j died, or an exception
                     \* that nobody caught ended it
  status,            \* status[j]: the GitHub commit status `gate`
  container,         \* container[j]: the container named after j: "none", "running",
                     \* or "stray": it runs, and its unit is dead or was told to go on
  image,             \* image[r]: podman has the image of r's Dockerfile
  submitLock, runLock, repoLock, slot,
  pc, job,           \* where a process is, and the job it works for
  verdict,           \* verdict[u]: `state` of execute(), or "raising": an exception
                     \* that it does not catch is on its way out
  unpublished,       \* unpublished[u]: publish() was "heard", its failure "noted" in
                     \* result['publicationError'], or "raised" past the except
  termed             \* the units that got their SIGTERM

files == <<jobFile, result, publicationError, src, cut>>
world == <<status, container, image>>
locks == <<submitLock, runLock, repoLock, slot>>
local == <<verdict, unpublished, termed>>
vars == <<files, world, locks, pc, job, local>>

Init ==
  /\ jobFile = [j \in Jobs |-> FALSE]
  /\ result = [j \in Jobs |-> "none"]
  /\ publicationError = [j \in Jobs |-> FALSE]
  /\ src = [j \in Jobs |-> "none"]
  /\ cut = [j \in Jobs |-> FALSE]
  /\ status = [j \in Jobs |-> "none"]
  /\ container = [j \in Jobs |-> "none"]
  /\ image = [r \in Repos |-> FALSE]
  /\ submitLock = [j \in Jobs |-> Free]
  /\ runLock = [j \in Jobs |-> Free]
  /\ repoLock = [r \in Repos |-> Free]
  /\ slot = [s \in Slots |-> Free]
  /\ pc = [p \in Procs |-> IF p \in Submitters THEN "idle" ELSE "off"]
  /\ job = [p \in Procs |-> NoJob]
  /\ verdict = [u \in Units |-> "error"]
  /\ unpublished = [u \in Units |-> "heard"]
  /\ termed = {}

Goto(p, label) == pc' = [pc EXCEPT ![p] = label]
Step(p, from, to) == pc[p] = from /\ Goto(p, to)

(* lock() and the kernel's side of flock *)
Acquire(held, x, p) == held[x] = Free /\ held' = [held EXCEPT ![x] = p]
Without(held, p) == [x \in DOMAIN held |-> IF held[x] = p THEN Free ELSE held[x]]

(* Mutant: the job of the dead process is still its own. *)
EndsBusy(p) ==
  /\ pc' = [pc EXCEPT ![p] = IF p \in Submitters THEN "idle" ELSE "off"]
  /\ submitLock' = Without(submitLock, p)
  /\ runLock' = Without(runLock, p)
  /\ repoLock' = Without(repoLock, p)
  /\ slot' = Without(slot, p)
  /\ UNCHANGED job

(* Mutant: lock files that somebody has to remove, instead of flock. *)
EndsLocked(p) ==
  /\ pc' = [pc EXCEPT ![p] = IF p \in Submitters THEN "idle" ELSE "off"]
  /\ job' = [job EXCEPT ![p] = NoJob]
  /\ UNCHANGED locks

(* The process is gone, and its locks with it. *)
Ends(p) ==
  /\ pc' = [pc EXCEPT ![p] = IF p \in Submitters THEN "idle" ELSE "off"]
  /\ job' = [job EXCEPT ![p] = NoJob]
  /\ submitLock' = Without(submitLock, p)
  /\ runLock' = Without(runLock, p)
  /\ repoLock' = Without(repoLock, p)
  /\ slot' = Without(slot, p)

UnitEnds(u) ==
  /\ Ends(u)
  /\ verdict' = [verdict EXCEPT ![u] = "error"]
  /\ unpublished' = [unpublished EXCEPT ![u] = "heard"]
  /\ termed' = termed \ {u}

(* Who has the job in hand, from job.json to result.json. *)
HasInHand(p) ==
  pc[p] \in {"dropJob", "repoLock", "fetch", "clone", "checkout", "pending", "launch",
            "saveError"}

(* The attempt ends here, although nothing has been recorded of it. *)
CutShort(p) == cut' = [cut EXCEPT ![job[p]] = @ \/ result[job[p]] = "none"]

---------------------------------------------------------------------------
(* submit(repo, sha) *)

Call(p, j) ==
  /\ Step(p, "idle", "submitLock")
  /\ job' = [job EXCEPT ![p] = j]
  /\ UNCHANGED <<files, world, locks, local>>

LockSubmit(p) ==
  /\ Step(p, "submitLock", "checkResult")
  /\ Acquire(submitLock, job[p], p)
  /\ UNCHANGED <<files, world, runLock, repoLock, slot, job, local>>

CheckCached(p) ==
  /\ pc[p] = "checkResult"
  /\ result[job[p]] \in {"success", "failure"}
  /\ Ends(p)
  /\ UNCHANGED <<files, world, local>>

(* Mutant: a failed gate is retried like an infrastructure error. *)
CheckResultRetriesFailure(p) ==
  /\ Step(p, "checkResult", IF result[job[p]] = "none" THEN "checkJob" ELSE "retryLock")
  /\ result[job[p]] \in {"none", "error", "failure"}
  /\ UNCHANGED <<files, world, locks, job, local>>

CheckResult(p) ==
  /\ Step(p, "checkResult", IF result[job[p]] = "none" THEN "checkJob" ELSE "retryLock")
  /\ result[job[p]] \in {"none", "error"}
  /\ UNCHANGED <<files, world, locks, job, local>>

(* Mutant: the retry does not wait for the previous run. *)
LockRetryNoWait(p) ==
  /\ Step(p, "retryLock", "dropSrc")
  /\ UNCHANGED <<files, world, locks, job, local>>

LockRetry(p) ==
  /\ Step(p, "retryLock", "dropSrc")
  /\ Acquire(runLock, job[p], p)
  /\ UNCHANGED <<files, world, submitLock, repoLock, slot, job, local>>

DropSrc(p) ==
  /\ Step(p, "dropSrc", "dropResult")
  /\ src' = [src EXCEPT ![job[p]] = "none"]
  /\ UNCHANGED <<jobFile, result, publicationError, cut, world, locks, job, local>>

DropResult(p) ==
  /\ Step(p, "dropResult", "dropJob")
  /\ result' = [result EXCEPT ![job[p]] = "none"]
  /\ publicationError' = [publicationError EXCEPT ![job[p]] = FALSE]
  /\ UNCHANGED <<jobFile, src, cut, world, locks, job, local>>

(* Mutant: job.json survives the retry. *)
DropJobKept(p) ==
  /\ Step(p, "dropJob", "checkJob")
  /\ runLock' = Without(runLock, p)
  /\ UNCHANGED <<files, world, submitLock, repoLock, slot, job, local>>

DropJob(p) ==
  /\ Step(p, "dropJob", "checkJob")
  /\ jobFile' = [jobFile EXCEPT ![job[p]] = FALSE]
  /\ runLock' = Without(runLock, p)
  /\ UNCHANGED <<result, publicationError, src, cut, world, submitLock, repoLock, slot, job, local>>

CheckRunning(p) ==
  /\ pc[p] = "checkJob"
  /\ jobFile[job[p]]
  /\ Ends(p)
  /\ UNCHANGED <<files, world, local>>

SaveJob(p) ==
  /\ Step(p, "checkJob", "repoLock")
  /\ ~jobFile[job[p]]
  /\ jobFile' = [jobFile EXCEPT ![job[p]] = TRUE]
  /\ cut' = [cut EXCEPT ![job[p]] = FALSE]
  /\ UNCHANGED <<result, publicationError, src, world, locks, job, local>>

LockMirror(p) ==
  /\ Step(p, "repoLock", "fetch")
  /\ Acquire(repoLock, RepoOf[job[p]], p)
  /\ UNCHANGED <<files, world, submitLock, runLock, slot, job, local>>

Fetch(p) ==
  /\ Step(p, "fetch", "clone")
  /\ UNCHANGED <<files, world, locks, job, local>>

Clone(p) ==
  /\ Step(p, "clone", "checkout")
  /\ src[job[p]] = "none"
  /\ src' = [src EXCEPT ![job[p]] = "cloned"]
  /\ UNCHANGED <<jobFile, result, publicationError, cut, world, locks, job, local>>

Checkout(p) ==
  /\ Step(p, "checkout", "pending")
  /\ src[job[p]] = "cloned"
  /\ src' = [src EXCEPT ![job[p]] = "ready"]
  /\ repoLock' = Without(repoLock, p)
  /\ UNCHANGED <<jobFile, result, publicationError, cut, world, submitLock, runLock, slot, job, local>>

(* Mutant: a failed git command is not noticed (no check=True). *)
GitFailsUnchecked(p) ==
  /\ pc[p] \in {"fetch", "clone", "checkout"}
  /\ Goto(p, "pending")
  /\ repoLock' = Without(repoLock, p)
  /\ UNCHANGED <<files, world, submitLock, runLock, slot, job, local>>

(* A git command fails; leaving the `with` releases the repository lock. *)
GitFails(p) ==
  /\ pc[p] \in {"fetch", "clone", "checkout"}
  /\ Goto(p, "saveError")
  /\ repoLock' = Without(repoLock, p)
  /\ UNCHANGED <<files, world, submitLock, runLock, slot, job, local>>

(* The pending status is best effort: its failure only reaches the log. *)
Pending(p) ==
  /\ Step(p, "pending", "launch")
  /\ \/ status' = [status EXCEPT ![job[p]] = "pending"]
     \/ UNCHANGED status
  /\ UNCHANGED <<files, container, image, locks, job, local>>

(* systemd-run starts unit u, which will execute `run` for the job. *)
Launch(p, u) ==
  /\ pc[p] = "launch"
  /\ pc[u] = "off"
  /\ pc' = [pc EXCEPT ![p] = "idle", ![u] = "start"]
  /\ job' = [job EXCEPT ![p] = NoJob, ![u] = job[p]]
  /\ submitLock' = Without(submitLock, p)
  /\ UNCHANGED <<files, world, runLock, repoLock, slot, local>>

(* Mutant: a failed launch leaves no result. *)
LaunchFailsSilently(p) ==
  /\ pc[p] = "launch"
  /\ Ends(p)
  /\ UNCHANGED <<files, world, local>>

LaunchFails(p) ==
  /\ Step(p, "launch", "saveError")
  /\ UNCHANGED <<files, world, locks, job, local>>

LaunchAmbiguous(p, u) ==
  /\ "ambiguous" \in Faults
  /\ pc[p] = "launch"
  /\ pc[u] = "off"
  /\ pc' = [pc EXCEPT ![p] = "saveError", ![u] = "start"]
  /\ job' = [job EXCEPT ![u] = job[p]]
  /\ UNCHANGED <<files, world, locks, local>>

SaveError(p) ==
  /\ Step(p, "saveError", "dropFailedSrc")
  /\ result' = [result EXCEPT ![job[p]] = "error"]
  /\ publicationError' = [publicationError EXCEPT ![job[p]] = FALSE]
  /\ UNCHANGED <<jobFile, src, cut, world, locks, job, local>>

DropFailedSrc(p) ==
  /\ pc[p] = "dropFailedSrc"
  /\ src' = [src EXCEPT ![job[p]] = "none"]
  /\ Ends(p)
  /\ UNCHANGED <<jobFile, result, publicationError, cut, world, local>>

Crash(p) ==
  /\ "crash" \in Faults
  /\ pc[p] # "idle"
  /\ IF HasInHand(p) THEN CutShort(p) ELSE UNCHANGED cut
  /\ Ends(p)
  /\ UNCHANGED <<jobFile, result, publicationError, src, world, local>>

(* An exception leaves submit: the handlers around fetch, pending and      *)
(* systemd-run name OSError and SubprocessError, pending's own RuntimeError *)
(* and OSError; the error path itself may not be able to save.  (If GitHub *)
(* took the status before publish raised, that is Pending and then this.)  *)
SubmitRaises(p) ==
  /\ "uncaught" \in Faults
  /\ pc[p] \in {"fetch", "pending", "launch", "saveError"}
  /\ CutShort(p)
  /\ Ends(p)
  /\ UNCHANGED <<jobFile, result, publicationError, src, world, local>>

---------------------------------------------------------------------------
(* run(job) and execute(job, metadata), in a unit *)

ReadJob(u) ==
  /\ Step(u, "start", "runLock")
  /\ jobFile[job[u]]
  /\ UNCHANGED <<files, world, locks, job, local>>

NoJobFile(u) ==
  /\ pc[u] = "start"
  /\ ~jobFile[job[u]]
  /\ UnitEnds(u)
  /\ UNCHANGED <<files, world>>

(* Mutant: run.lock is not exclusive. *)
LockRunShared(u) ==
  /\ Step(u, "runLock", "checkRun")
  /\ UNCHANGED <<files, world, locks, job, local>>

(* job.json or the allowlist does not load, a lock does not open, or the   *)
(* result cannot be written.                                               *)
RunRaises(u) ==
  /\ "uncaught" \in Faults
  /\ pc[u] \in {"start", "runLock", "save"}
  /\ CutShort(u)
  /\ UnitEnds(u)
  /\ UNCHANGED <<jobFile, result, publicationError, src, world>>

LockRun(u) ==
  /\ Step(u, "runLock", "checkRun")
  /\ Acquire(runLock, job[u], u)
  /\ UNCHANGED <<files, world, submitLock, repoLock, slot, job, local>>

AlreadyFinished(u) ==
  /\ pc[u] = "checkRun"
  /\ result[job[u]] # "none"
  /\ UnitEnds(u)
  /\ UNCHANGED <<files, world>>

Begin(u) ==
  /\ Step(u, "checkRun", "slot")
  /\ result[job[u]] = "none"
  /\ UNCHANGED <<files, world, locks, job, local>>

TakeSlot(u) ==
  /\ Step(u, "slot", "config")
  /\ \E s \in Slots : Acquire(slot, s, u)
  /\ UNCHANGED <<files, world, submitLock, runLock, repoLock, job, local>>

ReadConfig(u) ==
  /\ Step(u, "config", "imageLock")
  /\ src[job[u]] = "ready"
  /\ UNCHANGED <<files, world, locks, job, local>>

(* Mutant: the image is looked up and built without the repository lock. *)
LockImageShared(u) ==
  /\ Step(u, "imageLock", "image")
  /\ UNCHANGED <<files, world, locks, job, local>>

LockImage(u) ==
  /\ Step(u, "imageLock", "image")
  /\ Acquire(repoLock, RepoOf[job[u]], u)
  /\ UNCHANGED <<files, world, submitLock, runLock, slot, job, local>>

(* The configuration names an image, or the Dockerfile's is there already. *)
UseImage(u) ==
  /\ Step(u, "image", "podman")
  /\ repoLock' = Without(repoLock, u)
  /\ UNCHANGED <<files, world, submitLock, runLock, slot, job, local>>

BuildImage(u) ==
  /\ Step(u, "image", "build")
  /\ ~image[RepoOf[job[u]]]
  /\ UNCHANGED <<files, world, locks, job, local>>

ImageBuilt(u) ==
  /\ Step(u, "build", "podman")
  /\ image' = [image EXCEPT ![RepoOf[job[u]]] = TRUE]
  /\ repoLock' = Without(repoLock, u)
  /\ UNCHANGED <<files, status, container, submitLock, runLock, slot, job, local>>

(* podman refuses a name in use and a mount that is not there. *)
StartContainer(u) ==
  /\ Step(u, "podman", "running")
  /\ container[job[u]] = "none"
  /\ src[job[u]] # "none"
  /\ container' = [container EXCEPT ![job[u]] = "running"]
  /\ UNCHANGED <<files, status, image, locks, job, local>>

(* NUC_GATE_SLOTS is no positive number, or a slot file does not open. *)
SlotFails(u) ==
  /\ Step(u, "slot", "finish")
  /\ UNCHANGED <<files, world, locks, job, local>>

(* An invalid configuration, a failed build, or podman's own exit codes, as *)
(* an exception that the inner handler names.                              *)
InfrastructureFails(u) ==
  /\ pc[u] \in {"config", "imageLock", "image", "build", "podman"}
  /\ Goto(u, "cleanup")
  /\ repoLock' = Without(repoLock, u)
  /\ UNCHANGED <<files, world, submitLock, runLock, slot, job, local>>

(* A devcontainer.json that is no object: AttributeError, in no handler.   *)
(* The container is removed and the slot released on its way out.          *)
ConfigRaises(u) ==
  /\ "uncaught" \in Faults
  /\ Step(u, "config", "cleanup")
  /\ verdict' = [verdict EXCEPT ![u] = "raising"]
  /\ UNCHANGED <<files, world, locks, job, unpublished, termed>>

ContainerExits(u) ==
  /\ Step(u, "running", "cleanup")
  /\ container' = [container EXCEPT ![job[u]] = "none"]
  /\ \E v \in Verdicts : verdict' = [verdict EXCEPT ![u] = v]
  /\ UNCHANGED <<files, status, image, locks, job, unpublished, termed>>

(* Mutant: the slot ends before the lifetime of the container. *)
ClientLostSlotFirst(u) ==
  /\ Step(u, "running", "cleanup")
  /\ slot' = Without(slot, u)
  /\ UNCHANGED <<files, world, submitLock, runLock, repoLock, job, local>>

(* The podman client is killed (code < 0) and its container survives it. *)
ClientLost(u) ==
  /\ Step(u, "running", "cleanup")
  /\ UNCHANGED <<files, world, locks, job, local>>

(* The container of u, if it still runs, is nobody's from now on. *)
LeavesStray(u) ==
  container' = [container EXCEPT ![job[u]] =
    IF @ = "running" /\ pc[u] \in {"running", "cleanup"} THEN "stray" ELSE @]

(* container_lifetime's `podman rm --force`, then the end of slot(). *)
Cleanup(u) ==
  /\ Step(u, "cleanup", "finish")
  /\ container' = [container EXCEPT ![job[u]] = "none"]
  /\ slot' = Without(slot, u)
  /\ UNCHANGED <<files, status, image, submitLock, runLock, repoLock, job, local>>

(* Its exit code is not read; its timeout is an exception that is caught    *)
(* and turns the verdict into an error.                                    *)
CleanupFails(u) ==
  /\ "rm" \in Faults
  /\ Step(u, "cleanup", "finish")
  /\ LeavesStray(u)
  /\ slot' = Without(slot, u)
  /\ \/ UNCHANGED verdict
     \/ verdict' = [verdict EXCEPT ![u] = "error"]
  /\ UNCHANGED <<files, status, image, submitLock, runLock, repoLock, job, unpublished, termed>>

(* Mutant: the result is saved without publication. *)
FinishUnpublished(u) ==
  /\ Step(u, "finish", "save")
  /\ verdict[u] # "raising"
  /\ src' = [src EXCEPT ![job[u]] = "none"]
  /\ UNCHANGED <<jobFile, result, publicationError, cut, world, locks, job, local>>

Finish(u) ==
  /\ Step(u, "finish", "publish")
  /\ verdict[u] # "raising"
  /\ src' = [src EXCEPT ![job[u]] = "none"]
  /\ UNCHANGED <<jobFile, result, publicationError, cut, world, locks, job, local>>

(* The exception goes on behind the `finally`: nothing is published or saved. *)
FinishRaises(u) ==
  /\ pc[u] = "finish"
  /\ verdict[u] = "raising"
  /\ src' = [src EXCEPT ![job[u]] = "none"]
  /\ CutShort(u)
  /\ UnitEnds(u)
  /\ UNCHANGED <<jobFile, result, publicationError, world>>

Publish(u) ==
  /\ Step(u, "publish", "save")
  /\ status' = [status EXCEPT ![job[u]] = verdict[u]]
  /\ UNCHANGED <<files, container, image, locks, job, local>>

(* Mutant: a failed publication ends the unit. *)
PublishFailsRaises(u) ==
  /\ pc[u] = "publish"
  /\ UnitEnds(u)
  /\ UNCHANGED <<files, world>>

(* Mutant: a failed publication is repeated once the result is saved. *)
PublishFailsRepeats(u) ==
  /\ \/ Step(u, "publish", "save") /\ UNCHANGED status
     \/ Step(u, "exit", "exit") /\ unpublished[u] = "noted"
        /\ status' = [status EXCEPT ![job[u]] = verdict[u]]
  /\ unpublished' = [unpublished EXCEPT ![u] = "noted"]
  /\ UNCHANGED <<files, container, image, locks, job, verdict, termed>>

(* GitHub may have taken the status although the answer never came. *)
PublishFails(u) ==
  /\ Step(u, "publish", "save")
  /\ unpublished' = [unpublished EXCEPT ![u] = "noted"]
  /\ \/ UNCHANGED status
     \/ status' = [status EXCEPT ![job[u]] = verdict[u]]
  /\ UNCHANGED <<files, container, image, locks, job, verdict, termed>>

(* An exception of publish that its handler does not name. *)
PublishRaises(u) ==
  /\ "uncaught" \in Faults
  /\ Step(u, "publish", "save")
  /\ unpublished' = [unpublished EXCEPT ![u] = "raised"]
  /\ \/ UNCHANGED status
     \/ status' = [status EXCEPT ![job[u]] = verdict[u]]
  /\ UNCHANGED <<files, container, image, locks, job, verdict, termed>>

(* In a `finally`: an exception of publish passes here too, and ends run. *)
SaveResult(u) ==
  /\ Step(u, "save", "exit")
  /\ result' = [result EXCEPT ![job[u]] = verdict[u]]
  /\ publicationError' = [publicationError EXCEPT ![job[u]] = (unpublished[u] = "noted")]
  /\ cut' = [cut EXCEPT ![job[u]] = (unpublished[u] = "raised")]
  /\ UNCHANGED <<jobFile, src, world, locks, job, local>>

Exit(u) ==
  /\ pc[u] = "exit"
  /\ UnitEnds(u)
  /\ UNCHANGED <<files, world>>

---------------------------------------------------------------------------
(* SIGTERM.  execute() has its handler from "slot" to "finish" only. *)

Term(u, from, to) ==
  /\ "term" \in Faults
  /\ u \notin termed
  /\ pc[u] \in from
  /\ Goto(u, to)
  /\ termed' = termed \cup {u}
  /\ verdict' = [verdict EXCEPT ![u] = "error"]
  /\ UNCHANGED <<files, status, image, submitLock, runLock, job, unpublished>>

TermWaiting(u) ==
  /\ Term(u, {"slot"}, "finish")
  /\ UNCHANGED <<container, repoLock, slot>>

(* RuntimeError('timeout') reaches container_lifetime through every `with`. *)
TermExecuting(u) ==
  /\ Term(u, {"config", "imageLock", "image", "build", "podman"}, "cleanup")
  /\ repoLock' = Without(repoLock, u)
  /\ UNCHANGED <<container, slot>>

(* container_command stops its client, not always the container. *)
TermRunning(u) ==
  /\ Term(u, {"running"}, "cleanup")
  /\ \/ UNCHANGED container
     \/ container' = [container EXCEPT ![job[u]] = "none"]
  /\ UNCHANGED <<repoLock, slot>>

TermCleanup(u) ==
  /\ Term(u, {"cleanup"}, "finish")
  /\ \/ LeavesStray(u)
     \/ container' = [container EXCEPT ![job[u]] = "none"]
  /\ slot' = Without(slot, u)
  /\ UNCHANGED repoLock

(* Outside the handler, or inside the handler's own error path. *)
TermKills(u) ==
  /\ "term" \in Faults
  /\ u \notin termed
  /\ pc[u] \in {"start", "runLock", "checkRun", "finish", "publish", "save", "exit"}
  /\ \/ UNCHANGED src
     \/ pc[u] = "finish" /\ src' = [src EXCEPT ![job[u]] = "none"]
  /\ CutShort(u)
  /\ UnitEnds(u)
  /\ UNCHANGED <<jobFile, result, publicationError, world>>

Kill(u) ==
  /\ "kill" \in Faults
  /\ pc[u] # "off"
  /\ LeavesStray(u)
  /\ CutShort(u)
  /\ UnitEnds(u)
  /\ UNCHANGED <<jobFile, result, publicationError, src, status, image>>

(* A container that lost its client runs to its own end. *)
OrphanStops(j) ==
  /\ container[j] # "none"
  /\ \A u \in Units : pc[u] = "running" => job[u] # j
  /\ container' = [container EXCEPT ![j] = "none"]
  /\ UNCHANGED <<files, status, image, locks, pc, job, local>>

---------------------------------------------------------------------------
SubmitStep(p) ==
  \/ CheckCached(p) \/ CheckResult(p) \/ DropSrc(p) \/ DropResult(p) \/ DropJob(p)
  \/ CheckRunning(p) \/ SaveJob(p) \/ Fetch(p) \/ Clone(p) \/ Checkout(p) \/ GitFails(p)
  \/ Pending(p) \/ (\E u \in Units : Launch(p, u)) \/ LaunchFails(p)
  \/ SaveError(p) \/ DropFailedSrc(p)

SubmitLocks(p) == LockSubmit(p) \/ LockRetry(p) \/ LockMirror(p)

RunStep(u) ==
  \/ ReadJob(u) \/ NoJobFile(u) \/ AlreadyFinished(u) \/ Begin(u) \/ ReadConfig(u)
  \/ UseImage(u) \/ BuildImage(u) \/ ImageBuilt(u) \/ StartContainer(u) \/ SlotFails(u)
  \/ InfrastructureFails(u) \/ ContainerExits(u) \/ ClientLost(u)
  \/ Cleanup(u) \/ Finish(u) \/ FinishRaises(u) \/ Publish(u) \/ PublishFails(u) \/ SaveResult(u) \/ Exit(u)

RunLocks(u) == LockRun(u) \/ TakeSlot(u) \/ LockImage(u)

UnitFault(u) ==
  \/ CleanupFails(u) \/ TermWaiting(u) \/ TermExecuting(u) \/ TermRunning(u)
  \/ TermCleanup(u) \/ TermKills(u) \/ Kill(u)
  \/ RunRaises(u) \/ ConfigRaises(u) \/ PublishRaises(u)

Next ==
  \/ \E p \in Submitters :
       \/ \E j \in Jobs : Call(p, j)
       \/ SubmitLocks(p)
       \/ SubmitStep(p)
       \/ \E u \in Units : LaunchAmbiguous(p, u)
       \/ Crash(p) \/ SubmitRaises(p)
  \/ \E u \in Units : RunLocks(u) \/ RunStep(u) \/ UnitFault(u)
  \/ \E j \in Jobs : OrphanStops(j)

Spec == Init /\ [][Next]_vars

(***************************************************************************)
(* The kernel runs every process.  Strong fairness, because a step may     *)
(* wait for a lock: flock wakes its waiters in order, and a unit looks for *)
(* a slot every 50 ms while the unit after it has a fetch and a clone to   *)
(* do first.  A gate is assumed to end by itself; RuntimeMaxSec, which     *)
(* ends it otherwise, is the fault "term".                                 *)
(***************************************************************************)
Fairness ==
  /\ \A p \in Submitters : SF_vars(SubmitLocks(p) \/ SubmitStep(p))
  /\ \A u \in Units : SF_vars(RunLocks(u) \/ RunStep(u))

FairSpec == Spec /\ Fairness

---------------------------------------------------------------------------
(* Correctness *)

SubmitLabels ==
  {"idle", "submitLock", "checkResult", "retryLock", "dropSrc", "dropResult", "dropJob",
   "checkJob", "repoLock", "fetch", "clone", "checkout", "pending", "launch",
   "saveError", "dropFailedSrc"}
RunLabels ==
  {"off", "start", "runLock", "checkRun", "slot", "config", "imageLock", "image", "build",
   "podman", "running", "cleanup", "finish", "publish", "save", "exit"}

TypeOK ==
  /\ jobFile \in [Jobs -> BOOLEAN]
  /\ result \in [Jobs -> Verdicts \cup {"none"}]
  /\ publicationError \in [Jobs -> BOOLEAN]
  /\ src \in [Jobs -> {"none", "cloned", "ready"}]
  /\ status \in [Jobs -> Verdicts \cup {"none", "pending"}]
  /\ cut \in [Jobs -> BOOLEAN]
  /\ container \in [Jobs -> {"none", "running", "stray"}]
  /\ image \in [Repos -> BOOLEAN]
  /\ submitLock \in [Jobs -> Submitters \cup {Free}]
  /\ runLock \in [Jobs -> Procs \cup {Free}]
  /\ repoLock \in [Repos -> Procs \cup {Free}]
  /\ slot \in [Slots -> Units \cup {Free}]
  /\ pc \in [Procs -> SubmitLabels \cup RunLabels]
  /\ \A p \in Submitters : pc[p] \in SubmitLabels
  /\ \A u \in Units : pc[u] \in RunLabels
  /\ job \in [Procs -> Jobs \cup {NoJob}]
  /\ \A p \in Procs : job[p] = NoJob <=> pc[p] \in {"idle", "off"}
  /\ verdict \in [Units -> Verdicts \cup {"raising"}]
  /\ \A u \in Units : verdict[u] = "raising" => pc[u] \in {"cleanup", "finish"}
  /\ unpublished \in [Units -> {"heard", "noted", "raised"}]
  /\ termed \subseteq Units

Alive(u) == pc[u] # "off"
Executing(u) == pc[u] \in RunLabels \ {"off", "start", "runLock"}

(* run.lock: even two units of one job never execute it together, whatever *)
(* dies or fails, and a resubmission never resets a job under a unit.      *)
OneExecution ==
  \A u \in Units : Executing(u) =>
    /\ \A v \in Units : Executing(v) /\ job[v] = job[u] => v = u
    /\ \A p \in Submitters : pc[p] \in {"dropSrc", "dropResult", "dropJob"} => job[p] # job[u]

(* Resubmitting a running SHA does not launch another job (readme.md):     *)
(* concurrent submits, retries and crashes of submit included.             *)
OneUnitPerJob ==
  \A u, v \in Units : Alive(u) /\ Alive(v) /\ job[u] = job[v] => u = v

(* A unit that has not run its gate yet has the whole checkout: no submit  *)
(* removes or replaces src/ under it, and none launches before checkout.   *)
FreshCheckout ==
  \A u \in Units :
    pc[u] \in RunLabels \ {"off", "finish", "publish", "save", "exit"} => src[job[u]] = "ready"

(* At most NUC_GATE_SLOTS gates run, and an interrupted one keeps its slot *)
(* until its container is stopped: the unit of a running container holds a *)
(* slot (each has one holder), until the unit dies or `podman rm` fails.   *)
SlotCoversContainer ==
  \A j \in Jobs : container[j] = "running" =>
    \E u \in Units : job[u] = j /\ \E s \in Slots : slot[s] = u

(* A cached verdict is the one GitHub shows, or result.json says that it   *)
(* is not, unless publish() raised what nobody catches.                    *)
GitHubAgrees ==
  \A j \in Jobs : result[j] \in {"success", "failure"} =>
    status[j] = result[j] \/ publicationError[j] \/ cut[j]

(* Looking an image up and building it are one critical section of the     *)
(* repository: no unit builds an image that another one has just built.    *)
NoDuplicateBuild ==
  \A u \in Units : pc[u] = "build" => ~image[RepoOf[job[u]]]

(* What submit and status call "running" has a process that will end it,   *)
(* unless that process died or raised what nobody catches.                 *)
NoLostJob ==
  \A j \in Jobs : jobFile[j] /\ result[j] = "none" =>
    \/ \E u \in Units : Alive(u) /\ job[u] = j
    \/ \E p \in Submitters : HasInHand(p) /\ job[p] = j
    \/ cut[j]

(* A success or a failure stays cached, and its GitHub status with it.     *)
VerdictIsFinal ==
  [][\A j \in Jobs : result[j] \in {"success", "failure"} =>
       result'[j] = result[j] /\ status'[j] = status[j]]_vars

(* A unit that executes its job does not end without a result.json for it, *)
(* however its gate, its cleanup or GitHub fails, unless it is killed or   *)
(* raises what nobody catches.                                             *)
EndsWithResult ==
  [][\A u \in Units :
       Executing(u) /\ ~Alive(u)' => result'[job[u]] # "none" \/ cut'[job[u]]]_vars

(* "A SIGTERM is recorded": a unit that has begun to execute its job never *)
(* ends without a result.json.  False for a SIGTERM after the gate.        *)
UnitLeavesResult ==
  [][\A u \in Units :
       Executing(u) /\ pc[u] # "checkRun" /\ ~Alive(u)' => result'[job[u]] # "none"]_vars

(* The job of one revision, as the clients see it.  While a resubmission   *)
(* is between its two unlinks, the old job is forgotten already.  A job    *)
(* that was cut short is "running" for its clients, for ever.              *)
Resetting(j) == \E p \in Submitters : pc[p] = "dropJob" /\ job[p] = j

phase == [j \in Jobs |->
  IF result[j] # "none" THEN result[j]
  ELSE IF ~jobFile[j] \/ Resetting(j) THEN "absent"
  ELSE IF cut[j] THEN "abandoned" ELSE "running"]

Abstract == INSTANCE GateJob WITH Jobs <- Jobs, phase <- phase, status <- status

(* The service implements GateJob: safety under every fault but ambiguous. *)
ImplementsSafety == Abstract!SafeSpec

(* ... and with its liveness: each accepted job concludes or was cut short *)
(* by a death or an exception that nobody catches.                         *)
ImplementsGateJob == Abstract!Spec

(* No lock order of submit and run, and no dead holder, blocks a submit.   *)
SubmitAnswers == \A p \in Submitters : pc[p] # "idle" ~> pc[p] = "idle"
===========================================================================
