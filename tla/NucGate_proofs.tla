--------------------------- MODULE NucGate_proofs ---------------------------
(***************************************************************************)
(* Proofs about NucGate, for every set of jobs, repositories, processes    *)
(* and slots.  The argument goes from the locks (LockInv) to what they     *)
(* protect: executions, slots (SlotInv), the one unit of a job (JobInv),   *)
(* its checkout (FreshInv), its verdict and the abstract job GateJob.      *)
(***************************************************************************)
EXTENDS NucGate, TLAPS

USE DEF Procs, Verdicts

(* Releasing the locks of a process keeps every lock free or held. *)
LEMMA WithoutType ==
  ASSUME NEW D, NEW S, NEW held \in [D -> S \cup {Free}], NEW p
  PROVE  Without(held, p) \in [D -> S \cup {Free}]
BY DEF Without

(* The history of attempts that were cut short keeps its type. *)
LEMMA CutType ==
  ASSUME TypeOK, NEW p \in Procs, job[p] \in Jobs, CutShort(p)
  PROVE  cut' \in [Jobs -> BOOLEAN]
<1>1. cut \in [Jobs -> BOOLEAN]
  BY DEF TypeOK
<1>2. (cut[job[p]] \/ result[job[p]] = "none") \in BOOLEAN
  OBVIOUS
<1> QED BY <1>1, <1>2, Zenon DEF CutShort

(* The first state, an empty state directory, has the types. *)
LEMMA TypeInit == Init => TypeOK
BY NamesAssumption DEF Init, TypeOK, SubmitLabels, RunLabels

(* A step of a submit process, or its end, keeps the types. *)
LEMMA TypeSubmit ==
  ASSUME TypeOK, NEW p \in Submitters, SubmitLocks(p) \/ SubmitStep(p) \/ Crash(p) \/ SubmitRaises(p)
  PROVE  TypeOK'
<1>0. ASSUME CutShort(p), pc[p] # "idle" PROVE cut' \in [Jobs -> BOOLEAN]
  <2>1. job[p] \in Jobs
    BY <1>0 DEF TypeOK, SubmitLabels
  <2> QED BY <1>0, <2>1, CutType
<1> USE NamesAssumption, RepoAssumption DEF TypeOK, files, world, locks, local, Step, Goto,
    Ends, SubmitLabels, RunLabels
<1>1. CASE CheckCached(p) BY <1>1, WithoutType DEF CheckCached
<1>2. CASE CheckResult(p) BY <1>2 DEF CheckResult
<1>3. CASE DropSrc(p) BY <1>3 DEF DropSrc
<1>4. CASE DropResult(p) BY <1>4 DEF DropResult
<1>5. CASE DropJob(p) BY <1>5, WithoutType DEF DropJob
<1>6. CASE CheckRunning(p) BY <1>6, WithoutType DEF CheckRunning
<1>7. CASE SaveJob(p) BY <1>7 DEF SaveJob
<1>8. CASE Fetch(p) BY <1>8 DEF Fetch
<1>9. CASE Clone(p) BY <1>9 DEF Clone
<1>10. CASE Checkout(p) BY <1>10, WithoutType DEF Checkout
<1>11. CASE GitFails(p) BY <1>11, WithoutType DEF GitFails
<1>12. CASE Pending(p) BY <1>12 DEF Pending
<1>13. CASE LaunchFails(p) BY <1>13 DEF LaunchFails
<1>14. CASE SaveError(p) BY <1>14 DEF SaveError
<1>15. CASE DropFailedSrc(p) BY <1>15, WithoutType DEF DropFailedSrc
<1>16. CASE LockSubmit(p) BY <1>16 DEF LockSubmit, Acquire
<1>17. CASE LockRetry(p) BY <1>17 DEF LockRetry, Acquire
<1>18. CASE LockMirror(p) BY <1>18 DEF LockMirror, Acquire
<1>19. CASE Crash(p)
  <2>1. cut' \in [Jobs -> BOOLEAN]
    BY <1>0, <1>19 DEF Crash
  <2> QED BY <1>19, <2>1, WithoutType DEF Crash
<1>20. ASSUME NEW u \in Units, Launch(p, u) PROVE TypeOK'
  BY <1>20, WithoutType DEF Launch
<1>21. CASE SubmitRaises(p)
  <2>1. cut' \in [Jobs -> BOOLEAN]
    BY <1>0, <1>21 DEF SubmitRaises
  <2> QED BY <1>21, <2>1, WithoutType DEF SubmitRaises
<1> QED BY <1>1, <1>2, <1>3, <1>4, <1>5, <1>6, <1>7, <1>8, <1>9, <1>10, <1>11, <1>12, <1>13,
    <1>14, <1>15, <1>16, <1>17, <1>18, <1>19, <1>20, <1>21 DEF SubmitStep, SubmitLocks, RunStep,
    RunLocks, UnitFault

(* A step of a unit, or a fault that hits it, keeps the types. *)
LEMMA TypeRun ==
  ASSUME TypeOK, NEW u \in Units, RunLocks(u) \/ RunStep(u) \/ UnitFault(u)
  PROVE  TypeOK'
<1>0. ASSUME CutShort(u), pc[u] # "off" PROVE cut' \in [Jobs -> BOOLEAN]
  <2>1. job[u] \in Jobs
    BY <1>0 DEF TypeOK, RunLabels
  <2> QED BY <1>0, <2>1, CutType
<1>a. /\ Without(submitLock, u) \in [Jobs -> Submitters \cup {Free}]
      /\ Without(runLock, u) \in [Jobs -> Procs \cup {Free}]
      /\ Without(repoLock, u) \in [Repos -> Procs \cup {Free}]
      /\ Without(slot, u) \in [Slots -> Units \cup {Free}]
  BY WithoutType DEF TypeOK
<1> USE NamesAssumption, RepoAssumption DEF TypeOK, files, world, locks, local, Step, Goto,
    Ends, SubmitLabels, RunLabels
<1>1. CASE ReadJob(u) BY <1>1 DEF ReadJob
<1>2. CASE NoJobFile(u) BY <1>2, <1>a DEF NoJobFile, UnitEnds
<1>3. CASE AlreadyFinished(u) BY <1>3, <1>a DEF AlreadyFinished, UnitEnds
<1>4. CASE Begin(u) BY <1>4 DEF Begin
<1>5. CASE ReadConfig(u) BY <1>5 DEF ReadConfig
<1>6. CASE UseImage(u) BY <1>6, <1>a DEF UseImage
<1>7. CASE BuildImage(u) BY <1>7 DEF BuildImage
<1>8. CASE ImageBuilt(u) BY <1>8, <1>a DEF ImageBuilt
<1>9. CASE StartContainer(u) BY <1>9 DEF StartContainer
<1>10. CASE InfrastructureFails(u) BY <1>10, <1>a DEF InfrastructureFails
<1>11. CASE ContainerExits(u) BY <1>11 DEF ContainerExits
<1>12. CASE ClientLost(u) BY <1>12 DEF ClientLost
<1>13. CASE Cleanup(u) BY <1>13, <1>a DEF Cleanup
<1>14. CASE Finish(u) BY <1>14 DEF Finish
<1>15. CASE Publish(u) BY <1>15 DEF Publish
<1>16. CASE PublishFails(u) BY <1>16 DEF PublishFails
<1>17. CASE SaveResult(u) BY <1>17 DEF SaveResult
<1>18. CASE Exit(u) BY <1>18, <1>a DEF Exit, UnitEnds
<1>19. CASE LockRun(u) BY <1>19 DEF LockRun, Acquire
<1>20. CASE TakeSlot(u) BY <1>20 DEF TakeSlot, Acquire
<1>21. CASE LockImage(u) BY <1>21 DEF LockImage, Acquire
<1>22. CASE CleanupFails(u) BY <1>22, <1>a DEF CleanupFails, LeavesStray
<1>23. CASE TermWaiting(u) BY <1>23 DEF TermWaiting, Term
<1>24. CASE TermExecuting(u) BY <1>24, <1>a DEF TermExecuting, Term
<1>25. CASE TermRunning(u) BY <1>25 DEF TermRunning, Term
<1>26. CASE TermCleanup(u) BY <1>26, <1>a DEF TermCleanup, Term, LeavesStray
<1>27. CASE TermKills(u)
  <2>1. cut' \in [Jobs -> BOOLEAN]
    BY <1>0, <1>27 DEF TermKills
  <2> QED BY <1>27, <2>1, <1>a DEF TermKills, UnitEnds
<1>28. CASE Kill(u)
  <2>1. cut' \in [Jobs -> BOOLEAN]
    BY <1>0, <1>28 DEF Kill
  <2> QED BY <1>28, <2>1, <1>a DEF Kill, LeavesStray, UnitEnds
<1>29. CASE SlotFails(u) BY <1>29 DEF SlotFails
<1>30. CASE ConfigRaises(u) BY <1>30 DEF ConfigRaises
<1>31. CASE FinishRaises(u)
  <2>1. cut' \in [Jobs -> BOOLEAN]
    BY <1>0, <1>31 DEF FinishRaises
  <2> QED BY <1>31, <2>1, <1>a DEF FinishRaises, UnitEnds
<1>32. CASE RunRaises(u)
  <2>1. cut' \in [Jobs -> BOOLEAN]
    BY <1>0, <1>32 DEF RunRaises
  <2> QED BY <1>32, <2>1, <1>a DEF RunRaises, UnitEnds
<1>33. CASE PublishRaises(u) BY <1>33 DEF PublishRaises
<1> QED BY <1>1, <1>2, <1>3, <1>4, <1>5, <1>6, <1>7, <1>8, <1>9, <1>10, <1>11, <1>12, <1>13,
    <1>14, <1>15, <1>16, <1>17, <1>18, <1>19, <1>20, <1>21, <1>22, <1>23, <1>24, <1>25, <1>26,
    <1>27, <1>28, <1>29, <1>30, <1>31, <1>32, <1>33 DEF SubmitStep, SubmitLocks, RunStep, RunLocks, UnitFault

(* Every step of the service keeps the types. *)
LEMMA TypeNext == TypeOK /\ [Next]_vars => TypeOK'
<1> SUFFICES ASSUME TypeOK, [Next]_vars PROVE TypeOK'
  OBVIOUS
<1> USE NamesAssumption DEF files, world, locks, local
<1>1. ASSUME NEW p \in Submitters, NEW j \in Jobs, Call(p, j) PROVE TypeOK'
  BY <1>1 DEF TypeOK, Call, Step, Goto, SubmitLabels, RunLabels
<1>2. ASSUME NEW p \in Submitters, NEW u \in Units, LaunchAmbiguous(p, u) PROVE TypeOK'
  BY <1>2 DEF TypeOK, LaunchAmbiguous, SubmitLabels, RunLabels
<1>3. ASSUME NEW j \in Jobs, OrphanStops(j) PROVE TypeOK'
  BY <1>3 DEF TypeOK, OrphanStops
<1>4. CASE UNCHANGED vars
  BY <1>4 DEF TypeOK, vars
<1> QED BY <1>1, <1>2, <1>3, <1>4, TypeSubmit, TypeRun DEF Next

(* Types hold for every number of jobs, processes, slots and every fault. *)
THEOREM TypeCorrect == Spec => []TypeOK
<1>1. QED BY TypeInit, TypeNext, PTL DEF Spec

---------------------------------------------------------------------------
(* flock: a process that is past its lock() still owns the lock file.      *)
LockInv ==
  /\ \A u \in Units : Executing(u) => runLock[job[u]] = u
  /\ \A p \in Submitters :
       /\ pc[p] \in {"dropSrc", "dropResult", "dropJob"} => runLock[job[p]] = p
       /\ pc[p] \notin {"idle", "submitLock"} => submitLock[job[p]] = p

(* A submit takes, keeps and drops its locks where LockInv says. *)
LEMMA LockSubmitStep ==
  ASSUME TypeOK, LockInv, NEW p \in Submitters, SubmitLocks(p) \/ SubmitStep(p) \/ Crash(p) \/ SubmitRaises(p)
  PROVE  LockInv'
<1> USE NamesAssumption DEF TypeOK, files, world, locks, local, Step, Goto, Ends, Without,
    SubmitLabels, RunLabels, LockInv, Executing
<1>1. CASE CheckCached(p) BY <1>1 DEF CheckCached
<1>2. CASE CheckResult(p) BY <1>2 DEF CheckResult
<1>3. CASE DropSrc(p) BY <1>3 DEF DropSrc
<1>4. CASE DropResult(p) BY <1>4 DEF DropResult
<1>5. CASE DropJob(p) BY <1>5 DEF DropJob
<1>6. CASE CheckRunning(p) BY <1>6 DEF CheckRunning
<1>7. CASE SaveJob(p) BY <1>7 DEF SaveJob
<1>8. CASE Fetch(p) BY <1>8 DEF Fetch
<1>9. CASE Clone(p) BY <1>9 DEF Clone
<1>10. CASE Checkout(p) BY <1>10 DEF Checkout
<1>11. CASE GitFails(p) BY <1>11 DEF GitFails
<1>12. CASE Pending(p) BY <1>12 DEF Pending
<1>13. CASE LaunchFails(p) BY <1>13 DEF LaunchFails
<1>14. CASE SaveError(p) BY <1>14 DEF SaveError
<1>15. CASE DropFailedSrc(p) BY <1>15 DEF DropFailedSrc
<1>16. CASE LockSubmit(p) BY <1>16 DEF LockSubmit, Acquire
<1>17. CASE LockRetry(p) BY <1>17 DEF LockRetry, Acquire
<1>18. CASE LockMirror(p) BY <1>18 DEF LockMirror, Acquire
<1>19. CASE Crash(p) BY <1>19 DEF Crash, CutShort, HasInHand
<1>20. ASSUME NEW u \in Units, Launch(p, u) PROVE LockInv'
  BY <1>20 DEF Launch
<1>21. CASE SubmitRaises(p) BY <1>21 DEF SubmitRaises, CutShort
<1> QED BY <1>1, <1>2, <1>3, <1>4, <1>5, <1>6, <1>7, <1>8, <1>9, <1>10, <1>11, <1>12, <1>13,
    <1>14, <1>15, <1>16, <1>17, <1>18, <1>19, <1>20, <1>21 DEF SubmitStep, SubmitLocks, RunStep,
    RunLocks, UnitFault

(* ... and so does a unit, whatever hits it. *)
LEMMA LockRunStep ==
  ASSUME TypeOK, LockInv, NEW u \in Units, RunLocks(u) \/ RunStep(u) \/ UnitFault(u)
  PROVE  LockInv'
<1> USE NamesAssumption DEF TypeOK, files, world, locks, local, Step, Goto, Ends, Without,
    SubmitLabels, RunLabels, LockInv, Executing
<1>1. CASE ReadJob(u) BY <1>1 DEF ReadJob
<1>2. CASE NoJobFile(u) BY <1>2 DEF NoJobFile, UnitEnds
<1>3. CASE AlreadyFinished(u) BY <1>3 DEF AlreadyFinished, UnitEnds
<1>4. CASE Begin(u) BY <1>4 DEF Begin
<1>5. CASE ReadConfig(u) BY <1>5 DEF ReadConfig
<1>6. CASE UseImage(u) BY <1>6 DEF UseImage
<1>7. CASE BuildImage(u) BY <1>7 DEF BuildImage
<1>8. CASE ImageBuilt(u) BY <1>8 DEF ImageBuilt
<1>9. CASE StartContainer(u) BY <1>9 DEF StartContainer
<1>10. CASE InfrastructureFails(u) BY <1>10 DEF InfrastructureFails
<1>11. CASE ContainerExits(u) BY <1>11 DEF ContainerExits
<1>12. CASE ClientLost(u) BY <1>12 DEF ClientLost
<1>13. CASE Cleanup(u) BY <1>13 DEF Cleanup
<1>14. CASE Finish(u) BY <1>14 DEF Finish
<1>15. CASE Publish(u) BY <1>15 DEF Publish
<1>16. CASE PublishFails(u) BY <1>16 DEF PublishFails
<1>17. CASE SaveResult(u) BY <1>17 DEF SaveResult
<1>18. CASE Exit(u) BY <1>18 DEF Exit, UnitEnds
<1>19. CASE LockRun(u) BY <1>19 DEF LockRun, Acquire
<1>20. CASE TakeSlot(u) BY <1>20 DEF TakeSlot, Acquire
<1>21. CASE LockImage(u) BY <1>21 DEF LockImage, Acquire
<1>22. CASE CleanupFails(u) BY <1>22 DEF CleanupFails, LeavesStray
<1>23. CASE TermWaiting(u) BY <1>23 DEF TermWaiting, Term
<1>24. CASE TermExecuting(u) BY <1>24 DEF TermExecuting, Term
<1>25. CASE TermRunning(u) BY <1>25 DEF TermRunning, Term
<1>26. CASE TermCleanup(u) BY <1>26 DEF TermCleanup, Term, LeavesStray
<1>27. CASE TermKills(u) BY <1>27 DEF TermKills, CutShort, UnitEnds
<1>28. CASE Kill(u) BY <1>28 DEF Kill, LeavesStray, CutShort, UnitEnds
<1>29. CASE SlotFails(u) BY <1>29 DEF SlotFails
<1>30. CASE ConfigRaises(u) BY <1>30 DEF ConfigRaises
<1>31. CASE FinishRaises(u) BY <1>31 DEF FinishRaises, CutShort, UnitEnds
<1>32. CASE RunRaises(u) BY <1>32 DEF RunRaises, CutShort, UnitEnds
<1>33. CASE PublishRaises(u) BY <1>33 DEF PublishRaises
<1> QED BY <1>1, <1>2, <1>3, <1>4, <1>5, <1>6, <1>7, <1>8, <1>9, <1>10, <1>11, <1>12, <1>13,
    <1>14, <1>15, <1>16, <1>17, <1>18, <1>19, <1>20, <1>21, <1>22, <1>23, <1>24, <1>25, <1>26,
    <1>27, <1>28, <1>29, <1>30, <1>31, <1>32, <1>33 DEF SubmitStep, SubmitLocks, RunStep, RunLocks, UnitFault

(* Every step of the service keeps LockInv: flock, and nothing else. *)
LEMMA LockNext == TypeOK /\ LockInv /\ [Next]_vars => LockInv'
<1> SUFFICES ASSUME TypeOK, LockInv, [Next]_vars PROVE LockInv'
  OBVIOUS
<1> USE NamesAssumption DEF TypeOK, LockInv, Executing, files, world, locks, local
<1>1. ASSUME NEW p \in Submitters, NEW j \in Jobs, Call(p, j) PROVE LockInv'
  BY <1>1 DEF Call, Step, Goto
<1>2. ASSUME NEW p \in Submitters, NEW u \in Units, LaunchAmbiguous(p, u) PROVE LockInv'
  BY <1>2 DEF LaunchAmbiguous
<1>3. ASSUME NEW j \in Jobs, OrphanStops(j) PROVE LockInv'
  BY <1>3 DEF OrphanStops
<1>4. CASE UNCHANGED vars
  BY <1>4 DEF vars
<1> QED BY <1>1, <1>2, <1>3, <1>4, LockSubmitStep, LockRunStep DEF Next

(* The invariants of types and locks hold together in every state. *)
LEMMA LockInvariant == Spec => [](TypeOK /\ LockInv)
<1>1. Init => LockInv
  BY NamesAssumption DEF Init, LockInv, Executing, RunLabels
<1>2. TypeOK /\ LockInv /\ [Next]_vars => (TypeOK /\ LockInv)'
  BY TypeNext, LockNext
<1> QED BY <1>1, <1>2, TypeInit, PTL DEF Spec

(* Whatever dies or fails, and however often a revision is submitted, two  *)
(* units never execute one job together and no submit resets it meanwhile. *)
THEOREM OneExecutionTheorem == Spec => []OneExecution
<1>1. TypeOK /\ LockInv => OneExecution
  BY NamesAssumption DEF TypeOK, LockInv, OneExecution, Executing
<1> QED BY <1>1, LockInvariant, PTL

---------------------------------------------------------------------------
(* Slots: a running container that is no stray is looked after by a unit   *)
(* between slot() and the end of it.                                       *)
SlotInv ==
  /\ \A u \in Units :
       pc[u] \in {"config", "imageLock", "image", "build", "podman", "running", "cleanup"} =>
         \E s \in Slots : slot[s] = u
  /\ \A j \in Jobs : container[j] = "running" =>
       \E u \in Units : job[u] = j /\ pc[u] \in {"running", "cleanup"}

(* No submit touches a slot or a container. *)
LEMMA SlotSubmitStep ==
  ASSUME TypeOK, SlotInv, NEW p \in Submitters, SubmitLocks(p) \/ SubmitStep(p)
      \/ Crash(p) \/ SubmitRaises(p)
  PROVE  SlotInv'
<1> USE NamesAssumption DEF TypeOK, files, world, locks, local, Step, Goto, Ends, Without,
    SubmitLabels, RunLabels, SlotInv
<1>1. CASE CheckCached(p) BY <1>1 DEF CheckCached
<1>2. CASE CheckResult(p) BY <1>2 DEF CheckResult
<1>3. CASE DropSrc(p) BY <1>3 DEF DropSrc
<1>4. CASE DropResult(p) BY <1>4 DEF DropResult
<1>5. CASE DropJob(p) BY <1>5 DEF DropJob
<1>6. CASE CheckRunning(p) BY <1>6 DEF CheckRunning
<1>7. CASE SaveJob(p) BY <1>7 DEF SaveJob
<1>8. CASE Fetch(p) BY <1>8 DEF Fetch
<1>9. CASE Clone(p) BY <1>9 DEF Clone
<1>10. CASE Checkout(p) BY <1>10 DEF Checkout
<1>11. CASE GitFails(p) BY <1>11 DEF GitFails
<1>12. CASE Pending(p) BY <1>12 DEF Pending
<1>13. CASE LaunchFails(p) BY <1>13 DEF LaunchFails
<1>14. CASE SaveError(p) BY <1>14 DEF SaveError
<1>15. CASE DropFailedSrc(p) BY <1>15 DEF DropFailedSrc
<1>16. CASE LockSubmit(p) BY <1>16 DEF LockSubmit, Acquire
<1>17. CASE LockRetry(p) BY <1>17 DEF LockRetry, Acquire
<1>18. CASE LockMirror(p) BY <1>18 DEF LockMirror, Acquire
<1>19. CASE Crash(p) BY <1>19 DEF Crash, CutShort, HasInHand
<1>20. ASSUME NEW u \in Units, Launch(p, u) PROVE SlotInv'
  BY <1>20 DEF Launch
<1>21. CASE SubmitRaises(p) BY <1>21 DEF SubmitRaises, CutShort
<1> QED BY <1>1, <1>2, <1>3, <1>4, <1>5, <1>6, <1>7, <1>8, <1>9, <1>10, <1>11, <1>12, <1>13,
    <1>14, <1>15, <1>16, <1>17, <1>18, <1>19, <1>20, <1>21 DEF SubmitStep, SubmitLocks, RunStep,
    RunLocks, UnitFault

(* A unit takes its slot before the container starts, and removes first. *)
LEMMA SlotRunStep ==
  ASSUME TypeOK, SlotInv, NEW u \in Units, RunLocks(u) \/ RunStep(u) \/ UnitFault(u)
  PROVE  SlotInv'
<1> USE NamesAssumption DEF TypeOK, files, world, locks, local, Step, Goto, Ends, Without,
    SubmitLabels, RunLabels, SlotInv
<1>1. CASE ReadJob(u) BY <1>1 DEF ReadJob
<1>2. CASE NoJobFile(u) BY <1>2 DEF NoJobFile, UnitEnds
<1>3. CASE AlreadyFinished(u) BY <1>3 DEF AlreadyFinished, UnitEnds
<1>4. CASE Begin(u) BY <1>4 DEF Begin
<1>5. CASE ReadConfig(u) BY <1>5 DEF ReadConfig
<1>6. CASE UseImage(u) BY <1>6 DEF UseImage
<1>7. CASE BuildImage(u) BY <1>7 DEF BuildImage
<1>8. CASE ImageBuilt(u) BY <1>8 DEF ImageBuilt
<1>9. CASE StartContainer(u) BY <1>9 DEF StartContainer
<1>10. CASE InfrastructureFails(u) BY <1>10 DEF InfrastructureFails
<1>11. CASE ContainerExits(u) BY <1>11 DEF ContainerExits
<1>12. CASE ClientLost(u) BY <1>12 DEF ClientLost
<1>13. CASE Cleanup(u) BY <1>13 DEF Cleanup
<1>14. CASE Finish(u) BY <1>14 DEF Finish
<1>15. CASE Publish(u) BY <1>15 DEF Publish
<1>16. CASE PublishFails(u) BY <1>16 DEF PublishFails
<1>17. CASE SaveResult(u) BY <1>17 DEF SaveResult
<1>18. CASE Exit(u) BY <1>18 DEF Exit, UnitEnds
<1>19. CASE LockRun(u) BY <1>19 DEF LockRun, Acquire
<1>20. CASE TakeSlot(u) BY <1>20 DEF TakeSlot, Acquire
<1>21. CASE LockImage(u) BY <1>21 DEF LockImage, Acquire
<1>22. CASE CleanupFails(u) BY <1>22 DEF CleanupFails, LeavesStray
<1>23. CASE TermWaiting(u) BY <1>23 DEF TermWaiting, Term
<1>24. CASE TermExecuting(u) BY <1>24 DEF TermExecuting, Term
<1>25. CASE TermRunning(u) BY <1>25 DEF TermRunning, Term
<1>26. CASE TermCleanup(u) BY <1>26 DEF TermCleanup, Term, LeavesStray
<1>27. CASE TermKills(u) BY <1>27 DEF TermKills, CutShort, UnitEnds
<1>28. CASE Kill(u) BY <1>28 DEF Kill, LeavesStray, CutShort, UnitEnds
<1>29. CASE SlotFails(u) BY <1>29 DEF SlotFails
<1>30. CASE ConfigRaises(u) BY <1>30 DEF ConfigRaises
<1>31. CASE FinishRaises(u) BY <1>31 DEF FinishRaises, CutShort, UnitEnds
<1>32. CASE RunRaises(u) BY <1>32 DEF RunRaises, CutShort, UnitEnds
<1>33. CASE PublishRaises(u) BY <1>33 DEF PublishRaises
<1> QED BY <1>1, <1>2, <1>3, <1>4, <1>5, <1>6, <1>7, <1>8, <1>9, <1>10, <1>11, <1>12, <1>13,
    <1>14, <1>15, <1>16, <1>17, <1>18, <1>19, <1>20, <1>21, <1>22, <1>23, <1>24, <1>25, <1>26,
    <1>27, <1>28, <1>29, <1>30, <1>31, <1>32, <1>33 DEF SubmitStep, SubmitLocks, RunStep, RunLocks, UnitFault

(* Every step keeps SlotInv, those that kill a unit or fail to remove too. *)
LEMMA SlotNext ==
  ASSUME TypeOK, SlotInv, [Next]_vars
  PROVE  SlotInv'
<1> USE NamesAssumption DEF TypeOK, SlotInv, files, world, locks, local
<1>1. ASSUME NEW p \in Submitters, NEW j \in Jobs, Call(p, j) PROVE SlotInv'
  BY <1>1 DEF Call, Step, Goto
<1>2. ASSUME NEW p \in Submitters, NEW u \in Units, LaunchAmbiguous(p, u) PROVE SlotInv'
  BY <1>2 DEF LaunchAmbiguous
<1>3. ASSUME NEW j \in Jobs, OrphanStops(j) PROVE SlotInv'
  BY <1>3 DEF OrphanStops
<1>4. CASE UNCHANGED vars
  BY <1>4 DEF vars
<1> QED BY <1>1, <1>2, <1>3, <1>4, SlotSubmitStep, SlotRunStep DEF Next

(* Interrupted by SIGTERM, failing or raising, a unit keeps its slot until *)
(* its container is stopped.  More gates run than slots exist only through *)
(* strays: a unit was killed, or `podman rm` failed or was interrupted.    *)
THEOREM SlotTheorem == Spec => []SlotCoversContainer
<1>1. Init => SlotInv
  BY NamesAssumption DEF Init, SlotInv
<1>2. TypeOK /\ SlotInv /\ [Next]_vars => (TypeOK /\ SlotInv)'
  BY SlotNext, TypeNext
<1>3. SlotInv => SlotCoversContainer
  BY DEF SlotInv, SlotCoversContainer
<1> QED BY <1>1, <1>2, <1>3, TypeInit, PTL DEF Spec

---------------------------------------------------------------------------
(* Jobs: when systemd-run tells the truth, files, units and submits agree. *)
LaunchesReport == "ambiguous" \notin Faults

Launching(p) ==
  pc[p] \in {"repoLock", "fetch", "clone", "checkout", "pending", "launch", "saveError"}

JobInv ==
  /\ \A j \in Jobs : result[j] # "none" => jobFile[j]
  /\ OneUnitPerJob
  /\ \A u \in Units : Alive(u) =>
       /\ jobFile[job[u]]
       /\ pc[u] = "exit" => result[job[u]] # "none"
       /\ pc[u] # "exit" => result[job[u]] = "none" /\ ~cut[job[u]]
       /\ \A p \in Submitters : job[p] = job[u] =>
            ~Launching(p) /\ pc[p] \notin {"dropSrc", "dropResult", "dropJob", "dropFailedSrc"}
  /\ \A p \in Submitters :
       /\ pc[p] \in {"retryLock", "dropSrc", "dropResult", "dropFailedSrc"} => result[job[p]] =
           "error"
       /\ Launching(p) \/ pc[p] = "dropJob" => result[job[p]] = "none" /\ jobFile[job[p]]
       /\ Launching(p) => ~cut[job[p]]

(* A submit launches only a job that no unit works for. *)
LEMMA JobSubmitStep ==
  ASSUME TypeOK, LockInv, JobInv, LaunchesReport, NEW p \in Submitters, SubmitLocks(p) \/
      SubmitStep(p) \/ Crash(p) \/ SubmitRaises(p)
  PROVE  JobInv'
<1> USE NamesAssumption DEF TypeOK, LaunchesReport, files, world, locks, local, Step, Goto,
    Ends, Without, SubmitLabels, RunLabels, LockInv, Executing, JobInv, Alive, OneUnitPerJob,
    Launching
<1>1. CASE CheckCached(p) BY <1>1 DEF CheckCached
<1>2. CASE CheckResult(p) BY <1>2 DEF CheckResult
<1>3. CASE DropSrc(p) BY <1>3 DEF DropSrc
<1>4. CASE DropResult(p) BY <1>4 DEF DropResult
<1>5. CASE DropJob(p) BY <1>5 DEF DropJob
<1>6. CASE CheckRunning(p) BY <1>6 DEF CheckRunning
<1>7. CASE SaveJob(p) BY <1>7 DEF SaveJob
<1>8. CASE Fetch(p) BY <1>8 DEF Fetch
<1>9. CASE Clone(p) BY <1>9 DEF Clone
<1>10. CASE Checkout(p) BY <1>10 DEF Checkout
<1>11. CASE GitFails(p) BY <1>11 DEF GitFails
<1>12. CASE Pending(p) BY <1>12 DEF Pending
<1>13. CASE LaunchFails(p) BY <1>13 DEF LaunchFails
<1>14. CASE SaveError(p) BY <1>14 DEF SaveError
<1>15. CASE DropFailedSrc(p) BY <1>15 DEF DropFailedSrc
<1>16. CASE LockSubmit(p) BY <1>16 DEF LockSubmit, Acquire
<1>17. CASE LockRetry(p) BY <1>17 DEF LockRetry, Acquire
<1>18. CASE LockMirror(p) BY <1>18 DEF LockMirror, Acquire
<1>19. CASE Crash(p)
  <2>1. CASE ~HasInHand(p) BY <1>19, <2>1 DEF Crash
  <2>2. CASE HasInHand(p) BY <1>19, <2>2 DEF Crash, CutShort, HasInHand
  <2> QED BY <2>1, <2>2
<1>20. ASSUME NEW u \in Units, Launch(p, u) PROVE JobInv'
  BY <1>20 DEF Launch
<1>21. CASE SubmitRaises(p) BY <1>21 DEF SubmitRaises, CutShort
<1> QED BY <1>1, <1>2, <1>3, <1>4, <1>5, <1>6, <1>7, <1>8, <1>9, <1>10, <1>11, <1>12, <1>13,
    <1>14, <1>15, <1>16, <1>17, <1>18, <1>19, <1>20, <1>21 DEF SubmitStep, SubmitLocks, RunStep,
    RunLocks, UnitFault

(* A unit ends its job only once, and only its own. *)
LEMMA JobRunStep ==
  ASSUME TypeOK, LockInv, JobInv, LaunchesReport, NEW u \in Units, RunLocks(u) \/ RunStep(u) \/
      UnitFault(u)
  PROVE  JobInv'
<1> USE NamesAssumption DEF TypeOK, LaunchesReport, files, world, locks, local, Step, Goto,
    Ends, Without, SubmitLabels, RunLabels, LockInv, Executing, JobInv, Alive, OneUnitPerJob,
    Launching
<1>1. CASE ReadJob(u) BY <1>1 DEF ReadJob
<1>2. CASE NoJobFile(u) BY <1>2 DEF NoJobFile, UnitEnds
<1>3. CASE AlreadyFinished(u) BY <1>3 DEF AlreadyFinished, UnitEnds
<1>4. CASE Begin(u) BY <1>4 DEF Begin
<1>5. CASE ReadConfig(u) BY <1>5 DEF ReadConfig
<1>6. CASE UseImage(u) BY <1>6 DEF UseImage
<1>7. CASE BuildImage(u) BY <1>7 DEF BuildImage
<1>8. CASE ImageBuilt(u) BY <1>8 DEF ImageBuilt
<1>9. CASE StartContainer(u) BY <1>9 DEF StartContainer
<1>10. CASE InfrastructureFails(u) BY <1>10 DEF InfrastructureFails
<1>11. CASE ContainerExits(u) BY <1>11 DEF ContainerExits
<1>12. CASE ClientLost(u) BY <1>12 DEF ClientLost
<1>13. CASE Cleanup(u) BY <1>13 DEF Cleanup
<1>14. CASE Finish(u) BY <1>14 DEF Finish
<1>15. CASE Publish(u) BY <1>15 DEF Publish
<1>16. CASE PublishFails(u) BY <1>16 DEF PublishFails
<1>17. CASE SaveResult(u) BY <1>17 DEF SaveResult
<1>18. CASE Exit(u) BY <1>18 DEF Exit, UnitEnds
<1>19. CASE LockRun(u) BY <1>19 DEF LockRun, Acquire
<1>20. CASE TakeSlot(u) BY <1>20 DEF TakeSlot, Acquire
<1>21. CASE LockImage(u) BY <1>21 DEF LockImage, Acquire
<1>22. CASE CleanupFails(u) BY <1>22 DEF CleanupFails, LeavesStray
<1>23. CASE TermWaiting(u) BY <1>23 DEF TermWaiting, Term
<1>24. CASE TermExecuting(u) BY <1>24 DEF TermExecuting, Term
<1>25. CASE TermRunning(u) BY <1>25 DEF TermRunning, Term
<1>26. CASE TermCleanup(u) BY <1>26 DEF TermCleanup, Term, LeavesStray
<1>27. CASE TermKills(u) BY <1>27 DEF TermKills, CutShort, UnitEnds
<1>28. CASE Kill(u) BY <1>28 DEF Kill, LeavesStray, CutShort, UnitEnds
<1>29. CASE SlotFails(u) BY <1>29 DEF SlotFails
<1>30. CASE ConfigRaises(u) BY <1>30 DEF ConfigRaises
<1>31. CASE FinishRaises(u) BY <1>31 DEF FinishRaises, CutShort, UnitEnds
<1>32. CASE RunRaises(u) BY <1>32 DEF RunRaises, CutShort, UnitEnds
<1>33. CASE PublishRaises(u) BY <1>33 DEF PublishRaises
<1> QED BY <1>1, <1>2, <1>3, <1>4, <1>5, <1>6, <1>7, <1>8, <1>9, <1>10, <1>11, <1>12, <1>13,
    <1>14, <1>15, <1>16, <1>17, <1>18, <1>19, <1>20, <1>21, <1>22, <1>23, <1>24, <1>25, <1>26,
    <1>27, <1>28, <1>29, <1>30, <1>31, <1>32, <1>33 DEF SubmitStep, SubmitLocks, RunStep, RunLocks, UnitFault

(* Every step keeps JobInv while systemd-run tells what it did. *)
LEMMA JobNext ==
  ASSUME TypeOK, LockInv, JobInv, LaunchesReport, [Next]_vars
  PROVE  JobInv'
<1> USE NamesAssumption DEF TypeOK, JobInv, LockInv, Executing, Alive, OneUnitPerJob, Launching,
    LaunchesReport, files, world, locks, local
<1>1. ASSUME NEW p \in Submitters, NEW j \in Jobs, Call(p, j) PROVE JobInv'
  BY <1>1 DEF Call, Step, Goto
<1>2. ASSUME NEW p \in Submitters, NEW u \in Units, LaunchAmbiguous(p, u) PROVE JobInv'
  BY <1>2 DEF LaunchAmbiguous
<1>3. ASSUME NEW j \in Jobs, OrphanStops(j) PROVE JobInv'
  BY <1>3 DEF OrphanStops
<1>4. CASE UNCHANGED vars
  BY <1>4 DEF vars
<1> QED BY <1>1, <1>2, <1>3, <1>4, JobSubmitStep, JobRunStep DEF Next

(* JobInv holds in every state, on top of the types and the locks. *)
LEMMA JobInvariant ==
  ASSUME LaunchesReport
  PROVE  Spec => [](TypeOK /\ LockInv /\ JobInv)
<1>1. Init => JobInv
  BY NamesAssumption DEF Init, JobInv, OneUnitPerJob, Alive, Launching
<1>2. TypeOK /\ LockInv /\ JobInv /\ [Next]_vars => JobInv'
  BY JobNext
<1> QED BY <1>1, <1>2, LockInvariant, PTL DEF Spec

(* However many submits race, crash and retry, a job has one unit at most. *)
THEOREM OneUnitTheorem ==
  ASSUME LaunchesReport
  PROVE  Spec => []OneUnitPerJob
<1>1. JobInv => OneUnitPerJob
  BY DEF JobInv
<1> QED BY <1>1, JobInvariant, PTL

---------------------------------------------------------------------------
(* The checkout: ready from the checkout of the submit until the unit's    *)
(* own cleanup.                                                            *)
FreshInv ==
  /\ FreshCheckout
  /\ \A p \in Submitters : pc[p] \in {"pending", "launch"} => src[job[p]] = "ready"

(* A submit drops or clones a checkout only while no unit needs it. *)
LEMMA FreshSubmitStep ==
  ASSUME TypeOK, LockInv, JobInv, FreshInv, LaunchesReport, NEW p \in Submitters, SubmitLocks(p)
      \/ SubmitStep(p) \/ Crash(p) \/ SubmitRaises(p)
  PROVE  FreshInv'
<1> USE NamesAssumption DEF TypeOK, LaunchesReport, files, world, locks, local, Step, Goto,
    Ends, Without, SubmitLabels, RunLabels, LockInv, Executing, JobInv, Alive, OneUnitPerJob,
    Launching, FreshInv, FreshCheckout
<1>1. CASE CheckCached(p) BY <1>1 DEF CheckCached
<1>2. CASE CheckResult(p) BY <1>2 DEF CheckResult
<1>3. CASE DropSrc(p) BY <1>3 DEF DropSrc
<1>4. CASE DropResult(p) BY <1>4 DEF DropResult
<1>5. CASE DropJob(p) BY <1>5 DEF DropJob
<1>6. CASE CheckRunning(p) BY <1>6 DEF CheckRunning
<1>7. CASE SaveJob(p) BY <1>7 DEF SaveJob
<1>8. CASE Fetch(p) BY <1>8 DEF Fetch
<1>9. CASE Clone(p) BY <1>9 DEF Clone
<1>10. CASE Checkout(p) BY <1>10 DEF Checkout
<1>11. CASE GitFails(p) BY <1>11 DEF GitFails
<1>12. CASE Pending(p) BY <1>12 DEF Pending
<1>13. CASE LaunchFails(p) BY <1>13 DEF LaunchFails
<1>14. CASE SaveError(p) BY <1>14 DEF SaveError
<1>15. CASE DropFailedSrc(p) BY <1>15 DEF DropFailedSrc
<1>16. CASE LockSubmit(p) BY <1>16 DEF LockSubmit, Acquire
<1>17. CASE LockRetry(p) BY <1>17 DEF LockRetry, Acquire
<1>18. CASE LockMirror(p) BY <1>18 DEF LockMirror, Acquire
<1>19. CASE Crash(p) BY <1>19 DEF Crash, CutShort, HasInHand
<1>20. ASSUME NEW u \in Units, Launch(p, u) PROVE FreshInv'
  BY <1>20 DEF Launch
<1>21. CASE SubmitRaises(p) BY <1>21 DEF SubmitRaises, CutShort
<1> QED BY <1>1, <1>2, <1>3, <1>4, <1>5, <1>6, <1>7, <1>8, <1>9, <1>10, <1>11, <1>12, <1>13,
    <1>14, <1>15, <1>16, <1>17, <1>18, <1>19, <1>20, <1>21 DEF SubmitStep, SubmitLocks, RunStep,
    RunLocks, UnitFault

(* A unit drops the checkout of its own job only. *)
LEMMA FreshRunStep ==
  ASSUME TypeOK, LockInv, JobInv, FreshInv, LaunchesReport, NEW u \in Units, RunLocks(u) \/
      RunStep(u) \/ UnitFault(u)
  PROVE  FreshInv'
<1> USE NamesAssumption DEF TypeOK, LaunchesReport, files, world, locks, local, Step, Goto,
    Ends, Without, SubmitLabels, RunLabels, LockInv, Executing, JobInv, Alive, OneUnitPerJob,
    Launching, FreshInv, FreshCheckout
<1>1. CASE ReadJob(u) BY <1>1 DEF ReadJob
<1>2. CASE NoJobFile(u) BY <1>2 DEF NoJobFile, UnitEnds
<1>3. CASE AlreadyFinished(u) BY <1>3 DEF AlreadyFinished, UnitEnds
<1>4. CASE Begin(u) BY <1>4 DEF Begin
<1>5. CASE ReadConfig(u) BY <1>5 DEF ReadConfig
<1>6. CASE UseImage(u) BY <1>6 DEF UseImage
<1>7. CASE BuildImage(u) BY <1>7 DEF BuildImage
<1>8. CASE ImageBuilt(u) BY <1>8 DEF ImageBuilt
<1>9. CASE StartContainer(u) BY <1>9 DEF StartContainer
<1>10. CASE InfrastructureFails(u) BY <1>10 DEF InfrastructureFails
<1>11. CASE ContainerExits(u) BY <1>11 DEF ContainerExits
<1>12. CASE ClientLost(u) BY <1>12 DEF ClientLost
<1>13. CASE Cleanup(u) BY <1>13 DEF Cleanup
<1>14. CASE Finish(u) BY <1>14 DEF Finish
<1>15. CASE Publish(u) BY <1>15 DEF Publish
<1>16. CASE PublishFails(u) BY <1>16 DEF PublishFails
<1>17. CASE SaveResult(u) BY <1>17 DEF SaveResult
<1>18. CASE Exit(u) BY <1>18 DEF Exit, UnitEnds
<1>19. CASE LockRun(u) BY <1>19 DEF LockRun, Acquire
<1>20. CASE TakeSlot(u) BY <1>20 DEF TakeSlot, Acquire
<1>21. CASE LockImage(u) BY <1>21 DEF LockImage, Acquire
<1>22. CASE CleanupFails(u) BY <1>22 DEF CleanupFails, LeavesStray
<1>23. CASE TermWaiting(u) BY <1>23 DEF TermWaiting, Term
<1>24. CASE TermExecuting(u) BY <1>24 DEF TermExecuting, Term
<1>25. CASE TermRunning(u) BY <1>25 DEF TermRunning, Term
<1>26. CASE TermCleanup(u) BY <1>26 DEF TermCleanup, Term, LeavesStray
<1>27. CASE TermKills(u) BY <1>27 DEF TermKills, CutShort, UnitEnds
<1>28. CASE Kill(u) BY <1>28 DEF Kill, LeavesStray, CutShort, UnitEnds
<1>29. CASE SlotFails(u) BY <1>29 DEF SlotFails
<1>30. CASE ConfigRaises(u) BY <1>30 DEF ConfigRaises
<1>31. CASE FinishRaises(u) BY <1>31 DEF FinishRaises, CutShort, UnitEnds
<1>32. CASE RunRaises(u) BY <1>32 DEF RunRaises, CutShort, UnitEnds
<1>33. CASE PublishRaises(u) BY <1>33 DEF PublishRaises
<1> QED BY <1>1, <1>2, <1>3, <1>4, <1>5, <1>6, <1>7, <1>8, <1>9, <1>10, <1>11, <1>12, <1>13,
    <1>14, <1>15, <1>16, <1>17, <1>18, <1>19, <1>20, <1>21, <1>22, <1>23, <1>24, <1>25, <1>26,
    <1>27, <1>28, <1>29, <1>30, <1>31, <1>32, <1>33 DEF SubmitStep, SubmitLocks, RunStep, RunLocks, UnitFault

(* Every step keeps a checkout whole until its unit has used it. *)
LEMMA FreshNext ==
  ASSUME TypeOK, LockInv, JobInv, FreshInv, LaunchesReport, [Next]_vars
  PROVE  FreshInv'
<1> USE NamesAssumption DEF TypeOK, FreshInv, LockInv, Executing, JobInv, Alive, OneUnitPerJob,
    Launching, FreshCheckout, LaunchesReport, RunLabels, files, world, locks, local
<1>1. ASSUME NEW p \in Submitters, NEW j \in Jobs, Call(p, j) PROVE FreshInv'
  BY <1>1 DEF Call, Step, Goto
<1>2. ASSUME NEW p \in Submitters, NEW u \in Units, LaunchAmbiguous(p, u) PROVE FreshInv'
  BY <1>2 DEF LaunchAmbiguous
<1>3. ASSUME NEW j \in Jobs, OrphanStops(j) PROVE FreshInv'
  BY <1>3 DEF OrphanStops
<1>4. CASE UNCHANGED vars
  BY <1>4 DEF vars
<1> QED BY <1>1, <1>2, <1>3, <1>4, FreshSubmitStep, FreshRunStep DEF Next

(* No unit ever finds its checkout missing, partial or replaced before it  *)
(* has run the gate in it.                                                 *)
THEOREM FreshTheorem ==
  ASSUME LaunchesReport
  PROVE  Spec => []FreshCheckout
<1>1. Init => FreshInv
  BY NamesAssumption DEF Init, FreshInv, FreshCheckout, RunLabels
<1>2. TypeOK /\ LockInv /\ JobInv /\ FreshInv /\ [Next]_vars => FreshInv'
  BY FreshNext
<1>3. FreshInv => FreshCheckout
  BY DEF FreshInv
<1> QED BY <1>1, <1>2, <1>3, JobInvariant, PTL DEF Spec

---------------------------------------------------------------------------
(* A verdict that clients can read is never touched again. *)
FinalStep ==
  \A j \in Jobs : result[j] \in {"success", "failure"} =>
    /\ result'[j] = result[j] /\ status'[j] = status[j]
    /\ publicationError'[j] = publicationError[j] /\ cut'[j] = cut[j]

(* A submit forgets errors only, and publishes only for a job without a result. *)
LEMMA FinalSubmitStep ==
  ASSUME TypeOK, LockInv, JobInv, LaunchesReport, NEW p \in Submitters, SubmitLocks(p) \/
      SubmitStep(p) \/ Crash(p) \/ SubmitRaises(p)
  PROVE  FinalStep
<1> USE NamesAssumption DEF TypeOK, LaunchesReport, files, world, locks, local, Step, Goto,
    Ends, Without, SubmitLabels, RunLabels, LockInv, Executing, JobInv, Alive, OneUnitPerJob,
    Launching, FinalStep
<1>1. CASE CheckCached(p) BY <1>1 DEF CheckCached
<1>2. CASE CheckResult(p) BY <1>2 DEF CheckResult
<1>3. CASE DropSrc(p) BY <1>3 DEF DropSrc
<1>4. CASE DropResult(p)
  <2>1. job[p] \in Jobs /\ result[job[p]] = "error"
    BY <1>4 DEF DropResult
  <2>2. \A j \in Jobs : j # job[p] => result'[j] = result[j] /\ publicationError'[j] =
      publicationError[j]
    BY <1>4 DEF DropResult
  <2>3. status' = status /\ cut' = cut
    BY <1>4 DEF DropResult
  <2> QED BY <2>1, <2>2, <2>3
<1>5. CASE DropJob(p) BY <1>5 DEF DropJob
<1>6. CASE CheckRunning(p) BY <1>6 DEF CheckRunning
<1>7. CASE SaveJob(p)
  <2>1. job[p] \in Jobs /\ result[job[p]] = "none"
    BY <1>7 DEF SaveJob
  <2>2. \A j \in Jobs : j # job[p] => cut'[j] = cut[j]
    BY <1>7 DEF SaveJob
  <2>3. status' = status /\ result' = result /\ publicationError' = publicationError
    BY <1>7 DEF SaveJob
  <2> QED BY <2>1, <2>2, <2>3
<1>8. CASE Fetch(p) BY <1>8 DEF Fetch
<1>9. CASE Clone(p) BY <1>9 DEF Clone
<1>10. CASE Checkout(p) BY <1>10 DEF Checkout
<1>11. CASE GitFails(p) BY <1>11 DEF GitFails
<1>12. CASE Pending(p) BY <1>12 DEF Pending
<1>13. CASE LaunchFails(p) BY <1>13 DEF LaunchFails
<1>14. CASE SaveError(p)
  <2>1. job[p] \in Jobs /\ result[job[p]] = "none"
    BY <1>14 DEF SaveError
  <2>2. \A j \in Jobs : j # job[p] => result'[j] = result[j] /\ publicationError'[j] =
      publicationError[j]
    BY <1>14 DEF SaveError
  <2>3. status' = status /\ cut' = cut
    BY <1>14 DEF SaveError
  <2> QED BY <2>1, <2>2, <2>3
<1>15. CASE DropFailedSrc(p) BY <1>15 DEF DropFailedSrc
<1>16. CASE LockSubmit(p) BY <1>16 DEF LockSubmit, Acquire
<1>17. CASE LockRetry(p) BY <1>17 DEF LockRetry, Acquire
<1>18. CASE LockMirror(p) BY <1>18 DEF LockMirror, Acquire
<1>19. CASE Crash(p) BY <1>19 DEF Crash, CutShort, HasInHand
<1>20. ASSUME NEW u \in Units, Launch(p, u) PROVE FinalStep
  BY <1>20 DEF Launch
<1>21. CASE SubmitRaises(p) BY <1>21 DEF SubmitRaises, CutShort
<1> QED BY <1>1, <1>2, <1>3, <1>4, <1>5, <1>6, <1>7, <1>8, <1>9, <1>10, <1>11, <1>12, <1>13,
    <1>14, <1>15, <1>16, <1>17, <1>18, <1>19, <1>20, <1>21 DEF SubmitStep, SubmitLocks, RunStep,
    RunLocks, UnitFault

(* A unit publishes and saves only while its job has no result. *)
LEMMA FinalRunStep ==
  ASSUME TypeOK, LockInv, JobInv, LaunchesReport, NEW u \in Units, RunLocks(u) \/ RunStep(u) \/
      UnitFault(u)
  PROVE  FinalStep
<1> USE NamesAssumption DEF TypeOK, LaunchesReport, files, world, locks, local, Step, Goto,
    Ends, Without, SubmitLabels, RunLabels, LockInv, Executing, JobInv, Alive, OneUnitPerJob,
    Launching, FinalStep
<1>1. CASE ReadJob(u) BY <1>1 DEF ReadJob
<1>2. CASE NoJobFile(u) BY <1>2 DEF NoJobFile, UnitEnds
<1>3. CASE AlreadyFinished(u) BY <1>3 DEF AlreadyFinished, UnitEnds
<1>4. CASE Begin(u) BY <1>4 DEF Begin
<1>5. CASE ReadConfig(u) BY <1>5 DEF ReadConfig
<1>6. CASE UseImage(u) BY <1>6 DEF UseImage
<1>7. CASE BuildImage(u) BY <1>7 DEF BuildImage
<1>8. CASE ImageBuilt(u) BY <1>8 DEF ImageBuilt
<1>9. CASE StartContainer(u) BY <1>9 DEF StartContainer
<1>10. CASE InfrastructureFails(u) BY <1>10 DEF InfrastructureFails
<1>11. CASE ContainerExits(u) BY <1>11 DEF ContainerExits
<1>12. CASE ClientLost(u) BY <1>12 DEF ClientLost
<1>13. CASE Cleanup(u) BY <1>13 DEF Cleanup
<1>14. CASE Finish(u) BY <1>14 DEF Finish
<1>15. CASE Publish(u) BY <1>15 DEF Publish
<1>16. CASE PublishFails(u) BY <1>16 DEF PublishFails
<1>17. CASE SaveResult(u) BY <1>17 DEF SaveResult
<1>18. CASE Exit(u) BY <1>18 DEF Exit, UnitEnds
<1>19. CASE LockRun(u) BY <1>19 DEF LockRun, Acquire
<1>20. CASE TakeSlot(u) BY <1>20 DEF TakeSlot, Acquire
<1>21. CASE LockImage(u) BY <1>21 DEF LockImage, Acquire
<1>22. CASE CleanupFails(u) BY <1>22 DEF CleanupFails, LeavesStray
<1>23. CASE TermWaiting(u) BY <1>23 DEF TermWaiting, Term
<1>24. CASE TermExecuting(u) BY <1>24 DEF TermExecuting, Term
<1>25. CASE TermRunning(u) BY <1>25 DEF TermRunning, Term
<1>26. CASE TermCleanup(u) BY <1>26 DEF TermCleanup, Term, LeavesStray
<1>27. CASE TermKills(u) BY <1>27 DEF TermKills, CutShort, UnitEnds
<1>28. CASE Kill(u) BY <1>28 DEF Kill, LeavesStray, CutShort, UnitEnds
<1>29. CASE SlotFails(u) BY <1>29 DEF SlotFails
<1>30. CASE ConfigRaises(u) BY <1>30 DEF ConfigRaises
<1>31. CASE FinishRaises(u) BY <1>31 DEF FinishRaises, CutShort, UnitEnds
<1>32. CASE RunRaises(u) BY <1>32 DEF RunRaises, CutShort, UnitEnds
<1>33. CASE PublishRaises(u) BY <1>33 DEF PublishRaises
<1> QED BY <1>1, <1>2, <1>3, <1>4, <1>5, <1>6, <1>7, <1>8, <1>9, <1>10, <1>11, <1>12, <1>13,
    <1>14, <1>15, <1>16, <1>17, <1>18, <1>19, <1>20, <1>21, <1>22, <1>23, <1>24, <1>25, <1>26,
    <1>27, <1>28, <1>29, <1>30, <1>31, <1>32, <1>33 DEF SubmitStep, SubmitLocks, RunStep, RunLocks, UnitFault

(* Every step leaves a success, a failure and their GitHub status alone. *)
LEMMA FinalNext ==
  ASSUME TypeOK, LockInv, JobInv, LaunchesReport, [Next]_vars
  PROVE  FinalStep
<1> USE NamesAssumption DEF TypeOK, FinalStep, LockInv, Executing, JobInv, Alive, OneUnitPerJob,
    Launching, LaunchesReport, files, world, locks, local
<1>1. ASSUME NEW p \in Submitters, NEW j \in Jobs, Call(p, j) PROVE FinalStep
  BY <1>1 DEF Call, Step, Goto
<1>2. ASSUME NEW p \in Submitters, NEW u \in Units, LaunchAmbiguous(p, u) PROVE FinalStep
  BY <1>2 DEF LaunchAmbiguous
<1>3. ASSUME NEW j \in Jobs, OrphanStops(j) PROVE FinalStep
  BY <1>3 DEF OrphanStops
<1>4. CASE UNCHANGED vars
  BY <1>4 DEF vars
<1> QED BY <1>1, <1>2, <1>3, <1>4, FinalSubmitStep, FinalRunStep DEF Next

(* Successful and failed gate results stay cached, and so does what GitHub *)
(* shows for them, under crashes, signals and resubmissions.               *)
THEOREM VerdictTheorem ==
  ASSUME LaunchesReport
  PROVE  Spec => VerdictIsFinal
<1>1. TypeOK /\ LockInv /\ JobInv /\ [Next]_vars =>
      [\A j \in Jobs : result[j] \in {"success", "failure"} =>
         result'[j] = result[j] /\ status'[j] = status[j]]_vars
  BY FinalNext DEF FinalStep
<1> QED BY <1>1, JobInvariant, PTL DEF Spec, VerdictIsFinal

---------------------------------------------------------------------------
(* Publication comes before the result, and nothing is published after it. *)
PublishedInv ==
  /\ GitHubAgrees
  /\ \A u \in Units : pc[u] = "save" => 
       status[job[u]] = verdict[u] \/ unpublished[u] # "heard"

(* A submit reports pending only while its job has no unit and no result. *)
LEMMA PublishedSubmitStep ==
  ASSUME TypeOK, LockInv, JobInv, PublishedInv, LaunchesReport, NEW p \in Submitters,
      SubmitLocks(p) \/ SubmitStep(p) \/ Crash(p) \/ SubmitRaises(p)
  PROVE  PublishedInv'
<1> USE NamesAssumption DEF TypeOK, LaunchesReport, files, world, locks, local, Step, Goto,
    Ends, Without, SubmitLabels, RunLabels, LockInv, Executing, JobInv, Alive, OneUnitPerJob,
    Launching, PublishedInv, GitHubAgrees
<1>1. CASE CheckCached(p) BY <1>1 DEF CheckCached
<1>2. CASE CheckResult(p) BY <1>2 DEF CheckResult
<1>3. CASE DropSrc(p) BY <1>3 DEF DropSrc
<1>4. CASE DropResult(p) BY <1>4 DEF DropResult
<1>5. CASE DropJob(p) BY <1>5 DEF DropJob
<1>6. CASE CheckRunning(p) BY <1>6 DEF CheckRunning
<1>7. CASE SaveJob(p) BY <1>7 DEF SaveJob
<1>8. CASE Fetch(p) BY <1>8 DEF Fetch
<1>9. CASE Clone(p) BY <1>9 DEF Clone
<1>10. CASE Checkout(p) BY <1>10 DEF Checkout
<1>11. CASE GitFails(p) BY <1>11 DEF GitFails
<1>12. CASE Pending(p) BY <1>12 DEF Pending
<1>13. CASE LaunchFails(p) BY <1>13 DEF LaunchFails
<1>14. CASE SaveError(p) BY <1>14 DEF SaveError
<1>15. CASE DropFailedSrc(p) BY <1>15 DEF DropFailedSrc
<1>16. CASE LockSubmit(p) BY <1>16 DEF LockSubmit, Acquire
<1>17. CASE LockRetry(p) BY <1>17 DEF LockRetry, Acquire
<1>18. CASE LockMirror(p) BY <1>18 DEF LockMirror, Acquire
<1>19. CASE Crash(p) BY <1>19 DEF Crash, CutShort, HasInHand
<1>20. ASSUME NEW u \in Units, Launch(p, u) PROVE PublishedInv'
  BY <1>20 DEF Launch
<1>21. CASE SubmitRaises(p) BY <1>21 DEF SubmitRaises, CutShort
<1> QED BY <1>1, <1>2, <1>3, <1>4, <1>5, <1>6, <1>7, <1>8, <1>9, <1>10, <1>11, <1>12, <1>13,
    <1>14, <1>15, <1>16, <1>17, <1>18, <1>19, <1>20, <1>21 DEF SubmitStep, SubmitLocks, RunStep,
    RunLocks, UnitFault

(* A unit publishes its verdict just before it saves it. *)
LEMMA PublishedRunStep ==
  ASSUME TypeOK, LockInv, JobInv, PublishedInv, LaunchesReport, NEW u \in Units, RunLocks(u) \/
      RunStep(u) \/ UnitFault(u)
  PROVE  PublishedInv'
<1> USE NamesAssumption DEF TypeOK, LaunchesReport, files, world, locks, local, Step, Goto,
    Ends, Without, SubmitLabels, RunLabels, LockInv, Executing, JobInv, Alive, OneUnitPerJob,
    Launching, PublishedInv, GitHubAgrees
<1>1. CASE ReadJob(u) BY <1>1 DEF ReadJob
<1>2. CASE NoJobFile(u) BY <1>2 DEF NoJobFile, UnitEnds
<1>3. CASE AlreadyFinished(u) BY <1>3 DEF AlreadyFinished, UnitEnds
<1>4. CASE Begin(u) BY <1>4 DEF Begin
<1>5. CASE ReadConfig(u) BY <1>5 DEF ReadConfig
<1>6. CASE UseImage(u) BY <1>6 DEF UseImage
<1>7. CASE BuildImage(u) BY <1>7 DEF BuildImage
<1>8. CASE ImageBuilt(u) BY <1>8 DEF ImageBuilt
<1>9. CASE StartContainer(u) BY <1>9 DEF StartContainer
<1>10. CASE InfrastructureFails(u) BY <1>10 DEF InfrastructureFails
<1>11. CASE ContainerExits(u) BY <1>11 DEF ContainerExits
<1>12. CASE ClientLost(u) BY <1>12 DEF ClientLost
<1>13. CASE Cleanup(u) BY <1>13 DEF Cleanup
<1>14. CASE Finish(u) BY <1>14 DEF Finish
<1>15. CASE Publish(u) BY <1>15 DEF Publish
<1>16. CASE PublishFails(u) BY <1>16 DEF PublishFails
<1>17. CASE SaveResult(u) BY <1>17 DEF SaveResult
<1>18. CASE Exit(u) BY <1>18 DEF Exit, UnitEnds
<1>19. CASE LockRun(u) BY <1>19 DEF LockRun, Acquire
<1>20. CASE TakeSlot(u) BY <1>20 DEF TakeSlot, Acquire
<1>21. CASE LockImage(u) BY <1>21 DEF LockImage, Acquire
<1>22. CASE CleanupFails(u) BY <1>22 DEF CleanupFails, LeavesStray
<1>23. CASE TermWaiting(u) BY <1>23 DEF TermWaiting, Term
<1>24. CASE TermExecuting(u) BY <1>24 DEF TermExecuting, Term
<1>25. CASE TermRunning(u) BY <1>25 DEF TermRunning, Term
<1>26. CASE TermCleanup(u) BY <1>26 DEF TermCleanup, Term, LeavesStray
<1>27. CASE TermKills(u) BY <1>27 DEF TermKills, CutShort, UnitEnds
<1>28. CASE Kill(u) BY <1>28 DEF Kill, LeavesStray, CutShort, UnitEnds
<1>29. CASE SlotFails(u) BY <1>29 DEF SlotFails
<1>30. CASE ConfigRaises(u) BY <1>30 DEF ConfigRaises
<1>31. CASE FinishRaises(u) BY <1>31 DEF FinishRaises, CutShort, UnitEnds
<1>32. CASE RunRaises(u) BY <1>32 DEF RunRaises, CutShort, UnitEnds
<1>33. CASE PublishRaises(u) BY <1>33 DEF PublishRaises
<1> QED BY <1>1, <1>2, <1>3, <1>4, <1>5, <1>6, <1>7, <1>8, <1>9, <1>10, <1>11, <1>12, <1>13,
    <1>14, <1>15, <1>16, <1>17, <1>18, <1>19, <1>20, <1>21, <1>22, <1>23, <1>24, <1>25, <1>26,
    <1>27, <1>28, <1>29, <1>30, <1>31, <1>32, <1>33 DEF SubmitStep, SubmitLocks, RunStep, RunLocks, UnitFault

(* Every step keeps the saved verdicts and those about to be saved published. *)
LEMMA PublishedNext ==
  ASSUME TypeOK, LockInv, JobInv, PublishedInv, LaunchesReport, [Next]_vars
  PROVE  PublishedInv'
<1> USE NamesAssumption DEF TypeOK, PublishedInv, LockInv, Executing, JobInv, Alive,
    OneUnitPerJob, Launching, GitHubAgrees, LaunchesReport, files, world, locks, local
<1>1. ASSUME NEW p \in Submitters, NEW j \in Jobs, Call(p, j) PROVE PublishedInv'
  BY <1>1 DEF Call, Step, Goto
<1>2. ASSUME NEW p \in Submitters, NEW u \in Units, LaunchAmbiguous(p, u) PROVE PublishedInv'
  BY <1>2 DEF LaunchAmbiguous
<1>3. ASSUME NEW j \in Jobs, OrphanStops(j) PROVE PublishedInv'
  BY <1>3 DEF OrphanStops
<1>4. CASE UNCHANGED vars
  BY <1>4 DEF vars
<1> QED BY <1>1, <1>2, <1>3, <1>4, PublishedSubmitStep, PublishedRunStep DEF Next

(* A cached success or failure is the status GitHub shows for the commit,  *)
(* unless the result itself says that it could not be published, or        *)
(* publish() raised an exception that run does not catch.                  *)
THEOREM PublishedTheorem ==
  ASSUME LaunchesReport
  PROVE  Spec => []GitHubAgrees
<1>1. Init => PublishedInv
  BY NamesAssumption DEF Init, PublishedInv, GitHubAgrees
<1>2. TypeOK /\ LockInv /\ JobInv /\ PublishedInv /\ [Next]_vars => PublishedInv'
  BY PublishedNext
<1>3. PublishedInv => GitHubAgrees
  BY DEF PublishedInv
<1> QED BY <1>1, <1>2, <1>3, JobInvariant, PTL DEF Spec

---------------------------------------------------------------------------
(* Refinement: every step is a step of the abstract job, or none. *)
AbstractStep == [Abstract!Next]_(Abstract!vars)

(* A change of one job's phase is an EXCEPT of the abstract variable. *)
LEMMA PhaseChanges ==
  ASSUME NEW j \in Jobs, NEW v, phase'[j] = v, \A k \in Jobs : k # j => phase'[k] = phase[k]
  PROVE  phase' = [phase EXCEPT ![j] = v]
BY DEF phase

(* job.json appears: the abstract job is accepted. *)
LEMMA AbstractAccept ==
  ASSUME NEW j \in Jobs, phase[j] = "absent",
         phase' = [phase EXCEPT ![j] = "running"], UNCHANGED status
  PROVE  AbstractStep
BY DEF AbstractStep, Abstract!Next, Abstract!Accept

(* A commit status of a running job is an abstract report. *)
LEMMA AbstractReport ==
  ASSUME NEW j \in Jobs, NEW s, s \in Verdicts \cup {"pending"}, phase[j] = "running",
         status' = [status EXCEPT ![j] = s], phase' = phase
  PROVE  AbstractStep
BY DEF AbstractStep, Abstract!Next, Abstract!Report, Abstract!Verdicts

(* result.json appears: the abstract job concludes. *)
LEMMA AbstractConclude ==
  ASSUME NEW j \in Jobs, NEW v \in Verdicts, phase[j] = "running",
         phase' = [phase EXCEPT ![j] = v], UNCHANGED status
  PROVE  AbstractStep
BY DEF AbstractStep, Abstract!Next, Abstract!Concludes, Abstract!Conclude, Abstract!Verdicts

(* result.json of an error goes: the abstract job is forgotten. *)
LEMMA AbstractForget ==
  ASSUME NEW j \in Jobs, phase[j] = "error",
         phase' = [phase EXCEPT ![j] = "absent"], UNCHANGED status
  PROVE  AbstractStep
BY DEF AbstractStep, Abstract!Next, Abstract!Forget

(* The process dies that has the job in hand, running or being forgotten. *)
LEMMA AbstractAbandon ==
  ASSUME NEW j \in Jobs, phase[j] \in {"absent", "running"},
         phase' = [phase EXCEPT ![j] = "abandoned"], UNCHANGED status
  PROVE  AbstractStep
BY DEF AbstractStep, Abstract!Next, Abstract!Abandon, Abstract!Stall

(* What neither clients nor GitHub see is no abstract step. *)
LEMMA AbstractStutter == ASSUME phase' = phase, UNCHANGED status PROVE AbstractStep
BY DEF AbstractStep, Abstract!vars

(* A submit accepts, forgets and reports a job, or concludes it as an error. *)
LEMMA RefineSubmitStep ==
  ASSUME TypeOK, LockInv, JobInv, LaunchesReport, NEW p \in Submitters, SubmitLocks(p) \/
      SubmitStep(p) \/ Crash(p) \/ SubmitRaises(p)
  PROVE  AbstractStep
<1> USE NamesAssumption DEF TypeOK, LaunchesReport, files, world, locks, local, Step, Goto,
    Ends, Without, SubmitLabels, RunLabels, LockInv, Executing, JobInv, Alive, OneUnitPerJob,
    Launching, phase, Resetting, Abstract!vars, AbstractStep
<1>1. CASE CheckCached(p) BY <1>1 DEF CheckCached
<1>2. CASE CheckResult(p) BY <1>2 DEF CheckResult
<1>3. CASE DropSrc(p) BY <1>3 DEF DropSrc
<1>4. CASE DropResult(p)
  <2>1. job[p] \in Jobs /\ phase[job[p]] = "error" BY <1>4 DEF DropResult
  <2>2a. phase'[job[p]] = "absent" BY <1>4 DEF DropResult
  <2>2b. \A k \in Jobs : k # job[p] => phase'[k] = phase[k] BY <1>4 DEF DropResult
  <2> HIDE DEF phase, AbstractStep
  <2>2. phase' = [phase EXCEPT ![job[p]] = "absent"] BY <2>1, <2>2a, <2>2b, PhaseChanges
  <2>3. UNCHANGED status BY <1>4 DEF DropResult
  <2> QED BY <2>1, <2>2, <2>3, AbstractForget
<1>5. CASE DropJob(p) BY <1>5 DEF DropJob
<1>6. CASE CheckRunning(p) BY <1>6 DEF CheckRunning
<1>7. CASE SaveJob(p)
  <2>1. job[p] \in Jobs /\ phase[job[p]] = "absent" BY <1>7 DEF SaveJob
  <2>2a. phase'[job[p]] = "running" BY <1>7 DEF SaveJob
  <2>2b. \A k \in Jobs : k # job[p] => phase'[k] = phase[k] BY <1>7 DEF SaveJob
  <2> HIDE DEF phase, AbstractStep
  <2>2. phase' = [phase EXCEPT ![job[p]] = "running"] BY <2>1, <2>2a, <2>2b, PhaseChanges
  <2>3. UNCHANGED status BY <1>7 DEF SaveJob
  <2> QED BY <2>1, <2>2, <2>3, AbstractAccept
<1>8. CASE Fetch(p) BY <1>8 DEF Fetch
<1>9. CASE Clone(p) BY <1>9 DEF Clone
<1>10. CASE Checkout(p) BY <1>10 DEF Checkout
<1>11. CASE GitFails(p) BY <1>11 DEF GitFails
<1>12. CASE Pending(p)
  <2>1. job[p] \in Jobs /\ phase[job[p]] = "running" BY <1>12 DEF Pending
  <2>2. phase' = phase BY <1>12 DEF Pending
  <2>3. \/ status' = [status EXCEPT ![job[p]] = "pending"]
        \/ UNCHANGED status BY <1>12 DEF Pending
  <2> HIDE DEF phase, AbstractStep
  <2> QED BY <2>1, <2>2, <2>3, AbstractReport, AbstractStutter
<1>13. CASE LaunchFails(p) BY <1>13 DEF LaunchFails
<1>14. CASE SaveError(p)
  <2>1. job[p] \in Jobs /\ phase[job[p]] = "running" BY <1>14 DEF SaveError
  <2>2a. phase'[job[p]] = "error" BY <1>14 DEF SaveError
  <2>2b. \A k \in Jobs : k # job[p] => phase'[k] = phase[k] BY <1>14 DEF SaveError
  <2> HIDE DEF phase, AbstractStep
  <2>2. phase' = [phase EXCEPT ![job[p]] = "error"] BY <2>1, <2>2a, <2>2b, PhaseChanges
  <2>3. UNCHANGED status BY <1>14 DEF SaveError
  <2> QED BY <2>1, <2>2, <2>3, AbstractConclude
<1>15. CASE DropFailedSrc(p) BY <1>15 DEF DropFailedSrc
<1>16. CASE LockSubmit(p) BY <1>16 DEF LockSubmit, Acquire
<1>17. CASE LockRetry(p) BY <1>17 DEF LockRetry, Acquire
<1>18. CASE LockMirror(p) BY <1>18 DEF LockMirror, Acquire
<1>19. CASE Crash(p)
  <2>1. UNCHANGED status BY <1>19 DEF Crash
  <2>2. CASE HasInHand(p)
    <3>1. job[p] \in Jobs /\ phase[job[p]] \in {"absent", "running"} BY <2>2 DEF HasInHand
    <3>2a. phase'[job[p]] = "abandoned" BY <1>19, <2>2 DEF Crash, CutShort, HasInHand
    <3>2b. \A k \in Jobs : k # job[p] => phase'[k] = phase[k]
      BY <1>19, <2>2 DEF Crash, CutShort, HasInHand
    <3> HIDE DEF phase, AbstractStep
    <3>2. phase' = [phase EXCEPT ![job[p]] = "abandoned"] BY <3>1, <3>2a, <3>2b, PhaseChanges
    <3> QED BY <2>1, <3>1, <3>2, AbstractAbandon
  <2>3. CASE ~HasInHand(p)
    <3>1. phase' = phase BY <1>19, <2>3 DEF Crash, HasInHand
    <3> QED BY <2>1, <3>1, AbstractStutter
  <2> QED BY <2>2, <2>3
<1>20. ASSUME NEW u \in Units, Launch(p, u) PROVE AbstractStep
  BY <1>20 DEF Launch
<1>21. CASE SubmitRaises(p)
  <2>1. UNCHANGED status BY <1>21 DEF SubmitRaises
  <2>2. job[p] \in Jobs /\ phase[job[p]] = "running" BY <1>21 DEF SubmitRaises
  <2>3a. phase'[job[p]] = "abandoned" BY <1>21 DEF SubmitRaises, CutShort
  <2>3b. \A k \in Jobs : k # job[p] => phase'[k] = phase[k] BY <1>21 DEF SubmitRaises, CutShort
  <2> HIDE DEF phase, AbstractStep
  <2>3. phase' = [phase EXCEPT ![job[p]] = "abandoned"] BY <2>2, <2>3a, <2>3b, PhaseChanges
  <2> QED BY <2>1, <2>2, <2>3, AbstractAbandon
<1> QED BY <1>1, <1>2, <1>3, <1>4, <1>5, <1>6, <1>7, <1>8, <1>9, <1>10, <1>11, <1>12, <1>13,
    <1>14, <1>15, <1>16, <1>17, <1>18, <1>19, <1>20, <1>21 DEF SubmitStep, SubmitLocks, RunStep,
    RunLocks, UnitFault

(* A unit reports its job and concludes it. *)
LEMMA RefineRunStep ==
  ASSUME TypeOK, LockInv, JobInv, LaunchesReport, NEW u \in Units, RunLocks(u) \/ RunStep(u) \/
      UnitFault(u)
  PROVE  AbstractStep
<1> USE NamesAssumption DEF TypeOK, LaunchesReport, files, world, locks, local, Step, Goto,
    Ends, Without, SubmitLabels, RunLabels, LockInv, Executing, JobInv, Alive, OneUnitPerJob,
    Launching, phase, Resetting, Abstract!vars, AbstractStep
<1>1. CASE ReadJob(u) BY <1>1 DEF ReadJob
<1>2. CASE NoJobFile(u) BY <1>2 DEF NoJobFile, UnitEnds
<1>3. CASE AlreadyFinished(u) BY <1>3 DEF AlreadyFinished, UnitEnds
<1>4. CASE Begin(u) BY <1>4 DEF Begin
<1>5. CASE ReadConfig(u) BY <1>5 DEF ReadConfig
<1>6. CASE UseImage(u) BY <1>6 DEF UseImage
<1>7. CASE BuildImage(u) BY <1>7 DEF BuildImage
<1>8. CASE ImageBuilt(u) BY <1>8 DEF ImageBuilt
<1>9. CASE StartContainer(u) BY <1>9 DEF StartContainer
<1>10. CASE InfrastructureFails(u) BY <1>10 DEF InfrastructureFails
<1>11. CASE ContainerExits(u) BY <1>11 DEF ContainerExits
<1>12. CASE ClientLost(u) BY <1>12 DEF ClientLost
<1>13. CASE Cleanup(u) BY <1>13 DEF Cleanup
<1>14. CASE Finish(u) BY <1>14 DEF Finish
<1>15. CASE Publish(u)
  <2>1. job[u] \in Jobs /\ phase[job[u]] = "running" /\ verdict[u] \in Verdicts \cup {"pending"}
      BY <1>15 DEF Publish
  <2>2. phase' = phase BY <1>15 DEF Publish
  <2>3. status' = [status EXCEPT ![job[u]] = verdict[u]] BY <1>15 DEF Publish
  <2> HIDE DEF phase, AbstractStep, Verdicts
  <2>4. PICK s \in Verdicts \cup {"pending"} : s = verdict[u] BY <2>1
  <2>5. status' = [status EXCEPT ![job[u]] = s] BY <2>3, <2>4
  <2>6. PICK j \in Jobs : j = job[u] BY <2>1
  <2> HIDE DEF TypeOK, LockInv, JobInv
  <2> QED BY <2>1, <2>2, <2>5, <2>6, AbstractReport
<1>16. CASE PublishFails(u)
  <2>1. job[u] \in Jobs /\ phase[job[u]] = "running" /\ verdict[u] \in Verdicts \cup {"pending"}
      BY <1>16 DEF PublishFails
  <2>2. phase' = phase BY <1>16 DEF PublishFails
  <2>3. \/ status' = [status EXCEPT ![job[u]] = verdict[u]]
        \/ UNCHANGED status BY <1>16 DEF PublishFails
  <2> HIDE DEF phase, AbstractStep
  <2> HIDE DEF Verdicts
  <2>4. CASE UNCHANGED status BY <2>2, <2>4, AbstractStutter
  <2>5. CASE status' = [status EXCEPT ![job[u]] = verdict[u]]
    <3>1. PICK s \in Verdicts \cup {"pending"} : s = verdict[u] BY <2>1
    <3>2. status' = [status EXCEPT ![job[u]] = s] BY <2>5, <3>1
    <3> HIDE DEF TypeOK, LockInv, JobInv
    <3> QED BY <2>1, <2>2, <3>2, AbstractReport
  <2> QED BY <2>3, <2>4, <2>5
<1>17. CASE SaveResult(u)
  <2>1. job[u] \in Jobs /\ phase[job[u]] = "running" /\ verdict[u] \in Verdicts BY <1>17 DEF
      SaveResult
  <2>2a. phase'[job[u]] = verdict[u] BY <1>17 DEF SaveResult
  <2>2b. \A k \in Jobs : k # job[u] => phase'[k] = phase[k] BY <1>17 DEF SaveResult
  <2> HIDE DEF phase, AbstractStep
  <2>2. phase' = [phase EXCEPT ![job[u]] = verdict[u]] BY <2>1, <2>2a, <2>2b, PhaseChanges
  <2>3. UNCHANGED status BY <1>17 DEF SaveResult
  <2> QED BY <2>1, <2>2, <2>3, AbstractConclude
<1>18. CASE Exit(u) BY <1>18 DEF Exit, UnitEnds
<1>19. CASE LockRun(u) BY <1>19 DEF LockRun, Acquire
<1>20. CASE TakeSlot(u) BY <1>20 DEF TakeSlot, Acquire
<1>21. CASE LockImage(u) BY <1>21 DEF LockImage, Acquire
<1>22. CASE CleanupFails(u) BY <1>22 DEF CleanupFails, LeavesStray
<1>23. CASE TermWaiting(u) BY <1>23 DEF TermWaiting, Term
<1>24. CASE TermExecuting(u) BY <1>24 DEF TermExecuting, Term
<1>25. CASE TermRunning(u) BY <1>25 DEF TermRunning, Term
<1>26. CASE TermCleanup(u) BY <1>26 DEF TermCleanup, Term, LeavesStray
<1>27. CASE TermKills(u)
  <2>1. UNCHANGED status BY <1>27 DEF TermKills
  <2>2. CASE pc[u] = "exit"
    <3>1. phase' = phase BY <1>27, <2>2 DEF TermKills, CutShort, UnitEnds
    <3> QED BY <2>1, <3>1, AbstractStutter
  <2>3. CASE pc[u] # "exit"
    <3>1. job[u] \in Jobs /\ phase[job[u]] = "running" BY <1>27, <2>3 DEF TermKills
    <3>2a. phase'[job[u]] = "abandoned" BY <1>27, <2>3 DEF TermKills, CutShort, UnitEnds
    <3>2b. \A k \in Jobs : k # job[u] => phase'[k] = phase[k] BY <1>27, <2>3 DEF TermKills, CutShort, UnitEnds
    <3> HIDE DEF phase, AbstractStep
    <3>2. phase' = [phase EXCEPT ![job[u]] = "abandoned"] BY <3>1, <3>2a, <3>2b, PhaseChanges
    <3> QED BY <2>1, <3>1, <3>2, AbstractAbandon
  <2> QED BY <2>2, <2>3
<1>28. CASE Kill(u)
  <2>1. UNCHANGED status BY <1>28 DEF Kill
  <2>2. CASE pc[u] = "exit"
    <3>1. phase' = phase BY <1>28, <2>2 DEF Kill, LeavesStray, CutShort, UnitEnds
    <3> QED BY <2>1, <3>1, AbstractStutter
  <2>3. CASE pc[u] # "exit"
    <3>1. job[u] \in Jobs /\ phase[job[u]] = "running" BY <1>28, <2>3 DEF Kill
    <3>2a. phase'[job[u]] = "abandoned" BY <1>28, <2>3 DEF Kill, LeavesStray, CutShort, UnitEnds
    <3>2b. \A k \in Jobs : k # job[u] => phase'[k] = phase[k] BY <1>28, <2>3 DEF Kill, LeavesStray, CutShort, UnitEnds
    <3> HIDE DEF phase, AbstractStep
    <3>2. phase' = [phase EXCEPT ![job[u]] = "abandoned"] BY <3>1, <3>2a, <3>2b, PhaseChanges
    <3> QED BY <2>1, <3>1, <3>2, AbstractAbandon
  <2> QED BY <2>2, <2>3
<1>29. CASE SlotFails(u) BY <1>29 DEF SlotFails
<1>30. CASE ConfigRaises(u) BY <1>30 DEF ConfigRaises
<1>31. CASE FinishRaises(u)
  <2>1. UNCHANGED status BY <1>31 DEF FinishRaises
  <2>2. CASE pc[u] = "exit"
    <3>1. phase' = phase BY <1>31, <2>2 DEF FinishRaises, CutShort, UnitEnds
    <3> QED BY <2>1, <3>1, AbstractStutter
  <2>3. CASE pc[u] # "exit"
    <3>1. job[u] \in Jobs /\ phase[job[u]] = "running" BY <1>31, <2>3 DEF FinishRaises
    <3>2a. phase'[job[u]] = "abandoned" BY <1>31, <2>3 DEF FinishRaises, CutShort, UnitEnds
    <3>2b. \A k \in Jobs : k # job[u] => phase'[k] = phase[k] BY <1>31, <2>3 DEF FinishRaises, CutShort, UnitEnds
    <3> HIDE DEF phase, AbstractStep
    <3>2. phase' = [phase EXCEPT ![job[u]] = "abandoned"] BY <3>1, <3>2a, <3>2b, PhaseChanges
    <3> QED BY <2>1, <3>1, <3>2, AbstractAbandon
  <2> QED BY <2>2, <2>3
<1>32. CASE RunRaises(u)
  <2>1. UNCHANGED status BY <1>32 DEF RunRaises
  <2>2. CASE pc[u] = "exit"
    <3>1. phase' = phase BY <1>32, <2>2 DEF RunRaises, CutShort, UnitEnds
    <3> QED BY <2>1, <3>1, AbstractStutter
  <2>3. CASE pc[u] # "exit"
    <3>1. job[u] \in Jobs /\ phase[job[u]] = "running" BY <1>32, <2>3 DEF RunRaises
    <3>2a. phase'[job[u]] = "abandoned" BY <1>32, <2>3 DEF RunRaises, CutShort, UnitEnds
    <3>2b. \A k \in Jobs : k # job[u] => phase'[k] = phase[k] BY <1>32, <2>3 DEF RunRaises, CutShort, UnitEnds
    <3> HIDE DEF phase, AbstractStep
    <3>2. phase' = [phase EXCEPT ![job[u]] = "abandoned"] BY <3>1, <3>2a, <3>2b, PhaseChanges
    <3> QED BY <2>1, <3>1, <3>2, AbstractAbandon
  <2> QED BY <2>2, <2>3
<1>33. CASE PublishRaises(u)
  <2>1. job[u] \in Jobs /\ phase[job[u]] = "running" /\ verdict[u] \in Verdicts \cup {"pending"}
      BY <1>33 DEF PublishRaises
  <2>2. phase' = phase BY <1>33 DEF PublishRaises
  <2>3. \/ status' = [status EXCEPT ![job[u]] = verdict[u]]
        \/ UNCHANGED status BY <1>33 DEF PublishRaises
  <2> HIDE DEF phase, AbstractStep
  <2> HIDE DEF Verdicts
  <2>4. CASE UNCHANGED status BY <2>2, <2>4, AbstractStutter
  <2>5. CASE status' = [status EXCEPT ![job[u]] = verdict[u]]
    <3>1. PICK s \in Verdicts \cup {"pending"} : s = verdict[u] BY <2>1
    <3>2. status' = [status EXCEPT ![job[u]] = s] BY <2>5, <3>1
    <3> HIDE DEF TypeOK, LockInv, JobInv
    <3> QED BY <2>1, <2>2, <3>2, AbstractReport
  <2> QED BY <2>3, <2>4, <2>5
<1> QED BY <1>1, <1>2, <1>3, <1>4, <1>5, <1>6, <1>7, <1>8, <1>9, <1>10, <1>11, <1>12, <1>13,
    <1>14, <1>15, <1>16, <1>17, <1>18, <1>19, <1>20, <1>21, <1>22, <1>23, <1>24, <1>25, <1>26,
    <1>27, <1>28, <1>29, <1>30, <1>31, <1>32, <1>33 DEF SubmitStep, SubmitLocks, RunStep, RunLocks, UnitFault

(* Every step of the service is an abstract step, or none. *)
LEMMA RefineNext ==
  ASSUME TypeOK, LockInv, JobInv, LaunchesReport, [Next]_vars
  PROVE  AbstractStep
<1> USE NamesAssumption DEF TypeOK, AbstractStep, LockInv, Executing, JobInv, Alive,
    OneUnitPerJob, Launching, LaunchesReport, phase, Resetting, Abstract!vars, files, world,
    locks, local
<1>1. ASSUME NEW p \in Submitters, NEW j \in Jobs, Call(p, j) PROVE AbstractStep
  BY <1>1 DEF Call, Step, Goto
<1>2. ASSUME NEW p \in Submitters, NEW u \in Units, LaunchAmbiguous(p, u) PROVE AbstractStep
  BY <1>2 DEF LaunchAmbiguous
<1>3. ASSUME NEW j \in Jobs, OrphanStops(j) PROVE AbstractStep
  BY <1>3 DEF OrphanStops
<1>4. CASE UNCHANGED vars
  BY <1>4 DEF vars
<1> QED BY <1>1, <1>2, <1>3, <1>4, RefineSubmitStep, RefineRunStep DEF Next

(* The files, locks and processes of the service implement the abstract    *)
(* job, whatever crashes or is killed.                                     *)
THEOREM RefinementTheorem ==
  ASSUME LaunchesReport
  PROVE  Spec => ImplementsSafety
<1>1. Init => Abstract!Init
  BY DEF Init, phase, Abstract!Init
<1>2. TypeOK /\ LockInv /\ JobInv /\ [Next]_vars => [Abstract!Next]_(Abstract!vars)
  BY RefineNext DEF AbstractStep
<1> QED BY <1>1, <1>2, JobInvariant, PTL DEF Spec, ImplementsSafety, Abstract!SafeSpec

---------------------------------------------------------------------------
(* The repository lock covers looking an image up and building it, and     *)
(* run.lock everything from the start of an execution to the unit's exit.  *)
CriticalInv ==
  /\ \A u \in Units : pc[u] \in {"image", "build"} => repoLock[RepoOf[job[u]]] = u
  /\ NoDuplicateBuild
  /\ \A u \in Units : pc[u] = "exit" => result[job[u]] # "none"

(* A submit takes no lock of a unit, and forgets results under run.lock only. *)
LEMMA CriticalSubmitStep ==
  ASSUME TypeOK, LockInv, CriticalInv, NEW p \in Submitters, SubmitLocks(p) \/ SubmitStep(p) \/
      Crash(p) \/ SubmitRaises(p)
  PROVE  CriticalInv'
<1> USE NamesAssumption, RepoAssumption DEF TypeOK, files, world, locks, local, Step, Goto, Ends,
    Without, SubmitLabels, RunLabels, LockInv, Executing, CriticalInv, NoDuplicateBuild
<1>1. CASE CheckCached(p) BY <1>1 DEF CheckCached
<1>2. CASE CheckResult(p) BY <1>2 DEF CheckResult
<1>3. CASE DropSrc(p) BY <1>3 DEF DropSrc
<1>4. CASE DropResult(p) BY <1>4 DEF DropResult
<1>5. CASE DropJob(p) BY <1>5 DEF DropJob
<1>6. CASE CheckRunning(p) BY <1>6 DEF CheckRunning
<1>7. CASE SaveJob(p) BY <1>7 DEF SaveJob
<1>8. CASE Fetch(p) BY <1>8 DEF Fetch
<1>9. CASE Clone(p) BY <1>9 DEF Clone
<1>10. CASE Checkout(p) BY <1>10 DEF Checkout
<1>11. CASE GitFails(p) BY <1>11 DEF GitFails
<1>12. CASE Pending(p) BY <1>12 DEF Pending
<1>13. CASE LaunchFails(p) BY <1>13 DEF LaunchFails
<1>14. CASE SaveError(p) BY <1>14 DEF SaveError
<1>15. CASE DropFailedSrc(p) BY <1>15 DEF DropFailedSrc
<1>16. CASE LockSubmit(p) BY <1>16 DEF LockSubmit, Acquire
<1>17. CASE LockRetry(p) BY <1>17 DEF LockRetry, Acquire
<1>18. CASE LockMirror(p) BY <1>18 DEF LockMirror, Acquire
<1>19. CASE Crash(p) BY <1>19 DEF Crash
<1>20. ASSUME NEW u \in Units, Launch(p, u) PROVE CriticalInv'
  BY <1>20 DEF Launch
<1>21. CASE SubmitRaises(p) BY <1>21 DEF SubmitRaises, CutShort
<1> QED BY <1>1, <1>2, <1>3, <1>4, <1>5, <1>6, <1>7, <1>8, <1>9, <1>10, <1>11, <1>12, <1>13,
    <1>14, <1>15, <1>16, <1>17, <1>18, <1>19, <1>20, <1>21 DEF SubmitStep, SubmitLocks, RunStep,
    RunLocks, UnitFault

(* A unit builds under its repository's lock and exits after its result. *)
LEMMA CriticalRunStep ==
  ASSUME TypeOK, LockInv, CriticalInv, NEW u \in Units, RunLocks(u) \/ RunStep(u) \/ UnitFault(u)
  PROVE  CriticalInv'
<1> USE NamesAssumption, RepoAssumption DEF TypeOK, files, world, locks, local, Step, Goto, Ends,
    Without, SubmitLabels, RunLabels, LockInv, Executing, CriticalInv, NoDuplicateBuild
<1>1. CASE ReadJob(u) BY <1>1 DEF ReadJob
<1>2. CASE NoJobFile(u) BY <1>2 DEF NoJobFile, UnitEnds
<1>3. CASE AlreadyFinished(u) BY <1>3 DEF AlreadyFinished, UnitEnds
<1>4. CASE Begin(u) BY <1>4 DEF Begin
<1>5. CASE ReadConfig(u) BY <1>5 DEF ReadConfig
<1>6. CASE UseImage(u) BY <1>6 DEF UseImage
<1>7. CASE BuildImage(u) BY <1>7 DEF BuildImage
<1>8. CASE ImageBuilt(u) BY <1>8 DEF ImageBuilt
<1>9. CASE StartContainer(u) BY <1>9 DEF StartContainer
<1>10. CASE InfrastructureFails(u) BY <1>10 DEF InfrastructureFails
<1>11. CASE ContainerExits(u) BY <1>11 DEF ContainerExits
<1>12. CASE ClientLost(u) BY <1>12 DEF ClientLost
<1>13. CASE Cleanup(u) BY <1>13 DEF Cleanup
<1>14. CASE Finish(u) BY <1>14 DEF Finish
<1>15. CASE Publish(u) BY <1>15 DEF Publish
<1>16. CASE PublishFails(u) BY <1>16 DEF PublishFails
<1>17. CASE SaveResult(u) BY <1>17 DEF SaveResult
<1>18. CASE Exit(u) BY <1>18 DEF Exit, UnitEnds
<1>19. CASE LockRun(u) BY <1>19 DEF LockRun, Acquire
<1>20. CASE TakeSlot(u) BY <1>20 DEF TakeSlot, Acquire
<1>21. CASE LockImage(u) BY <1>21 DEF LockImage, Acquire
<1>22. CASE CleanupFails(u) BY <1>22 DEF CleanupFails, LeavesStray
<1>23. CASE TermWaiting(u) BY <1>23 DEF TermWaiting, Term
<1>24. CASE TermExecuting(u) BY <1>24 DEF TermExecuting, Term
<1>25. CASE TermRunning(u) BY <1>25 DEF TermRunning, Term
<1>26. CASE TermCleanup(u) BY <1>26 DEF TermCleanup, Term, LeavesStray
<1>27. CASE TermKills(u) BY <1>27 DEF TermKills, CutShort, UnitEnds
<1>28. CASE Kill(u) BY <1>28 DEF Kill, LeavesStray, CutShort, UnitEnds
<1>29. CASE SlotFails(u) BY <1>29 DEF SlotFails
<1>30. CASE ConfigRaises(u) BY <1>30 DEF ConfigRaises
<1>31. CASE FinishRaises(u) BY <1>31 DEF FinishRaises, CutShort, UnitEnds
<1>32. CASE RunRaises(u) BY <1>32 DEF RunRaises, CutShort, UnitEnds
<1>33. CASE PublishRaises(u) BY <1>33 DEF PublishRaises
<1> QED BY <1>1, <1>2, <1>3, <1>4, <1>5, <1>6, <1>7, <1>8, <1>9, <1>10, <1>11, <1>12, <1>13,
    <1>14, <1>15, <1>16, <1>17, <1>18, <1>19, <1>20, <1>21, <1>22, <1>23, <1>24, <1>25, <1>26,
    <1>27, <1>28, <1>29, <1>30, <1>31, <1>32, <1>33 DEF SubmitStep, SubmitLocks, RunStep, RunLocks, UnitFault

(* Every step keeps what the two locks protect. *)
LEMMA CriticalNext ==
  ASSUME TypeOK, LockInv, CriticalInv, [Next]_vars
  PROVE  CriticalInv'
<1> USE NamesAssumption, RepoAssumption DEF TypeOK, CriticalInv, NoDuplicateBuild, LockInv,
    Executing, files, world, locks, local
<1>1. ASSUME NEW p \in Submitters, NEW j \in Jobs, Call(p, j) PROVE CriticalInv'
  BY <1>1 DEF Call, Step, Goto
<1>2. ASSUME NEW p \in Submitters, NEW u \in Units, LaunchAmbiguous(p, u) PROVE CriticalInv'
  BY <1>2 DEF LaunchAmbiguous
<1>3. ASSUME NEW j \in Jobs, OrphanStops(j) PROVE CriticalInv'
  BY <1>3 DEF OrphanStops
<1>4. CASE UNCHANGED vars
  BY <1>4 DEF vars
<1> QED BY <1>1, <1>2, <1>3, <1>4, CriticalSubmitStep, CriticalRunStep DEF Next

(* CriticalInv holds in every state, under every fault. *)
LEMMA CriticalInvariant == Spec => [](TypeOK /\ LockInv /\ CriticalInv)
<1>1. Init => CriticalInv
  BY NamesAssumption DEF Init, CriticalInv, NoDuplicateBuild
<1>2. TypeOK /\ LockInv /\ CriticalInv /\ [Next]_vars => CriticalInv'
  BY CriticalNext
<1> QED BY <1>1, <1>2, LockInvariant, PTL DEF Spec

(* No unit builds an image that another unit has just built, whatever dies *)
(* between looking it up and building it.                                  *)
THEOREM BuildTheorem == Spec => []NoDuplicateBuild
<1>1. CriticalInv => NoDuplicateBuild
  BY DEF CriticalInv
<1> QED BY <1>1, CriticalInvariant, PTL

---------------------------------------------------------------------------
(* Lost jobs: whoever has a job in hand records its end, or was cut short. *)

(* A submit that has written job.json launches a unit or writes an error. *)
LEMMA LostSubmitStep ==
  ASSUME TypeOK, LockInv, CriticalInv, NoLostJob, NEW p \in Submitters, SubmitLocks(p)
      \/ SubmitStep(p) \/ Crash(p) \/ SubmitRaises(p)
  PROVE  NoLostJob'
<1> USE NamesAssumption DEF TypeOK, files, world, locks, local, Step, Goto,
    Ends, Without, SubmitLabels, RunLabels, LockInv, Executing, CriticalInv, NoLostJob, Alive, HasInHand
<1>1. CASE CheckCached(p) BY <1>1 DEF CheckCached
<1>2. CASE CheckResult(p) BY <1>2 DEF CheckResult
<1>3. CASE DropSrc(p) BY <1>3 DEF DropSrc
<1>4. CASE DropResult(p) BY <1>4 DEF DropResult
<1>5. CASE DropJob(p) BY <1>5 DEF DropJob
<1>6. CASE CheckRunning(p) BY <1>6 DEF CheckRunning
<1>7. CASE SaveJob(p) BY <1>7 DEF SaveJob
<1>8. CASE Fetch(p) BY <1>8 DEF Fetch
<1>9. CASE Clone(p) BY <1>9 DEF Clone
<1>10. CASE Checkout(p) BY <1>10 DEF Checkout
<1>11. CASE GitFails(p) BY <1>11 DEF GitFails
<1>12. CASE Pending(p) BY <1>12 DEF Pending
<1>13. CASE LaunchFails(p) BY <1>13 DEF LaunchFails
<1>14. CASE SaveError(p) BY <1>14 DEF SaveError
<1>15. CASE DropFailedSrc(p) BY <1>15 DEF DropFailedSrc
<1>16. CASE LockSubmit(p) BY <1>16 DEF LockSubmit, Acquire
<1>17. CASE LockRetry(p) BY <1>17 DEF LockRetry, Acquire
<1>18. CASE LockMirror(p) BY <1>18 DEF LockMirror, Acquire
<1>19. CASE Crash(p) BY <1>19 DEF Crash, CutShort, HasInHand
<1>20. ASSUME NEW u \in Units, Launch(p, u) PROVE NoLostJob'
  BY <1>20 DEF Launch
<1>21. CASE SubmitRaises(p) BY <1>21 DEF SubmitRaises, CutShort
<1> QED BY <1>1, <1>2, <1>3, <1>4, <1>5, <1>6, <1>7, <1>8, <1>9, <1>10, <1>11, <1>12, <1>13,
    <1>14, <1>15, <1>16, <1>17, <1>18, <1>19, <1>20, <1>21 DEF SubmitStep, SubmitLocks, RunStep,
    RunLocks, UnitFault

(* A unit whose job.json is there ends with a result.json. *)
LEMMA LostRunStep ==
  ASSUME TypeOK, LockInv, CriticalInv, NoLostJob, NEW u \in Units, RunLocks(u) \/
      RunStep(u) \/ UnitFault(u)
  PROVE  NoLostJob'
<1> USE NamesAssumption DEF TypeOK, files, world, locks, local, Step, Goto,
    Ends, Without, SubmitLabels, RunLabels, LockInv, Executing, CriticalInv, NoLostJob, Alive, HasInHand
<1>1. CASE ReadJob(u) BY <1>1 DEF ReadJob
<1>2. CASE NoJobFile(u) BY <1>2 DEF NoJobFile, UnitEnds
<1>3. CASE AlreadyFinished(u) BY <1>3 DEF AlreadyFinished, UnitEnds
<1>4. CASE Begin(u) BY <1>4 DEF Begin
<1>5. CASE ReadConfig(u) BY <1>5 DEF ReadConfig
<1>6. CASE UseImage(u) BY <1>6 DEF UseImage
<1>7. CASE BuildImage(u) BY <1>7 DEF BuildImage
<1>8. CASE ImageBuilt(u) BY <1>8 DEF ImageBuilt
<1>9. CASE StartContainer(u) BY <1>9 DEF StartContainer
<1>10. CASE InfrastructureFails(u) BY <1>10 DEF InfrastructureFails
<1>11. CASE ContainerExits(u) BY <1>11 DEF ContainerExits
<1>12. CASE ClientLost(u) BY <1>12 DEF ClientLost
<1>13. CASE Cleanup(u) BY <1>13 DEF Cleanup
<1>14. CASE Finish(u) BY <1>14 DEF Finish
<1>15. CASE Publish(u) BY <1>15 DEF Publish
<1>16. CASE PublishFails(u) BY <1>16 DEF PublishFails
<1>17. CASE SaveResult(u) BY <1>17 DEF SaveResult
<1>18. CASE Exit(u) BY <1>18 DEF Exit, UnitEnds
<1>19. CASE LockRun(u) BY <1>19 DEF LockRun, Acquire
<1>20. CASE TakeSlot(u) BY <1>20 DEF TakeSlot, Acquire
<1>21. CASE LockImage(u) BY <1>21 DEF LockImage, Acquire
<1>22. CASE CleanupFails(u) BY <1>22 DEF CleanupFails, LeavesStray
<1>23. CASE TermWaiting(u) BY <1>23 DEF TermWaiting, Term
<1>24. CASE TermExecuting(u) BY <1>24 DEF TermExecuting, Term
<1>25. CASE TermRunning(u) BY <1>25 DEF TermRunning, Term
<1>26. CASE TermCleanup(u) BY <1>26 DEF TermCleanup, Term, LeavesStray
<1>27. CASE TermKills(u) BY <1>27 DEF TermKills, CutShort, UnitEnds
<1>28. CASE Kill(u) BY <1>28 DEF Kill, LeavesStray, CutShort, UnitEnds
<1>29. CASE SlotFails(u) BY <1>29 DEF SlotFails
<1>30. CASE ConfigRaises(u) BY <1>30 DEF ConfigRaises
<1>31. CASE FinishRaises(u) BY <1>31 DEF FinishRaises, CutShort, UnitEnds
<1>32. CASE RunRaises(u) BY <1>32 DEF RunRaises, CutShort, UnitEnds
<1>33. CASE PublishRaises(u) BY <1>33 DEF PublishRaises
<1> QED BY <1>1, <1>2, <1>3, <1>4, <1>5, <1>6, <1>7, <1>8, <1>9, <1>10, <1>11, <1>12, <1>13,
    <1>14, <1>15, <1>16, <1>17, <1>18, <1>19, <1>20, <1>21, <1>22, <1>23, <1>24, <1>25, <1>26,
    <1>27, <1>28, <1>29, <1>30, <1>31, <1>32, <1>33 DEF SubmitStep, SubmitLocks, RunStep, RunLocks, UnitFault

(* Every step leaves a running job somebody who will end it. *)
LEMMA LostNext ==
  ASSUME TypeOK, LockInv, CriticalInv, NoLostJob, [Next]_vars
  PROVE  NoLostJob'
<1> USE NamesAssumption DEF TypeOK, NoLostJob, Alive, HasInHand, files, world, locks, local
<1>1. ASSUME NEW p \in Submitters, NEW j \in Jobs, Call(p, j) PROVE NoLostJob'
  BY <1>1 DEF Call, Step, Goto
<1>2. ASSUME NEW p \in Submitters, NEW u \in Units, LaunchAmbiguous(p, u) PROVE NoLostJob'
  BY <1>2 DEF LaunchAmbiguous
<1>3. ASSUME NEW j \in Jobs, OrphanStops(j) PROVE NoLostJob'
  BY <1>3 DEF OrphanStops
<1>4. CASE UNCHANGED vars
  BY <1>4 DEF vars
<1> QED BY <1>1, <1>2, <1>3, <1>4, LostSubmitStep, LostRunStep DEF Next

(* What submit and status call running has a process that will end it, even *)
(* if systemd-run is wrong about its launch, unless the process that had it *)
(* died or raised what nobody catches.                                      *)
THEOREM NoLostTheorem == Spec => []NoLostJob
<1>1. Init => NoLostJob
  BY DEF Init, NoLostJob
<1>2. TypeOK /\ LockInv /\ CriticalInv /\ NoLostJob /\ [Next]_vars => NoLostJob'
  BY LostNext
<1> QED BY <1>1, <1>2, CriticalInvariant, PTL DEF Spec

(* A unit that ends before its time *)
Stopped(u) == TermKills(u) \/ Kill(u) \/ RunRaises(u) \/ FinishRaises(u)

(* The ways in which a unit ends *)
LEMMA UnitEndings ==
  ASSUME TypeOK, [Next]_vars, NEW u \in Units, Alive(u), ~Alive(u)'
  PROVE  NoJobFile(u) \/ AlreadyFinished(u) \/ Exit(u) \/ Stopped(u)
<1> USE NamesAssumption DEF TypeOK, Alive, Step, Goto, Ends, UnitEnds
<1>1. CASE UNCHANGED vars
  BY <1>1 DEF vars
<1>2. ASSUME NEW p \in Submitters, NEW j \in Jobs, Call(p, j) PROVE FALSE
  BY <1>2 DEF Call
<1>3. ASSUME NEW p \in Submitters, SubmitLocks(p) \/ SubmitStep(p) \/ Crash(p) \/ SubmitRaises(p) PROVE FALSE
  BY <1>3 DEF SubmitLocks, LockSubmit, LockRetry, LockMirror, SubmitStep, CheckCached, CheckResult,
     DropSrc, DropResult, DropJob, CheckRunning, SaveJob, Fetch, Clone, Checkout, GitFails,
     Pending, Launch, LaunchFails, SaveError, DropFailedSrc, Crash, SubmitRaises
<1>4. ASSUME NEW p \in Submitters, NEW v \in Units, LaunchAmbiguous(p, v) PROVE FALSE
  BY <1>4 DEF LaunchAmbiguous
<1>5. ASSUME NEW v \in Units, RunLocks(v) PROVE FALSE
  BY <1>5 DEF RunLocks, LockRun, TakeSlot, LockImage
<1>6. ASSUME NEW v \in Units, RunStep(v) PROVE NoJobFile(u) \/ AlreadyFinished(u) \/ Exit(u) \/ Stopped(u)
  BY <1>6 DEF RunStep, ReadJob, NoJobFile, AlreadyFinished, Begin, ReadConfig, UseImage,
     BuildImage, ImageBuilt, StartContainer, InfrastructureFails, ContainerExits, ClientLost,
     Cleanup, Finish, Publish, PublishFails, SaveResult, Exit, SlotFails, FinishRaises, Stopped
<1>7. ASSUME NEW v \in Units, UnitFault(v) PROVE Stopped(u)
  BY <1>7 DEF UnitFault, CleanupFails, Term, TermWaiting, TermExecuting, TermRunning, TermCleanup,
     TermKills, Kill, RunRaises, ConfigRaises, PublishRaises, Stopped
<1>8. ASSUME NEW j \in Jobs, OrphanStops(j) PROVE FALSE
  BY <1>8 DEF OrphanStops
<1> QED
  BY <1>1, <1>2, <1>3, <1>4, <1>5, <1>6, <1>7, <1>8 DEF Next

(* A unit that executes its job leaves a result.json, whatever fails in    *)
(* its gate, cleanup and publication; or it was killed, or raised what     *)
(* nobody catches, and then the attempt counts as cut short.               *)
THEOREM ResultTheorem == Spec => EndsWithResult
<1> DEFINE Leaves == \A u \in Units :
                       Executing(u) /\ ~Alive(u)' => result'[job[u]] # "none" \/ cut'[job[u]]
<1>1. ASSUME TypeOK, LockInv, CriticalInv, [Next]_vars PROVE [Leaves]_vars
  <2> SUFFICES ASSUME NEW u \in Units, Executing(u), ~Alive(u)'
               PROVE  result'[job[u]] # "none" \/ cut'[job[u]]
    OBVIOUS
  <2>1. NoJobFile(u) \/ AlreadyFinished(u) \/ Exit(u) \/ Stopped(u)
    BY <1>1, UnitEndings DEF Executing, Alive
  <2>2. CASE Exit(u) \/ AlreadyFinished(u)
    BY <1>1, <2>2 DEF Exit, AlreadyFinished, CriticalInv, files
  <2>3. CASE NoJobFile(u)
    BY <2>3 DEF Executing, NoJobFile
  <2>4. CASE Stopped(u)
    <3>1. job[u] \in Jobs
      BY <1>1 DEF TypeOK, Executing, Procs, RunLabels
    <3>2. CutShort(u) /\ UNCHANGED result
      BY <2>4 DEF Stopped, TermKills, Kill, RunRaises, FinishRaises
    <3>3. cut \in [Jobs -> BOOLEAN]
      BY <1>1 DEF TypeOK
    <3>4. cut'[job[u]] = (cut[job[u]] \/ result[job[u]] = "none")
      BY <3>1, <3>2, <3>3, Zenon DEF CutShort
    <3> QED
      BY <3>2, <3>4
  <2> QED
    BY <2>1, <2>2, <2>3, <2>4
<1> QED
  BY <1>1, CriticalInvariant, PTL DEF Spec, EndsWithResult
=============================================================================
