--------------------------- MODULE Trials_proofs ---------------------------
(***************************************************************************)
(* Proofs about Trials, for any finite set of cases, any arms, repetitions *)
(* and pool of workers, and any number of sessions.                        *)
(***************************************************************************)
EXTENDS Trials, FiniteSetTheorems, TLAPS

SessionTypes ==
  session \in [kind : {"idle", "all", "rerun"}, waiting : SUBSET Jobs, running : SUBSET Jobs,
               recorded : SUBSET Jobs, jobs : SUBSET Jobs, open : BOOLEAN, stopped : BOOLEAN]

FileTypes ==
  /\ driver \in {"reviews", "fixed", "vision"}
  /\ latest \in [Jobs -> Records \cup {NoRecord}]
  /\ sessions \in 0 .. MaxSessions
  /\ due \subseteq Jobs

Pool ==
  /\ IsFiniteSet(session.running) /\ Cardinality(session.running) <= Workers
  /\ session.waiting \cap session.running = {}

(* The jobs of an open session are waiting, running or recorded, and only  *)
(* an interrupt or a kill closes it early.                                 *)
Accounted ==
  /\ session.open => session.waiting \cup session.running \cup session.recorded = session.jobs
  /\ session.kind # "idle" => session.open \/ session.stopped
  /\ session.kind = "idle" => ~session.open /\ session.waiting = {} /\ session.running = {}

(* What a session recorded, or was due to record, has a record.            *)
Written == \A j \in session.recorded \cup due : latest[j] # NoRecord

(* The jobs of a --rerun-failed session need it until they have run.       *)
Needed ==
  session.kind = "rerun" =>
    \A j \in session.waiting \cup session.running : latest[j] # NoRecord /\ needs_rerun(latest[j])

IInv == SessionTypes /\ FileTypes /\ Pool /\ Accounted /\ Written /\ Needed

---------------------------------------------------------------------------
(* The steps *)

LEMMA InitOK == Init => IInv
<1> SUFFICES ASSUME Init PROVE IInv
  OBVIOUS
<1>1. SessionTypes
  BY DEF Init, Idle, SessionTypes
<1>2. FileTypes
  BY PoolAssumption DEF Init, FileTypes
<1>3. Pool
  BY FS_EmptySet, PoolAssumption DEF Init, Idle, Pool
<1>4. Accounted /\ Written /\ Needed
  BY DEF Init, Idle, Accounted, Written, Needed
<1> QED
  BY <1>1, <1>2, <1>3, <1>4 DEF IInv

LEMMA BeginOK ==
  ASSUME IInv, NEW kind \in {"all", "rerun"}, NEW J \in SUBSET Jobs, Begin(kind, J),
         kind = "rerun" => \A j \in J : latest[j] # NoRecord /\ needs_rerun(latest[j])
  PROVE  IInv'
<1>1. /\ session' = [kind |-> kind, waiting |-> J, running |-> {}, recorded |-> {}, jobs |-> J,
                     open |-> TRUE, stopped |-> FALSE]
      /\ UNCHANGED <<driver, latest, due>>
  BY DEF Begin, Idle
<1>2. SessionTypes'
  BY <1>1 DEF SessionTypes
<1>3. FileTypes'
  BY <1>1, PoolAssumption DEF IInv, FileTypes, Begin
<1>4. Pool'
  BY <1>1, FS_EmptySet, PoolAssumption DEF Pool
<1>5. Accounted' /\ Written' /\ Needed'
  BY <1>1 DEF IInv, Accounted, Written, Needed
<1> QED
  BY <1>2, <1>3, <1>4, <1>5 DEF IInv

LEMMA TakeOK == ASSUME IInv, NEW j \in Jobs, Take(j) PROVE IInv'
<1> USE DEF Take
<1>1. SessionTypes'
  BY DEF IInv, SessionTypes
<1>2. FileTypes'
  BY DEF IInv, FileTypes
<1>3. /\ session'.waiting = session.waiting \ {j}
      /\ session'.running = session.running \cup {j}
      /\ session'.recorded = session.recorded /\ session'.jobs = session.jobs
      /\ session'.kind = session.kind
      /\ session'.open = session.open /\ session'.stopped = session.stopped
      /\ j \in session.waiting
  BY DEF IInv, SessionTypes
<1>4. Pool'
  <2>1. IsFiniteSet(session.running) /\ Cardinality(session.running) < Workers
    BY DEF IInv, Pool
  <2>2. Cardinality(session.running) \in Nat
    BY <2>1, FS_CardinalityType
  <2>3. /\ IsFiniteSet(session.running \cup {j})
        /\ Cardinality(session.running \cup {j}) <= Cardinality(session.running) + 1
        /\ Cardinality(session.running \cup {j}) \in Nat
    <3>1. IsFiniteSet(session.running \cup {j})
      BY <2>1, FS_AddElement
    <3>2. Cardinality(session.running \cup {j})
            = IF j \in session.running THEN Cardinality(session.running)
              ELSE Cardinality(session.running) + 1
      BY <2>1, FS_AddElement
    <3> QED
      BY <2>2, <3>1, <3>2, FS_CardinalityType
  <2>4. session'.waiting \cap session'.running = {}
    BY <1>3 DEF IInv, Pool
  <2> QED
    BY <1>3, <2>1, <2>2, <2>3, <2>4, PoolAssumption DEF Pool
<1>5. Accounted' /\ Needed'
  BY <1>3 DEF IInv, Accounted, Needed
<1>6. Written'
  BY <1>3 DEF IInv, Written
<1> QED
  BY <1>1, <1>2, <1>4, <1>5, <1>6 DEF IInv

LEMMA RunningShrinks ==
  ASSUME Pool, NEW S \in SUBSET session.running
  PROVE  IsFiniteSet(S) /\ Cardinality(S) <= Workers
<1>1. /\ IsFiniteSet(session.running) /\ IsFiniteSet(S)
      /\ Cardinality(S) <= Cardinality(session.running)
  BY FS_Subset DEF Pool
<1>2. Cardinality(S) \in Nat /\ Cardinality(session.running) \in Nat
  BY <1>1, FS_CardinalityType
<1> QED
  BY <1>1, <1>2, PoolAssumption DEF Pool

LEMMA YieldOK == ASSUME IInv, NEW j \in Jobs, NEW rec \in Records, Yield(j, rec) PROVE IInv'
<1> USE DEF Yield
<1>1. SessionTypes'
  BY DEF IInv, SessionTypes
<1>2. FileTypes'
  BY DEF IInv, FileTypes
<1>3. /\ session'.waiting = session.waiting
      /\ session'.running = session.running \ {j}
      /\ session'.recorded = session.recorded \cup {j} /\ session'.jobs = session.jobs
      /\ session'.kind = session.kind
      /\ session'.open = session.open /\ session'.stopped = session.stopped
      /\ j \in session.running /\ session.open
  BY DEF IInv, SessionTypes
<1>4. /\ latest'[j] # NoRecord
      /\ \A i \in Jobs \ {j} : latest'[i] = latest[i]
  BY DEF IInv, FileTypes, Records, NoRecord
<1>5. Pool'
  <2>1. session.running \ {j} \in SUBSET session.running
    OBVIOUS
  <2> QED
    BY <1>3, <2>1, RunningShrinks DEF IInv, Pool
<1>6. Accounted'
  BY <1>3 DEF IInv, Accounted
<1>7. Written'
  BY <1>3, <1>4 DEF IInv, Written, SessionTypes, FileTypes
<1>8. Needed'
  BY <1>3, <1>4 DEF IInv, Needed, Pool, SessionTypes
<1> QED
  BY <1>1, <1>2, <1>5, <1>6, <1>7, <1>8 DEF IInv

LEMMA UnheardOK == ASSUME IInv, NEW j \in Jobs, Unheard(j) PROVE IInv'
<1> USE DEF Unheard
<1>1. SessionTypes'
  BY DEF IInv, SessionTypes
<1>2. FileTypes'
  BY DEF IInv, FileTypes
<1>3. /\ session'.waiting = session.waiting
      /\ session'.running = session.running \ {j}
      /\ session'.recorded = session.recorded
      /\ session'.kind = session.kind
      /\ session'.open = session.open /\ session'.stopped = session.stopped
      /\ ~session.open
  BY DEF IInv, SessionTypes
<1>4. Pool'
  <2>1. session.running \ {j} \in SUBSET session.running
    OBVIOUS
  <2> QED
    BY <1>3, <2>1, RunningShrinks DEF IInv, Pool
<1>5. Accounted' /\ Written' /\ Needed'
  BY <1>3 DEF IInv, Accounted, Written, Needed
<1> QED
  BY <1>1, <1>2, <1>4, <1>5 DEF IInv

LEMMA InterruptOK == ASSUME IInv, Interrupt PROVE IInv'
<1> USE DEF Interrupt
<1>1. SessionTypes'
  BY DEF IInv, SessionTypes
<1>2. FileTypes'
  BY DEF IInv, FileTypes
<1>3. /\ session'.waiting = session.waiting /\ session'.running = session.running
      /\ session'.recorded = {} /\ session'.kind = session.kind
      /\ session'.open = FALSE /\ session'.stopped = TRUE
      /\ session.open
  BY DEF IInv, SessionTypes
<1>4. Pool' /\ Accounted' /\ Written' /\ Needed'
  BY <1>3 DEF IInv, Pool, Accounted, Written, Needed
<1> QED
  BY <1>1, <1>2, <1>4 DEF IInv

(* A session that ends by itself was open to the end, or stopped.          *)
LEMMA EndedWhole ==
  ASSUME IInv, End, ~session.stopped
  PROVE  session.recorded = session.jobs
BY DEF IInv, Accounted, End

LEMMA EndOK == ASSUME IInv, End \/ Kill PROVE IInv'
<1>0. session.stopped \in BOOLEAN
  BY DEF IInv, SessionTypes
<1>1. PICK stopped \in BOOLEAN :
        /\ session' = [kind |-> "idle", waiting |-> {}, running |-> {}, recorded |-> {},
                       jobs |-> {}, open |-> FALSE, stopped |-> stopped]
        /\ UNCHANGED <<driver, latest, sessions>>
  BY <1>0 DEF End, Kill, Idle
<1>2. due' \subseteq Jobs /\ \A j \in due' : latest[j] # NoRecord
  <2>1. CASE End /\ ~session.stopped
    BY <2>1, EndedWhole DEF End, IInv, SessionTypes, FileTypes, Written
  <2>2. CASE ~(End /\ ~session.stopped)
    BY <2>2 DEF End, Kill, IInv, FileTypes, Written
  <2> QED
    BY <2>1, <2>2
<1>3. SessionTypes'
  BY <1>1 DEF SessionTypes
<1>4. FileTypes'
  BY <1>1, <1>2 DEF IInv, FileTypes
<1>5. Pool'
  BY <1>1, FS_EmptySet, PoolAssumption DEF Pool
<1>6. Accounted' /\ Written' /\ Needed'
  BY <1>1, <1>2 DEF Accounted, Written, Needed
<1> QED
  BY <1>3, <1>4, <1>5, <1>6 DEF IInv

(* A session's jobs are those of the directory.                            *)
LEMMA BeginsAreJobs ==
  ASSUME NEW C \in SUBSET Cases, NEW A \in SUBSET Arms, NEW n \in 1 .. MaxReps
  PROVE  C \X A \X (0 .. n - 1) \in SUBSET Jobs
BY JobAssumption DEF Jobs

LEMMA NextOK == IInv /\ [Next]_vars => IInv'
<1> SUFFICES ASSUME IInv, [Next]_vars PROVE IInv'
  OBVIOUS
<1>1. CASE UNCHANGED vars
  BY <1>1 DEF vars, IInv, SessionTypes, FileTypes, Pool, Accounted, Written, Needed
<1>2. ASSUME NEW A \in (SUBSET Arms) \ {{}}, NEW n \in 1 .. MaxReps, NEW C \in (SUBSET Cases) \ {{}},
             Reviews(C, A, n) \/ FixedTrials(C, A, n)
      PROVE  IInv'
  BY <1>2, BeginsAreJobs, BeginOK DEF Reviews, FixedTrials
<1>3. ASSUME NEW A \in (SUBSET Arms) \ {{}}, NEW n \in 1 .. MaxReps, Vision(A, n)
      PROVE  IInv'
  BY <1>3, BeginsAreJobs, BeginOK DEF Vision
<1>4. ASSUME NEW A \in (SUBSET Arms) \ {{}}, NEW n \in 1 .. MaxReps, NEW C \in (SUBSET Cases) \ {{}},
             RerunFailed(C, A, n)
      PROVE  IInv'
  <2> DEFINE J == {j \in C \X A \X (0 .. n - 1) : latest[j] # NoRecord /\ needs_rerun(latest[j])}
  <2>1. J \in SUBSET Jobs
    BY BeginsAreJobs
  <2>2. Begin("rerun", J)
    BY <1>4 DEF RerunFailed
  <2>3. \A j \in J : latest[j] # NoRecord /\ needs_rerun(latest[j])
    OBVIOUS
  <2> HIDE DEF J
  <2> QED
    BY <2>1, <2>2, <2>3, BeginOK
<1>5. CASE Takes
  BY <1>5, TakeOK DEF Takes
<1>6. CASE TrialEnds
  BY <1>6, YieldOK, UnheardOK
     DEF TrialEnds, ReviewTrial, FixedTrial, VisionTrial, TrialRaises, Records
<1> QED
  BY <1>1, <1>2, <1>3, <1>4, <1>5, <1>6, EndOK, InterruptOK DEF Next

Steps == Init /\ [][Next]_vars

LEMMA SpecIsSteps == Spec => Steps
BY PTL DEF Spec, Steps

LEMMA Invariant == Spec => []IInv
BY InitOK, NextOK, SpecIsSteps, PTL DEF Steps

---------------------------------------------------------------------------
(* Theorems *)

(* TypeOK: the directory and its session are well typed, no more trials    *)
(* run than there are workers, and none that is still waiting.             *)
THEOREM TypeCorrect == Spec => []TypeOK
<1>1. IInv => TypeOK
  BY DEF IInv, SessionTypes, FileTypes, Pool, TypeOK
<1> QED
  BY <1>1, Invariant, PTL

(* NothingDropped: a session that nobody stops has written a record of     *)
(* every job it was given, in whatever order its trials end or fail.       *)
THEOREM NothingDroppedTheorem == Spec => NothingDropped
<1> DEFINE Kept == session.kind # "idle" /\ session'.kind = "idle" /\ ~session'.stopped
                     => session.recorded = session.jobs
<1>1. ASSUME IInv, [Next]_vars PROVE [Kept]_vars
  <2> SUFFICES ASSUME session.kind # "idle", session'.kind = "idle", ~session'.stopped
               PROVE  session.recorded = session.jobs
    OBVIOUS
  <2>1. CASE End
    BY <1>1, <2>1, EndedWhole DEF End, Idle
  <2>2. CASE ~End
    <3>1. session'.kind = session.kind \/ Kill
      BY <1>1, <2>2 DEF IInv, SessionTypes, Next, vars, Reviews, RerunFailed, FixedTrials, Vision,
         Begin, Takes, Take, TrialEnds, ReviewTrial, FixedTrial, VisionTrial, TrialRaises, Yield,
         Unheard, Interrupt
    <3> QED
      BY <3>1 DEF Kill, Idle
  <2> QED
    BY <2>1, <2>2
<1> QED
  BY <1>1, Invariant, SpecIsSteps, PTL DEF Steps, NothingDropped

(* RerunKeepsScores: --rerun-failed replaces no record that was scored and *)
(* adds none, although it read the records when it began.                  *)
THEOREM RerunTheorem == Spec => RerunKeepsScores
<1> DEFINE Kept == session.kind = "rerun" =>
                     \A j \in Jobs : Valid(j) \/ latest[j] = NoRecord => latest'[j] = latest[j]
<1>1. ASSUME IInv, [Next]_vars PROVE [Kept]_vars
  <2> SUFFICES ASSUME session.kind = "rerun", NEW j \in Jobs, Valid(j) \/ latest[j] = NoRecord
               PROVE  latest'[j] = latest[j]
    OBVIOUS
  <2>1. j \notin session.running
    BY <1>1 DEF IInv, Needed, Valid
  <2>2. ASSUME NEW i \in Jobs, NEW rec \in Records, Yield(i, rec) PROVE latest'[j] = latest[j]
    BY <1>1, <2>1, <2>2 DEF Yield, IInv, FileTypes
  <2>3. CASE TrialEnds
    BY <2>2, <2>3 DEF TrialEnds, ReviewTrial, FixedTrial, VisionTrial, TrialRaises, Unheard, Records
  <2>4. CASE ~TrialEnds
    BY <1>1, <2>4 DEF Next, vars, Reviews, RerunFailed, FixedTrials, Vision, Begin, Takes, Take,
       Interrupt, End, Kill
  <2> QED
    BY <2>3, <2>4
<1> QED
  BY <1>1, Invariant, SpecIsSteps, PTL DEF Steps, RerunKeepsScores

---------------------------------------------------------------------------
(* The decision *)

Recorded == {j \in Jobs : latest[j] # NoRecord}
CasesOf == {j[1] : j \in Recorded}
RepsOf == {j[3] : j \in Recorded}
ValidOf(a) == {j \in Recorded : j[2] = a /\ Valid(j)}

LEMMA GridIsFinite ==
  /\ IsFiniteSet(CasesOf \X RepsOf)
  /\ Cardinality(CasesOf \X RepsOf) = Cardinality(CasesOf) * Cardinality(RepsOf)
<1>1. CasesOf \subseteq Cases /\ RepsOf \subseteq 0 .. MaxReps - 1
  BY DEF CasesOf, RepsOf, Recorded, Jobs
<1>2. IsFiniteSet(0 .. MaxReps - 1)
  BY FS_Interval, JobAssumption
<1>3. IsFiniteSet(CasesOf) /\ IsFiniteSet(RepsOf)
  BY <1>1, <1>2, FS_Subset, JobAssumption
<1> QED
  BY <1>3, FS_Product

(* By their number alone, the scored trials of an arm that has a record    *)
(* are one for each case and repetition.                                   *)
LEMMA CountingFillsTheGrid ==
  ASSUME complete, NEW a \in {j[2] : j \in Recorded}, NEW c \in CasesOf, NEW r \in RepsOf
  PROVE  \E j \in ValidOf(a) : j[1] = c /\ j[3] = r
<1> DEFINE f == [j \in ValidOf(a) |-> <<j[1], j[3]>>]
<1>1. f \in Injection(ValidOf(a), CasesOf \X RepsOf)
  <2>1. f \in [ValidOf(a) -> CasesOf \X RepsOf]
    BY DEF ValidOf, CasesOf, RepsOf
  <2>2. \A i, j \in ValidOf(a) : f[i] = f[j] => i = j
    BY DEF ValidOf, Recorded, Jobs
  <2> QED
    BY <2>1, <2>2 DEF Injection, IsInjective
<1>2. Cardinality(ValidOf(a)) = Cardinality(CasesOf) * Cardinality(RepsOf)
  BY DEF complete, ValidOf, CasesOf, RepsOf, Recorded
<1>3. f \in Surjection(ValidOf(a), CasesOf \X RepsOf)
  BY <1>1, <1>2, GridIsFinite, FS_Injection
<1>4. PICK j \in ValidOf(a) : f[j] = <<c, r>>
  BY <1>3 DEF Surjection
<1> QED
  BY <1>4

(* DecisionIsComparable: when analyze.py does not withhold its decision,   *)
(* the arms were scored on the same cases and repetitions, and every job   *)
(* of the sessions that nobody stopped is among them.                      *)
THEOREM DecisionTheorem == Spec => []DecisionIsComparable
<1>1. ASSUME IInv PROVE DecisionIsComparable
  <2> SUFFICES ASSUME complete PROVE DecisionIsComparable
    BY DEF DecisionIsComparable
  <2> DEFINE scored(a) == {<<j[1], j[3]>> : j \in {i \in Jobs : i[2] = a /\ Valid(i)}}
  <2>1. ASSUME NEW j \in due PROVE Valid(j)
    <3>1. j \in Recorded
      BY <1>1 DEF IInv, Written, FileTypes, Recorded
    <3>2. PICK i \in ValidOf(j[2]) : i[1] = j[1] /\ i[3] = j[3]
      BY <3>1, CountingFillsTheGrid DEF CasesOf, RepsOf
    <3>3. i = j
      BY <3>1, <3>2 DEF ValidOf, Recorded, Jobs
    <3> QED
      BY <3>2, <3>3 DEF ValidOf
  <2>2. ASSUME NEW a \in Arms, scored(a) # {} PROVE scored(a) = CasesOf \X RepsOf
    <3>1. PICK i \in Jobs : i[2] = a /\ Valid(i)
      BY <2>2
    <3>2. a \in {j[2] : j \in Recorded}
      BY <3>1 DEF Recorded, Valid
    <3>3. scored(a) \subseteq CasesOf \X RepsOf
      BY DEF CasesOf, RepsOf, Recorded, Valid
    <3>4. ASSUME NEW c \in CasesOf, NEW r \in RepsOf PROVE <<c, r>> \in scored(a)
      <4>1. PICK j \in ValidOf(a) : j[1] = c /\ j[3] = r
        BY <3>2, CountingFillsTheGrid
      <4> QED
        BY <4>1 DEF ValidOf, Recorded
    <3> QED
      BY <3>3, <3>4
  <2>3. \A a, b \in Arms : scored(a) # {} /\ scored(b) # {} => scored(a) = scored(b)
    BY <2>2
  <2> QED
    BY <2>1, <2>3 DEF DecisionIsComparable
<1> QED
  BY <1>1, Invariant, PTL
===========================================================================
