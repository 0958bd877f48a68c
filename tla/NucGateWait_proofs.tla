------------------------- MODULE NucGateWait_proofs -------------------------
(***************************************************************************)
(* Proofs about NucGateWait, for any number of readers beside any service: *)
(* readers take no step of the service, so what NucGate_proofs shows of    *)
(* the service holds while they look at its files.                         *)
(***************************************************************************)
EXTENDS NucGateWait, NucGate_proofs

(* What the readers alone keep well typed. *)
ReadersOK ==
  /\ reading \in [Readers -> {"idle", "look", "load", "known", "sleep"}]
  /\ command \in [Readers -> {"wait", "status"}]
  /\ asked \in [Readers -> Jobs \cup {NoJob}]
  /\ \A c \in Readers : asked[c] = NoJob => reading[c] = "idle" /\ answer[c] = "none"
  /\ answer \in [Readers -> Answers]

(* A step of a reader is no step of the service. *)
LEMMA ServiceSteps == [WaitNext]_waitVars => [Next]_vars
BY DEF WaitNext, ReaderNext, Ask, Look, Load, Known, Expire, Sleep, Answer, waitVars

LEMMA ServiceBehaves == WaitSpec => Spec
BY ServiceSteps, PTL DEF WaitSpec, WaitInit, Spec

LEMMA ReadersInit == WaitInit => ReadersOK
BY DEF WaitInit, ReadersOK, Answers

(* What a reader answers is one of the answers. *)
LEMMA ReadersNext ==
  ASSUME TypeOK, ReadersOK, [WaitNext]_waitVars
  PROVE  ReadersOK'
<1> USE NamesAssumption DEF ReadersOK
<1>1. CASE UNCHANGED readers
  BY <1>1 DEF readers
<1>2. ASSUME NEW c \in Readers, NEW j \in Jobs, NEW what \in {"wait", "status"}, Ask(c, j, what)
      PROVE  ReadersOK'
  BY <1>2 DEF Ask, Answers
<1>3. ASSUME NEW c \in Readers, Look(c) PROVE ReadersOK'
  BY <1>3 DEF Look
<1>4. ASSUME NEW c \in Readers, NEW a \in Answers, reading[c] # "idle", Answer(c, a)
      PROVE  ReadersOK'
  BY <1>4 DEF Answer
<1>5. ASSUME NEW c \in Readers, Load(c) PROVE ReadersOK'
  <2>1. asked[c] \in Jobs
    BY <1>5 DEF Load
  <2>2. (IF result[asked[c]] = "none" THEN "gone"
         ELSE IF publicationError[asked[c]] THEN "unpublished" ELSE result[asked[c]]) \in Answers
    BY <2>1 DEF TypeOK, Answers
  <2> QED
    BY <1>4, <1>5, <2>2 DEF Load
<1>6. ASSUME NEW c \in Readers, Known(c) \/ Expire(c) PROVE ReadersOK'
  <2>1. {"running", "unknown", "expired"} \subseteq Answers
    BY DEF Answers
  <2> QED
    BY <1>4, <1>6, <2>1 DEF Known, Expire
<1>7. ASSUME NEW c \in Readers, Sleep(c) PROVE ReadersOK'
  BY <1>7 DEF Sleep
<1> QED
  BY <1>1, <1>2, <1>3, <1>5, <1>6, <1>7 DEF WaitNext, ReaderNext, waitVars

LEMMA ReadersInvariant == WaitSpec => [](TypeOK /\ ReadersOK)
<1>1. TypeOK /\ ReadersOK /\ [WaitNext]_waitVars => ReadersOK'
  BY ReadersNext
<1> QED
  BY <1>1, ReadersInit, ServiceBehaves, TypeCorrect, PTL DEF WaitSpec

(* WaitTypeOK: readers are well typed beside the service, and only a       *)
(* reader that asked about a job has an answer.                            *)
THEOREM WaitTypeCorrect == WaitSpec => []WaitTypeOK
<1>1. TypeOK /\ ReadersOK => WaitTypeOK
  BY DEF ReadersOK, WaitTypeOK
<1> QED
  BY <1>1, ReadersInvariant, PTL

---------------------------------------------------------------------------
(* Answers *)

(* The invariants of the service on which an answer rests *)
ServiceInv == TypeOK /\ LockInv /\ JobInv /\ PublishedInv

LEMMA ServiceInvariant ==
  ASSUME LaunchesReport
  PROVE  Spec => []ServiceInv
<1>1. Init => PublishedInv
  BY NamesAssumption DEF Init, PublishedInv, GitHubAgrees, Procs
<1>2. TypeOK /\ LockInv /\ JobInv /\ PublishedInv /\ [Next]_vars => PublishedInv'
  BY PublishedNext
<1> QED
  BY <1>1, <1>2, JobInvariant, PTL DEF Spec, ServiceInv

(* A verdict is answered only when GitHub shows it or publish() raised,    *)
(* and neither the verdict nor what GitHub shows changes any more.         *)
LEMMA AnswersNext ==
  ASSUME ServiceInv, ReadersOK, AnswerStands, LaunchesReport, [WaitNext]_waitVars
  PROVE  AnswerStands'
<1> USE NamesAssumption DEF ReadersOK, AnswerStands
<1>1. \A j \in Jobs : result[j] \in {"success", "failure"} =>
        result'[j] = result[j] /\ status'[j] = status[j] /\ cut'[j] = cut[j]
  BY ServiceSteps, FinalNext DEF ServiceInv, FinalStep
<1>2. CASE UNCHANGED readers
  <2> SUFFICES ASSUME NEW c \in Readers, answer[c] \in {"success", "failure"}
               PROVE  /\ result'[asked[c]] = answer[c]
                      /\ status'[asked[c]] = answer[c] \/ cut'[asked[c]]
    BY <1>2 DEF readers
  <2>1. asked[c] \in Jobs
    OBVIOUS
  <2> QED
    BY <1>1, <2>1
<1>3. ASSUME NEW c \in Readers, Load(c) PROVE AnswerStands'
  <2>1. asked[c] \in Jobs /\ UNCHANGED <<result, status, cut, asked>>
    BY <1>3 DEF Load, Answer, vars, files, world
  <2>2. answer'[c] \in {"success", "failure"} =>
          answer'[c] = result[asked[c]] /\ ~publicationError[asked[c]]
    BY <1>3, <2>1 DEF Load, Answer
  <2>3. answer'[c] \in {"success", "failure"} =>
        status[asked[c]] = result[asked[c]] \/ cut[asked[c]]
    BY <2>1, <2>2 DEF ServiceInv, PublishedInv, GitHubAgrees
  <2>4. \A d \in Readers \ {c} : answer'[d] = answer[d]
    BY <1>3 DEF Load, Answer
  <2> QED
    BY <2>1, <2>2, <2>3, <2>4
<1>4. ASSUME NEW c \in Readers, UNCHANGED vars,
             answer'[c] \notin {"success", "failure"} \/ UNCHANGED <<asked, answer>>,
             \A d \in Readers \ {c} : answer'[d] = answer[d] /\ asked'[d] = asked[d]
      PROVE  AnswerStands'
  BY <1>4 DEF vars, files, world
<1>5. ASSUME NEW c \in Readers, NEW j \in Jobs, NEW what \in {"wait", "status"}, Ask(c, j, what)
      PROVE  AnswerStands'
  BY <1>4, <1>5 DEF Ask
<1>6. ASSUME NEW c \in Readers, Look(c) \/ Sleep(c) PROVE AnswerStands'
  BY <1>4, <1>6 DEF Look, Sleep
<1>7. ASSUME NEW c \in Readers, Known(c) \/ Expire(c) PROVE AnswerStands'
  BY <1>4, <1>7 DEF Known, Expire, Answer
<1> QED
  BY <1>2, <1>3, <1>5, <1>6, <1>7 DEF WaitNext, ReaderNext, waitVars

(* AnswerStands: an exit code of wait that names a verdict is a verdict    *)
(* that stands whatever is submitted, killed or run afterwards, and GitHub *)
(* shows it unless publish() raised what nobody catches.                   *)
THEOREM AnswerTheorem ==
  ASSUME LaunchesReport
  PROVE  WaitSpec => []AnswerStands
<1>1. WaitInit => AnswerStands
  BY DEF WaitInit, AnswerStands
<1>2. ServiceInv /\ ReadersOK /\ AnswerStands /\ [WaitNext]_waitVars => AnswerStands'
  BY AnswersNext
<1> QED
  BY <1>1, <1>2, ServiceInvariant, ServiceBehaves, ReadersInvariant, PTL DEF WaitSpec
=============================================================================
