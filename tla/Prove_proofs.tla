---------------------------- MODULE Prove_proofs ----------------------------
(***************************************************************************)
(* Proofs about Prove, for any number of calls, proofs and commits.        *)
(***************************************************************************)
EXTENDS Prove, TLAPS

(* The call is about a commit with a gate and the frozen proof files. *)
Sound(s) ==
  /\ s.manifest \in Manifest
  /\ history[s.head].guarded
  /\ history[s.head].files = s.manifest.files

(* What a call that will not fail has established when it is at a step: the *)
(* proofs run on the frozen files until a command rewrites them.           *)
StepOK(s) ==
  /\ s.pc = "idle" => ~s.blocking
  /\ s.pc = "checking" =>
       s.manifest \in Manifest /\ ~s.blocking /\ s.flaws = {} /\ s.tree = history[s.head].files
  /\ s.pc = "head" =>
       /\ Sound(s)
       /\ ~s.blocking => s.flaws = {} /\ (s.tree = s.manifest.files \/ s.rewritten)
  /\ s.pc = "parent" =>
       /\ Sound(s)
       /\ ~s.blocking => s.flaws = {} /\ (s.overlay = s.manifest.files \/ s.rewritten)
  /\ s.pc = "verifying" =>
       /\ Sound(s)
       /\ s.snapshot \in [dirty : BOOLEAN, head : 1..Tip]
       /\ s.flaws \subseteq {"repo"}
       /\ "repo" \in s.flaws => s.snapshot.head # Tip
  /\ s.pc = "cleanup" /\ ~s.blocking => Sound(s) /\ s.flaws = {}
  /\ s.pc \in {"marking", "writing"} => Sound(s) /\ s.flaws = {} /\ s.trees = {}

(* Every marker that opens the merge, and every merge asked for, is backed; *)
(* an exempted head has the runtime of the base or of a head with a pass.  *)
Backed ==
  /\ PassIsEarned
  /\ \A c \in Commits : marker[c] = "docs-only" => c \in exempted \cup unbacked
  /\ \A c \in exempted : Vouched(c)
  /\ asked # None => asked \in earned \cup exempted \cup unbacked
  /\ MergeIsProven

IInv == TypeOK /\ (\A r \in Runs : StepOK(run[r])) /\ Backed

---------------------------------------------------------------------------
(* The commits and who vouches for them *)

(* Commits never change, and a pass is never taken back. *)
LEMMA StillVouched ==
  ASSUME IInv, NEW c \in 1..Tip, Vouched(c),
         \A i \in 1..Tip : history'[i] = history[i], earned \subseteq earned'
  PROVE  Vouched(c)'
<1>1. PICK d \in {1} \cup earned : Runtime(history[c]) = Runtime(history[d])
  BY DEF Vouched
<1>2. d \in 1..Tip
  BY DEF IInv, TypeOK, Commits
<1>3. history'[c] = history[c] /\ history'[d] = history[d] /\ d \in {1} \cup earned'
  BY <1>2
<1> QED
  BY <1>1, <1>3 DEF Vouched, Runtime

(* A marker may be emptied, or be written by a call that has earned it. *)
LEMMA StillBacked ==
  ASSUME IInv, \A i \in 1..Tip : history'[i] = history[i],
         UNCHANGED <<merge, exempted, unbacked>>, earned \subseteq earned',
         \A c \in Commits : \/ marker'[c] \in {marker[c], "torn"}
                            \/ marker'[c] = "prove" /\ c \in earned'
  PROVE  Backed'
<1>1. UNCHANGED <<asked, merged, exempted, unbacked>>
  BY DEF merge
<1>2. PassIsEarned'
  BY DEF IInv, Backed, PassIsEarned
<1>3. \A c \in Commits : marker'[c] = "docs-only" => c \in exempted' \cup unbacked'
  BY <1>1 DEF IInv, Backed
<1>4. ASSUME NEW c \in exempted' PROVE Vouched(c)'
  <2>1. c \in 1..Tip /\ Vouched(c)
    BY <1>1 DEF IInv, TypeOK, Backed
  <2> QED
    BY <2>1, StillVouched
<1>5. asked' # None => asked' \in earned' \cup exempted' \cup unbacked'
  BY <1>1 DEF IInv, Backed
<1>6. MergeIsProven'
  <2>1. CASE merged # None /\ merged.checked /\ merged.head \notin unbacked
    <3>1. merged.head \in 1..Tip /\ Vouched(merged.head)
      BY <2>1 DEF IInv, TypeOK, Backed, MergeIsProven
    <3>2. PICK c \in 1..Tip : c = merged.head
      BY <3>1
    <3>3. Vouched(c)'
      BY <3>1, <3>2, StillVouched
    <3> QED
      BY <1>1, <3>2, <3>3 DEF MergeIsProven, Vouched
  <2>2. CASE ~(merged # None /\ merged.checked /\ merged.head \notin unbacked)
    BY <1>1, <2>2 DEF MergeIsProven
  <2> QED
    BY <2>1, <2>2
<1> QED
  BY <1>2, <1>3, <1>4, <1>5, <1>6 DEF Backed

---------------------------------------------------------------------------
(* Calls *)

Using == {"checking", "head", "parent", "verifying"}

(* A step of one call *)
LEMMA RunStep ==
  ASSUME IInv, NEW r \in Runs, NEW s \in Call, StepOK(s), s.pc \in Using => s.trees = Trees,
         Becomes(r, s), UNCHANGED history
  PROVE  /\ Call' = Call /\ Tip' = Tip
         /\ run' \in [Runs -> Call]
         /\ \A q \in Runs : StepOK(run[q])' /\ (run'[q].pc \in Using => run'[q].trees = Trees)
<1>1. Call' = Call /\ Tip' = Tip /\ \A q \in Runs : run'[q] = IF q = r THEN s ELSE run[q]
  BY DEF IInv, TypeOK, Call, Tip, Becomes
<1>2. run' \in [Runs -> Call]
  BY DEF IInv, TypeOK, Becomes
<1>3. ASSUME NEW q \in Runs PROVE StepOK(run[q])' /\ (run'[q].pc \in Using => run'[q].trees = Trees)
  <2>1. CASE q = r
    BY <1>1, <2>1 DEF StepOK, Sound
  <2>2. CASE q # r
    <3>1. StepOK(run[q]) /\ run'[q] = run[q]
      BY <1>1, <2>2 DEF IInv
    <3> QED
      BY <1>1, <3>1 DEF StepOK, Sound, IInv, TypeOK, Using
  <2> QED
    BY <2>1, <2>2
<1> QED
  BY <1>1, <1>2, <1>3

(* A step that changes nothing but the record of one call *)
LEMMA LocalStep ==
  ASSUME IInv, NEW r \in Runs, NEW s \in Call, StepOK(s), s.pc \in Using => s.trees = Trees,
         Becomes(r, s), Local
  PROVE  IInv'
<1> USE DEF Local, repo, contract, merge, record
<1>1. /\ Call' = Call /\ Tip' = Tip
      /\ run' \in [Runs -> Call]
      /\ \A q \in Runs : StepOK(run[q])' /\ (run'[q].pc \in Using => run'[q].trees = Trees)
  BY RunStep
<1>2. TypeOK'
  BY <1>1 DEF IInv, TypeOK, Using
<1>3. Backed'
  BY StillBacked
<1> QED
  BY <1>1, <1>2, <1>3 DEF IInv

(* The records a call can be left with *)
LEMMA FailingOK ==
  ASSUME IInv, NEW r \in Runs
  PROVE  Failing(r) \in Call /\ StepOK(Failing(r)) /\ Failing(r).pc \notin Using
BY NumberAssumption DEF IInv, TypeOK, Failing, Blank, Call, Steps, Trees, StepOK, Using, Tip, Commits

LEMMA EndedOK ==
  ASSUME IInv
  PROVE  Ended \in Call /\ StepOK(Ended) /\ Ended.pc \notin Using
BY NumberAssumption DEF IInv, TypeOK, Ended, Blank, Call, Steps, Trees, StepOK, Using, Tip, Commits

(* A commit changes nothing for the calls. *)
LEMMA Grows ==
  ASSUME IInv, NEW c \in Commit, Tip < MaxCommits, history' = Append(history, c)
  PROVE  /\ history' \in Seq(Commit) /\ Tip' = Tip + 1 /\ Tip' \in Commits
         /\ \A i \in 1..Tip : history'[i] = history[i]
         /\ \A s \in Call : s \in Call' /\ (StepOK(s) => StepOK(s)')
<1>1. /\ history' \in Seq(Commit) /\ Tip' = Tip + 1 /\ Tip' \in Commits
      /\ \A i \in 1..Tip : history'[i] = history[i]
  BY NumberAssumption DEF IInv, TypeOK, Tip, Commits
<1>2. ASSUME NEW s \in Call PROVE s \in Call' /\ (StepOK(s) => StepOK(s)')
  <2>1. Tip \in Nat
    BY DEF IInv, TypeOK, Commits
  <2>2. s \in Call'
    BY <1>1, <2>1 DEF Call
  <2>3. s.head \in 1..Tip
    BY DEF Call
  <2>4. Sound(s) => Sound(s)'
    BY <1>1, <2>3 DEF Sound
  <2>5. history'[s.head] = history[s.head]
    BY <1>1, <2>3
  <2>6. ASSUME s.snapshot \in [dirty : BOOLEAN, head : 1..Tip]
        PROVE  s.snapshot \in [dirty : BOOLEAN, head : 1..Tip'] /\ s.snapshot.head # Tip'
    BY <1>1, <2>1, <2>6
  <2>7. StepOK(s) => StepOK(s)'
    BY <2>4, <2>5, <2>6 DEF StepOK
  <2> QED
    BY <2>2, <2>7
<1> QED
  BY <1>1, <1>2

---------------------------------------------------------------------------
(* The steps of a call *)

LEMMA Fails ==
  ASSUME IInv, NEW r \in Runs, Becomes(r, Failing(r)), Local
  PROVE  IInv'
BY FailingOK, LocalStep

LEMMA Ends ==
  ASSUME IInv, NEW r \in Runs, Becomes(r, Ended), Local
  PROVE  IInv'
BY EndedOK, LocalStep

LEMMA BeginOK ==
  ASSUME IInv, NEW r \in Runs, NEW head \in 2..Tip, Begin(r, head)
  PROVE  IInv'
<1> DEFINE s == [run[r] EXCEPT !.pc = "checking", !.head = head, !.manifest = manifest,
                   !.trees = Trees, !.tree = history[head].files, !.flaws = Flaw(manifest # frozen, "manifest")]
<1>1. CASE Load
  <2>1. run[r] \in Call /\ run[r].pc = "idle" /\ manifest \in Manifest /\ head \in 1..Tip
    BY <1>1 DEF IInv, TypeOK, Begin, Load, Commits
  <2>2. history[head] \in Commit
    BY <2>1 DEF IInv, TypeOK, Tip
  <2>3. s \in Call
    BY <2>1, <2>2, <1>1 DEF Call, Steps, Flaw, Load, Trees, Commit, Flaws
  <2>4. ~run[r].blocking
    BY <2>1 DEF IInv, StepOK
  <2>5. StepOK(s)
    BY <2>1, <2>4, <1>1 DEF Call, StepOK, Flaw, Load
  <2> QED
    BY <1>1, <2>1, <2>3, <2>5, LocalStep DEF Begin, Call
<1>2. CASE ~Load
  BY <1>2, Ends DEF Begin
<1> QED
  BY <1>1, <1>2

LEMMA CheckHeadOK ==
  ASSUME IInv, NEW r \in Runs, CheckHead(r)
  PROVE  IInv'
<1> DEFINE s == [run[r] EXCEPT !.pc = "head"]
<1>1. CASE HashFailures(r) \/ ~history[run[r].head].guarded
  BY <1>1, Fails DEF CheckHead
<1>2. CASE ~(HashFailures(r) \/ ~history[run[r].head].guarded)
  <2>1. run[r] \in Call /\ StepOK(run[r]) /\ run[r].pc = "checking" /\ run[r].trees = Trees
    BY DEF IInv, TypeOK, CheckHead
  <2>2. s \in Call /\ s.trees = Trees
    BY <2>1 DEF Call, Steps
  <2>3. StepOK(s)
    BY <1>2, <2>1 DEF StepOK, Sound, HashFailures, Call
  <2> QED
    BY <1>2, <2>2, <2>3, LocalStep DEF CheckHead
<1> QED
  BY <1>1, <1>2

(* What a command that is judged leaves *)
SameCall(j, s) ==
  /\ j \in Call /\ j.pc = s.pc /\ j.head = s.head /\ j.manifest = s.manifest /\ j.trees = s.trees
SameWork(j, s) ==
  /\ j.blocking = s.blocking /\ j.tree = s.tree /\ j.overlay = s.overlay
  /\ j.rewritten = s.rewritten

LEMMA JudgedOK ==
  ASSUME NEW s \in Call, NEW failed, NEW flaws \in SUBSET Flaws, NEW j, j = Judged(s, failed, flaws)
  PROVE  /\ SameCall(j, s)
         /\ ~j.blocking => SameWork(j, s) /\ ~failed /\ j.flaws = s.flaws \cup flaws
<1>1. CASE s.blocking \/ failed
  <2>1. j = [s EXCEPT !.blocking = TRUE, !.flaws = {}, !.rewritten = FALSE,
                      !.tree = Altered, !.overlay = Altered]
    BY <1>1 DEF Judged
  <2> QED
    BY <2>1 DEF Call, SameCall
<1>2. CASE ~(s.blocking \/ failed)
  <2>1. j = [s EXCEPT !.flaws = @ \cup flaws]
    BY <1>2 DEF Judged
  <2> QED
    BY <1>2, <2>1 DEF Call, SameCall, SameWork
<1> QED
  BY <1>1, <1>2

LEMMA HeadRunOK ==
  ASSUME IInv, NEW r \in Runs, NEW ok \in BOOLEAN, NEW intact \in BOOLEAN, HeadRun(r, ok, intact)
  PROVE  IInv'
<1> DEFINE found == run[r].tree
           rewritten == run[r].rewritten \/ Left(r, intact) # found
           flaws == Flaw(~ok, "red")
                    \cup Flaw(found # run[r].manifest.files /\ ~run[r].rewritten, "altered")
           s == [run[r] EXCEPT !.ran = @ + 1, !.tree = Left(r, intact), !.rewritten = rewritten]
           failed == ~ok
           j == Judged(s, failed, flaws)
<1>1. run[r] \in Call /\ StepOK(run[r]) /\ run[r].pc = "head" /\ run[r].trees = Trees
  BY DEF IInv, TypeOK, HeadRun
<1>2. Sound(run[r])
  BY <1>1 DEF StepOK
<1>3. Left(r, intact) \in Versions \cup {Altered}
  BY <1>2 DEF Left, Sound, Manifest
<1>4. rewritten \in BOOLEAN
  OBVIOUS
<1>5. flaws \in SUBSET Flaws
  BY DEF Flaw, Flaws
<1>6. ~rewritten => Left(r, intact) = found /\ ~run[r].rewritten
  OBVIOUS
<1>7. run[r].ran + 1 \in 0..2 * Proofs
  BY <1>1, NumberAssumption DEF Call, HeadRun
<1>8. Becomes(r, j) /\ Local
  BY DEF HeadRun
<1>9. run[r].tree = run[r].manifest.files \/ run[r].rewritten \/ run[r].blocking
  BY <1>1 DEF StepOK
<1>10. flaws = {} \/ ~ok \/ run[r].blocking
  BY <1>9 DEF Flaw
<1> HIDE DEF rewritten, flaws
<1>11. s \in Call
  BY <1>1, <1>3, <1>4, <1>7 DEF Call
<1>12. /\ s.pc = "head" /\ s.head = run[r].head /\ s.manifest = run[r].manifest /\ s.trees = Trees
       /\ s.blocking = run[r].blocking /\ s.flaws = run[r].flaws
       /\ s.tree = Left(r, intact) /\ (s.rewritten <=> rewritten)
  BY <1>1, <1>4 DEF Call
<1> HIDE DEF s
<1> HIDE DEF failed
<1>13. SameCall(j, s) /\ (~j.blocking => SameWork(j, s) /\ ~failed /\ j.flaws = s.flaws \cup flaws)
  BY <1>5, <1>11, JudgedOK
<1> HIDE DEF j
<1>14. ASSUME ~j.blocking PROVE j.flaws = {} /\ (j.tree = j.manifest.files \/ j.rewritten)
  <2>1. ~run[r].blocking /\ flaws = {} /\ run[r].flaws = {} /\ s.flaws = {}
    BY <1>1, <1>10, <1>12, <1>13, <1>14 DEF SameWork, StepOK, failed
  <2>2. j.flaws = {} /\ j.tree = Left(r, intact) /\ (j.rewritten <=> rewritten)
    BY <1>12, <1>13, <1>14, <2>1 DEF SameWork
  <2>3. ~rewritten => Left(r, intact) = run[r].manifest.files
    BY <1>6, <1>9, <2>1
  <2> QED
    BY <1>12, <1>13, <2>2, <2>3 DEF SameCall
<1>15. StepOK(j) /\ j.trees = Trees /\ j \in Call
  BY <1>2, <1>12, <1>13, <1>14 DEF SameCall, StepOK, Sound
<1> QED
  BY <1>8, <1>15, LocalStep

LEMMA OverlayOK ==
  ASSUME IInv, NEW r \in Runs, Overlay(r)
  PROVE  IInv'
<1> DEFINE s == [run[r] EXCEPT !.pc = "parent", !.ran = 0, !.overlay = run[r].tree,
                               !.rewritten = FALSE]
           j == Judged(s, HashFailures(r), {})
<1>1. run[r] \in Call /\ StepOK(run[r]) /\ run[r].pc = "head" /\ run[r].trees = Trees
  BY DEF IInv, TypeOK, Overlay
<1>2. Becomes(r, j) /\ Local
  BY DEF Overlay
<1>3. 0 \in 0..2 * Proofs
  BY NumberAssumption
<1>4. s \in Call
  BY <1>1, <1>3 DEF Call, Steps
<1>5. /\ s.pc = "parent" /\ s.head = run[r].head /\ s.manifest = run[r].manifest /\ s.trees = Trees
      /\ s.blocking = run[r].blocking /\ s.flaws = run[r].flaws /\ s.overlay = run[r].tree
  BY <1>1 DEF Call
<1> HIDE DEF s
<1>6. SameCall(j, s) /\ (~j.blocking => SameWork(j, s) /\ ~HashFailures(r) /\ j.flaws = s.flaws \cup {})
  BY <1>4, JudgedOK
<1> HIDE DEF j
<1>7. ~j.blocking => j.flaws = {} /\ j.overlay = j.manifest.files
  BY <1>1, <1>5, <1>6 DEF SameCall, SameWork, StepOK, HashFailures
<1>8. StepOK(j) /\ j.trees = Trees /\ j \in Call
  BY <1>1, <1>5, <1>6, <1>7 DEF SameCall, StepOK, Sound
<1> QED
  BY <1>2, <1>8, LocalStep

LEMMA ParentRunOK ==
  ASSUME IInv, NEW r \in Runs, NEW outcome \in {"green", "red", "wrong"}, NEW intact \in BOOLEAN,
         ParentRun(r, outcome, intact)
  PROVE  IInv'
<1> DEFINE kind == run[r].manifest.kinds[run[r].ran + 1]
           found == run[r].overlay
           rewritten == run[r].rewritten \/ Left(r, intact) # found
           flaws == Flaw(kind # "new-surface" /\ found # run[r].manifest.files
                         /\ ~run[r].rewritten, "overlay")
                    \cup Flaw(kind = "defect" /\ outcome # "red", "parent")
                    \cup Flaw(kind = "preserve" /\ outcome # "green", "parent")
           s == [run[r] EXCEPT !.ran = @ + 1, !.overlay = Left(r, intact), !.rewritten = rewritten]
           failed == ~Expected(kind, outcome)
           j == Judged(s, failed, flaws)
<1>1. run[r] \in Call /\ StepOK(run[r]) /\ run[r].pc = "parent" /\ run[r].trees = Trees
  BY DEF IInv, TypeOK, ParentRun
<1>2. Sound(run[r])
  BY <1>1 DEF StepOK
<1>3. Left(r, intact) \in Versions \cup {Altered}
  BY <1>2 DEF Left, Sound, Manifest
<1>4. rewritten \in BOOLEAN
  OBVIOUS
<1>5. flaws \in SUBSET Flaws
  BY DEF Flaw, Flaws
<1>6. ~rewritten => Left(r, intact) = found /\ ~run[r].rewritten
  OBVIOUS
<1>7. run[r].ran + 1 \in 0..2 * Proofs
  BY <1>1, NumberAssumption DEF Call, ParentRun
<1>8. Becomes(r, j) /\ Local
  BY DEF ParentRun
<1>9. run[r].overlay = run[r].manifest.files \/ run[r].rewritten \/ run[r].blocking
  BY <1>1 DEF StepOK
<1>10. flaws = {} \/ ~Expected(kind, outcome) \/ run[r].blocking
  <2> HIDE DEF kind
  <2> QED
    BY <1>9 DEF Flaw, Expected
<1> HIDE DEF rewritten, flaws, kind
<1>11. s \in Call
  BY <1>1, <1>3, <1>4, <1>7 DEF Call
<1>12. /\ s.pc = "parent" /\ s.head = run[r].head /\ s.manifest = run[r].manifest /\ s.trees = Trees
       /\ s.blocking = run[r].blocking /\ s.flaws = run[r].flaws
       /\ s.overlay = Left(r, intact) /\ (s.rewritten <=> rewritten)
  BY <1>1, <1>4 DEF Call
<1> HIDE DEF s
<1> HIDE DEF failed
<1>13. SameCall(j, s) /\ (~j.blocking => SameWork(j, s) /\ ~failed /\ j.flaws = s.flaws \cup flaws)
  BY <1>5, <1>11, JudgedOK
<1> HIDE DEF j
<1>14. ASSUME ~j.blocking PROVE j.flaws = {} /\ (j.overlay = j.manifest.files \/ j.rewritten)
  <2>1. ~run[r].blocking /\ flaws = {} /\ run[r].flaws = {} /\ s.flaws = {}
    BY <1>1, <1>10, <1>12, <1>13, <1>14 DEF SameWork, StepOK, failed
  <2>2. j.flaws = {} /\ j.overlay = Left(r, intact) /\ (j.rewritten <=> rewritten)
    BY <1>12, <1>13, <1>14, <2>1 DEF SameWork
  <2>3. ~rewritten => Left(r, intact) = run[r].manifest.files
    BY <1>6, <1>9, <2>1
  <2> QED
    BY <1>12, <1>13, <2>2, <2>3 DEF SameCall
<1>15. StepOK(j) /\ j.trees = Trees /\ j \in Call
  BY <1>2, <1>12, <1>13, <1>14 DEF SameCall, StepOK, Sound
<1> QED
  BY <1>8, <1>15, LocalStep

LEMMA DispatchOK ==
  ASSUME IInv, NEW r \in Runs, Dispatch(r)
  PROVE  IInv'
<1> DEFINE s == [run[r] EXCEPT !.pc = "verifying", !.snapshot = Status,
                               !.overlay = Altered, !.rewritten = FALSE]
<1>1. CASE run[r].blocking
  BY <1>1, Fails DEF Dispatch
<1>2. CASE ~run[r].blocking
  <2>1. run[r] \in Call /\ StepOK(run[r]) /\ run[r].pc = "parent" /\ run[r].trees = Trees
    BY DEF IInv, TypeOK, Dispatch
  <2>2. Status \in [dirty : BOOLEAN, head : 1..Tip]
    BY DEF IInv, TypeOK, Status, Commits
  <2>3. s \in Call /\ s.trees = Trees
    BY <2>1, <2>2 DEF Call, Steps
  <2>4. StepOK(s)
    <3> HIDE DEF Status
    <3> QED
      BY <1>2, <2>1, <2>2 DEF StepOK, Sound, Call
  <2> QED
    BY <1>2, <2>3, <2>4, LocalStep DEF Dispatch
<1> QED
  BY <1>1, <1>2

LEMMA VerifierAltersOK ==
  ASSUME IInv, NEW r \in Runs, NEW intact \in BOOLEAN, VerifierAlters(r, intact)
  PROVE  IInv'
<1> DEFINE s == [run[r] EXCEPT !.tree = Left(r, intact)]
<1>1. run[r] \in Call /\ StepOK(run[r]) /\ run[r].pc = "verifying" /\ run[r].trees = Trees
  BY DEF IInv, TypeOK, VerifierAlters
<1>2. Left(r, intact) \in Versions \cup {Altered}
  BY <1>1 DEF StepOK, Left, Sound, Manifest
<1>3. s \in Call /\ s.trees = Trees
  BY <1>1, <1>2 DEF Call
<1>4. StepOK(s)
  BY <1>1 DEF StepOK, Sound, Call
<1> QED
  BY <1>3, <1>4, LocalStep DEF VerifierAlters

LEMMA VerifierEndsOK ==
  ASSUME IInv, NEW r \in Runs, NEW pass \in BOOLEAN, VerifierEnds(r, pass)
  PROVE  IInv'
<1> DEFINE flaws == Flaw(~pass, "verdict")
                    \cup Flaw(run[r].tree # run[r].manifest.files, "altered")
           s == [run[r] EXCEPT !.pc = "cleanup", !.tree = Altered, !.snapshot = None,
                               !.flaws = @ \cup flaws]
           failed == ~pass \/ Written(r) \/ manifest # run[r].manifest \/ HashFailures(r)
<1>1. CASE failed
  BY <1>1, Fails DEF VerifierEnds
<1>2. CASE ~failed
  <2>1. run[r] \in Call /\ StepOK(run[r]) /\ run[r].pc = "verifying"
    BY DEF IInv, TypeOK, VerifierEnds
  <2>2. run[r].flaws = {}
    BY <1>2, <2>1 DEF StepOK, Written, HashFailures, Status
  <2>3. flaws = {}
    BY <1>2 DEF Flaw, HashFailures
  <2>4. Becomes(r, s) /\ Local
    <3>1. s = [run[r] EXCEPT !.pc = "cleanup", !.tree = Altered, !.snapshot = None,
                 !.flaws = @ \cup Flaw(~pass, "verdict")
                             \cup Flaw(run[r].tree # run[r].manifest.files, "altered")]
      <4>1. \A a, b, c : a \cup (b \cup c) = (a \cup b) \cup c
        OBVIOUS
      <4> QED
        BY <4>1
    <3> QED
      BY <1>2, <3>1 DEF VerifierEnds
  <2> HIDE DEF flaws
  <2>5. s \in Call /\ s.flaws = {}
    BY <2>1, <2>2, <2>3 DEF Call, Steps
  <2>6. StepOK(s) /\ s.pc \notin Using
    BY <2>1, <2>5 DEF StepOK, Sound, Call, Using
  <2> QED
    BY <2>4, <2>5, <2>6, LocalStep
<1> QED
  BY <1>1, <1>2

LEMMA CleanupOK ==
  ASSUME IInv, NEW r \in Runs, NEW left \in SUBSET Trees, Cleanup(r, left)
  PROVE  IInv'
<1> DEFINE s == [run[r] EXCEPT !.pc = "marking", !.trees = {}]
<1>1. CASE run[r].blocking \/ left # {}
  BY <1>1, Ends DEF Cleanup
<1>2. CASE ~(run[r].blocking \/ left # {})
  <2>1. run[r] \in Call /\ StepOK(run[r]) /\ run[r].pc = "cleanup"
    BY DEF IInv, TypeOK, Cleanup
  <2>2. s \in Call
    BY <2>1 DEF Call, Steps
  <2>3. StepOK(s)
    BY <1>2, <2>1 DEF StepOK, Sound, Call
  <2> QED
    BY <1>2, <2>1, <2>2, <2>3, LocalStep DEF Cleanup, Using, Call
<1> QED
  BY <1>1, <1>2

(* The marker is emptied: no other marker changes. *)
LEMMA MarkBeginOK ==
  ASSUME IInv, NEW r \in Runs, MarkBegin(r)
  PROVE  IInv'
<1> DEFINE s == [run[r] EXCEPT !.pc = "writing"]
<1> USE DEF repo, contract, merge, record
<1>1. run[r] \in Call /\ StepOK(run[r]) /\ run[r].pc = "marking" /\ Becomes(r, s) /\ UNCHANGED history
  BY DEF IInv, TypeOK, MarkBegin
<1>2. s \in Call /\ StepOK(s) /\ s.pc \notin Using
  BY <1>1 DEF Call, Steps, StepOK, Sound, Using
<1>3. /\ Call' = Call /\ Tip' = Tip
      /\ run' \in [Runs -> Call]
      /\ \A q \in Runs : StepOK(run[q])' /\ (run'[q].pc \in Using => run'[q].trees = Trees)
  <2> HIDE DEF s
  <2> QED
    BY <1>1, <1>2, RunStep
<1>4. TypeOK'
  BY <1>3 DEF IInv, TypeOK, MarkBegin, Using
<1>5. Backed'
  BY StillBacked DEF IInv, TypeOK, MarkBegin
<1> QED
  BY <1>3, <1>4, <1>5 DEF IInv

(* The call that writes the marker has earned it. *)
LEMMA MarkEndOK ==
  ASSUME IInv, NEW r \in Runs, MarkEnd(r)
  PROVE  IInv'
<1> USE DEF repo, contract, merge, record
<1>1. run[r] \in Call /\ StepOK(run[r]) /\ run[r].pc = "writing"
  BY DEF IInv, TypeOK, MarkEnd
<1>2. Earned(r)
  BY <1>1 DEF StepOK, Sound, Earned
<1>3. earned' = earned \cup {run[r].head} /\ run[r].head \in 1..Tip
  BY <1>1, <1>2 DEF MarkEnd, Call
<1>4. /\ Call' = Call /\ Tip' = Tip
      /\ run' \in [Runs -> Call]
      /\ \A q \in Runs : StepOK(run[q])' /\ (run'[q].pc \in Using => run'[q].trees = Trees)
  BY EndedOK, RunStep DEF MarkEnd
<1>5. TypeOK'
  BY <1>3, <1>4 DEF IInv, TypeOK, MarkEnd, Using
<1>6. Backed'
  BY <1>3, StillBacked DEF IInv, TypeOK, MarkEnd
<1> QED
  BY <1>4, <1>5, <1>6 DEF IInv

LEMMA CallSteps ==
  ASSUME IInv, NEW r \in Runs,
         Raises(r) \/ MarkFails(r) \/ Crash(r)
  PROVE  IInv'
BY Fails, Ends DEF Raises, MarkFails, Crash

---------------------------------------------------------------------------
(* The steps of everybody else *)

(* A step that leaves the calls, the commits and the markers alone *)
LEMMA Aside ==
  ASSUME IInv, TypeOK', UNCHANGED <<history, run, marker, merge, record>>
  PROVE  IInv'
<1>1. Backed'
  BY StillBacked DEF merge, record
<1>2. \A r \in Runs : StepOK(run[r])'
  BY DEF IInv, StepOK, Sound, Tip
<1> QED
  BY <1>1, <1>2 DEF IInv

LEMMA ContractOK ==
  ASSUME IInv,
         \/ \E files \in Versions : Edit(files)
         \/ \E kinds \in Plans : FreezeBegin(kinds)
         \/ FreezeEnd \/ FreezeFails
         \/ \E m \in Manifest : EditManifest(m)
  PROVE  IInv'
<1> USE DEF repo, contract, merge, record
<1>1. Call' = Call /\ Tip' = Tip /\ UNCHANGED <<history, run, marker, merge, record>>
  BY DEF Edit, FreezeBegin, FreezeEnd, FreezeFails, EditManifest, Call, Tip
<1>2. TypeOK'
  <2>1. CASE \E files \in Versions : Edit(files)
    BY <1>1, <2>1, NumberAssumption DEF IInv, TypeOK, Edit
  <2>2. CASE \E kinds \in Plans : FreezeBegin(kinds)
    BY <1>1, <2>2, NumberAssumption DEF IInv, TypeOK, FreezeBegin, Manifest
  <2>3. CASE FreezeEnd \/ FreezeFails
    BY <1>1, <2>3 DEF IInv, TypeOK, FreezeEnd, FreezeFails
  <2>4. CASE \E m \in Manifest : EditManifest(m)
    BY <1>1, <2>4, NumberAssumption DEF IInv, TypeOK, EditManifest
  <2> QED
    BY <2>1, <2>2, <2>3, <2>4
<1> QED
  BY <1>1, <1>2, Aside

(* A commit, of the owner or of the verifier *)
LEMMA LandOK ==
  ASSUME IInv, NEW code \in Codes, NEW docs \in Docs, NEW guarded \in BOOLEAN,
         Land(code, docs, guarded)
  PROVE  IInv'
<1> DEFINE c == [code |-> code, docs |-> docs, files |-> work, guarded |-> guarded]
<1> USE DEF repo, contract, merge, record
<1>1. c \in Commit
  BY DEF IInv, TypeOK, Commit
<1>2. /\ history' \in Seq(Commit) /\ Tip' = Tip + 1 /\ Tip' \in Commits
      /\ \A i \in 1..Tip : history'[i] = history[i]
      /\ \A s \in Call : s \in Call' /\ (StepOK(s) => StepOK(s)')
  <2> HIDE DEF c
  <2>1. Tip < MaxCommits /\ history' = Append(history, c)
    BY DEF Land, c
  <2> QED
    BY <1>1, <2>1, Grows
<1>3. UNCHANGED <<work, contract, run, marker, merge, record>> /\ Tip \in Nat
  BY DEF Land, IInv, TypeOK, Commits
<1>4. TypeOK'
  BY <1>2, <1>3 DEF IInv, TypeOK
<1>5. \A r \in Runs : StepOK(run[r])'
  BY <1>2, <1>3 DEF IInv, TypeOK, StepOK, Sound
<1>6. Backed'
  BY <1>2, <1>3, StillBacked
<1> QED
  BY <1>4, <1>5, <1>6 DEF IInv

LEMMA VerifierCommitsOK ==
  ASSUME IInv, NEW r \in Runs, NEW code \in Codes, VerifierCommits(r, code)
  PROVE  IInv'
<1> DEFINE c == [Top EXCEPT !.code = code, !.files = work]
<1> USE DEF repo, contract, merge, record
<1>1. c \in Commit
  <2>1. Top \in Commit
    BY DEF IInv, TypeOK, Top, Tip, Commits
  <2> QED
    BY <2>1 DEF IInv, TypeOK, Commit
<1>2. /\ history' \in Seq(Commit) /\ Tip' = Tip + 1 /\ Tip' \in Commits
      /\ \A i \in 1..Tip : history'[i] = history[i]
      /\ \A q \in Call : q \in Call' /\ (StepOK(q) => StepOK(q)')
  <2> HIDE DEF c
  <2>1. Tip < MaxCommits /\ history' = Append(history, c)
    BY DEF VerifierCommits, c
  <2> QED
    BY <1>1, <2>1, Grows
<1>3. UNCHANGED <<work, contract, marker, merge, record>> /\ Tip \in Nat
  BY DEF VerifierCommits, IInv, TypeOK, Commits
<1> PICK s : s = [run[r] EXCEPT !.flaws = @ \cup {"repo"}]
  OBVIOUS
<1>4. /\ run[r] \in Call /\ StepOK(run[r]) /\ run[r].pc = "verifying" /\ run[r].trees = Trees
      /\ run' = [run EXCEPT ![r] = s]
  BY DEF IInv, TypeOK, VerifierCommits, Becomes
<1>5. s \in Call /\ s.trees = Trees
  BY <1>4 DEF Call, Flaws
<1>6. StepOK(s)'
  <2>1. s.head = run[r].head /\ s.manifest = run[r].manifest /\ s.pc = "verifying" /\ s.tree = run[r].tree
        /\ s.snapshot = run[r].snapshot /\ s.flaws = run[r].flaws \cup {"repo"}
    BY <1>4 DEF Call
  <2>2. Sound(run[r]) /\ run[r].snapshot \in [dirty : BOOLEAN, head : 1..Tip]
        /\ run[r].flaws \subseteq {"repo"}
    BY <1>4 DEF StepOK
  <2>3. Sound(s)'
    BY <1>2, <1>4, <2>1, <2>2 DEF Sound, Call
  <2>4. s.snapshot \in [dirty : BOOLEAN, head : 1..Tip'] /\ s.snapshot.head # Tip'
    BY <1>2, <1>3, <2>1, <2>2
  <2> QED
    BY <2>1, <2>2, <2>3, <2>4 DEF StepOK
<1>7. \A q \in Runs : run'[q] = IF q = r THEN s ELSE run[q]
  BY <1>4 DEF IInv, TypeOK
<1>8. TypeOK'
  <2> QED
    BY <1>2, <1>3, <1>4, <1>5, <1>7 DEF IInv, TypeOK
<1>9. ASSUME NEW q \in Runs PROVE StepOK(run[q])'
  <2>1. CASE q = r
    BY <1>6, <1>7, <2>1 DEF StepOK, Sound
  <2>2. CASE q # r
    <3>1. run'[q] = run[q] /\ StepOK(run[q]) /\ run[q] \in Call
      BY <1>7, <2>2 DEF IInv, TypeOK
    <3> QED
      BY <1>2, <3>1 DEF StepOK, Sound
  <2> QED
    BY <2>1, <2>2
<1>10. Backed'
  BY <1>2, <1>3, StillBacked
<1> QED
  BY <1>8, <1>9, <1>10 DEF IInv

(* Whoever vouches for the parent vouches for the head. *)
LEMMA VouchedOn ==
  ASSUME IInv, NEW parent \in {1} \cup earned \cup exempted, NEW head \in 1..Tip,
         DocsOnly(history[parent], history[head])
  PROVE  Vouched(head)
<1>1. Runtime(history[parent]) = Runtime(history[head])
  BY DEF DocsOnly
<1>2. Vouched(parent)
  <2>1. CASE parent \in exempted
    BY <2>1 DEF IInv, Backed
  <2>2. CASE parent \in {1} \cup earned
    BY <2>2 DEF Vouched
  <2> QED
    BY <2>1, <2>2
<1> QED
  BY <1>1, <1>2 DEF Vouched

(* A marker of an exemption is that of an exempted or of an unbacked head. *)
LEMMA Exempted ==
  ASSUME IInv, NEW head \in 1..Tip, UNCHANGED <<history, run, merge, earned>>,
         marker' = [marker EXCEPT ![head] = "docs-only"],
         exempted \subseteq exempted', unbacked \subseteq unbacked',
         head \in exempted' \cup unbacked', \A c \in exempted' : Vouched(c)
  PROVE  Backed' /\ \A r \in Runs : StepOK(run[r])'
<1>1. UNCHANGED <<asked, merged>>
  BY DEF merge
<1>2. head \in Commits /\ marker \in [Commits -> {"none", "torn", "prove", "docs-only"}]
  BY NumberAssumption DEF IInv, TypeOK, Commits
<1>3. PassIsEarned'
  BY <1>2 DEF IInv, Backed, PassIsEarned
<1>4. \A c \in Commits : marker'[c] = "docs-only" => c \in exempted' \cup unbacked'
  BY <1>2 DEF IInv, Backed
<1>5. \A c \in exempted' : Vouched(c)'
  BY DEF Vouched
<1>6. asked' # None => asked' \in earned' \cup exempted' \cup unbacked'
  BY <1>1 DEF IInv, Backed
<1>7. MergeIsProven'
  BY <1>1 DEF IInv, Backed, MergeIsProven, Vouched
<1>8. Backed'
  BY <1>3, <1>4, <1>5, <1>6, <1>7 DEF Backed
<1>9. \A r \in Runs : StepOK(run[r])'
  BY DEF IInv, StepOK, Sound, Tip
<1> QED
  BY <1>8, <1>9

LEMMA ExemptDocsOnlyOK ==
  ASSUME IInv, NEW parent \in 1..Tip, NEW head \in 2..Tip, ExemptDocsOnly(parent, head)
  PROVE  IInv'
<1> USE DEF repo, contract, merge, record
<1>1. /\ UNCHANGED <<history, work, contract, run, merge, earned>>
      /\ marker' = [marker EXCEPT ![head] = "docs-only"]
      /\ DocsOnly(history[parent], history[head])
  BY DEF ExemptDocsOnly, Exempts
<1>2. Call' = Call /\ Tip' = Tip /\ head \in 1..Tip
  BY <1>1 DEF Call, Tip, IInv, TypeOK, Commits
<1>3. /\ exempted \subseteq exempted' /\ exempted' \subseteq exempted \cup {head}
      /\ unbacked \subseteq unbacked' /\ unbacked' \subseteq unbacked \cup {head}
      /\ head \in exempted' \cup unbacked'
  BY DEF ExemptDocsOnly
<1>4. ASSUME NEW c \in exempted' PROVE Vouched(c)
  <2>1. CASE c \in exempted
    BY <2>1 DEF IInv, Backed
  <2>2. CASE c \notin exempted
    <3>1. c = head /\ parent \in {1} \cup earned \cup exempted
      BY <1>3, <2>2 DEF ExemptDocsOnly
    <3> QED
      BY <1>1, <1>2, <3>1, VouchedOn
  <2> QED
    BY <2>1, <2>2
<1>5. Backed' /\ \A r \in Runs : StepOK(run[r])'
  BY <1>1, <1>2, <1>3, <1>4, Exempted
<1>6. TypeOK'
  BY <1>1, <1>2, <1>3 DEF IInv, TypeOK
<1> QED
  BY <1>5, <1>6 DEF IInv

LEMMA ExemptElsewhereOK ==
  ASSUME IInv, NEW parent \in Commit, NEW head \in 2..Tip, ExemptElsewhere(parent, head)
  PROVE  IInv'
<1> USE DEF repo, contract, merge, record
<1>1. /\ UNCHANGED <<history, work, freezing, manifest, frozen, run, merge, earned, exempted>>
      /\ marker' = [marker EXCEPT ![head] = "docs-only"]
      /\ unbacked' = unbacked \cup {head}
      /\ edits < MaxEdits /\ edits' = edits + 1
  BY DEF ExemptElsewhere, Exempts
<1>2. Call' = Call /\ Tip' = Tip /\ head \in 1..Tip
  BY <1>1 DEF Call, Tip, IInv, TypeOK, Commits
<1>3. \A c \in exempted' : Vouched(c)
  BY <1>1 DEF IInv, Backed
<1>4. Backed' /\ \A r \in Runs : StepOK(run[r])'
  BY <1>1, <1>2, <1>3, Exempted
<1>5. TypeOK'
  <2>1. edits' \in 0..MaxEdits
    BY <1>1, NumberAssumption DEF IInv, TypeOK
  <2> QED
    BY <1>1, <1>2, <2>1 DEF IInv, TypeOK
<1> QED
  BY <1>4, <1>5 DEF IInv

(* Asking, merging and refusing *)
LEMMA MergeOK ==
  ASSUME IInv, merged = None,
         \/ \E c \in 1..Tip : AskMerge(c)
         \/ GitHubMerges \/ MergeUnchecked \/ GitHubRefuses
  PROVE  IInv'
<1> USE DEF repo, contract, merge, record
<1>1. /\ UNCHANGED <<history, work, contract, run, marker, earned, exempted, unbacked>>
      /\ Call' = Call /\ Tip' = Tip
  BY DEF AskMerge, GitHubMerges, MergeUnchecked, GitHubRefuses, Call, Tip
<1>2. \A r \in Runs : StepOK(run[r])'
  BY <1>1 DEF IInv, StepOK, Sound
<1>3. /\ PassIsEarned'
      /\ \A c \in Commits : marker'[c] = "docs-only" => c \in exempted' \cup unbacked'
      /\ \A c \in exempted' : Vouched(c)'
  BY <1>1 DEF IInv, Backed, PassIsEarned, Vouched
<1>4. CASE \E c \in 1..Tip : AskMerge(c)
  <2>1. PICK c \in 1..Tip : AskMerge(c)
    BY <1>4
  <2>2. asked' = c /\ merged' = None
    BY <2>1 DEF AskMerge
  <2>3. c \in Commits
    BY NumberAssumption DEF IInv, TypeOK, Commits
  <2>4. c \in earned \cup exempted \cup unbacked
    BY <2>1, <2>3 DEF AskMerge, Marked, IInv, Backed, PassIsEarned
  <2>5. TypeOK'
    BY <1>1, <2>2 DEF IInv, TypeOK
  <2>6. Backed'
    BY <1>1, <1>3, <2>2, <2>4 DEF Backed, MergeIsProven
  <2> QED
    BY <1>2, <2>5, <2>6 DEF IInv
<1>5. CASE GitHubMerges
  <2>1. asked = Tip /\ asked' = None /\ merged' = [head |-> Tip, checked |-> TRUE]
    BY <1>5 DEF GitHubMerges
  <2>2. Tip \in 1..Tip /\ Tip # None
    BY NoneAssumption DEF IInv, TypeOK, Commits
  <2>3. Tip \in unbacked \/ Vouched(Tip)
    BY <2>1, <2>2 DEF IInv, Backed, Vouched
  <2>4. TypeOK'
    BY <1>1, <2>1, <2>2 DEF IInv, TypeOK
  <2>5. Backed'
    BY <1>1, <1>3, <2>1, <2>2, <2>3 DEF Backed, MergeIsProven, Vouched
  <2> QED
    BY <1>2, <2>4, <2>5 DEF IInv
<1>6. CASE MergeUnchecked
  <2>1. asked' = None /\ merged' = [head |-> Tip, checked |-> FALSE] /\ Tip \in 1..Tip
    BY <1>6 DEF MergeUnchecked, IInv, TypeOK, Commits
  <2>2. TypeOK'
    BY <1>1, <2>1 DEF IInv, TypeOK
  <2>3. Backed'
    BY <1>1, <1>3, <2>1 DEF Backed, MergeIsProven
  <2> QED
    BY <1>2, <2>2, <2>3 DEF IInv
<1>7. CASE GitHubRefuses
  <2>1. asked' = None /\ merged' = None
    BY <1>7 DEF GitHubRefuses
  <2>2. TypeOK'
    BY <1>1, <2>1 DEF IInv, TypeOK
  <2>3. Backed'
    BY <1>1, <1>3, <2>1 DEF Backed, MergeIsProven
  <2> QED
    BY <1>2, <2>2, <2>3 DEF IInv
<1> QED
  BY <1>4, <1>5, <1>6, <1>7

---------------------------------------------------------------------------
(* The theorems *)

LEMMA InitOK == Init => IInv
<1> SUFFICES ASSUME Init PROVE IInv
  OBVIOUS
<1>1. PICK base \in Commit : history = <<base>> /\ work = base.files
  BY DEF Init
<1>2. history \in Seq(Commit) /\ Tip = 1
  BY <1>1 DEF Commit, Tip
<1>3. Blank("idle", FALSE, {}) \in Call /\ StepOK(Blank("idle", FALSE, {}))
  <2>1. 0 \in 0..2 * Proofs
    BY NumberAssumption
  <2> QED
    BY <1>2, <2>1 DEF Blank, Call, Steps, StepOK
<1>4. run = [r \in Runs |-> Blank("idle", FALSE, {})]
  BY DEF Init
<1>5. \A r \in Runs : StepOK(run[r]) /\ run[r].pc = "idle"
  BY <1>3, <1>4 DEF Blank
<1>6. TypeOK
  <2>1. run \in [Runs -> Call]
    BY <1>3, <1>4
  <2>2. marker \in [Commits -> {"none", "torn", "prove", "docs-only"}] /\ edits \in 0..MaxEdits
    BY NumberAssumption DEF Init
  <2>3. history \in Seq(Commit) /\ Tip \in Commits /\ work \in Versions
    BY <1>1, <1>2, NumberAssumption DEF Commits, Commit
  <2>4. /\ {freezing, manifest, frozen} \subseteq Manifest \cup {None}
        /\ asked = None /\ merged = None
        /\ earned \cup exempted \cup unbacked \subseteq 1..Tip
    BY DEF Init
  <2> QED
    BY <1>5, <2>1, <2>2, <2>3, <2>4 DEF TypeOK
<1>7. Backed
  BY DEF Init, Backed, PassIsEarned, MergeIsProven
<1> QED
  BY <1>5, <1>6, <1>7 DEF IInv

LEMMA NextOK == IInv /\ [Next]_vars => IInv'
<1> SUFFICES ASSUME IInv, [Next]_vars PROVE IInv'
  OBVIOUS
<1>1. CASE \/ \E files \in Versions : Edit(files)
           \/ \E kinds \in Plans : FreezeBegin(kinds)
           \/ FreezeEnd \/ FreezeFails
           \/ \E m \in Manifest : EditManifest(m)
  BY <1>1, ContractOK
<1>2. CASE \E code \in Codes, docs \in Docs, guarded \in BOOLEAN : Land(code, docs, guarded)
  BY <1>2, LandOK
<1>3. ASSUME NEW r \in Runs,
             \/ \E head \in 2..Tip : Begin(r, head)
             \/ CheckHead(r) \/ Overlay(r) \/ Dispatch(r)
             \/ \E ok, intact \in BOOLEAN : HeadRun(r, ok, intact)
             \/ \E outcome \in {"green", "red", "wrong"}, intact \in BOOLEAN :
                  ParentRun(r, outcome, intact)
             \/ \E intact \in BOOLEAN : VerifierAlters(r, intact)
             \/ \E code \in Codes : VerifierCommits(r, code)
             \/ \E pass \in BOOLEAN : VerifierEnds(r, pass)
             \/ Raises(r)
             \/ \E left \in SUBSET Trees : Cleanup(r, left)
             \/ MarkBegin(r) \/ MarkEnd(r) \/ MarkFails(r) \/ Crash(r)
      PROVE IInv'
  <2>1. CASE \E head \in 2..Tip : Begin(r, head)
    BY <2>1, BeginOK
  <2>2. CASE CheckHead(r) \/ Overlay(r) \/ Dispatch(r)
    BY <2>2, CheckHeadOK, OverlayOK, DispatchOK
  <2>3. CASE \E ok, intact \in BOOLEAN : HeadRun(r, ok, intact)
    BY <2>3, HeadRunOK
  <2>4. CASE \E outcome \in {"green", "red", "wrong"}, intact \in BOOLEAN :
               ParentRun(r, outcome, intact)
    BY <2>4, ParentRunOK
  <2>5. CASE \/ \E intact \in BOOLEAN : VerifierAlters(r, intact)
             \/ \E code \in Codes : VerifierCommits(r, code)
    BY <2>5, VerifierAltersOK, VerifierCommitsOK
  <2>6. CASE \E pass \in BOOLEAN : VerifierEnds(r, pass)
    BY <2>6, VerifierEndsOK
  <2>7. CASE \E left \in SUBSET Trees : Cleanup(r, left)
    BY <2>7, CleanupOK
  <2>8. CASE MarkBegin(r) \/ MarkEnd(r)
    BY <2>8, MarkBeginOK, MarkEndOK
  <2>9. CASE Raises(r) \/ MarkFails(r) \/ Crash(r)
    BY <2>9, CallSteps
  <2> QED
    BY <1>3, <2>1, <2>2, <2>3, <2>4, <2>5, <2>6, <2>7, <2>8, <2>9
<1>4. CASE \/ \E parent \in 1..Tip, head \in 2..Tip : ExemptDocsOnly(parent, head)
           \/ \E parent \in Commit, head \in 2..Tip : ExemptElsewhere(parent, head)
  BY <1>4, ExemptDocsOnlyOK, ExemptElsewhereOK
<1>5. CASE /\ merged = None
           /\ \/ \E c \in 1..Tip : AskMerge(c)
              \/ GitHubMerges \/ MergeUnchecked \/ GitHubRefuses
  BY <1>5, MergeOK
<1>6. CASE UNCHANGED vars
  BY <1>6 DEF vars, repo, contract, merge, record, IInv, TypeOK, Call, Tip, Backed, PassIsEarned,
    MergeIsProven, Vouched, StepOK, Sound
<1> QED
  BY <1>1, <1>2, <1>3, <1>4, <1>5, <1>6 DEF Next

LEMMA Inductive == Spec => []IInv
BY InitOK, NextOK, PTL DEF Spec

(* Every reachable state is well typed, and proofs run only in their trees. *)
THEOREM TypeCorrect == Spec => []TypeOK
<1>1. IInv => TypeOK
  BY DEF IInv
<1> QED
  BY <1>1, Inductive, PTL

(* Whatever calls, commits, edits and crashes come between: a pass marker   *)
(* that prove wrote stands for a flawless call of that head.               *)
THEOREM PassTheorem == Spec => []PassIsEarned
<1>1. IInv => PassIsEarned
  BY DEF IInv, Backed
<1> QED
  BY <1>1, Inductive, PTL

(* A merge that agent rails has checked brings in the runtime of the base   *)
(* or of a head with a pass, unless its head was exempted against a commit *)
(* that nothing vouches for.                                               *)
THEOREM MergeTheorem == Spec => []MergeIsProven
<1>1. IInv => MergeIsProven
  BY DEF IInv, Backed
<1> QED
  BY <1>1, Inductive, PTL
=============================================================================
