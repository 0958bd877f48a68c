------------------------------- MODULE Trials -------------------------------
(***************************************************************************)
(* The experiment drivers run_reviews.py, run_trials.py and run_vision.py  *)
(* (experiments of omp-config-optimise): a session runs its jobs in a pool *)
(* of workers and appends their records to <out>/results.jsonl, and        *)
(* review-detection/analyze.py says whether the review trials are          *)
(* complete.  One directory <out> and its driver; sessions come one after  *)
(* the other, and each may be interrupted (Ctrl-C) or killed.              *)
(***************************************************************************)
EXTENDS Naturals, FiniteSets

CONSTANTS Cases, Arms, MaxReps,
          Workers,          \* --workers
          MaxSessions       \* bound: sessions of a behaviour

ASSUME JobAssumption == IsFiniteSet(Cases) /\ MaxReps \in Nat
ASSUME PoolAssumption == Workers \in Nat \ {0} /\ MaxSessions \in Nat

Jobs == Cases \X Arms \X (0 .. MaxReps - 1)

VARIABLES
  driver,    \* whose directory it is
  session,   \* the process that runs now, or Idle
  latest,    \* the last record of each job in results.jsonl
  sessions,  \* how many have begun
  due        \* ghost: the jobs of the sessions that ended by themselves

vars == <<driver, session, latest, sessions, due>>

(* What the latest record of a job is: none, a harness error, or a trial   *)
(* that failed, that leaked (markers in its events.jsonl) or that can be   *)
(* scored.  Only run_reviews.py notes failures, and only analyze.py of     *)
(* review-detection looks for leaks.                                       *)
Records == {"harnessError", "failed", "leaked", "scored"}
NoRecord == "none"

(* A job is waiting, running (its result not yielded yet) or recorded.     *)
(* open: results.jsonl is; stopped (ghost): interrupted or killed.         *)
Idle == [kind |-> "idle", waiting |-> {}, running |-> {}, recorded |-> {}, jobs |-> {},
         open |-> FALSE, stopped |-> FALSE]

Init ==
  /\ driver \in {"reviews", "fixed", "vision"}
  /\ session = Idle
  /\ latest = [j \in Jobs |-> NoRecord]
  /\ sessions = 0
  /\ due = {}

-----------------------------------------------------------------------------
(* analyze.py *)

needs_rerun(rec) == rec \in {"harnessError", "failed", "leaked"}

Valid(j) == latest[j] # NoRecord /\ ~needs_rerun(latest[j])

(* Mutation: failed and leaked trials count as recorded.                   *)
completeAny ==
  LET recorded == {j \in Jobs : latest[j] # NoRecord}
      expected == Cardinality({j[1] : j \in recorded}) * Cardinality({j[3] : j \in recorded})
  IN \A a \in {j[2] : j \in recorded} : Cardinality({j \in recorded : j[2] = a}) = expected

(* The arms, cases and repetitions are those of the records.               *)
complete ==
  LET recorded == {j \in Jobs : latest[j] # NoRecord}
      cases == {j[1] : j \in recorded}
      arms == {j[2] : j \in recorded}
      reps == {j[3] : j \in recorded}
      expected == Cardinality(cases) * Cardinality(reps)
  IN \A a \in arms : Cardinality({j \in recorded : j[2] = a /\ Valid(j)}) = expected

-----------------------------------------------------------------------------
(* The sessions *)

Begin(kind, J) ==
  /\ session.kind = "idle"
  /\ sessions < MaxSessions
  /\ session' = [Idle EXCEPT !.kind = kind, !.jobs = J, !.waiting = J, !.open = TRUE]
  /\ sessions' = sessions + 1
  /\ UNCHANGED <<driver, latest, due>>

(* run_reviews.py on some cases, arms and repetitions                      *)
Reviews(C, A, n) ==
  /\ driver = "reviews"
  /\ Begin("all", C \X A \X (0 .. n - 1))

(* Mutation: whatever has a record is run again.                           *)
RerunRecorded(C, A, n) ==
  /\ driver = "reviews"
  /\ sessions > 0
  /\ Begin("rerun", {j \in C \X A \X (0 .. n - 1) : latest[j] # NoRecord})

(* ... with --rerun-failed, which reads results.jsonl first                *)
RerunFailed(C, A, n) ==
  /\ driver = "reviews"
  /\ sessions > 0
  /\ Begin("rerun", {j \in C \X A \X (0 .. n - 1) :
                       latest[j] # NoRecord /\ needs_rerun(latest[j])})

(* run_trials.py: one model, some fixtures, efforts and repetitions        *)
FixedTrials(F, A, n) ==
  /\ driver = "fixed"
  /\ Begin("all", F \X A \X (0 .. n - 1))

(* run_vision.py: all items                                                *)
Vision(A, n) ==
  /\ driver = "vision"
  /\ Begin("all", Cases \X A \X (0 .. n - 1))

(* Mutation: the pool is a worker too large.                               *)
TakeMore(j) ==
  /\ j \in session.waiting
  /\ Cardinality(session.running) <= Workers
  /\ session' = [session EXCEPT !.waiting = @ \ {j}, !.running = @ \cup {j}]
  /\ UNCHANGED <<driver, latest, sessions, due>>

(* Mutation: the workers stop at an interrupt, the queue is not cancelled. *)
TakeWhileOpen(j) ==
  /\ j \in session.waiting
  /\ session.open
  /\ Cardinality(session.running) < Workers
  /\ session' = [session EXCEPT !.waiting = @ \ {j}, !.running = @ \cup {j}]
  /\ UNCHANGED <<driver, latest, sessions, due>>

(* A worker takes the next job of the pool; the jobs were shuffled.  The   *)
(* pool goes on after an interrupt, since it is shut down without          *)
(* cancelling.                                                             *)
Take(j) ==
  /\ j \in session.waiting
  /\ Cardinality(session.running) < Workers
  /\ session' = [session EXCEPT !.waiting = @ \ {j}, !.running = @ \cup {j}]
  /\ UNCHANGED <<driver, latest, sessions, due>>

(* as_completed yields the future of a trial: its result is written.       *)
Yield(j, rec) ==
  /\ j \in session.running
  /\ session.open
  /\ session' = [session EXCEPT !.running = @ \ {j}, !.recorded = @ \cup {j}]
  /\ latest' = [latest EXCEPT ![j] = rec]
  /\ UNCHANGED <<driver, sessions, due>>

(* omp answers, exits with an error, says nothing, meets its rate limit or *)
(* is stopped after TRIAL_TIMEOUT_S: every trial gets a record.            *)
ReviewTrial(j) == driver = "reviews" /\ \E rec \in {"failed", "leaked", "scored"} : Yield(j, rec)

FixedTrial(j) == driver = "fixed" /\ Yield(j, "scored")

VisionTrial(j) == driver = "vision" /\ Yield(j, "scored")

(* Mutation: the failure is logged, and no record written.                 *)
TrialRaisesUnrecorded(j) ==
  /\ j \in session.running
  /\ session.open
  /\ session' = [session EXCEPT !.running = @ \ {j}]
  /\ UNCHANGED <<driver, latest, sessions, due>>

(* build_workspace, git, the hidden check or a file raises in run_trial.   *)
TrialRaises(j) == Yield(j, "harnessError")

(* After an interrupt nobody waits for the result.                         *)
Unheard(j) ==
  /\ j \in session.running
  /\ ~session.open
  /\ session' = [session EXCEPT !.running = @ \ {j}]
  /\ UNCHANGED <<driver, latest, sessions, due>>

(* KeyboardInterrupt leaves the loop: results.jsonl is closed, then        *)
(* shutdown waits for the pool, whose results nobody writes.                *)
Interrupt ==
  /\ session.open
  /\ session' = [session EXCEPT !.open = FALSE, !.stopped = TRUE, !.recorded = {}, !.jobs = {}]
  /\ UNCHANGED <<driver, latest, sessions, due>>

End ==
  /\ session.kind # "idle"
  /\ session.waiting = {} /\ session.running = {}
  /\ session' = [Idle EXCEPT !.stopped = session.stopped]
  /\ due' = IF session.stopped THEN due ELSE due \cup session.jobs
  /\ UNCHANGED <<driver, latest, sessions>>

Kill ==
  /\ session.kind # "idle"
  /\ session' = [Idle EXCEPT !.stopped = TRUE]
  /\ UNCHANGED <<driver, latest, sessions, due>>

TrialEnds ==
  \E j \in Jobs : ReviewTrial(j) \/ FixedTrial(j) \/ VisionTrial(j) \/ TrialRaises(j) \/ Unheard(j)

Takes == \E j \in Jobs : Take(j)

Next ==
  \/ \E A \in (SUBSET Arms) \ {{}}, n \in 1 .. MaxReps :
       \/ \E C \in (SUBSET Cases) \ {{}} : Reviews(C, A, n) \/ RerunFailed(C, A, n) \/ FixedTrials(C, A, n)
       \/ Vision(A, n)
  \/ Takes \/ TrialEnds \/ End
  \/ Interrupt \/ Kill

Spec ==
  /\ Init /\ [][Next]_vars
  /\ WF_vars(Takes) /\ WF_vars(TrialEnds) /\ WF_vars(End)

-----------------------------------------------------------------------------
(* Properties *)

TypeOK ==
  /\ driver \in {"reviews", "fixed", "vision"}
  /\ session.kind \in {"idle", "all", "rerun"}
  /\ session.jobs \subseteq Jobs
  /\ latest \in [Jobs -> Records \cup {NoRecord}]
  /\ sessions \in 0 .. MaxSessions
  /\ due \subseteq Jobs
  /\ Cardinality(session.running) <= Workers
  /\ session.waiting \cap session.running = {}

(* "record harness failure against the job, never drop it" (each driver):  *)
(* a session that nobody stops has written a record of every job it was    *)
(* given, however trials fail and in whatever order they end.              *)
NothingDropped ==
  [][session.kind # "idle" /\ session'.kind = "idle" /\ ~session'.stopped
       => session.recorded = session.jobs]_vars

(* A --rerun-failed session never replaces a record that was scored,       *)
(* neither by a failure nor by a second opinion, and never adds a job.     *)
RerunKeepsScores ==
  [][session.kind = "rerun" =>
       \A j \in Jobs : Valid(j) \/ latest[j] = NoRecord => latest'[j] = latest[j]]_vars

(* When analyze.py does not withhold its decision, the arms were scored on *)
(* the same cases and repetitions, though it only counts; and all jobs of  *)
(* sessions that nobody stopped are among them.                            *)
DecisionIsComparable ==
  driver = "reviews" /\ complete =>
    /\ \A j \in due : Valid(j)
    /\ LET scored(a) == {<<j[1], j[3]>> : j \in {i \in Jobs : i[2] = a /\ Valid(i)}}
       IN \A a, b \in Arms : scored(a) # {} /\ scored(b) # {} => scored(a) = scored(b)

(* Every session ends, interrupted or not, as every trial has a timeout.   *)
SessionEnds == session.kind # "idle" ~> session.kind = "idle"
=============================================================================
