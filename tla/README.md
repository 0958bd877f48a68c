# Verification of oh-mi-pi-config: TLA+ models, model checking and proofs

This directory models the parts of the repository that keep state across
processes, agents, sessions or awaits, and five of the programs that compute a
result others rely on. The TLA+ modules are translated from the
source, TLC checks them on small instances, and TLAPS proves, for every size, the
safety properties that the passing runs check.
`PROJECT.json` is the index: it maps each definition to its lines, lists the runs, for each property a mutation of the
code that breaks it, the hazards of the code, the findings and the theorems.

    tlc -workers 2 -config NucGateJob.cfg MCNucGateWait.tla
    tlapm NucGate_proofs.tla

## 1. The system

| Component | State it keeps | Operations | Interacts through |
| --- | --- | --- | --- |
| **NUC gate** `scripts/nuc-gate.py` | per revision `job.json`, `result.json`, `src/`; a mirror per repository; `flock` locks; commit statuses, containers, images | `submit`, `run` (in a systemd unit), `wait`, `status`, `logs` | files and locks; systemd, podman, git and GitHub as external services |
| **Quota gate** `agent/extensions/quota-gate.ts` | gate state, threshold, last samples, `checking`, the timer | `/quota-gate on/off/continue/status`, the poll timer, `session_start`, `tool_call` | OMP commands, timers, dialogs; aborts and resumes the agent's run |
| **Analyse** `agent/extensions/analyse.ts` | `pendingRequest`, `active` | `/analyse`, `before_agent_start`, `tool_call`, `agent_end` | OMP's message queue; the text of the prompt is the only link between request and run |
| **Agent rails** `agent/extensions/agent-rails.ts` | per session reads, edits, failed paths, authors, proposal, approval; one process-wide registry of lineages | session events, `tool_call`, `tool_result`, `session_stop`, `before_subagent_spawn`, `before_agent_start` | transcripts, `.omp/gate.json`, `.omp/dynaflows.json`, the working tree, pass markers of `prove` |
| **Proof-first workflows** `agent/skills/omp-dyna-workflows/templates/workflows.py` | frozen checks, detached worktrees, pass markers in the git directory | `freeze`, `prove`, `exempt_docs_only` | its markers are what the merge gate of agent rails reads |
| **Autocomplete** `agent/extensions/agent-autocomplete.ts` | the registered commands and agents | completions for a line | OMP's editor |
| **Repository checks** `scripts/run-ci-quality-gates.sh`, `scripts/check-paths.py`, `.githooks/pre-commit` | the git index | one pass of external tools, `--fix --stage` | called by git, by the path check of agent rails and by the NUC gate |
| **Experiments** `omp-config-optimise/experiments/*` | `<out>/results.jsonl` | sessions of `run_reviews.py`, `run_trials.py`, `run_vision.py`, `--rerun-failed`; `analyze.py` | a pool of workers that run omp; the analysis reads what sessions appended |
| **Threshold tuning** `jev-actions/scripts/tune_threshold.py` | none | one report from a table of scores | - |
| **Guardrail scripts** `setup-repository-guardrails/` | none | validation of a coverage ledger, checks of Python files | run as gates of a target repository |
| **oxlint rules** | none | visitors of a syntax tree | - |
| **Extension health; agents, rules, skills, configuration** | none | - | prompts and settings |

What is hard in it:

- *NUC gate.* Every submit is a process and every job a unit of its own. They meet
  only in files and in four kinds of locks, each may die between any two steps, and
  systemd may stop a unit with a signal at any point. A retry removes the files that
  a late unit of the same revision may still use. podman and GitHub fail, and may
  have acted although they report a failure.
- *Quota gate and analyse.* Single-threaded, but each await lets commands, timers
  and new sessions in, and what was decided before is acted on after. Both
  extensions act on the same agent run and do not know of one another.
- *Workflows.* A `prove` takes minutes, in which the repository, the manifest and the
  pull request go on, proof commands may rewrite the proofs, and every step may raise;
  the marker it leaves is trusted later by another process.
- *Agent rails.* State is rebuilt from transcripts on each switch, branch and
  restart, some of it is carried over in memory, and one map is shared by reference
  between concurrent agents. The path check looks at files that others write too.
- *Experiments.* Trials of many minutes end in any order, by an answer, a failure, a
  timeout or an exception; sessions are interrupted and repeated, and what is complete
  is counted from what happens to be recorded.
- *Guardrail scripts and threshold tuning.* Sequential, but made of boundaries: dots
  of relative imports, counters around nested functions, ties and minimums, what a
  ledger row must not get away with.

What makes each correct:

- *NUC gate*: one unit per revision and one execution at a time; a unit sees the
  whole checkout of its revision; verdicts are final and agree with GitHub; as many
  containers as slots; images are built once; each accepted job concludes; each
  submit answers; `wait` says nothing that will turn out false.
- *Quota gate*: a gate that is on has exactly one timer, and an open gate is checked
  again and again. *Analyse*: exactly the runs of `/analyse` requests are read-only.
- *Agent rails*: a handoff leaves behind no bad file of its session, and has the
  verification reference in context; the verifier is of no author's family.
- *Workflows*: a pass marker of `prove` exists only for a commit whose frozen proofs
  and verifier passed on that very commit, and a merge that is checked brings in only a
  commit with such a marker or a docs-only one.
- *Experiments*: a session that nobody stops has a record of every job, a rerun keeps
  what was scored, a decision compares arms on the same cases, and a finding credits
  one defect that it is about.
- *Threshold tuning*: no threshold is better than the shipped one, and no case is
  tested by what it trained. *Guardrail scripts*: a ledger that passes proves each
  rule, and a check reports exactly what its rule says.

The longer list, with the line where each hazard bites and the properties that
would catch it, is `hazards` in `PROJECT.json`.

## 2. Modules

    GateJob            what a gate job promises (abstract)
      ^ implemented by
    NucGate            submit and run processes     <- NucGate_proofs (TLAPS)
      ^ extended by                                 <- MCNucGate (TLC)
    NucGateWait        wait and status              <- MCNucGateWait (TLC)
                                                    <- NucGateWait_proofs (TLAPS)

    QuotaGate, Analyse <- Extensions                both in one OMP process
    RailsHandoff       <- MCRailsHandoff            one session: reads, edits, handoff
    RailsAuthors       <- MCRailsAuthors            all sessions: authors and verifiers
    Prove              <- MCProve                   pass markers and the merge
    Trials             <- MCTrials                  sessions of the experiments
                       <- Extensions_proofs, RailsHandoff_proofs, RailsAuthors_proofs,
                          Prove_proofs, Trials_proofs (TLAPS)
    Scoring, RuleCoverage, Threshold, Fanout, Scalability
      ^ extended by
    Programs           <- MCScripts (TLC)           five programs, one call each
                       <- Programs_proofs (TLAPS)

### NucGate, NucGateWait, GateJob (`scripts/nuc-gate.py`)

One action per step between two points where another process can interfere: a
lock, a file operation, a call of git, podman, systemd or GitHub. `pc[p]` is where
process `p` is and `job[p]` its revision; `submit` starts at `LockSubmit`, `run` at
`ReadJob`. `files` are what survives a process, `world` is what podman and GitHub
hold, `locks` name their holder. `Ends` and `UnitEnds` release the locks of a
process as the kernel does, whether it returns, raises or dies. Units are started
by `Launch` and their names are used again when they end. The constant `Faults`
chooses the faults of a run:

| fault | what happens |
| --- | --- |
| `crash` | a submit dies before any of its steps |
| `term` | `RuntimeMaxSec` of a unit expires: one SIGTERM, wherever it is |
| `kill` | SIGKILL of a unit, wherever it is |
| `rm` | `podman rm --force` fails or runs into its 30 seconds |
| `ambiguous` | `systemd-run` reports an error although the unit was started |
| `uncaught` | an exception that no handler of the code catches, below |

Failures of git, of the image build, of podman and of publication that a handler of the
code names are no faults in this sense: they are always possible, as the code handles
them. The others leave through `SubmitRaises` (lines 202 and 218 name a few classes; a
`KeyError` of the allowlist and an `HTTPException` of the publication are not among them,
and the error path has no handler of its own when the disk is full), `ConfigRaises` and `FinishRaises` (a `devcontainer.json` that is a list is an
`AttributeError`, past 329 and 333: the container is removed, the slot released, nothing
published or saved), `PublishRaises` (past 346: the `finally` saves the result without
`publicationError`) and `RunRaises`. `AlreadyFinished`, `CheckRunning` and `CheckResult`
are the code's early answers. `NucGateWait` adds readers, who hold no lock and whose two
looks at the files are two steps.

Two things are history, for the properties. `cut[j]` says that the last attempt at `j`
was cut short: its process died with the job in hand, or ended by an exception that nobody
caught; a new `job.json` clears it. `container[j]` is `"stray"` instead of `"running"` once
its unit is dead or was told to go on without it, by `podman rm` failing or by a signal.

Abstracted: a revision is a model value with its repository; mirrors, tokens,
logs, the allowlist and the contents of results other than `state` and
`publicationError` are left out. Containers are named by job (the code uses 12
digits of the SHA).

`GateJob` is the promise to the client of one revision: absent, running, then a
verdict; only an error may be forgotten. `NucGate!Abstract` maps the files to it:
the phase is the state of `result.json`, else running if `job.json` is there; a
resubmission that is between its unlinks has forgotten the old job. A job that was cut
short is "running" for its clients and nobody ends it; in `GateJob` this is the phase
`abandoned`, reached by `Abandon` alone (`Stall` during a resubmission), and left by nothing.

### QuotaGate, Analyse, Extensions

Everything between two awaits is one action. In `QuotaGate` the single call of
`poll` that is past its guard is the variable `reading`: `"usage"` while
`omp usage` runs, `"confirm"` while the dialog of `tripGate` waits. `timers` counts
what OMP runs, `pollTimer` is the handle the extension holds, so that a timer can
be lost or doubled. `Modal` says whether a pending dialog keeps the user from
commands and new sessions. In `Analyse`, messages carry two ghost fields, as the code
sees their text only: `analyse`, whether `/analyse` sent them, and `kept`, whether it is the
message that `pendingRequest` stands for. One idle moment resolves every waiting command;
each then overwrites `pendingRequest`, and what it holds is taken by the first message with
its text. `Extensions` composes
the two: `tripGate` aborts the run, and its yes sends the message that resumes it.
Texts of notices, reset times and the choice of the account's report are left out;
a sample is a level or `Absent`.

### RailsHandoff (`agent-rails.ts`: reads, edits, path check, handoff)

One main session is worked in at a time, its tool call or stop is at `phase`;
`transcript` is what the disk has of each session, and `Rebuild` computes reads and
edits from it as `rebuild()` does, keeping `pathFailures`. `BeginCheck` and
`CheckPasses`/`CheckFails` are the two sides of the await in `checkPaths`, for edits
and for the stop alike; between them lies the filter of `git check-ignore`, whose rules anybody
may change, so any of the paths may be ignored. `OutsideWrite` is everybody else: children,
shell, owner. Two variables are ghosts: `writer`, whose tool wrote a file last, which a
restart leaves alone as it does the file, and `excused`, the files left bad by a tool that
git ignored when they were checked, or whose failure or running check went with the
process. References are the triggers of `agent-rails.yml`; the
`test` trigger differs from `newFile` only in its glob and is left out. A repository
has one root; `.omp/gate.json` is fixed in a behaviour and either has a `pathCheck`
or not.

### RailsAuthors (`agent-rails.ts`: authors, lineages, verifier)

Sessions of main and child agents run concurrently. `familiesOf[s]` is the map a
State refers to (maps are shared by reference), `authorLineages` the process-wide
registry by agent id, under which all main sessions share one entry. The ghost
`authors` remembers who really wrote, with the number of restarts then. `EditCall`
stands for `write` and `edit` as well as for `git commit`, which credits its author
in the same way. A child's session begins within the `task` call of its parent, and
a session is not switched while its own call runs: OMP's doing, modelled as one
step and as a guard. Left out: `ast_edit`, whose author is recorded at its result.

### Prove (`workflows.py`: freeze, prove, exempt_docs_only; `agent-rails.ts`: merge)

`run[r]` is one call of `prove` in an eval kernel of its own; `pc` is its step and the
other fields are its local variables: `manifest`, the two detached trees, of which
`tree` and `overlay` are the proof files in them, `ran` the proofs run so far,
`blocking` whether the list of that name is nonempty, `snapshot` status and HEAD before
the verifier. A proof command leaves its tree with the frozen files or with others, so what
one rewrites a later one may restore, in the head tree and in the parent's (`HeadRun`,
`ParentRun`), and the verifier too. `history` is the pull request: a commit has code and
documentation, the proof files (`files`), and a valid `.omp/gate.json` or not (`guarded`).
`marker` is the directory `omp-prove` in the git directory. Around the calls, `Edit`,
`Land`, `EditManifest`, `FreezeBegin`/`FreezeEnd` and the verifier change what they read.
`AskMerge` is the condition of agent rails, `GitHubMerges` what happens later.

Ghosts say what the code does not write down: `flaws` collects in each call what
was wrong and did not block, `rewritten` that a command of the call has changed proof files
in the tree at work, and `earned` the heads whose marker was written by a call
without flaws, with its trees removed, on the frozen proofs. A proof that ran on other
files is a flaw unless `rewritten`: the code hashes the head tree before and after all its
runs and the parent tree never, so what happens behind such a command it cannot see.
`exempt_docs_only` compares any two commits, of the pull request (`ExemptDocsOnly`) or
not (`ExemptElsewhere`); `exempted` are the heads exempted against the base, an
earned head or an exempted one, `unbacked` those exempted against any other commit.

Abstracted: the outcome of a command is green, red as expected, or red for another
reason; manifests differ in content and kinds; all proofs share the parent; the diff of
two commits compares their contents; writing and hashing the manifest in `freeze` are one
step. The model ends with the merge. History only grows, also while the verifier works:
nobody resets or rebases the branch. Left out: `gateChanges`, `agentMerge`, which
is a constant of the repository, and the checks of GitHub itself.

### Trials (`run_reviews.py`, `run_trials.py`, `run_vision.py`, `analyze.py`)

`driver` is the program whose directory `<out>` it is; the three share the loop that
takes futures as they end and differ in their jobs and in what a record may say: only
`run_reviews.py` notes failures and can rerun them. `session` is the process:
`waiting` and `running` are the pool, `recorded` what the session has written;
`latest` is what `latest_records` makes of `results.jsonl`. An exception in a trial is
`TrialRaises`. `Interrupt` is Ctrl-C: the loop is left and the file closed, then the
pool runs on (`Unheard`), as it is shut down without cancelling. `due` and `stopped`
are ghosts. A record is its verdict only; the arms, cases and repetitions of a session
are any. One session runs at a time; the two drivers' own reports, which count
duplicate records as they come, are left out.

### Programs (`analyze.py`, `validate_rule_coverage.py`, `tune_threshold.py`, `check-python-fanout.py`, `check-python-scalability.py`)

`Init` chooses a program and its input, one step runs it. The functions of each program
are operators of a module of its own, under the names they have in the code. Loops
and recursion are recursive functions, which can be proved about. The properties of all five are
stated in `Programs`.

- `Scoring`: a path is the sequence of its parts, so `endswith("/" + ...)` is a suffix.
  `take` is one turn of the loop of `score`, and `detections` maps a number of turns to
  the defects detected so far. A finding is known by its place in the record. Tables, costs and the clusters of shared findings are left out.
- `RuleCoverage`: whether a file exists or contains a marker is a fact of the row, how a
  command ends is `exits 0`, `fails` or `does not end`, and whether its output has the
  diagnostic of the row is a Boolean, of the canary and of the installation check of a
  hook. That commands run in the target, and may change it, is left out.
- `Threshold`: scores are integers, ratios pairs of integers that are compared by
  cross-multiplication, the Wilson bound is solved for its root. Floating point is left
  out, and with it calibration. Rows are functions from the numbers of cases, so that a
  part of a table is a restriction of it. The shuffle of the folds, an input, gives each
  case its place; one repeat.
- `Fanout`: names are sequences of parts; of a file, the imports one node stands for.
  Reading git, excluded directories and the counting of lines are left out.
- `Scalability`: a syntax tree is a table of its nodes by their paths from the root;
  `visitor` is the state of `ScalabilityVisitor`, and `visit` maps a node and the visitor
  that comes to it to the visitor that leaves it. A generator of a
  comprehension is a loop like `for`, whose body holds the next one. Rules about calls in
  analyzer-like files are left out.

## 3. Runs

| Run | Instance | Shows |
| --- | --- | --- |
| `NucGateJob` | 1 job, 2 submits, 2 units, 1 reader; every fault but ambiguous | `OneExecution`, `OneUnitPerJob`, `FreshCheckout`, `SlotCoversContainer`, `GitHubAgrees`, `NoLostJob`, `EndsWithResult`, `VerdictIsFinal`, `AnswerStands` and `ImplementsSafety` (refinement of `GateJob`) |
| `NucGateAnswers` | 1 job, 2 submits, 2 units; every fault but ambiguous | `SubmitAnswers` and `ImplementsGateJob` (liveness) |
| `NucGateImages` | 2 jobs, 1 repository, 2 slots; ambiguous | `NoDuplicateBuild` |
| `NucGateLive` | 2 jobs, 1 slot, no fault | `ImplementsGateJob`: the refinement with liveness |
| `Extensions` | 2 providers, 2 levels, 2 thresholds, 2 sessions, 2 commands, 2 texts, 2 queued messages | `OnMeansPolled`, `OpenIsChecked`, `AnalyseIsReadOnly`, `OthersAreFree` |
| `RailsHandoff` | 2 sessions, 2 files, 3 transcript entries | `HandoffIsClean`, `HandoffIsVerified` |
| `Prove` | 2 calls, 2 proofs, 2 contents of proofs and 2 of documentation, 3 commits, 2 edits, freezes or exemptions against other branches | `PassIsEarned`, `MergeIsProven` |
| `RailsAuthors` | 2 main sessions, 2 children, 2 families, 1 restart | `AuthorsAreKnown`, `VerifierIsIndependent` |
| `Trials` | 2 cases, 2 arms, 1 repetition, 2 workers, 2 sessions | `NothingDropped`, `RerunKeepsScores`, `DecisionIsComparable`, `SessionEnds` (liveness) |
| `Scripts` | some 140,000 inputs, see below | `ScoreIsMaximal`, `CoverageProves`, `ShippedIsBest`, `HoldoutIsSeparate`, `EdgesAreImports`, `NestingIsCounted` |

Each module is checked against its type invariant in one run; `Scripts`, whose variables
are an input and an output, has none. Two runs expect a violation; each is a disagreement of the code with what the repository says of it:

| Run | Violated | The code |
| --- | --- | --- |
| `NucGateTermLost` | `UnitLeavesResult` | a SIGTERM after the handler was restored loses the job: "running" for ever |
| `AnalyseResumed` | `ResumeIsReadOnly` | an `/analyse` run that the quota gate interrupts and resumes may write |

Bounds, and why they are enough:

- Two submits and two units are the least with which one can overtake, outlive or
  reset the other, and names are used again, so any number of processes come one
  after the other. One job suffices for everything about a revision, since jobs
  meet only in slots and in the lock of their repository; `NucGateImages` and
  `NucGateLive` have two jobs of one repository for that. An ambiguous launch leaves a
  unit beside its job; that two units of one revision never execute together, nor a job
  is lost by it, is proved (`OneExecutionTheorem`, `NoLostTheorem`).
- `Thresholds = {1, 3}` and `Levels = {0, 2}` have a level below and above each
  threshold that can tell them apart. `MaxSession = 1` allows one change of session
  in any state; `MaxQueue = 2` puts a prompt in front of and behind a request. Two
  commands are resolved by one idle moment, with the same text or with two.
- `MaxEntries = 3` has a read, an edit and a compaction or a second read in any order,
  which is what the rebuild tells apart; two files allow one to fail and another to
  pass. `MaxAuthors = 2` bounds the pairs of a family and a session when an edit
  begins; calls in flight go beyond it. `MaxEpoch = 1` is one restart.
- In `Prove`, two calls are the least of which one can write over the other's marker;
  three commits are a base, a head and what comes after it; two edits, calls of `freeze`
  included, are the freeze and what disturbs it. Two proofs, a `defect` and a `preserve`,
  are the least of which the first can rewrite in the parent tree what the second runs on.
  `new-surface` proofs, which are not run at the parent, and more proofs than two are left
  to the proofs. One content of the code suffices: what tells commits apart for an
  exemption, beside documentation, are the proof files and the gate, which are runtime.
- In `Trials`, two workers are the least with which trials end in an order of their own,
  two sessions a first one and its rerun, or one after an interrupt. `MaxReps = 1`:
  repetitions multiply the jobs as cases do and are treated alike.
- `Scripts` takes every list of up to three findings over two defects whose windows
  overlap; every kind of rule with ledger rows that lapse in at most one fact and one
  command; five or six dev cases over two or three scores, with a case of the test split
  or of another model, under loose and strict minimums; every spelling of every name of
  up to three parts in three layouts; and syntax trees of height 3 in which a loop
  stands beside each node. `WINDOW = 1` and `MAX_LOOP_DEPTH = 1` are the code's 3 and 2
  made small: at, within and beyond them are all reached.
- Symmetry is used in `NucGateImages`, the rails modules and `Prove`, whose constants are compared for
  equality alone and whose properties are safety properties.

Limits the properties state openly.

- `OneUnitPerJob`, `FreshCheckout`, `GitHubAgrees`, `VerdictIsFinal`, `AnswerStands` and
  `ImplementsSafety` exclude `ambiguous`: after it, submit writes its error over the
  verdict of a unit that runs.
- `NoLostJob`, `EndsWithResult`, `GitHubAgrees`, `AnswerStands` and `GateJob` let `cut[j]`
  excuse a job: a process that is killed, or that raises what nobody catches, leaves it
  "running" for ever, or leaves a verdict that GitHub does not show. They say that there is
  no other way to this, whatever git, podman, GitHub, locks and resubmissions do.
- `SlotCoversContainer` is about containers that their unit has not given up. A stray one
  runs beside the slots: the exit code of `podman rm` is ignored and the slot released all
  the same, although the comment above it says "Keep the global slot until an interrupted
  container is stopped".
- `OnMeansPolled` rests on `Modal = TRUE`: with dialogs that are not modal, a late yes turns
  a gate that is off on again without a timer.
- Of two `/analyse` requests that one idle moment sends together, the second overwrites
  `pendingRequest`, and the run of the first may write, although the extension tells the
  agent that "this mode permits read-only inspection and reporting only". `AnalyseIsReadOnly`
  is about the one that is remembered: the overwriting is the only way to lose a request
  within `analyse.ts`.
- `HandoffIsVerified` asks that the verification reference is in context, not that it was
  read after the last edit: the code does not ask for that, although `readme.md` speaks of
  reading "after this session's code edits".
- `HandoffIsClean` excuses files that git ignored when they were checked, and those whose
  failure a restart has lost.
- `PassIsEarned` says nothing of what runs behind a command that rewrites proof files in
  its tree: at head that is found out unless somebody restores them, at the parent it never
  is.
- `MergeIsProven` excuses a head that was exempted against a commit nothing vouches for:
  `exempt_docs_only` takes any parent, so a documentation commit beside or above unproven
  runtime commits can be exempted by itself. Without dynaflows when the merge is asked for,
  nothing is checked.

Three more disagreements with `readme.md` show in the models without a run of their own.

- "`wait` returns only after final GitHub status publication finishes" and "publication
  failures preserve the gate outcome in `result.json`, add a `publicationError`"
  (`readme.md:127-130`; the comment at `nuc-gate.py:353` says the like). A submission that
  fails saves the state `error` and publishes nothing; an exception of `publish` that line
  346 does not name saves a verdict without `publicationError` (`PublishRaises`); one that
  passes 329 and 333 saves nothing at all (`ConfigRaises`), and one that passes 202 and 218
  leaves a job "running" that nobody works for (`SubmitRaises`).
- Handoff stays blocked "until failed `pathCheck` checks pass on retry"
  (`readme.md:53-55`), but the failed paths live in the memory of the process: a session
  that is resumed after a restart hands off without the retry (`Restart`).
- The authors of a session live in that memory too: after a restart the verifier may be of
  a family that wrote before it, although it uses "a different model family from every
  author" (`readme.md:25-26`); `VerifierIsIndependent` is about one process.

`DecisionIsComparable` says that arms are compared on equal cases, not that these are
all: `analyze.py` expects the cases it finds recorded, so a case that no arm reached
before an interrupt is not missed, and `--rerun-failed` does not run it. `ShippedIsBest` holds in
exact arithmetic: in floating point `wilson_lower(0, n)` is slightly negative for some
`n`, and a minimum of 0 is then not met. `EdgesAreImports` is about imports Python
resolves; dots beyond the top package give an external name. `analyze.py` also excuses
a false positive on a clean case when a finding with the same index in another
repetition was shared between arms, since `shared_clusters` leaves the repetition out
of its key; the reports over several trials are not modelled.

### Fairness

- `NucGate!FairSpec`: strong fairness of each process's steps. Weak fairness would do
  for a process that can go on, as the kernel runs it; but a step may wait for a lock
  that others take and release again and again, where flock wakes its waiters in
  order, or for a slot, which `slot()` tries every 50 ms while any later unit has a
  fetch and a clone to do first. A gate is assumed to end by itself: `RuntimeMaxSec`,
  which ends it otherwise, is the fault `term`. No fairness for faults, for new
  submits or for `OrphanStops`.
- `Extensions!Spec`: strong fairness of the poll timer and of the end of the usage
  command (which has a timeout of 30 seconds). Strong, because a microtask of the
  other extension may come between any two timer events, but does not do so for
  ever. Nobody has to answer a dialog or type.
- `Trials!Spec`: weak fairness of the pool's workers, of the end of a trial and of the
  end of a session. Workers take jobs as long as there are any, a trial ends because
  omp has a timeout, and no fairness is asked of interrupts or of new sessions.
- `Scripts`, the rails modules and `Prove` state safety only, without fairness.

## 4. Proofs

Every safety property of the passing runs is a theorem.
They hold for any constants that meet the named assumptions of the modules: processes, sessions, texts
and markers have different names, bounds are natural numbers, and the cases of an
experiment are finitely many. Those bounds (`MaxEntries`, `MaxQueue`, `MaxEpoch`, ...)
are arbitrary in the proofs. A hypothesis of a theorem is given under "Under"; each
is a limit that section 3 names, and each holds in the run that checks the property.

| Module | Theorem | Property | Under |
| --- | --- | --- | --- |
| `NucGate_proofs` | `TypeCorrect` | `TypeOK` | - |
| | `OneExecutionTheorem` | `OneExecution` | - |
| | `BuildTheorem` | `NoDuplicateBuild` | - |
| | `SlotTheorem` | `SlotCoversContainer` | - |
| | `OneUnitTheorem` | `OneUnitPerJob` | `LaunchesReport`: not `ambiguous` |
| | `FreshTheorem` | `FreshCheckout` | `LaunchesReport` |
| | `VerdictTheorem` | `VerdictIsFinal` | `LaunchesReport` |
| | `PublishedTheorem` | `GitHubAgrees` | `LaunchesReport` |
| | `RefinementTheorem` | `ImplementsSafety` | `LaunchesReport` |
| | `NoLostTheorem` | `NoLostJob` | - |
| | `ResultTheorem` | `EndsWithResult` | - |
| `NucGateWait_proofs` | `WaitTypeCorrect` | `WaitTypeOK` | - |
| | `AnswerTheorem` | `AnswerStands` | `LaunchesReport` |
| `Extensions_proofs` | `TypeCorrect` | `TypeOK` | - |
| | `OnMeansPolledTheorem` | `OnMeansPolled` | `Modal = TRUE` |
| | `ReadOnlyTheorem` | `AnalyseIsReadOnly` | - |
| | `FreeTheorem` | `OthersAreFree` | - |
| `RailsHandoff_proofs` | `TypeCorrect` | `TypeOK` | - |
| | `CleanTheorem` | `HandoffIsClean` | - |
| | `VerifiedTheorem` | `HandoffIsVerified` | - |
| `RailsAuthors_proofs` | `TypeCorrect` | `TypeOK` | - |
| | `AuthorsTheorem` | `AuthorsAreKnown` | - |
| | `VerifierTheorem` | `VerifierIsIndependent` | - |
| `Prove_proofs` | `TypeCorrect` | `TypeOK` | - |
| | `PassTheorem` | `PassIsEarned` | - |
| | `MergeTheorem` | `MergeIsProven` | - |
| `Trials_proofs` | `TypeCorrect` | `TypeOK` | - |
| | `NothingDroppedTheorem` | `NothingDropped` | - |
| | `RerunTheorem` | `RerunKeepsScores` | - |
| | `DecisionTheorem` | `DecisionIsComparable` | - |
| `Programs_proofs` | `ScoreTheorem` | `ScoreIsMaximal` | records are `Located` |
| | `CoverageTheorem` | `CoverageProves` | - |
| | `EdgesTheorem` | `EdgesAreImports` | inputs are a `FirstPartyImport` |
| | `ChoiceTheorem` | - | cases are `Scored`, arguments `Minimums` |
| | `ShippedTheorem` | `ShippedIsBest` | inputs are `TunedOnScores` |
| | `HoldoutTheorem` | `HoldoutIsSeparate` | inputs are `TunedOnScores` |
| | `NestingTheorem` | `NestingIsCounted` | trees are a `SyntaxTree` |

Hardly any of these properties is inductive. Each proof module strengthens them to an
invariant that is, and has one lemma per action or group of actions. TLC has checked
each of those invariants on the instances of section 3.

### NucGate_proofs

A chain of invariants, each proved from those before it:

1. `LockInv`: a process that is inside a critical section is what the lock names.
   This gives `OneExecution` whatever dies, as a lock goes with its holder.
2. `SlotInv`: a unit between `slot()` and the end of its cleanup holds a slot, and a
   running container that is no stray has such a unit.
3. `JobInv`: while a unit of a revision lives, `job.json` exists unless a result
   does, and no submit is at a step that launches or resets it. So a submit that
   reaches `Launch` has no unit beside it. It needs `LaunchesReport`: an ambiguous
   launch leaves a unit behind that submit does not know of.
4. `FreshInv`: only a submit that holds submit.lock and has excluded units touches
   `src/`.
5. `PublishedInv`: a unit that saves a verdict has published it, or says it has not, or an
   exception is on its way out, which the save then records as `cut`; with 3, nothing
   publishes or saves after it.
6. The refinement follows: every step that changes a result, `job.json` or a status
   is a step of `GateJob` in the phase that allows it, the others stutter.
7. `CriticalInv`: a unit that looks an image up or builds it holds the lock of the
   repository, and a unit about to exit has a result. It rests on 1 alone, hence holds
   under every fault. `NoLostJob` is inductive beside it: a job without a result has a
   unit or a submit under way, which only a process that is cut short takes away; an
   ambiguous launch does not, since the error that submit then writes is a result.
   `EndsWithResult` follows from `CriticalInv`: a unit that gets to its exit has saved.

### NucGateWait_proofs

A step of a reader is a stutter of the service (`ServiceSteps`), so what holds of
`Spec` holds of `WaitSpec`. `AnswerStands` then follows from `PublishedInv` at the moment
of `Load`, and from `VerdictIsFinal`'s step ever after.

### Extensions_proofs

The liveness part of `Spec` plays no role and is dropped first. `TInv` adds to the types
that `checking` is a poll under way, that a timer exists exactly when the extension
holds its handle, and that a command at work has a text. `GateInv`: the handle is held
exactly while the gate is not disabled, and a question is open only while it is latched,
as nobody can turn the gate off behind a modal dialog. `ModeInv` needs no bound on the
commands: handlers that one idle moment has resolved find in the queue only what they have
sent themselves (`OnlySent`), and what `pendingRequest` holds is the text of a message in the
queue, the first of which with that text is one of `/analyse` (`KeptOK`). Hence a run
that takes it is a request's, and nothing but a later `/analyse` of the same moment takes it
from the message it stands for.

### RailsHandoff_proofs

Three lemmas say what appending a read, an edit or a compaction does to `ReadsIn` and
`EditsIn`, for transcripts of any length. `Recalled`: the session at work, and one that was
handed off, has in memory what its transcript says. `BadAreSuspects`: a bad file last
written by `s` is a failed path of `s`, the file of the call that just ran, or a
candidate of the check under way, unless it is excused; this is what carries `HandoffIsClean` over the await
in `checkPaths` and over a switch to another session and back. `StopsAreClean`
and `VerifiedInv` say the same of a stop that was let through but not yet seen.

### RailsAuthors_proofs

`MapOfHome`: a session at work refers to the map of the main session it works for, which is
what sharing maps by reference and the registry are for. `CallsAreRecorded`: the family
of a call that was let through is in that map and is not taken out of it. Then an author is
known when its call ends, and the verifier's families are compared with the right map.

### Prove_proofs

`IInv` is `TypeOK`, `StepOK` of every call and `Backed`. `StepOK` says what a call that
will not fail has established at each step: from `head` on, its commit has a gate and the
frozen files; at `head` and at `parent`, the proofs so far ran on the frozen files or behind
a command that rewrote them, and the second hashing lets only the frozen files into the
overlay; while `verifying`, a flaw is a HEAD that has moved, which `VerifierEnds` will still
see, as HEAD never moves back; from `cleanup` on, no flaw is left. The property alone
is not inductive, as it says nothing of calls under way. `Backed` adds that docs-only
markers and an accepted merge request are backed as well, and that an exempted head has the
runtime of the base or of a head with a pass (`Vouched`), through any chain of exemptions:
markers are written over but `earned`, `exempted` and `unbacked` only grow, so what was
read at the question holds at the merge.

### Trials_proofs

`Accounted`: the jobs of an open session are waiting, running or recorded, and only an
interrupt or a kill closes a session early. `Written`: what a session recorded or was due
to record has a record, as nothing removes one. `Needed`: the jobs of a rerun need it until
they have run. `DecisionIsComparable` is an argument by counting: records that are
scored have different cases and repetitions within an arm (`Injection`), and as many of
them as the product has elements are all of it (`FS_Injection`), so that comparing numbers
suffices, although `analyze.py` never compares the sets.

### Programs_proofs

`OneCall` is the only invariant: a
result is what its program computes from its input. The rest is about the operators, for
records, ledgers, catalogs, names, trees of modules, tables and syntax trees of any size.

`ScoreTheorem` is about a loop, hence an induction. The library's induction theorems
take a predicate as a parameter, which no backend can supply; `Induction` is about a
set of numbers instead, and follows from `LeastNumber`. `Iterates` uses it to show that a
loop has its values at all, so that the recursive function of `detections` is what its
equation says (`DetectionsStep`). `Right` is the invariant of the loop: the defects detected
after `n` findings each have a finding of their own that credits them, and a finding of
those `n` that has no defect credits none of the defects still left. The last part is
what makes it an invariant: defects are only ever taken away from what is left.
`TakeMore` and `MoreFindings` compare the loop over all findings with the one over the
blocking ones, turn by turn: what the second has detected, the first has too. `Located`
asks that lines are integers, and spans and the order of the defects natural numbers.

`CoverageTheorem`: a table without an id twice has exactly one row for each id it names,
which is the one `row_of` finds, and what passes all checks passes those of the structure.

`EdgesTheorem` says that the four ways to spell a name meet. `normalise_known_module`
returns the longest known prefix of a name that begins in a known package
(`NormaliseIsLongest`), and a relative import with the right number of dots resolves to
the name it stands for (`DotsResolve`). In `from m import a`, either `m.a` is known, or
`a` is an attribute and the owner of `m` is the owner of `m.a` (`FromFindsLongest`). Under `FirstPartyImport`
the node spells the name (`Spells`), which begins in a root package that is known and
is not of the standard library. The inputs of the run all are of that kind.

`ChoiceTheorem`: a threshold that flags some case flags the same cases as a midpoint or
as the least score (`CandidateFor`); one that flags none qualifies only if the minimums
are zero, and then every threshold does and is at least as good (`NothingFlagged`); and ratios compared by cross-multiplication
are a total order, so finitely many have a greatest (`GreatestFraction`). So a search
over the candidates is one over all numbers. `Scored` asks for labels 0 or 1 and for
scores from 0 up in even units, which only says that a midpoint is a number; `Minimums`
for minimums and a beta that are not negative. `ShippedTheorem` carries this into the
report, where `errors` lists as many cases as are counted wrong. `TunedOnScores` asks this
of the table and the arguments of a call, and that the shuffle gives no two cases the same place.

`HoldoutTheorem`: the cases of a label are ranked by their places, and each rank below
their number is some case's (`RankOfEach`, as an injection between sets of equal size is
onto). There are at most as many folds as cases of either label, so rank `n` goes to fold `n`
(`DealtToEach`), and with two folds or more each label is also outside of it
(`FoldsHaveBothLabels`). A case has one rank, hence one fold (`DealtOnce`). A threshold is
chosen by `train`, whose rows are the same whatever the labels held out (`TrainedOnOthers`),
and of the table only the dev cases of its own model reach it (`ReportOf`, `DevCases`).

`NestingTheorem` is about a recursion over a tree, whose function is a CHOOSE of one that
satisfies its equation. That there is one takes a proof (`VisitAnswers`): starting from any table
of answers and putting it into the equation, after `n` rounds the answers for the nodes
within `n` of the greatest depth no longer change, so after as many rounds as the tree is high none does.
Then, from the leaves up, a node adds exactly the loops to be reported below it and leaves
depth and functions as they were (`Sees`), for a visitor that comes with the right
depth and functions (`Fits`): what `Around` and `InFunction` say of a child follows from its parent
and the slot it is in (`AroundChild`, `InFunctionChild`), and below a node are the node and what
is below its children (`BelowIsChildren`). Slots that are skipped hold nothing that is evaluated
(`BelowNothing`). `SyntaxTree` says what a table must be to be a tree: of bounded
height, with every prefix of a path, and children only in slots that the kind of node has.

### Only model-checked

All liveness: `SubmitAnswers`, the liveness of `ImplementsGateJob`, `OpenIsChecked` and
`SessionEnds`. Fairness and ENABLED are beyond the prover. The safety part of
`ImplementsGateJob` is `RefinementTheorem`.

## 5. Not modelled

The parsing of shell commands, git options and YAML in agent rails, discovery,
autocompletion's parsing, `check-python-quality.py` and the oxlint rules are visitors
of syntax: a model of them would repeat the grammar they walk. Experiment items, cases
and toy programs, skills, agents and configuration are data. Floating point (calibration,
means, costs) is outside TLC's arithmetic. Two sessions that write into one directory at
once are not modelled, nor is a line of `results.jsonl` torn by a kill.
Failures of the disk (a torn `result.json`), of the
clock and of flock itself are outside the models, as the code assumes them away.
A reboot is a `crash` or `kill` of every process, followed by `OrphanStops`.

## 6. Plan

1. *Done*: NucGate with readers, refinement and proofs; the two small extensions and
   their composition; the rails in two modules, separate because their states are
   independent and their product is out of TLC's reach.
2. *Done*: `Prove` with the merge condition of agent rails, and its proofs.
3. *Done*: the experiment sessions in `Trials`; five programs in `Programs`.
4. *Done*: proofs of every safety property that a run checks.
5. Proofs: how far the two sides of a hypothesis can be brought together, for example
   `OneUnitPerJob` for revisions without an ambiguous launch; abstract specifications of
   `Prove` and of the rails, shown to be implemented.
6. Rails: guardrail proposal and approval, `ast_edit` proposals and the
   `resolve`/`reject` devices, the other git and commit conditions, the dynaflows pointer.
7. `--fix --stage` of `run-ci-quality-gates.sh` on a partly staged file; stale
   completions of `agent-autocomplete.ts`.
