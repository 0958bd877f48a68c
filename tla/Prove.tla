------------------------------- MODULE Prove -------------------------------
(***************************************************************************)
(* agent/skills/omp-dyna-workflows/templates/workflows.py: freeze, prove   *)
(* and exempt_docs_only, which write the pass markers of commits, and the  *)
(* merge condition of agent/extensions/agent-rails.ts, which reads them.   *)
(* Several sessions run prove at once; meanwhile the repository gets       *)
(* commits, the manifest is frozen again or edited, and the pull request   *)
(* is merged.                                                              *)
(***************************************************************************)
EXTENDS Naturals, Sequences

CONSTANTS
  Runs,       \* calls of prove, each in an eval kernel of its own
  Codes,      \* contents of the code, and of whatever else is runtime
  Docs,       \* contents of the documentation
  Versions,   \* contents of the frozen proof files, taken together
  Altered,    \* a content that is none of them
  Proofs,     \* number of proofs in a manifest
  Plans,      \* the kinds that the proofs of a manifest may have, one after the other
  None,
  MaxCommits, \* bound: commits, the base of the pull request included
  MaxEdits    \* bound: edits of proof files and manifest, calls of freeze, and
              \* exemptions against commits of other branches

ASSUME VersionAssumption == Altered \notin Versions
ASSUME NoneAssumption == None \notin Nat
Kinds == {"defect", "new-surface", "preserve"}
ASSUME KindAssumption == Plans \subseteq [1..Proofs -> Kinds]
ASSUME NumberAssumption == Proofs \in Nat \ {0} /\ MaxCommits \in Nat \ {0} /\ MaxEdits \in Nat

VARIABLES
  history,   \* the commits: [code, docs, files, guarded], the base first, HEAD last
  work,      \* the proof files in the work tree
  freezing,  \* what a running freeze has hashed, or None
  manifest,  \* the manifest file, or None
  frozen,    \* what freeze has returned last, as content and digest, or None
  edits,     \* how much of MaxEdits has been used
  run,       \* the calls of prove
  marker,    \* marker[c]: the file <git-common-dir>/omp-prove/<c>.json
  asked,     \* the head an accepted `gh pr merge` names, or None
  merged,    \* the merge of the pull request: [head, checked], or None
  earned,    \* the heads that earned a pass marker
  exempted,  \* the heads exempted against the base, or a head of `earned` or `exempted`
  unbacked   \* the heads exempted against any other commit

repo == <<history, work>>
contract == <<freezing, manifest, frozen, edits>>
merge == <<asked, merged>>
record == <<earned, exempted, unbacked>>
vars == <<repo, contract, run, marker, merge, record>>

Commits == 1..MaxCommits
Commit == [code : Codes, docs : Docs, files : Versions, guarded : BOOLEAN]
Manifest == [files : Versions, kinds : Plans]
Trees == {"parent", "head"}
Tip == Len(history)
Top == history[Tip]
Status == [dirty |-> work # Top.files, head |-> Tip]

(* The steps of prove; `flaws` says what was wrong that it did not block for. *)
Steps == {"idle", "checking", "head", "parent",
          "verifying", "cleanup", "marking", "writing", "done"}
Flaws == {"manifest", "red", "altered", "overlay", "parent", "repo", "verdict"}
Working == Steps \ {"idle", "done"}
Blank(pc, blocking, trees) ==
  [pc |-> pc, head |-> 1, manifest |-> None, trees |-> trees, tree |-> Altered, overlay |-> Altered,
   rewritten |-> FALSE, ran |-> 0, blocking |-> blocking, snapshot |-> None, flaws |-> {}]

Init ==
  /\ \E base \in Commit : history = <<base>> /\ work = base.files
  /\ freezing = None
  /\ manifest = None
  /\ frozen = None
  /\ edits = 0
  /\ run = [r \in Runs |-> Blank("idle", FALSE, {})]
  /\ marker = [c \in Commits |-> "none"]
  /\ asked = None
  /\ merged = None
  /\ earned = {}
  /\ exempted = {}
  /\ unbacked = {}

---------------------------------------------------------------------------
(* The repository *)

Edit(files) ==
  /\ edits < MaxEdits
  /\ work # files
  /\ work' = files
  /\ edits' = edits + 1
  /\ UNCHANGED <<history, freezing, manifest, frozen, run, marker, merge, record>>

(* A commit of everything, pushed to the pull request.  No commit removes   *)
(* .omp/gate.json, or what makes it one.                                   *)
Land(code, docs, guarded) ==
  /\ Tip < MaxCommits
  /\ Top.guarded => guarded
  /\ LET commit == [code |-> code, docs |-> docs, files |-> work, guarded |-> guarded] IN
       commit # Top /\ history' = Append(history, commit)
  /\ UNCHANGED <<work, contract, run, marker, merge, record>>

---------------------------------------------------------------------------
(* freeze *)

(* The proof files are hashed if they are as committed; then their commands run. *)
FreezeBegin(kinds) ==
  /\ edits < MaxEdits
  /\ freezing = None
  /\ work = Top.files
  /\ freezing' = [files |-> work, kinds |-> kinds]
  /\ edits' = edits + 1
  /\ UNCHANGED <<repo, manifest, frozen, run, marker, merge, record>>

(* All commands have passed, the files are what was hashed and what is at HEAD. *)
FreezeEnd ==
  /\ freezing # None
  /\ work = Top.files
  /\ work = freezing.files
  /\ manifest' = freezing
  /\ frozen' = freezing
  /\ freezing' = None
  /\ UNCHANGED <<repo, edits, run, marker, merge, record>>

(* A command has failed or changed the files: the old manifest stays. *)
FreezeFails ==
  /\ freezing # None
  /\ freezing' = None
  /\ UNCHANGED <<repo, manifest, frozen, edits, run, marker, merge, record>>

EditManifest(m) ==
  /\ edits < MaxEdits
  /\ manifest \notin {None, m}
  /\ manifest' = m
  /\ edits' = edits + 1
  /\ UNCHANGED <<repo, freezing, frozen, run, marker, merge, record>>

---------------------------------------------------------------------------
(* prove *)

(* Everything a step of call r leaves alone but its own record. *)
Local == UNCHANGED <<repo, contract, marker, merge, record>>

Becomes(r, state) == run' = [run EXCEPT ![r] = state]

(* What matters of a call that fails: the trees to remove.                  *)
Failing(r) == Blank("cleanup", TRUE, run[r].trees)
Ended == Blank("done", FALSE, {})

Flaw(condition, name) == IF condition THEN {name} ELSE {}
Judged(state, failed, flaws) ==
  IF state.blocking \/ failed
  THEN [state EXCEPT !.blocking = TRUE, !.flaws = {}, !.rewritten = FALSE,
                     !.tree = Altered, !.overlay = Altered]
  ELSE [state EXCEPT !.flaws = @ \cup flaws]

(* A command leaves the frozen proof files in its tree, or others.          *)
Left(r, intact) == IF intact THEN run[r].manifest.files ELSE Altered

(* load_manifest: the file has the digest that the caller got from freeze. *)
Load == manifest # None /\ manifest = frozen

(* The manifest is loaded, and git worktree adds the trees of head and of a  *)
(* parent, of which matters only what the proofs will do there.            *)
Begin(r, head) ==
  /\ run[r].pc = "idle"
  /\ frozen # None
  /\ Becomes(r, IF Load
                THEN [run[r] EXCEPT !.pc = "checking", !.head = head, !.manifest = manifest,
                        !.trees = Trees, !.tree = history[head].files,
                        !.flaws = Flaw(manifest # frozen, "manifest")]
                ELSE Ended)
  /\ Local

(* _hash_failures of the head tree *)
HashFailures(r) == run[r].tree # run[r].manifest.files

(* The frozen files are those of head, and its gate.json has both commands. *)
CheckHead(r) ==
  /\ run[r].pc = "checking"
  /\ Becomes(r, IF HashFailures(r) \/ ~history[run[r].head].guarded
                THEN Failing(r)
                ELSE [run[r] EXCEPT !.pc = "head"])
  /\ Local

(* Mutant: one run too many. *)
HeadRunAgain(r, ok, intact) ==
  /\ run[r].pc = "head"
  /\ run[r].ran <= 2 * Proofs
  /\ Becomes(r, Judged([run[r] EXCEPT !.ran = @ + 1, !.tree = Left(r, intact)], ~ok, {}))
  /\ Local

(* One of the two runs of a proof at head.  Its command may rewrite proof   *)
(* files of the tree, and the next one finds what it left, or restores it.  *)
HeadRun(r, ok, intact) ==
  /\ run[r].pc = "head"
  /\ run[r].ran < 2 * Proofs
  /\ LET found == run[r].tree IN
       Becomes(r, Judged([run[r] EXCEPT !.ran = @ + 1, !.tree = Left(r, intact),
                                        !.rewritten = @ \/ Left(r, intact) # found],
                         ~ok, Flaw(~ok, "red")
                              \cup Flaw(found # run[r].manifest.files /\ ~run[r].rewritten,
                                        "altered")))
  /\ Local

(* Mutant: the files are copied as the last command has left them. *)
OverlayUnhashed(r) ==
  /\ run[r].pc = "head"
  /\ run[r].ran = 2 * Proofs
  /\ Becomes(r, Judged([run[r] EXCEPT !.pc = "parent", !.ran = 0, !.overlay = run[r].tree,
                                      !.rewritten = FALSE], FALSE, {}))
  /\ Local

(* The files are hashed again and copied into the parent tree, whatever was found. *)
Overlay(r) ==
  /\ run[r].pc = "head"
  /\ run[r].ran = 2 * Proofs
  /\ Becomes(r, Judged([run[r] EXCEPT !.pc = "parent", !.ran = 0, !.overlay = run[r].tree,
                                      !.rewritten = FALSE],
                       HashFailures(r), {}))
  /\ Local

(* What a proof must do at the parent: `red` is the failure it expects. *)
Expected(kind, outcome) ==
  \/ kind = "new-surface"
  \/ kind = "defect" /\ outcome = "red"
  \/ kind = "preserve" /\ outcome = "green"

(* The parent tree is not hashed any more: a command that rewrites proof    *)
(* files there is found by the next one, whatever it proves then.          *)
ParentRun(r, outcome, intact) ==
  /\ run[r].pc = "parent"
  /\ run[r].ran < Proofs
  /\ LET kind == run[r].manifest.kinds[run[r].ran + 1]
         found == run[r].overlay
     IN
       /\ kind = "new-surface" => outcome = "green" /\ Left(r, intact) = found
       /\ Becomes(r, Judged([run[r] EXCEPT !.ran = @ + 1, !.overlay = Left(r, intact),
                                           !.rewritten = @ \/ Left(r, intact) # found],
                            ~Expected(kind, outcome),
                            Flaw(kind # "new-surface" /\ found # run[r].manifest.files
                                 /\ ~run[r].rewritten, "overlay")
                            \cup Flaw(kind = "defect" /\ outcome # "red", "parent")
                            \cup Flaw(kind = "preserve" /\ outcome # "green", "parent")))
  /\ Local

(* Deterministic failures prevent the verifier. *)
Dispatch(r) ==
  /\ run[r].pc = "parent"
  /\ run[r].ran = Proofs
  /\ Becomes(r, IF run[r].blocking
                THEN Failing(r)
                ELSE [run[r] EXCEPT !.pc = "verifying", !.snapshot = Status,
                                    !.overlay = Altered, !.rewritten = FALSE])
  /\ Local

(* The verifier alters proof files in its tree or puts them back, or commits *)
(* to the repository.  What it only writes there is an Edit: git status     *)
(* cannot show one that is put back, or that changes a changed file again.  *)
VerifierAlters(r, intact) ==
  /\ run[r].pc = "verifying"
  /\ Becomes(r, [run[r] EXCEPT !.tree = Left(r, intact)])
  /\ Local

VerifierCommits(r, code) ==
  /\ run[r].pc = "verifying"
  /\ Tip < MaxCommits
  /\ history' = Append(history, [Top EXCEPT !.code = code, !.files = work])
  /\ Becomes(r, [run[r] EXCEPT !.flaws = @ \cup {"repo"}])
  /\ UNCHANGED <<work, contract, marker, merge, record>>

(* Mutant: only a dirty repository counts as written by the verifier. *)
WrittenIfDirty(r) == Status.dirty /\ ~run[r].snapshot.dirty

(* verifier mutated the repo *)
Written(r) == Status # run[r].snapshot

VerifierEnds(r, pass) ==
  /\ run[r].pc = "verifying"
  /\ Becomes(r, IF ~pass \/ Written(r) \/ manifest # run[r].manifest \/ HashFailures(r)
                THEN Failing(r)
                ELSE [run[r] EXCEPT !.pc = "cleanup", !.tree = Altered, !.snapshot = None,
                        !.flaws = @ \cup Flaw(~pass, "verdict")
                                    \cup Flaw(run[r].tree # run[r].manifest.files, "altered")])
  /\ Local

(* A git command, a timeout of a proof, the verifier: an exception, and the *)
(* trees are removed as ever.                                               *)
Raises(r) ==
  /\ run[r].pc \in {"checking", "head", "parent", "verifying"}
  /\ Becomes(r, Failing(r))
  /\ Local

(* Mutant: a tree that cannot be removed is left, and the pass stands. *)
CleanupAnyway(r, left) ==
  /\ run[r].pc = "cleanup"
  /\ left \subseteq run[r].trees
  /\ Becomes(r, IF run[r].blocking THEN Ended
                ELSE [run[r] EXCEPT !.pc = "marking", !.trees = left])
  /\ Local

(* git worktree remove, which may fail for some of the trees *)
Cleanup(r, left) ==
  /\ run[r].pc = "cleanup"
  /\ left \subseteq run[r].trees
  /\ Becomes(r, IF run[r].blocking \/ left # {} THEN Ended
                ELSE [run[r] EXCEPT !.pc = "marking", !.trees = {}])
  /\ Local

(* _write_pass_marker empties the file, then writes it. *)
MarkBegin(r) ==
  /\ run[r].pc = "marking"
  /\ marker' = [marker EXCEPT ![run[r].head] = "torn"]
  /\ Becomes(r, [run[r] EXCEPT !.pc = "writing"])
  /\ UNCHANGED <<repo, contract, merge, record>>

(* The call was flawless, and its head has the proofs it was frozen with. *)
Earned(r) ==
  /\ run[r].flaws = {}
  /\ run[r].trees = {}
  /\ history[run[r].head].guarded
  /\ history[run[r].head].files = run[r].manifest.files

MarkEnd(r) ==
  /\ run[r].pc = "writing"
  /\ marker' = [marker EXCEPT ![run[r].head] = "prove"]
  /\ earned' = earned \cup {c \in {run[r].head} : Earned(r)}
  /\ Becomes(r, Ended)
  /\ UNCHANGED <<repo, contract, merge, exempted, unbacked>>

MarkFails(r) ==
  /\ run[r].pc \in {"marking", "writing"}
  /\ Becomes(r, Ended)
  /\ Local

(* The kernel dies; trees and a torn marker stay. *)
Crash(r) ==
  /\ run[r].pc \in Working
  /\ Becomes(r, Ended)
  /\ Local

---------------------------------------------------------------------------
(* exempt_docs_only and the merge *)

(* Mutant: the diff is not looked at. *)
DocsAnyway(parent, head) == parent.docs # head.docs

Runtime(commit) == <<commit.code, commit.files, commit.guarded>>

(* The diff of two commits is not empty and has no runtime path. *)
DocsOnly(parent, head) == parent.docs # head.docs /\ Runtime(parent) = Runtime(head)

Exempts(parent, head) ==
  /\ DocsOnly(parent, history[head])
  /\ marker' = [marker EXCEPT ![head] = "docs-only"]

(* The parent is any commit the caller names: an older or a younger one of  *)
(* the pull request, *)
ExemptDocsOnly(parent, head) ==
  /\ Exempts(history[parent], head)
  /\ IF parent \in {1} \cup earned \cup exempted
     THEN exempted' = exempted \cup {head} /\ UNCHANGED unbacked
     ELSE unbacked' = unbacked \cup {head} /\ UNCHANGED exempted
  /\ UNCHANGED <<repo, contract, run, merge, earned>>

(* or one of any other branch. *)
ExemptElsewhere(parent, head) ==
  /\ edits < MaxEdits
  /\ Exempts(parent, head)
  /\ unbacked' = unbacked \cup {head}
  /\ edits' = edits + 1
  /\ UNCHANGED <<repo, freezing, manifest, frozen, run, merge, earned, exempted>>

(* Mutant: the marker of any earlier commit will do. *)
MarkedBelow(c) == \E d \in 1..c : marker[d] \in {"prove", "docs-only"}

(* The pass marker of commit c is complete. *)
Marked(c) == marker[c] \in {"prove", "docs-only"}

(* tool_call of `gh pr merge` with dynaflows on, as .omp/dynaflows.json,    *)
(* which any session writes at any time, may say: --match-head-commit names *)
(* a commit with a pass marker.                                             *)
AskMerge(c) ==
  /\ asked = None
  /\ Marked(c)
  /\ asked' = c
  /\ UNCHANGED <<repo, contract, run, marker, merged, record>>

(* GitHub merges what the pull request has become, if it is what was named. *)
GitHubMerges ==
  /\ asked = Tip
  /\ merged' = [head |-> Tip, checked |-> TRUE]
  /\ asked' = None
  /\ UNCHANGED <<repo, contract, run, marker, record>>

(* With dynaflows off nothing is asked for. *)
MergeUnchecked ==
  /\ asked = None
  /\ merged' = [head |-> Tip, checked |-> FALSE]
  /\ UNCHANGED <<repo, contract, run, marker, asked, record>>

GitHubRefuses ==
  /\ asked # None
  /\ asked' = None
  /\ UNCHANGED <<repo, contract, run, marker, merged, record>>

(* The model ends with the merge, which no later step can undo.             *)
Next ==
  /\ merged = None
  /\ \/ \E files \in Versions : Edit(files)
     \/ \E code \in Codes, docs \in Docs, guarded \in BOOLEAN : Land(code, docs, guarded)
     \/ \E kinds \in Plans : FreezeBegin(kinds)
     \/ FreezeEnd
     \/ FreezeFails
     \/ \E m \in Manifest : EditManifest(m)
     \/ \E r \in Runs :
          \/ \E head \in 2..Tip : Begin(r, head)
          \/ CheckHead(r) \/ Overlay(r) \/ Dispatch(r)
          \/ \E ok, intact \in BOOLEAN : HeadRun(r, ok, intact)
          \/ \E outcome \in {"green", "red", "wrong"}, intact \in BOOLEAN :
               ParentRun(r, outcome, intact)
          \/ \E intact \in BOOLEAN : VerifierAlters(r, intact)
          \/ \E code \in Codes : VerifierCommits(r, code)
          \/ \E pass \in BOOLEAN : VerifierEnds(r, pass)
          \/ Raises(r)
          \/ \E left \in SUBSET Trees : Cleanup(r, left)
          \/ MarkBegin(r) \/ MarkEnd(r) \/ MarkFails(r) \/ Crash(r)
     \/ \E parent \in 1..Tip, head \in 2..Tip : ExemptDocsOnly(parent, head)
     \/ \E parent \in Commit, head \in 2..Tip : ExemptElsewhere(parent, head)
     \/ \E c \in 1..Tip : AskMerge(c)
     \/ GitHubMerges
     \/ MergeUnchecked
     \/ GitHubRefuses

Spec == Init /\ [][Next]_vars

---------------------------------------------------------------------------
(* Correctness *)

Call ==
  [pc : Steps, head : 1..Tip, manifest : Manifest \cup {None}, trees : SUBSET Trees,
   tree : Versions \cup {Altered}, overlay : Versions \cup {Altered},
   rewritten : BOOLEAN, ran : 0..2 * Proofs,
   blocking : BOOLEAN, snapshot : [dirty : BOOLEAN, head : 1..Tip] \cup {None},
   flaws : SUBSET Flaws]

(* Beside the types: a proof command runs only in trees that exist. *)
TypeOK ==
  /\ history \in Seq(Commit) /\ Tip \in Commits
  /\ work \in Versions
  /\ {freezing, manifest, frozen} \subseteq Manifest \cup {None}
  /\ edits \in 0..MaxEdits
  /\ run \in [Runs -> Call]
  /\ marker \in [Commits -> {"none", "torn", "prove", "docs-only"}]
  /\ asked \in 1..Tip \cup {None}
  /\ merged \in [head : 1..Tip, checked : BOOLEAN] \cup {None}
  /\ earned \cup exempted \cup unbacked \subseteq 1..Tip
  /\ \A r \in Runs :
       run[r].pc \in {"checking", "head", "parent", "verifying"} => run[r].trees = Trees

(* The runtime of commit c is the base's or that of a head with a pass.      *)
Vouched(c) == \E d \in {1} \cup earned : Runtime(history[c]) = Runtime(history[d])

(* "Only a pass writes the exact-head marker" (omp-dyna-workflows): a       *)
(* marker of prove stands for a commit with the frozen proof files and a    *)
(* gate, whose proofs were green twice and of their kind at the parent,     *)
(* whose verifier passed it, left the proof files as frozen and did not     *)
(* commit, and whose detached trees are gone, whatever other calls, commits,*)
(* crashes and edits of the manifest came between.  The proofs ran on the   *)
(* frozen files, except those behind a command that rewrote them in its     *)
(* tree: at head these are found out only if nobody restores the files, at  *)
(* the parent never.                                                       *)
PassIsEarned == \A c \in Commits : marker[c] = "prove" => c \in earned

(* With dynaflows on when it was asked for, a merge brings in exactly a     *)
(* commit with a marker of its own, even if the pull request grew between   *)
(* the question and the merge, and the runtime of that commit is the base's *)
(* or that of a head that earned its pass, through any chain of docs-only   *)
(* exemptions; unless one was given a parent that nothing vouches for.      *)
MergeIsProven ==
  merged # None /\ merged.checked => merged.head \in unbacked \/ Vouched(merged.head)
=============================================================================
