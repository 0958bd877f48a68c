---------------------------- MODULE RailsHandoff ----------------------------
(***************************************************************************)
(* agent/extensions/agent-rails.ts: what a session must have read before   *)
(* it edits code, the path check after every edit, and the conditions of   *)
(* the handoff.  The owner's agent works in one main session at a time,    *)
(* and OMP runs its editing tools one after the other; at every await      *)
(* somebody else may write to the same files: child agents, whose handoff  *)
(* is not checked, shell commands, the owner.                              *)
(***************************************************************************)
EXTENDS Naturals, Sequences, Functions

CONSTANTS
  Sessions,   \* main sessions, kept on disk as transcripts
  Files,      \* code files of the repository
  None,
  MaxEntries  \* bound: entries of all transcripts together

ASSUME NoneAssumption == None \notin Sessions \cup Files
ASSUME EntriesAssumption == MaxEntries \in Nat

(* The triggers of agent-rails.yml; `test` asks like newFile does.         *)
References == {"firstEdit", "newFile", "verification"}
Entries == References \cup {"edit", "compaction"}

VARIABLES
  pathCheck,   \* .omp/gate.json declares a pathCheck
  disk,        \* disk[f]: "absent", "good" or "bad" in the path checker's eyes
  transcript,  \* transcript[s]: what the branch of main session s has recorded
  reads, edits, pathFailures,  \* the State of each session
  current,     \* the session the agent works in, or None
  phase,       \* where its tool call or its stop is
  pending,     \* the file of that call, or None
  candidates,  \* the paths given to the running pathCheck
  handedOff,   \* sessions whose stop was accepted, until they go on
  writer,      \* the session whose tool wrote a file last, None for others
  excused      \* files left bad by a tool that git ignored when they were checked,
               \* or whose failure or running check a restart has lost

repo == <<pathCheck, disk, writer, excused>>
memory == <<reads, edits, pathFailures>>
call == <<phase, pending, candidates>>
vars == <<repo, transcript, current, memory, call, handedOff>>

Init ==
  /\ pathCheck \in BOOLEAN
  /\ disk \in [Files -> {"absent", "good"}]
  /\ transcript = [s \in Sessions |-> <<>>]
  /\ current = None
  /\ reads = [s \in Sessions |-> {}]
  /\ edits = [s \in Sessions |-> FALSE]
  /\ pathFailures = [s \in Sessions |-> {}]
  /\ phase = "idle"
  /\ pending = None
  /\ candidates = {}
  /\ handedOff = {}
  /\ writer = [f \in Files |-> None]
  /\ excused = {}

Ready(s) == s = current /\ phase = "idle"
Step(s, from, to) == s = current /\ phase = from /\ phase' = to
GoesOn(s) == handedOff' = handedOff \ {s}
Existing(paths) == {f \in paths : disk[f] # "absent"}

Room == SumFunction([s \in Sessions |-> Len(transcript[s])]) < MaxEntries

Record(s, entry) ==
  /\ Room
  /\ transcript' = [transcript EXCEPT ![s] = Append(@, entry)]

ReadsIn(t) ==
  {r \in References : \E i \in DOMAIN t : t[i] = r /\ \A j \in i..Len(t) : t[j] # "compaction"}
EditsIn(t) == \E i \in DOMAIN t : t[i] = "edit"

---------------------------------------------------------------------------
(* Sessions *)

(* Mutant: the State anew, without its failed paths. *)
RebuildForgets(s, t) ==
  /\ transcript' = [transcript EXCEPT ![s] = t]
  /\ reads' = [reads EXCEPT ![s] = ReadsIn(t)]
  /\ edits' = [edits EXCEPT ![s] = EditsIn(t)]
  /\ pathFailures' = [pathFailures EXCEPT ![s] = {}]

(* rebuild(): the State anew from the branch, but with its failed paths. *)
Rebuild(s, t) ==
  /\ transcript' = [transcript EXCEPT ![s] = t]
  /\ reads' = [reads EXCEPT ![s] = ReadsIn(t)]
  /\ edits' = [edits EXCEPT ![s] = EditsIn(t)]
  /\ UNCHANGED pathFailures

(* session_start and session_switch *)
Enter(s) ==
  /\ phase = "idle"
  /\ current' = s
  /\ Rebuild(s, transcript[s])
  /\ GoesOn(s)
  /\ UNCHANGED <<repo, call>>

(* session_tree and session_branch: the owner goes back to an earlier entry. *)
Navigate(s, n) ==
  /\ Ready(s)
  /\ n < Len(transcript[s])
  /\ Rebuild(s, SubSeq(transcript[s], 1, n))
  /\ GoesOn(s)
  /\ UNCHANGED <<repo, current, call>>

(* Mutant: session_compact keeps what was read. *)
CompactKeepsReads(s) ==
  /\ Ready(s)
  /\ Record(s, "compaction")
  /\ GoesOn(s)
  /\ UNCHANGED <<repo, current, memory, call>>

Compact(s) ==
  /\ Ready(s)
  /\ reads' = [reads EXCEPT ![s] = {}]
  /\ Record(s, "compaction")
  /\ GoesOn(s)
  /\ UNCHANGED <<repo, current, edits, pathFailures, call>>

(* The files of session s whose last check has failed, or is still to end. *)
Unchecked(s) ==
  pathFailures[s] \cup IF s = current /\ phase = "ran" THEN {pending}
                      ELSE IF s = current THEN candidates ELSE {}

LeftBad(paths) == {f \in paths : writer[f] # None /\ disk[f] = "bad"}

(* The process ends, at any moment; transcripts and files stay, and with    *)
(* them whose tool has left them.                                          *)
Restart ==
  /\ current' = None
  /\ reads' = [s \in Sessions |-> {}]
  /\ edits' = [s \in Sessions |-> FALSE]
  /\ pathFailures' = [s \in Sessions |-> {}]
  /\ phase' = "idle"
  /\ pending' = None
  /\ candidates' = {}
  /\ handedOff' = {}
  /\ excused' = excused \cup LeftBad(UNION {Unchecked(s) : s \in Sessions})
  /\ UNCHANGED <<pathCheck, disk, writer, transcript>>

(* A shell command, the owner or a pull changes the working tree. *)
OutsideWrite(f, content) ==
  /\ disk' = [disk EXCEPT ![f] = content]
  /\ writer' = [writer EXCEPT ![f] = None]
  /\ excused' = excused \ {f}
  /\ UNCHANGED <<pathCheck, transcript, current, memory, call, handedOff>>

---------------------------------------------------------------------------
(* Tools *)

(* recordRead, for the result of a `read` *)
ReadReference(s, r) ==
  /\ Ready(s)
  /\ reads' = [reads EXCEPT ![s] = @ \cup {r}]
  /\ Record(s, r)
  /\ GoesOn(s)
  /\ UNCHANGED <<repo, current, edits, pathFailures, call>>

(* The references that tool_call wants; a repository's pathCheck replaces them. *)
Required(s, f) ==
  IF pathCheck THEN {}
  ELSE {r \in References : \/ r = "firstEdit" /\ ~edits[s]
                           \/ r = "newFile" /\ disk[f] = "absent"}

EditCall(s, f) ==
  /\ Ready(s)
  /\ Required(s, f) \subseteq reads[s]
  /\ phase' = "called"
  /\ pending' = f
  /\ GoesOn(s)
  /\ UNCHANGED <<repo, transcript, current, memory, candidates>>

EditRuns(s, content) ==
  /\ Step(s, "called", "ran")
  /\ disk' = [disk EXCEPT ![pending] = content]
  /\ writer' = [writer EXCEPT ![pending] = s]
  /\ excused' = excused \ {pending}
  /\ UNCHANGED <<pathCheck, transcript, current, memory, pending, candidates, handedOff>>

(* The tool fails, and recordResult returns at once. *)
EditFails(s) ==
  /\ Step(s, "called", "idle")
  /\ pending' = None
  /\ UNCHANGED <<repo, transcript, current, memory, candidates, handedOff>>

(* Mutant: the check of an edit is given this edit's path only. *)
ToCheckOnlyNew(s) == {pending}

(* The failed paths are checked again with every edit. *)
ToCheck(s) == pathFailures[s] \cup {pending}

(* Mutant: the command runs although no path is left. *)
BeginCheckAnyway(s, paths, checking, passed) ==
  \E ignored \in SUBSET Existing(paths) :
    /\ excused' = excused \cup LeftBad(ignored)
    /\ candidates' = Existing(paths) \ ignored
    /\ phase' = checking
    /\ UNCHANGED pathFailures

(* checkPaths up to its command: deleted paths are dropped, and those that  *)
(* git check-ignore names, by the rules of the moment; none if it fails.   *)
BeginCheck(s, paths, checking, passed) ==
  \E ignored \in SUBSET Existing(paths) :
    /\ excused' = excused \cup LeftBad(ignored)
    /\ IF Existing(paths) \ ignored = {}
       THEN /\ pathFailures' = [pathFailures EXCEPT ![s] = {}]
            /\ phase' = passed
            /\ UNCHANGED candidates
       ELSE /\ candidates' = Existing(paths) \ ignored
            /\ phase' = checking
            /\ UNCHANGED pathFailures

(* The result of `write` or `edit`: recordResult up to the path check. *)
EditResult(s) ==
  /\ s = current
  /\ phase = "ran"
  /\ edits' = [edits EXCEPT ![s] = TRUE]
  /\ pending' = None
  /\ Record(s, "edit")
  /\ IF pathCheck THEN BeginCheck(s, ToCheck(s), "checking", "idle")
     ELSE phase' = "idle" /\ UNCHANGED <<pathFailures, candidates, excused>>
  /\ UNCHANGED <<pathCheck, disk, writer, current, reads, handedOff>>

CheckPasses(s, checking, passed) ==
  /\ Step(s, checking, passed)
  /\ \A f \in candidates : disk[f] = "good"
  /\ pathFailures' = [pathFailures EXCEPT ![s] = {}]
  /\ candidates' = {}

(* A path is bad or has gone, or the command exceeds its timeout. *)
CheckFails(s, checking) ==
  /\ Step(s, checking, "idle")
  /\ pathFailures' = [pathFailures EXCEPT ![s] = candidates]
  /\ candidates' = {}

EndCheck(s) ==
  /\ \/ CheckPasses(s, "checking", "idle")
     \/ CheckFails(s, "checking")
  /\ UNCHANGED <<repo, transcript, current, reads, edits, pending, handedOff>>

---------------------------------------------------------------------------
(* session_stop, which is about the main session only *)

Stop(s) ==
  /\ Ready(s)
  /\ IF pathCheck /\ pathFailures[s] # {}
     THEN BeginCheck(s, pathFailures[s], "stopping", "stopped")
     ELSE phase' = "stopped" /\ UNCHANGED <<pathFailures, candidates, excused>>
  /\ GoesOn(s)
  /\ UNCHANGED <<pathCheck, disk, writer, transcript, current, reads, edits, pending>>

StopChecked(s) ==
  /\ \/ CheckPasses(s, "stopping", "stopped")
     \/ CheckFails(s, "stopping")
  /\ UNCHANGED <<repo, transcript, current, reads, edits, pending, handedOff>>

Accept(s) ==
  /\ Step(s, "stopped", "idle")
  /\ edits[s] => "verification" \in reads[s]
  /\ handedOff' = handedOff \cup {s}
  /\ UNCHANGED <<repo, transcript, current, memory, pending, candidates>>

Refuse(s) ==
  /\ Step(s, "stopped", "idle")
  /\ edits[s] /\ "verification" \notin reads[s]
  /\ UNCHANGED <<repo, transcript, current, memory, pending, candidates, handedOff>>

---------------------------------------------------------------------------
Next ==
  \/ \E s \in Sessions :
       \/ Enter(s) \/ Compact(s) \/ EditFails(s) \/ EditResult(s) \/ EndCheck(s)
       \/ Stop(s) \/ StopChecked(s) \/ Accept(s) \/ Refuse(s)
       \/ \E n \in 0..MaxEntries : Navigate(s, n)
       \/ \E r \in References : ReadReference(s, r)
       \/ \E f \in Files : EditCall(s, f)
       \/ \E content \in {"absent", "good", "bad"} : EditRuns(s, content)
  \/ \E f \in Files, content \in {"absent", "good", "bad"} : OutsideWrite(f, content)
  \/ Restart

Spec == Init /\ [][Next]_vars

---------------------------------------------------------------------------
(* Correctness *)

TypeOK ==
  /\ pathCheck \in BOOLEAN
  /\ disk \in [Files -> {"absent", "good", "bad"}]
  /\ transcript \in [Sessions -> Seq(Entries)]
  /\ current \in Sessions \cup {None}
  /\ reads \in [Sessions -> SUBSET References]
  /\ edits \in [Sessions -> BOOLEAN]
  /\ pathFailures \in [Sessions -> SUBSET Files]
  /\ phase \in {"idle", "called", "ran", "checking", "stopping", "stopped"}
  /\ phase # "idle" => current # None
  /\ pending \in Files \cup {None}
  /\ pending # None <=> phase \in {"called", "ran"}
  /\ candidates \subseteq Files
  /\ candidates # {} <=> phase \in {"checking", "stopping"}
  /\ handedOff \subseteq Sessions
  /\ writer \in [Files -> Sessions \cup {None}]
  /\ excused \subseteq Files

(* Handoff is blocked "until failed `pathCheck` checks pass on retry       *)
(* (deleted paths are dropped)" (readme.md): no file is bad as the tools   *)
(* of a session left it when that session hands off, whatever it edited,   *)
(* switched to, navigated or resumed in between; except a file that git    *)
(* has ignored when it was checked, and one whose failure or running check *)
(* the process took with it, since the failed paths are in memory only.    *)
HandoffIsClean ==
  \A s \in handedOff, f \in Files :
    pathCheck /\ writer[f] = s /\ disk[f] = "bad" => f \in excused

(* A handoff with code edits on the branch comes with the verification     *)
(* reference in the model's context: read on this branch after its last    *)
(* compaction, however the session was left, rebuilt or resumed.           *)
HandoffIsVerified ==
  \A s \in handedOff : EditsIn(transcript[s]) => "verification" \in ReadsIn(transcript[s])
===========================================================================
