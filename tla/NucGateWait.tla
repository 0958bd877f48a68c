---------------------------- MODULE NucGateWait ----------------------------
(***************************************************************************)
(* scripts/nuc-gate.py: the clients that only read, `wait` and `status`.   *)
(* They take no lock, and each look at a file of the job is a step of its  *)
(* own, so a resubmission may come between two looks.                      *)
(***************************************************************************)
EXTENDS NucGate

CONSTANT Readers
ASSUME ReadersAssumption == Readers \cap Procs = {}

VARIABLES
  reading,  \* "idle", or where the client is: "look", "load", "known", "sleep"
  command,  \* "wait" or "status"
  asked,    \* the job it asks about
  answer    \* its last answer: a verdict, "unpublished", "running",
            \* "unknown", "expired", "gone" (an unhandled OSError), or "none"

readers == <<reading, command, asked, answer>>
waitVars == <<vars, readers>>

Answers == Verdicts \cup {"unpublished", "running", "unknown", "expired", "gone", "none"}

WaitInit ==
  /\ Init
  /\ reading = [c \in Readers |-> "idle"]
  /\ command = [c \in Readers |-> "wait"]
  /\ asked = [c \in Readers |-> NoJob]
  /\ answer = [c \in Readers |-> "none"]

Ask(c, j, what) ==
  /\ reading[c] = "idle"
  /\ reading' = [reading EXCEPT ![c] = "look"]
  /\ command' = [command EXCEPT ![c] = what]
  /\ asked' = [asked EXCEPT ![c] = j]
  /\ answer' = [answer EXCEPT ![c] = "none"]
  /\ UNCHANGED vars

(* result.json exists? *)
Look(c) ==
  /\ reading[c] = "look"
  /\ reading' = [reading EXCEPT ![c] =
       IF result[asked[c]] # "none" THEN "load"
       ELSE IF command[c] = "status" THEN "known" ELSE "sleep"]
  /\ UNCHANGED <<vars, command, asked, answer>>

Answer(c, a) ==
  /\ reading' = [reading EXCEPT ![c] = "idle"]
  /\ answer' = [answer EXCEPT ![c] = a]
  /\ UNCHANGED <<vars, command, asked>>

Load(c) ==
  /\ reading[c] = "load"
  /\ Answer(c, IF result[asked[c]] = "none" THEN "gone"
               ELSE IF publicationError[asked[c]] THEN "unpublished" ELSE result[asked[c]])

(* job.json exists? *)
Known(c) ==
  /\ reading[c] = "known"
  /\ Answer(c, IF jobFile[asked[c]] THEN "running" ELSE "unknown")

Expire(c) == reading[c] = "sleep" /\ Answer(c, "expired")

Sleep(c) ==
  /\ reading[c] = "sleep"
  /\ reading' = [reading EXCEPT ![c] = "look"]
  /\ UNCHANGED <<vars, command, asked, answer>>

ReaderNext ==
  \E c \in Readers :
    \/ \E j \in Jobs, what \in {"wait", "status"} : Ask(c, j, what)
    \/ Look(c) \/ Load(c) \/ Known(c) \/ Expire(c) \/ Sleep(c)

WaitNext == (Next /\ UNCHANGED readers) \/ ReaderNext

WaitSpec == WaitInit /\ [][WaitNext]_waitVars

---------------------------------------------------------------------------
WaitTypeOK ==
  /\ TypeOK
  /\ reading \in [Readers -> {"idle", "look", "load", "known", "sleep"}]
  /\ command \in [Readers -> {"wait", "status"}]
  /\ asked \in [Readers -> Jobs \cup {NoJob}]
  /\ \A c \in Readers : asked[c] = NoJob => reading[c] = "idle" /\ answer[c] = "none"
  /\ answer \in [Readers -> Answers]

(* wait exits 0, or 1 for a failed gate, only for a verdict that stands,   *)
(* and that GitHub shows unless publish() raised what nobody catches; no   *)
(* later submit, run or fault makes that answer untrue.                    *)
AnswerStands ==
  \A c \in Readers : answer[c] \in {"success", "failure"} =>
    /\ result[asked[c]] = answer[c]
    /\ status[asked[c]] = answer[c] \/ cut[asked[c]]
===========================================================================
