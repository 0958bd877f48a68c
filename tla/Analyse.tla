------------------------------ MODULE Analyse ------------------------------
(***************************************************************************)
(* agent/extensions/analyse.ts: `/analyse <request>` waits until the agent *)
(* is idle, sends the request as a user message, and recognises the run it *)
(* started by the text of its prompt: that run may only read.  The host    *)
(* (OMP: its queue of messages, its runs) is modelled as the extension     *)
(* uses it.  A resolved waitForIdle continues before any other event, but  *)
(* the start of a run that another one has asked for may come first.       *)
(***************************************************************************)
EXTENDS Naturals, Sequences

CONSTANTS
  Commands,   \* `/analyse` commands that may be pending together
  Texts,      \* the texts of requests and prompts
  ResumeText, \* the text by which quota-gate resumes interrupted work
  MaxQueue,   \* bound: messages waiting for the agent
  NoText

ASSUME TextAssumption == {NoText, ResumeText} \cap Texts = {} /\ NoText # ResumeText
ASSUME QueueAssumption == MaxQueue \in Nat

VARIABLES
  request,        \* request[c]: the text of command c, or NoText
  state,          \* state[c]: "none", "waiting" or "resolved" (waitForIdle)
  queue,          \* messages: [text, analyse, kept], analyse when `/analyse` sent
                  \* it, kept when it is the one that pendingRequest stands for
  run,            \* the agent's run: a message, or an empty one
  pendingRequest, active

analyseVars == <<request, state, queue, run, pendingRequest, active>>

Messages == [text : Texts \cup {ResumeText}, analyse : BOOLEAN, kept : BOOLEAN]
NoRun == [text |-> NoText, analyse |-> FALSE, kept |-> FALSE]

AnalyseInit ==
  /\ request = [c \in Commands |-> NoText]
  /\ state = [c \in Commands |-> "none"]
  /\ queue = <<>>
  /\ run = NoRun
  /\ pendingRequest = NoText
  /\ active = FALSE

Quiet == \A c \in Commands : state[c] # "resolved"
Idle == run = NoRun /\ queue = <<>>

Command(c, t) ==
  /\ Quiet
  /\ state[c] = "none"
  /\ state' = [state EXCEPT ![c] = "waiting"]
  /\ request' = [request EXCEPT ![c] = t]
  /\ UNCHANGED <<queue, run, pendingRequest, active>>

(* The agent gets idle: every waiting handler will continue. *)
ResolveIdle ==
  /\ Quiet
  /\ Idle
  /\ \E c \in Commands : state[c] = "waiting"
  /\ state' = [c \in Commands |-> IF state[c] = "waiting" THEN "resolved" ELSE state[c]]
  /\ UNCHANGED <<request, queue, run, pendingRequest, active>>

(* Of requests that were sent together one variable remembers the last: it  *)
(* stands for the first message with that text.                            *)
FirstWith(q, t, i) == q[i].text = t /\ \A j \in 1..i - 1 : q[j].text # t
Sent(t) ==
  LET q == Append(queue, [text |-> t, analyse |-> TRUE, kept |-> FALSE]) IN
    [i \in 1..Len(q) |->
       [text |-> q[i].text, analyse |-> q[i].analyse, kept |-> FirstWith(q, t, i)]]

(* Mutant: the request is sent without being remembered. *)
SendForgotten(c) ==
  /\ state[c] = "resolved"
  /\ queue' = Sent(request[c])
  /\ state' = [state EXCEPT ![c] = "none"]
  /\ request' = [request EXCEPT ![c] = NoText]
  /\ UNCHANGED <<run, pendingRequest, active>>

Send(c) ==
  /\ state[c] = "resolved"
  /\ pendingRequest' = request[c]
  /\ queue' = Sent(request[c])
  /\ state' = [state EXCEPT ![c] = "none"]
  /\ request' = [request EXCEPT ![c] = NoText]
  /\ UNCHANGED <<run, active>>

Prompt(t) ==
  /\ Quiet
  /\ Len(queue) < MaxQueue
  /\ queue' = Append(queue, [text |-> t, analyse |-> FALSE, kept |-> FALSE])
  /\ UNCHANGED <<request, state, run, pendingRequest, active>>

(* before_agent_start *)
AgentStart ==
  /\ run = NoRun
  /\ queue # <<>>
  /\ run' = Head(queue)
  /\ queue' = Tail(queue)
  /\ IF Head(queue).text = pendingRequest
     THEN pendingRequest' = NoText /\ active' = TRUE
     ELSE UNCHANGED <<pendingRequest, active>>
  /\ UNCHANGED <<request, state>>

(* Mutant: the mode outlives its run. *)
AgentEndActive ==
  /\ Quiet
  /\ run # NoRun
  /\ run' = NoRun
  /\ UNCHANGED <<request, state, queue, pendingRequest, active>>

AgentEnd ==
  /\ Quiet
  /\ run # NoRun
  /\ run' = NoRun
  /\ active' = FALSE
  /\ UNCHANGED <<request, state, queue, pendingRequest>>

AnalyseNext ==
  \/ \E c \in Commands : Send(c) \/ \E t \in Texts : Command(c, t)
  \/ ResolveIdle
  \/ \E t \in Texts : Prompt(t)
  \/ AgentStart
  \/ AgentEnd

AnalyseSpec == AnalyseInit /\ [][AnalyseNext]_analyseVars

---------------------------------------------------------------------------
AnalyseTypeOK ==
  /\ request \in [Commands -> Texts \cup {NoText}]
  /\ state \in [Commands -> {"none", "waiting", "resolved"}]
  /\ queue \in Seq(Messages)
  /\ run \in Messages \cup {NoRun}
  /\ pendingRequest \in Texts \cup {NoText}
  /\ active \in BOOLEAN

(* The agent works on an /analyse request only in the read-only mode, even *)
(* when other prompts with the same or another text are queued around it;  *)
(* of requests that one idle moment has sent together, on the first that   *)
(* has the text of the last: pendingRequest forgets the others.            *)
AnalyseIsReadOnly == run.kept => active

(* ... and no other run is restricted by it.                               *)
OthersAreFree == active => run.analyse
===========================================================================
