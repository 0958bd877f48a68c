----------------------------- MODULE Extensions -----------------------------
(***************************************************************************)
(* agent/extensions/quota-gate.ts and agent/extensions/analyse.ts in one   *)
(* OMP process.  They meet in the agent's run: tripGate aborts it and, on  *)
(* a yes, sends a follow-up message to resume it; analyse.ts knows its run *)
(* by the text of the message that started it.                             *)
(***************************************************************************)
EXTENDS QuotaGate, Analyse

VARIABLE interrupted  \* the run that tripGate aborted, NoRun if there was none

extensionVars == <<quotaVars, analyseVars, interrupted>>

Init ==
  /\ QuotaInit
  /\ AnalyseInit
  /\ interrupted = NoRun

(* tripGate: resumeCurrentTurn, and ctx.abort(): the run ends by AgentEnd. *)
TripRun ==
  /\ \E r \in Samples : ReadTrips(r)
  /\ interrupted' = IF reading' = "confirm" THEN run ELSE NoRun
  /\ UNCHANGED analyseVars

ResumeRun ==
  /\ ConfirmYes
  /\ Len(queue) < MaxQueue
  /\ queue' = IF interrupted = NoRun THEN queue
              ELSE Append(queue, [text |-> ResumeText, analyse |-> interrupted.analyse,
                                 kept |-> FALSE])
  /\ interrupted' = NoRun
  /\ UNCHANGED <<request, state, run, pendingRequest, active>>

LeaveRun ==
  /\ ConfirmNo
  /\ interrupted' = NoRun
  /\ UNCHANGED analyseVars

(* OMP begins a session with an idle agent. *)
NewSession ==
  /\ SessionStart
  /\ Idle
  /\ UNCHANGED <<analyseVars, interrupted>>

Usage == (\E r \in Samples : ReadQuiet(r)) \/ ReadFails

QuotaStep ==
  /\ Quiet
  /\ \/ TripRun
     \/ ResumeRun
     \/ LeaveRun
     \/ NewSession
     \/ ((\E t \in Thresholds : On(t)) \/ Off \/ Continue \/ TimerFires \/ Usage)
        /\ UNCHANGED <<analyseVars, interrupted>>

(* The user types prompts and commands where no dialog is open. *)
AnalyseStep ==
  /\ \/ \E c \in Commands : Send(c)
     \/ Attentive /\ \E c \in Commands, t \in Texts : Command(c, t)
     \/ ResolveIdle
     \/ Attentive /\ \E t \in Texts : Prompt(t)
     \/ AgentStart
     \/ AgentEnd
  /\ UNCHANGED <<quotaVars, interrupted>>

Next == QuotaStep \/ AnalyseStep

(* OMP runs the timers, and the usage command has a timeout of 30 seconds. *)
(* Strong fairness, because microtasks come between two timer events, but  *)
(* never for ever.  Nobody has to answer a dialog or to type anything.     *)
Spec ==
  /\ Init
  /\ [][Next]_extensionVars
  /\ WF_extensionVars(\E c \in Commands : Send(c) /\ UNCHANGED <<quotaVars, interrupted>>)
  /\ SF_extensionVars(Quiet /\ TimerFires /\ UNCHANGED <<analyseVars, interrupted>>)
  /\ SF_extensionVars(Quiet /\ (TripRun \/ (Usage /\ UNCHANGED <<analyseVars, interrupted>>)))

---------------------------------------------------------------------------
TypeOK ==
  /\ QuotaTypeOK
  /\ AnalyseTypeOK
  /\ interrupted \in Messages \cup {NoRun}
  /\ interrupted # NoRun => reading = "confirm"

(* Work on an /analyse request stays read-only when the quota gate has     *)
(* interrupted it and the user lets it continue.                           *)
ResumeIsReadOnly == run.analyse => active
===========================================================================
