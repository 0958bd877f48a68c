----------------------------- MODULE QuotaGate -----------------------------
(***************************************************************************)
(* agent/extensions/quota-gate.ts: an OMP extension that pauses work when  *)
(* a provider's seven-day quota passes a threshold.  One thread runs it,   *)
(* and everything between two awaits is one step; the user's commands, the *)
(* poll timer and new sessions come in between.  At most one call of poll  *)
(* is past its guard at any time: that call is the variables reading, ctx. *)
(***************************************************************************)
EXTENDS Integers

CONSTANTS
  Providers,    \* openai-codex and anthropic
  Levels,       \* the used fractions that occur, as whole numbers
  Thresholds,   \* the thresholds of `/quota-gate on`
  MaxSession,   \* bound: sessions of the process
  UIs,          \* the values ctx.hasUI may have
  Modal,        \* a pending dialog keeps other commands and sessions away
  Absent        \* no usable report of the provider

ASSUME LevelsAssumption == Levels \subseteq Nat /\ Thresholds \subseteq Nat /\ Absent \notin Levels
ASSUME HostAssumption == UIs \subseteq BOOLEAN /\ Modal \in BOOLEAN
ASSUME SessionAssumption == MaxSession \in Nat

VARIABLES
  gateState, thresholdFraction, lastSamples, checking, failureNotified,
  pollTimer,  \* the extension holds the handle of a timer
  timers,     \* the number of its timers that OMP runs
  reading,    \* where the call of poll is: "none", "usage" or "confirm"
  ctx,        \* the session that call was made in
  session     \* the current session

gate == <<gateState, thresholdFraction>>
samples == <<lastSamples, failureNotified>>
poller == <<checking, reading, ctx>>
timing == <<pollTimer, timers>>
quotaVars == <<gate, samples, poller, timing, session>>

Samples == [Providers -> Levels \cup {Absent}]
NoSamples == [p \in Providers |-> Absent]

QuotaInit ==
  /\ gateState = "disabled"
  /\ thresholdFraction \in Thresholds
  /\ lastSamples = NoSamples
  /\ checking = FALSE
  /\ failureNotified = FALSE
  /\ pollTimer = FALSE
  /\ timers = 0
  /\ reading = "none"
  /\ ctx = 0
  /\ session = 0

Attentive == Modal => reading # "confirm"

(* The guard of poll, and what it does up to its first await. *)
StartPoll ==
  /\ checking' = TRUE
  /\ reading' = "usage"
  /\ ctx' = session

EndPoll ==
  /\ checking' = FALSE
  /\ reading' = "none"
  /\ UNCHANGED ctx

(* /quota-gate on: setOpen, then poll, which does nothing while checking. *)
On(t) ==
  /\ Attentive
  /\ gateState' = "open"
  /\ thresholdFraction' = t
  /\ failureNotified' = FALSE
  /\ pollTimer' = TRUE
  /\ timers' = IF pollTimer THEN timers ELSE timers + 1
  /\ IF checking THEN UNCHANGED poller ELSE StartPoll
  /\ UNCHANGED <<lastSamples, session>>

(* Mutant: a timer is cleared although none is held. *)
OffClearsAnyway ==
  /\ Attentive
  /\ gateState' = "disabled"
  /\ pollTimer' = FALSE
  /\ timers > -1
  /\ timers' = timers - 1
  /\ UNCHANGED <<thresholdFraction, samples, poller, session>>

Off ==
  /\ Attentive
  /\ gateState' = "disabled"
  /\ pollTimer' = FALSE
  /\ timers' = IF pollTimer THEN timers - 1 ELSE timers
  /\ UNCHANGED <<thresholdFraction, samples, poller, session>>

Continue ==
  /\ Attentive
  /\ gateState = "latched"
  /\ gateState' = "open"
  /\ UNCHANGED <<thresholdFraction, samples, poller, timing, session>>

TimerFires ==
  /\ timers > 0
  /\ gateState = "open"
  /\ ~checking
  /\ StartPoll
  /\ UNCHANGED <<gate, samples, timing, session>>

Over(r) == \E p \in Providers : r[p] # Absent /\ r[p] >= thresholdFraction

Read(r) ==
  /\ reading = "usage"
  /\ lastSamples' = r
  /\ failureNotified' = \E p \in Providers : r[p] = Absent

ReadQuiet(r) ==
  /\ Read(r)
  /\ ~Over(r) \/ gateState # "open"
  /\ EndPoll
  /\ UNCHANGED <<gate, timing, session>>

(* Mutant: tripGate does not look at gateState again. *)
ReadTripsAnyway(r) ==
  /\ Read(r)
  /\ Over(r)
  /\ gateState' = "latched"
  /\ \/ FALSE \in UIs /\ EndPoll
     \/ TRUE \in UIs /\ reading' = "confirm" /\ UNCHANGED <<checking, ctx>>
  /\ UNCHANGED <<thresholdFraction, timing, session>>

(* tripGate: the turn of ctx is aborted, and the user asked if there is UI. *)
ReadTrips(r) ==
  /\ Read(r)
  /\ Over(r)
  /\ gateState = "open"
  /\ gateState' = "latched"
  /\ \/ FALSE \in UIs /\ EndPoll
     \/ TRUE \in UIs /\ reading' = "confirm" /\ UNCHANGED <<checking, ctx>>
  /\ UNCHANGED <<thresholdFraction, timing, session>>

(* Mutant: checking is not reset when the usage command fails. *)
ReadFailsBusy ==
  /\ reading = "usage"
  /\ failureNotified' = TRUE
  /\ reading' = "none"
  /\ UNCHANGED <<gate, lastSamples, checking, ctx, timing, session>>

ReadFails ==
  /\ reading = "usage"
  /\ failureNotified' = TRUE
  /\ EndPoll
  /\ UNCHANGED <<gate, lastSamples, timing, session>>

ConfirmYes ==
  /\ reading = "confirm"
  /\ gateState' = "open"
  /\ EndPoll
  /\ UNCHANGED <<thresholdFraction, samples, timing, session>>

ConfirmNo ==
  /\ reading = "confirm"
  /\ EndPoll
  /\ UNCHANGED <<gate, samples, timing, session>>

(* OMP has cleared the timers of the session before. *)
SessionStart ==
  /\ Attentive
  /\ session < MaxSession
  /\ session' = session + 1
  /\ gateState' = "disabled"
  /\ pollTimer' = FALSE
  /\ timers' = 0
  /\ lastSamples' = NoSamples
  /\ UNCHANGED <<thresholdFraction, failureNotified, poller>>

Reads == (\E r \in Samples : ReadQuiet(r) \/ ReadTrips(r)) \/ ReadFails

QuotaNext ==
  \/ \E t \in Thresholds : On(t)
  \/ Off
  \/ Continue
  \/ TimerFires
  \/ Reads
  \/ ConfirmYes
  \/ ConfirmNo
  \/ SessionStart

QuotaSpec == QuotaInit /\ [][QuotaNext]_quotaVars

---------------------------------------------------------------------------
QuotaTypeOK ==
  /\ gateState \in {"disabled", "open", "latched"}
  /\ thresholdFraction \in Thresholds
  /\ lastSamples \in Samples
  /\ checking \in BOOLEAN
  /\ failureNotified \in BOOLEAN
  /\ pollTimer \in BOOLEAN
  /\ timers \in Nat
  /\ reading \in {"none", "usage", "confirm"}
  /\ ctx \in 0..MaxSession
  /\ session \in 0..MaxSession

(* A gate that is on in this session is polled by exactly one timer, and a *)
(* gate that is off by none: no poll in flight, dialog or new session      *)
(* turns a gate on behind the user's back or leaves a timer behind.        *)
OnMeansPolled == timers = (IF gateState = "disabled" THEN 0 ELSE 1)

(* An open gate reads the usage again and again, or is not open any more.  *)
OpenIsChecked == gateState = "open" ~> reading = "usage" \/ gateState # "open"
===========================================================================
