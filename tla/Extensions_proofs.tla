------------------------- MODULE Extensions_proofs -------------------------
(***************************************************************************)
(* Proofs about Extensions, for any providers, usage levels, thresholds,   *)
(* texts, sessions and queue lengths, with or without a user interface.    *)
(***************************************************************************)
EXTENDS Extensions, TLAPS

Steps == Init /\ [][Next]_extensionVars

USE LevelsAssumption, HostAssumption, SessionAssumption, TextAssumption, QueueAssumption

LEMMA SpecIsSteps == Spec => Steps
BY PTL DEF Spec, Steps

(* The two parts of QuotaTypeOK, which different provers settle.           *)
Flags == checking \in BOOLEAN /\ failureNotified \in BOOLEAN /\ pollTimer \in BOOLEAN

Values ==
  /\ gateState \in {"disabled", "open", "latched"}
  /\ thresholdFraction \in Thresholds
  /\ lastSamples \in Samples
  /\ timers \in Nat
  /\ reading \in {"none", "usage", "confirm"}
  /\ ctx \in 0..MaxSession
  /\ session \in 0..MaxSession

(* A call of poll is past its guard exactly while `checking`.              *)
Reading == checking <=> reading # "none"

(* The extension holds the handle of every timer it has.                   *)
Held == timers = IF pollTimer THEN 1 ELSE 0

(* A command that waits for the agent, or that may go on, has its request. *)
Requests == \A c \in Commands : state[c] # "none" => request[c] \in Texts

TInv == TypeOK /\ Reading /\ Held /\ Requests

USE DEF quotaVars, gate, samples, poller, timing, analyseVars

---------------------------------------------------------------------------
(* Types *)

LEMMA InitTyped == Init => TInv
<1> SUFFICES ASSUME Init PROVE TInv
  OBVIOUS
<1>1. Flags
  BY DEF Init, QuotaInit, Flags
<1>2. Values
  BY DEF Init, QuotaInit, Values, NoSamples, Samples
<1>3. Reading
  BY DEF Init, QuotaInit, Reading
<1>4. Held
  BY DEF Init, QuotaInit, Held
<1>5. AnalyseTypeOK /\ Requests
  <2>1. active \in BOOLEAN
    BY DEF Init, AnalyseInit
  <2> QED
    BY <2>1 DEF Init, AnalyseInit, AnalyseTypeOK, Requests
<1> QED
  BY <1>1, <1>2, <1>3, <1>4, <1>5 DEF Init, TInv, TypeOK, QuotaTypeOK, Flags, Values

LEMMA GateTyped ==
  ASSUME QuotaTypeOK, Reading, Held,
         \/ \E t \in Thresholds : On(t)
         \/ Off \/ Continue \/ TimerFires \/ Usage \/ SessionStart
         \/ ConfirmYes \/ ConfirmNo
         \/ \E r \in Samples : ReadTrips(r)
  PROVE  QuotaTypeOK' /\ Reading' /\ Held'
<1> USE DEF QuotaTypeOK, StartPoll, EndPoll, Read
<1>1. ASSUME NEW t \in Thresholds, On(t) PROVE QuotaTypeOK' /\ Reading' /\ Held'
  <2>1. Flags'
    BY <1>1 DEF On, Flags
  <2>2. Values'
    BY <1>1 DEF On, Values
  <2>3. Reading'
    BY <1>1 DEF On, Reading
  <2>4. Held'
    BY <1>1 DEF On, Held
  <2> QED
    BY <2>1, <2>2, <2>3, <2>4 DEF Flags, Values
<1>2. ASSUME Off \/ Continue \/ TimerFires PROVE QuotaTypeOK' /\ Reading' /\ Held'
  <2> USE DEF Off, Continue, TimerFires
  <2>1. Flags'
    BY <1>2 DEF Flags
  <2>2. Values'
    BY <1>2 DEF Values, Held
  <2>3. Reading'
    BY <1>2 DEF Reading
  <2>4. Held'
    BY <1>2 DEF Held
  <2> QED
    BY <2>1, <2>2, <2>3, <2>4 DEF Flags, Values
<1>3. ASSUME Usage PROVE QuotaTypeOK' /\ Reading' /\ Held'
  <2> USE DEF Usage, ReadQuiet, ReadFails
  <2>1. Flags'
    BY <1>3 DEF Flags
  <2>2. Values'
    BY <1>3 DEF Values
  <2>3. Reading'
    BY <1>3 DEF Reading
  <2>4. Held'
    <3>1. UNCHANGED <<pollTimer, timers>>
      BY <1>3
    <3> QED
      BY <3>1 DEF Held
  <2> QED
    BY <2>1, <2>2, <2>3, <2>4 DEF Flags, Values
<1>4. ASSUME SessionStart PROVE QuotaTypeOK' /\ Reading' /\ Held'
  <2> USE DEF SessionStart
  <2>1. Flags'
    BY <1>4 DEF Flags
  <2>2. Values'
    BY <1>4 DEF Values, NoSamples, Samples
  <2>3. Reading'
    BY <1>4 DEF Reading
  <2>4. Held'
    BY <1>4 DEF Held
  <2> QED
    BY <2>1, <2>2, <2>3, <2>4 DEF Flags, Values
<1>5. ASSUME ConfirmYes \/ ConfirmNo PROVE QuotaTypeOK' /\ Reading' /\ Held'
  <2> USE DEF ConfirmYes, ConfirmNo
  <2>1. Flags'
    BY <1>5 DEF Flags
  <2>2. Values'
    BY <1>5 DEF Values
  <2>3. Reading'
    BY <1>5 DEF Reading
  <2>4. Held'
    BY <1>5 DEF Held
  <2> QED
    BY <2>1, <2>2, <2>3, <2>4 DEF Flags, Values
<1>6. ASSUME NEW r \in Samples, ReadTrips(r) PROVE QuotaTypeOK' /\ Reading' /\ Held'
  <2> USE DEF ReadTrips
  <2>1. Flags'
    BY <1>6 DEF Flags
  <2>2. Values'
    BY <1>6 DEF Values
  <2>3. Reading'
    BY <1>6 DEF Reading
  <2>4. Held'
    BY <1>6 DEF Held
  <2> QED
    BY <2>1, <2>2, <2>3, <2>4 DEF Flags, Values
<1> QED
  BY <1>1, <1>2, <1>3, <1>4, <1>5, <1>6

(* The question to the user stays open until it is answered.               *)
LEMMA QuestionStays ==
  ASSUME Reading, reading = "confirm",
         \/ \E t \in Thresholds : On(t)
         \/ Off \/ Continue \/ TimerFires \/ Usage \/ SessionStart
  PROVE  reading' = "confirm"
BY DEF Reading, On, Off, Continue, TimerFires, Usage, ReadQuiet, ReadFails, Read, SessionStart

LEMMA AppendTyped ==
  ASSUME AnalyseTypeOK, NEW m \in Messages
  PROVE  Append(queue, m) \in Seq(Messages)
BY DEF AnalyseTypeOK

(* What Send appends and marks *)
SentAs(q, t) ==
  /\ q \in Seq(Messages)
  /\ Len(q) = Len(queue) + 1
  /\ \A i \in 1..Len(queue) : q[i].text = queue[i].text /\ q[i].analyse = queue[i].analyse
  /\ q[Len(q)].text = t /\ q[Len(q)].analyse = TRUE
  /\ \A i \in 1..Len(q) : q[i].kept <=> FirstWith(q, t, i)

LEMMA MarkedAs ==
  ASSUME NEW q \in Seq(Messages), NEW u \in Seq(Messages), NEW t,
         queue \in Seq(Messages), Len(u) = Len(q), Len(q) = Len(queue) + 1,
         \A i \in 1..Len(queue) : q[i] = queue[i],
         q[Len(q)].text = t, q[Len(q)].analyse = TRUE,
         \A i \in 1..Len(q) : u[i].text = q[i].text /\ u[i].analyse = q[i].analyse,
         \A i \in 1..Len(q) : u[i].kept <=> FirstWith(q, t, i)
  PROVE  SentAs(u, t)
<1>1. Len(queue) \in Nat /\ Len(q) \in 1..Len(q) /\ \A i \in 1..Len(queue) : i \in 1..Len(q)
  OBVIOUS
<1>2. ASSUME NEW i \in 1..Len(q) PROVE FirstWith(u, t, i) <=> FirstWith(q, t, i)
  <2>1. \A j \in 1..i - 1 : j \in 1..Len(q)
    BY <1>1
  <2>2. \A j \in 1..i - 1 : u[j].text = q[j].text
    BY <2>1
  <2> QED
    BY <2>2 DEF FirstWith
<1>3. \A i \in 1..Len(queue) : u[i].text = queue[i].text /\ u[i].analyse = queue[i].analyse
  BY <1>1
<1>4. u[Len(u)].text = t /\ u[Len(u)].analyse = TRUE
  BY <1>1
<1>5. \A i \in 1..Len(u) : u[i].kept <=> FirstWith(u, t, i)
  BY <1>2
<1> QED
  BY <1>3, <1>4, <1>5 DEF SentAs

LEMMA SentTyped ==
  ASSUME AnalyseTypeOK, NEW t \in Texts
  PROVE  SentAs(Sent(t), t)
<1> DEFINE m == [text |-> t, analyse |-> TRUE, kept |-> FALSE]
           q == Append(queue, m)
           mark(i) == [text |-> q[i].text, analyse |-> q[i].analyse, kept |-> FirstWith(q, t, i)]
           u == [i \in 1..Len(q) |-> mark(i)]
<1>1. queue \in Seq(Messages) /\ m \in Messages
  BY DEF AnalyseTypeOK, Messages
<1>2. /\ q \in Seq(Messages) /\ Len(q) = Len(queue) + 1 /\ Len(q) \in Nat
      /\ \A i \in 1..Len(queue) : q[i] = queue[i]
      /\ q[Len(q)] = m
      /\ \A i \in 1..Len(q) : q[i] \in Messages
  <2> HIDE DEF m
  <2>1. q \in Seq(Messages)
    BY <1>1
  <2>2. Len(q) = Len(queue) + 1 /\ Len(q) \in Nat
    BY <1>1
  <2>3. (\A i \in 1..Len(queue) : q[i] = queue[i]) /\ q[Len(q)] = m
    BY <1>1
  <2>4. \A i \in 1..Len(q) : q[i] \in Messages
    <3> HIDE DEF q
    <3> QED
      BY <2>1
  <2> QED
    BY <2>1, <2>2, <2>3, <2>4
<1>3. Sent(t) = u
  BY DEF Sent
<1> HIDE DEF q
<1>4. ASSUME NEW i \in 1..Len(q) PROVE mark(i) \in Messages
  <2>1. FirstWith(q, t, i) \in BOOLEAN
    BY DEF FirstWith
  <2>2. q[i] \in Messages
    BY <1>2
  <2> QED
    BY <2>1, <2>2 DEF Messages
<1>5. u \in [1..Len(q) -> Messages]
  <2> HIDE DEF mark
  <2> QED
    BY <1>4
<1>6. u \in Seq(Messages) /\ Len(u) = Len(q)
  <2> HIDE DEF u
  <2> QED
    BY <1>2, <1>5
<1>7. \A i \in 1..Len(q) : u[i] = mark(i)
  OBVIOUS
<1> HIDE DEF u
<1>8. q[Len(q)].text = t /\ q[Len(q)].analyse = TRUE
  BY <1>2
<1>9. ASSUME NEW i \in 1..Len(q)
      PROVE  u[i].text = q[i].text /\ u[i].analyse = q[i].analyse /\ u[i].kept = FirstWith(q, t, i)
  <2>1. u[i] = mark(i)
    BY <1>7
  <2> HIDE DEF FirstWith
  <2> QED
    BY <2>1
<1> HIDE DEF m, mark
<1>10. ASSUME NEW i \in 1..Len(q) PROVE u[i].kept <=> FirstWith(q, t, i)
  BY <1>9
<1>11. SentAs(u, t)
  BY <1>1, <1>2, <1>6, <1>8, <1>9, <1>10, MarkedAs
<1> QED
  BY <1>3, <1>11

LEMMA QuotaTyped == ASSUME TInv, QuotaStep PROVE TInv'
<1>1. QuotaTypeOK' /\ Reading' /\ Held'
  BY GateTyped DEF TInv, TypeOK, QuotaStep, TripRun, ResumeRun, LeaveRun, NewSession
<1>2. UNCHANGED <<request, state, run, pendingRequest, active>>
  BY DEF QuotaStep, TripRun, ResumeRun, LeaveRun, NewSession
<1>3. queue' \in Seq(Messages)
  <2>1. CASE ResumeRun /\ interrupted # NoRun
    <3>1. [text |-> ResumeText, analyse |-> interrupted.analyse, kept |-> FALSE] \in Messages
      BY <2>1 DEF TInv, TypeOK, Messages
    <3> QED
      BY <2>1, <3>1, AppendTyped DEF TInv, TypeOK, ResumeRun
  <2>2. CASE ~(ResumeRun /\ interrupted # NoRun)
    <3>1. queue' = queue
      BY <2>2 DEF QuotaStep, TripRun, ResumeRun, LeaveRun, NewSession
    <3> QED
      BY <3>1 DEF TInv, TypeOK, AnalyseTypeOK
  <2> QED
    BY <2>1, <2>2
<1>4. AnalyseTypeOK' /\ Requests'
  BY <1>2, <1>3 DEF TInv, TypeOK, AnalyseTypeOK, Requests
<1>5. interrupted' \in Messages \cup {NoRun} /\ (interrupted' # NoRun => reading' = "confirm")
  <2>1. CASE TripRun \/ ResumeRun \/ LeaveRun
    BY <2>1 DEF TInv, TypeOK, AnalyseTypeOK, TripRun, ResumeRun, LeaveRun
  <2>2. CASE ~(TripRun \/ ResumeRun \/ LeaveRun)
    BY <2>2, QuestionStays DEF TInv, TypeOK, QuotaStep, NewSession
  <2> QED
    BY <2>1, <2>2
<1> QED
  BY <1>1, <1>4, <1>5 DEF TInv, TypeOK

LEMMA AnalyseTyped == ASSUME TInv, AnalyseStep PROVE TInv'
<1>1. ASSUME NEW c \in Commands, Send(c) PROVE AnalyseTypeOK' /\ Requests'
  <2>1. request[c] \in Texts
    BY <1>1 DEF TInv, Requests, Send
  <2>2. Sent(request[c]) \in Seq(Messages)
    BY <2>1, SentTyped DEF TInv, TypeOK, SentAs
  <2> QED
    BY <1>1, <2>2 DEF TInv, TypeOK, AnalyseTypeOK, Requests, Send
<1>2. ASSUME NEW c \in Commands, NEW t \in Texts, Command(c, t) PROVE AnalyseTypeOK' /\ Requests'
  BY <1>2 DEF TInv, TypeOK, AnalyseTypeOK, Requests, Command
<1>3. ASSUME ResolveIdle PROVE AnalyseTypeOK' /\ Requests'
  BY <1>3 DEF TInv, TypeOK, AnalyseTypeOK, Requests, ResolveIdle
<1>4. ASSUME NEW t \in Texts, Prompt(t) PROVE AnalyseTypeOK' /\ Requests'
  <2>1. [text |-> t, analyse |-> FALSE, kept |-> FALSE] \in Messages
    BY DEF Messages
  <2>2. Append(queue, [text |-> t, analyse |-> FALSE, kept |-> FALSE]) \in Seq(Messages)
    BY <2>1, AppendTyped DEF TInv, TypeOK
  <2> QED
    BY <1>4, <2>2 DEF TInv, TypeOK, AnalyseTypeOK, Requests, Prompt
<1>5. ASSUME AgentStart PROVE AnalyseTypeOK' /\ Requests'
  <2>1. active' \in BOOLEAN
    BY <1>5 DEF TInv, TypeOK, AnalyseTypeOK, AgentStart
  <2> QED
    BY <1>5, <2>1 DEF TInv, TypeOK, AnalyseTypeOK, Requests, AgentStart
<1>6. ASSUME AgentEnd PROVE AnalyseTypeOK' /\ Requests'
  <2>1. active' \in BOOLEAN
    BY <1>6 DEF AgentEnd
  <2> QED
    BY <1>6, <2>1 DEF TInv, TypeOK, AnalyseTypeOK, Requests, AgentEnd
<1>7. AnalyseTypeOK' /\ Requests'
  BY <1>1, <1>2, <1>3, <1>4, <1>5, <1>6 DEF AnalyseStep
<1>8. UNCHANGED <<quotaVars, interrupted>>
  BY DEF AnalyseStep
<1>9. QuotaTypeOK' /\ Reading' /\ Held'
  BY <1>8 DEF TInv, TypeOK, QuotaTypeOK, Reading, Held
<1> QED
  BY <1>7, <1>8, <1>9 DEF TInv, TypeOK

LEMMA NextTyped == TInv /\ [Next]_extensionVars => TInv'
<1> SUFFICES ASSUME TInv, [Next]_extensionVars PROVE TInv'
  OBVIOUS
<1>1. CASE UNCHANGED extensionVars
  BY <1>1 DEF extensionVars, TInv, TypeOK, QuotaTypeOK, AnalyseTypeOK, Reading, Held, Requests
<1> QED
  BY <1>1, QuotaTyped, AnalyseTyped DEF Next

LEMMA Typed == Spec => []TInv
BY SpecIsSteps, InitTyped, NextTyped, PTL DEF Steps

(* TypeOK: the states of both extensions are well typed, and a run that    *)
(* the gate has interrupted is held only while its question is open.       *)
THEOREM TypeCorrect == Spec => []TypeOK
BY Typed, PTL DEF TInv

---------------------------------------------------------------------------
(* The quota gate: a modal question *)

(* What the handle of a timer and an open question say of the gate.        *)
GateInv ==
  /\ pollTimer <=> gateState # "disabled"
  /\ reading = "confirm" => gateState = "latched"

LEMMA InitGate == Init => GateInv
BY DEF Init, QuotaInit, GateInv

LEMMA NextGate ==
  ASSUME Modal = TRUE, TInv, GateInv, [Next]_extensionVars
  PROVE  GateInv'
<1> USE DEF TInv, TypeOK, QuotaTypeOK, GateInv, Reading, Attentive, StartPoll, EndPoll, Read
<1>1. CASE UNCHANGED <<gateState, pollTimer, reading>>
  BY <1>1
<1>2. ASSUME NEW t \in Thresholds, On(t) PROVE GateInv'
  BY <1>2 DEF On
<1>3. ASSUME Off PROVE GateInv'
  BY <1>3 DEF Off
<1>4. ASSUME Continue PROVE GateInv'
  BY <1>4 DEF Continue
<1>5. ASSUME TimerFires PROVE GateInv'
  BY <1>5 DEF TimerFires
<1>6. ASSUME Usage PROVE GateInv'
  <2>1. UNCHANGED <<gateState, pollTimer>> /\ reading' = "none"
    BY <1>6 DEF Usage, ReadQuiet, ReadFails
  <2> QED
    BY <2>1
<1>7. ASSUME NEW r \in Samples, ReadTrips(r) PROVE GateInv'
  BY <1>7 DEF ReadTrips
<1>8. ASSUME ConfirmYes PROVE GateInv'
  BY <1>8 DEF ConfirmYes
<1>9. ASSUME ConfirmNo PROVE GateInv'
  BY <1>9 DEF ConfirmNo
<1>10. ASSUME SessionStart PROVE GateInv'
  BY <1>10 DEF SessionStart
<1>11. CASE QuotaStep
  BY <1>2, <1>3, <1>4, <1>5, <1>6, <1>7, <1>8, <1>9, <1>10, <1>11
     DEF QuotaStep, TripRun, ResumeRun, LeaveRun, NewSession
<1>12. CASE AnalyseStep \/ UNCHANGED extensionVars
  BY <1>1, <1>12 DEF AnalyseStep, extensionVars
<1> QED
  BY <1>11, <1>12 DEF Next

(* OnMeansPolled: where a pending question keeps other commands and        *)
(* sessions away, a gate that is on is polled by exactly one timer and a   *)
(* gate that is off by none, whatever polls, timers and answers do.        *)
THEOREM OnMeansPolledTheorem == Modal = TRUE => (Spec => []OnMeansPolled)
<1> SUFFICES ASSUME Modal = TRUE PROVE Spec => []OnMeansPolled
  OBVIOUS
<1>1. TInv /\ GateInv /\ [Next]_extensionVars => GateInv'
  BY NextGate
<1>2. TInv /\ GateInv => OnMeansPolled
  BY DEF TInv, TypeOK, QuotaTypeOK, Held, GateInv, OnMeansPolled
<1> QED
  BY <1>1, <1>2, InitGate, Typed, SpecIsSteps, PTL DEF Steps

---------------------------------------------------------------------------
(* The read-only mode *)

(* The kept message of the queue q is the first with the remembered text,  *)
(* which is there as long as it is remembered, and is one of /analyse.     *)
KeptOK(q, remembered) ==
  /\ \A i \in 1..Len(q) : q[i].kept <=> FirstWith(q, remembered, i)
  /\ \A i \in 1..Len(q) : q[i].kept => q[i].analyse
  /\ remembered # NoText => \E i \in 1..Len(q) : q[i].text = remembered

(* Handlers that continue find nothing in the queue but what they sent.    *)
OnlySent ==
  (\E c \in Commands : state[c] = "resolved") => \A i \in 1..Len(queue) : queue[i].analyse

ModeInv ==
  /\ OnlySent
  /\ KeptOK(queue, pendingRequest)
  /\ run = NoRun => ~active
  /\ AnalyseIsReadOnly
  /\ OthersAreFree

LEMMA InitMode == Init => ModeInv
BY DEF Init, AnalyseInit, ModeInv, OnlySent, KeptOK, NoRun, AnalyseIsReadOnly, OthersAreFree

(* A message that /analyse did not send, or that resumes work, goes behind *)
(* the others.                                                             *)
LEMMA AppendKeepsMode ==
  ASSUME TInv, ModeInv, Quiet, NEW m \in Messages, ~m.kept,
         queue' = Append(queue, m), UNCHANGED <<request, state, run, pendingRequest, active>>
  PROVE  ModeInv'
<1>1. queue \in Seq(Messages) /\ pendingRequest \in Texts \cup {NoText} /\ m.text # NoText
  BY DEF TInv, TypeOK, AnalyseTypeOK, Messages
<1>2. /\ Len(queue') = Len(queue) + 1 /\ Len(queue) \in Nat
      /\ \A i \in 1..Len(queue) : queue'[i] = queue[i]
      /\ queue'[Len(queue')] = m
  BY <1>1
<1>3. \A i \in 1..Len(queue) : FirstWith(queue', pendingRequest, i) <=> FirstWith(queue, pendingRequest, i)
  BY <1>2 DEF FirstWith
<1>4. ~FirstWith(queue', pendingRequest, Len(queue'))
  <2>1. CASE pendingRequest = NoText
    BY <1>1, <1>2, <2>1 DEF FirstWith
  <2>2. CASE pendingRequest # NoText
    <3>1. PICK i \in 1..Len(queue) : queue[i].text = pendingRequest
      BY <2>2 DEF ModeInv, KeptOK
    <3>2. i \in 1..Len(queue') - 1 /\ queue'[i].text = pendingRequest
      BY <1>2, <3>1
    <3> QED
      BY <3>2 DEF FirstWith
  <2> QED
    BY <2>1, <2>2
<1>5. KeptOK(queue', pendingRequest)
  <2>1. \A i \in 1..Len(queue') : i \in 1..Len(queue) \/ i = Len(queue')
    BY <1>2
  <2>2. \A i \in 1..Len(queue') : queue'[i].kept <=> FirstWith(queue', pendingRequest, i)
    BY <1>2, <1>3, <1>4, <2>1 DEF ModeInv, KeptOK
  <2>3. \A i \in 1..Len(queue') : queue'[i].kept => queue'[i].analyse
    BY <1>2, <2>1 DEF ModeInv, KeptOK
  <2>4. pendingRequest # NoText => \E i \in 1..Len(queue') : queue'[i].text = pendingRequest
    BY <1>2 DEF ModeInv, KeptOK
  <2> QED
    BY <2>2, <2>3, <2>4 DEF KeptOK
<1>6. OnlySent'
  BY DEF OnlySent, Quiet
<1> QED
  BY <1>5, <1>6 DEF ModeInv, KeptOK, FirstWith, AnalyseIsReadOnly, OthersAreFree

LEMMA SendKeepsMode == ASSUME TInv, ModeInv, NEW c \in Commands, Send(c) PROVE ModeInv'
<1>1. request[c] \in Texts /\ queue \in Seq(Messages)
  BY DEF TInv, Requests, Send, TypeOK, AnalyseTypeOK
<1>2. SentAs(Sent(request[c]), request[c])
  BY <1>1, SentTyped DEF TInv, TypeOK
<1>3. queue' = Sent(request[c]) /\ pendingRequest' = request[c] /\ UNCHANGED <<run, active>>
  BY DEF Send
<1>4. SentAs(queue', pendingRequest')
  BY <1>2, <1>3
<1>5. \A i \in 1..Len(queue') : queue'[i].analyse
  <2>1. \A i \in 1..Len(queue) : queue[i].analyse
    BY DEF ModeInv, OnlySent, Send
  <2> QED
    BY <1>1, <1>4, <2>1 DEF SentAs
<1>6. KeptOK(queue', pendingRequest')
  BY <1>1, <1>4, <1>5 DEF SentAs, KeptOK
<1> QED
  BY <1>3, <1>5, <1>6 DEF ModeInv, OnlySent, KeptOK, FirstWith, AnalyseIsReadOnly, OthersAreFree

(* The run that starts is read-only exactly if its message is kept.        *)
LEMMA StartKeepsMode == ASSUME TInv, ModeInv, AgentStart PROVE ModeInv'
<1>1. queue \in Seq(Messages) /\ queue # <<>> /\ pendingRequest \in Texts \cup {NoText}
  BY DEF TInv, TypeOK, AnalyseTypeOK, AgentStart
<1>2. /\ run' = queue[1] /\ queue[1] \in Messages /\ Head(queue) = queue[1] /\ 1 \in 1..Len(queue)
      /\ Len(queue') = Len(queue) - 1 /\ Len(queue) \in Nat
      /\ \A i \in 1..Len(queue') : queue'[i] = queue[i + 1] /\ i + 1 \in 1..Len(queue)
  BY <1>1 DEF AgentStart
<1>3. run = NoRun /\ active = FALSE /\ run' # NoRun
  BY <1>2 DEF TInv, TypeOK, AnalyseTypeOK, AgentStart, ModeInv, Messages, NoRun
<1>4. OnlySent'
  BY <1>2 DEF ModeInv, OnlySent, AgentStart
<1>5. queue[1].kept <=> queue[1].text = pendingRequest
  BY <1>2 DEF ModeInv, KeptOK, FirstWith
<1>6. queue[1].kept => queue[1].analyse
  BY <1>2 DEF ModeInv, KeptOK
<1>7. \A i \in 1..Len(queue') : queue'[i].kept => queue'[i].analyse
  BY <1>2 DEF ModeInv, KeptOK
<1>8. CASE queue[1].text = pendingRequest
  <2>1. pendingRequest' = NoText /\ active' = TRUE
    BY <1>2, <1>8 DEF AgentStart
  <2>2. \A i \in 1..Len(queue') : ~queue'[i].kept
    <3> SUFFICES ASSUME NEW i \in 1..Len(queue') PROVE ~queue[i + 1].kept
      BY <1>2
    <3>1. i + 1 \in 1..Len(queue) /\ 1 \in 1..(i + 1) - 1
      BY <1>2
    <3>2. ~FirstWith(queue, pendingRequest, i + 1)
      BY <1>8, <3>1 DEF FirstWith
    <3> QED
      BY <3>1, <3>2 DEF ModeInv, KeptOK
  <2>3. \A i \in 1..Len(queue') : queue'[i].text # NoText
    <3>1. \A i \in 1..Len(queue) : queue[i] \in Messages
      BY <1>1
    <3>2. \A m \in Messages : m.text # NoText
      BY DEF Messages
    <3> QED
      BY <1>2, <3>1, <3>2
  <2>4. KeptOK(queue', pendingRequest')
    BY <2>1, <2>2, <2>3 DEF KeptOK, FirstWith
  <2> QED
    BY <1>2, <1>3, <1>4, <1>5, <1>6, <1>8, <2>1, <2>4
       DEF ModeInv, KeptOK, FirstWith, AnalyseIsReadOnly, OthersAreFree
<1>9. CASE queue[1].text # pendingRequest
  <2>1. pendingRequest' = pendingRequest /\ active' = FALSE
    BY <1>2, <1>3, <1>9 DEF AgentStart
  <2>2. ASSUME NEW i \in 1..Len(queue')
        PROVE  queue'[i].kept <=> FirstWith(queue', pendingRequest, i)
    <3>1. i + 1 \in 1..Len(queue) /\ queue'[i] = queue[i + 1]
      BY <1>2
    <3>2. FirstWith(queue, pendingRequest, i + 1) <=> FirstWith(queue', pendingRequest, i)
      <4>1. ASSUME FirstWith(queue, pendingRequest, i + 1)
            PROVE  FirstWith(queue', pendingRequest, i)
        <5>1. \A j \in 1..i - 1 : j + 1 \in 1..(i + 1) - 1 /\ j \in 1..Len(queue')
          BY <1>2
        <5> QED
          BY <1>2, <3>1, <4>1, <5>1 DEF FirstWith
      <4>2. ASSUME FirstWith(queue', pendingRequest, i)
            PROVE  FirstWith(queue, pendingRequest, i + 1)
        <5>1. ASSUME NEW j \in 1..(i + 1) - 1 PROVE queue[j].text # pendingRequest
          <6>1. CASE j = 1
            BY <1>9, <6>1
          <6>2. CASE j # 1
            <7>1. j - 1 \in 1..i - 1 /\ j - 1 \in 1..Len(queue') /\ (j - 1) + 1 = j
              BY <1>2, <6>2
            <7> QED
              BY <1>2, <4>2, <7>1 DEF FirstWith
          <6> QED
            BY <6>1, <6>2
        <5> QED
          BY <3>1, <4>2, <5>1 DEF FirstWith
      <4> QED
        BY <4>1, <4>2
    <3> QED
      BY <3>1, <3>2 DEF ModeInv, KeptOK
  <2>3. pendingRequest # NoText => \E i \in 1..Len(queue') : queue'[i].text = pendingRequest
    <3> SUFFICES ASSUME pendingRequest # NoText
                 PROVE  \E i \in 1..Len(queue') : queue'[i].text = pendingRequest
      OBVIOUS
    <3>1. PICK i \in 1..Len(queue) : queue[i].text = pendingRequest
      BY DEF ModeInv, KeptOK
    <3>2. i - 1 \in 1..Len(queue') /\ (i - 1) + 1 = i
      BY <1>2, <1>9, <3>1
    <3> QED
      BY <1>2, <3>1, <3>2
  <2>4. KeptOK(queue', pendingRequest')
    BY <1>7, <2>1, <2>2, <2>3 DEF KeptOK
  <2> QED
    BY <1>2, <1>3, <1>4, <1>5, <1>9, <2>1, <2>4
       DEF ModeInv, KeptOK, FirstWith, AnalyseIsReadOnly, OthersAreFree
<1> QED
  BY <1>8, <1>9

LEMMA NextMode == ASSUME TInv, ModeInv, [Next]_extensionVars PROVE ModeInv'
<1>1. CASE UNCHANGED <<request, state, queue, run, pendingRequest, active>>
  BY <1>1 DEF ModeInv, OnlySent, KeptOK, FirstWith, AnalyseIsReadOnly, OthersAreFree
<1>2. CASE QuotaStep
  <2>1. CASE ResumeRun /\ interrupted # NoRun
    <3>1. [text |-> ResumeText, analyse |-> interrupted.analyse, kept |-> FALSE] \in Messages
      BY <2>1 DEF TInv, TypeOK, Messages
    <3> QED
      BY <1>2, <2>1, <3>1, AppendKeepsMode DEF ResumeRun, QuotaStep
  <2>2. CASE ~(ResumeRun /\ interrupted # NoRun)
    BY <1>1, <1>2, <2>2 DEF QuotaStep, TripRun, ResumeRun, LeaveRun, NewSession
  <2> QED
    BY <2>1, <2>2
<1>3. ASSUME NEW c \in Commands, NEW t \in Texts, Command(c, t) PROVE ModeInv'
  <2>1. \A d \in Commands : state'[d] # "resolved"
    BY <1>3 DEF TInv, TypeOK, AnalyseTypeOK, Command, Quiet
  <2> QED
    BY <1>3, <2>1 DEF ModeInv, OnlySent, KeptOK, FirstWith, Command, AnalyseIsReadOnly, OthersAreFree
<1>4. ASSUME ResolveIdle PROVE ModeInv'
  BY <1>4 DEF ModeInv, OnlySent, KeptOK, FirstWith, ResolveIdle, Idle, AnalyseIsReadOnly, OthersAreFree
<1>5. ASSUME NEW t \in Texts, Prompt(t) PROVE ModeInv'
  <2>1. [text |-> t, analyse |-> FALSE, kept |-> FALSE] \in Messages
    BY DEF Messages
  <2> QED
    BY <1>5, <2>1, AppendKeepsMode DEF Prompt
<1>6. ASSUME AgentEnd PROVE ModeInv'
  BY <1>6 DEF ModeInv, OnlySent, KeptOK, FirstWith, AgentEnd, Quiet, AnalyseIsReadOnly,
       OthersAreFree, NoRun
<1>7. CASE AnalyseStep
  BY <1>3, <1>4, <1>5, <1>6, <1>7, SendKeepsMode, StartKeepsMode DEF AnalyseStep
<1> QED
  BY <1>1, <1>2, <1>7 DEF Next, extensionVars

LEMMA ModeInvariant == Spec => []ModeInv
<1>1. TInv /\ ModeInv /\ [Next]_extensionVars => ModeInv'
  BY NextMode
<1> QED
  BY <1>1, InitMode, Typed, SpecIsSteps, PTL DEF Steps

(* AnalyseIsReadOnly: the agent works on the request of /analyse that is   *)
(* remembered only in the read-only mode, however many commands wait for   *)
(* one idle moment, whatever prompts with any text are queued and however  *)
(* the quota gate interrupts and resumes runs.                             *)
THEOREM ReadOnlyTheorem == Spec => []AnalyseIsReadOnly
BY ModeInvariant, PTL DEF ModeInv

(* OthersAreFree: ... and no run of another prompt is ever restricted.     *)
THEOREM FreeTheorem == Spec => []OthersAreFree
BY ModeInvariant, PTL DEF ModeInv
===========================================================================
