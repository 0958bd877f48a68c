------------------------ MODULE RailsHandoff_proofs ------------------------
(***************************************************************************)
(* Proofs about RailsHandoff, for any sessions, files and transcripts of   *)
(* any length.                                                             *)
(***************************************************************************)
EXTENDS RailsHandoff, TLAPS

USE NoneAssumption

---------------------------------------------------------------------------
(* What a transcript says *)

LEMMA ReadsInType ==
  ASSUME NEW t \in Seq(Entries)
  PROVE  ReadsIn(t) \in SUBSET References /\ EditsIn(t) \in BOOLEAN
BY DEF ReadsIn, EditsIn

LEMMA AppendedEntries ==
  ASSUME NEW t \in Seq(Entries), NEW e \in Entries
  PROVE  /\ Append(t, e) \in Seq(Entries)
         /\ Len(Append(t, e)) = Len(t) + 1
         /\ DOMAIN Append(t, e) = 1..Len(t) + 1 /\ DOMAIN t = 1..Len(t)
         /\ \A i \in 1..Len(t) : Append(t, e)[i] = t[i]
         /\ Append(t, e)[Len(t) + 1] = e
         /\ Len(t) \in Nat
OBVIOUS

LEMMA ReadsAppend ==
  ASSUME NEW t \in Seq(Entries), NEW e \in Entries, e # "compaction"
  PROVE  ReadsIn(Append(t, e)) = IF e \in References THEN ReadsIn(t) \cup {e} ELSE ReadsIn(t)
<1> DEFINE u == Append(t, e)
<1>1. /\ Len(u) = Len(t) + 1 /\ DOMAIN u = 1..Len(t) + 1 /\ DOMAIN t = 1..Len(t)
      /\ \A i \in 1..Len(t) : u[i] = t[i]
      /\ u[Len(t) + 1] = e
      /\ Len(t) \in Nat
  BY AppendedEntries
<1> HIDE DEF u
<1>2. ASSUME NEW r \in ReadsIn(t) PROVE r \in ReadsIn(u)
  <2>1. PICK i \in 1..Len(t) : t[i] = r /\ \A j \in i..Len(t) : t[j] # "compaction"
    BY <1>1, <1>2 DEF ReadsIn
  <2>2. i \in DOMAIN u /\ u[i] = r /\ \A j \in i..Len(u) : u[j] # "compaction"
    BY <1>1, <2>1
  <2> QED
    BY <1>2, <2>2 DEF ReadsIn
<1>3. ASSUME NEW r \in ReadsIn(u) PROVE r = e \/ r \in ReadsIn(t)
  <2>1. PICK i \in 1..Len(t) + 1 : u[i] = r /\ \A j \in i..Len(u) : u[j] # "compaction"
    BY <1>1, <1>3 DEF ReadsIn
  <2>2. CASE i = Len(t) + 1
    BY <1>1, <2>1, <2>2
  <2>3. CASE i \in 1..Len(t)
    <3>1. t[i] = r /\ \A j \in i..Len(t) : t[j] # "compaction"
      BY <1>1, <2>1, <2>3
    <3> QED
      BY <1>1, <1>3, <2>3, <3>1 DEF ReadsIn
  <2> QED
    BY <1>1, <2>2, <2>3
<1>4. e \in References => e \in ReadsIn(u)
  <2>1. \A j \in Len(t) + 1..Len(u) : u[j] # "compaction"
    BY <1>1
  <2> QED
    BY <1>1, <2>1 DEF ReadsIn
<1>5. ReadsIn(u) \subseteq References
  BY DEF ReadsIn
<1> QED
  BY <1>2, <1>3, <1>4, <1>5 DEF u

LEMMA ReadsCompact ==
  ASSUME NEW t \in Seq(Entries)
  PROVE  ReadsIn(Append(t, "compaction")) = {}
<1> DEFINE u == Append(t, "compaction")
<1>1. "compaction" \in Entries
  BY DEF Entries
<1>2. Len(u) = Len(t) + 1 /\ DOMAIN u = 1..Len(t) + 1 /\ u[Len(t) + 1] = "compaction" /\ Len(t) \in Nat
  BY <1>1, AppendedEntries
<1> HIDE DEF u
<1>3. \A i \in DOMAIN u : Len(t) + 1 \in i..Len(u)
  BY <1>2
<1> QED
  BY <1>2, <1>3 DEF ReadsIn, u

LEMMA EditsAppend ==
  ASSUME NEW t \in Seq(Entries), NEW e \in Entries
  PROVE  EditsIn(Append(t, e)) = IF e = "edit" THEN TRUE ELSE EditsIn(t)
<1>1. EditsIn(Append(t, e)) <=> e = "edit" \/ EditsIn(t)
  <2> DEFINE u == Append(t, e)
  <2>1. /\ DOMAIN u = 1..Len(t) + 1 /\ DOMAIN t = 1..Len(t)
        /\ \A i \in 1..Len(t) : u[i] = t[i]
        /\ u[Len(t) + 1] = e
        /\ Len(t) \in Nat
    BY AppendedEntries
  <2> HIDE DEF u
  <2>2. (\E i \in DOMAIN u : u[i] = "edit") <=> e = "edit" \/ \E i \in DOMAIN t : t[i] = "edit"
    BY <2>1
  <2> QED
    BY <2>2 DEF EditsIn, u
<1>2. EditsIn(Append(t, e)) \in BOOLEAN /\ EditsIn(t) \in BOOLEAN
  BY DEF EditsIn
<1> QED
  BY <1>1, <1>2

---------------------------------------------------------------------------
(* The inductive invariant *)

(* The State of the session at work, and of one that was handed off, is    *)
(* what its transcript says.                                               *)
Recalled ==
  \A s \in Sessions : s = current \/ s \in handedOff =>
    reads[s] = ReadsIn(transcript[s]) /\ edits[s] = EditsIn(transcript[s])

(* The files of session s that may be bad.                                 *)
Suspects(s) ==
  IF s = current /\ phase \in {"checking", "stopping"} THEN candidates
  ELSE IF s = current /\ phase = "ran" THEN pathFailures[s] \cup {pending}
  ELSE pathFailures[s]

BadAreSuspects ==
  \A s \in Sessions, f \in Files :
    pathCheck /\ writer[f] = s /\ disk[f] = "bad" => f \in Suspects(s) \cup excused

(* A stop that may be accepted, and one that was, leaves no failed path.   *)
StopsAreClean ==
  pathCheck =>
    /\ phase = "stopped" => pathFailures[current] = {}
    /\ \A s \in handedOff : pathFailures[s] = {}

HandedOffRests == \A s \in handedOff : s = current => phase = "idle"

VerifiedInv ==
  \A s \in handedOff : edits[s] = TRUE => "verification" \in reads[s]

IInv ==
  TypeOK /\ Recalled /\ BadAreSuspects /\ StopsAreClean /\ HandedOffRests /\ VerifiedInv

USE DEF repo, memory, call

LEMMA InitOK == Init => IInv
<1> SUFFICES ASSUME Init PROVE IInv
  OBVIOUS
<1>1. TypeOK
  <2>1. edits \in [Sessions -> BOOLEAN]
    BY DEF Init
  <2> QED
    BY <2>1 DEF Init, TypeOK
<1>2. Recalled /\ BadAreSuspects /\ StopsAreClean /\ HandedOffRests /\ VerifiedInv
  BY DEF Init, Recalled, BadAreSuspects, StopsAreClean, HandedOffRests, VerifiedInv
<1> QED
  BY <1>1, <1>2 DEF IInv

(* Between two calls the session s goes on, or another one is entered: its *)
(* branch becomes t, and its State what t says.                            *)
LEMMA BranchStep ==
  ASSUME IInv, phase = "idle", NEW s \in Sessions, NEW t \in Seq(Entries),
         current' = s, GoesOn(s), UNCHANGED <<repo, pathFailures, call>>,
         transcript' = [transcript EXCEPT ![s] = t],
         reads' = [reads EXCEPT ![s] = ReadsIn(t)],
         edits' = [edits EXCEPT ![s] = EditsIn(t)]
  PROVE  IInv'
<1> USE DEF GoesOn
<1>1. ReadsIn(t) \in SUBSET References /\ EditsIn(t) \in BOOLEAN
  BY ReadsInType
<1>2. TypeOK'
  <2>1. edits' \in [Sessions -> BOOLEAN]
    BY <1>1 DEF IInv, TypeOK
  <2> QED
    BY <1>1, <2>1 DEF IInv, TypeOK
<1>3. Recalled'
  BY <1>1 DEF IInv, TypeOK, Recalled
<1>4. BadAreSuspects'
  BY DEF IInv, BadAreSuspects, Suspects
<1>5. StopsAreClean' /\ HandedOffRests'
  BY DEF IInv, StopsAreClean, HandedOffRests
<1>6. VerifiedInv'
  BY DEF IInv, TypeOK, VerifiedInv
<1> QED
  BY <1>2, <1>3, <1>4, <1>5, <1>6 DEF IInv

LEMMA EnterOK == ASSUME IInv, NEW s \in Sessions, Enter(s) PROVE IInv'
<1>1. transcript[s] \in Seq(Entries)
  BY DEF IInv, TypeOK
<1> QED
  BY <1>1, BranchStep DEF Enter, Rebuild

LEMMA NavigateOK == ASSUME IInv, NEW s \in Sessions, NEW n \in Nat, Navigate(s, n) PROVE IInv'
<1>1. transcript[s] \in Seq(Entries) /\ n < Len(transcript[s])
  BY DEF IInv, TypeOK, Navigate
<1>2. SubSeq(transcript[s], 1, n) \in Seq(Entries)
  BY <1>1
<1> QED
  BY <1>2, BranchStep DEF Navigate, Ready, Rebuild

LEMMA CompactOK == ASSUME IInv, NEW s \in Sessions, Compact(s) PROVE IInv'
<1> DEFINE t == Append(transcript[s], "compaction")
<1>1. transcript[s] \in Seq(Entries) /\ "compaction" \in Entries
  BY DEF IInv, TypeOK, Entries
<1>2. t \in Seq(Entries) /\ ReadsIn(t) = {} /\ EditsIn(t) = EditsIn(transcript[s])
  BY <1>1, ReadsCompact, EditsAppend, AppendedEntries
<1>3. edits' = [edits EXCEPT ![s] = EditsIn(t)]
  BY <1>2 DEF IInv, TypeOK, Recalled, Compact, Ready
<1>4. transcript' = [transcript EXCEPT ![s] = t] /\ reads' = [reads EXCEPT ![s] = ReadsIn(t)]
  BY <1>2 DEF Compact, Record
<1> HIDE DEF t
<1> QED
  BY <1>2, <1>3, <1>4, BranchStep DEF Compact, Ready

LEMMA ReadReferenceOK ==
  ASSUME IInv, NEW s \in Sessions, NEW r \in References, ReadReference(s, r) PROVE IInv'
<1> DEFINE t == Append(transcript[s], r)
<1>1. transcript[s] \in Seq(Entries) /\ r \in Entries /\ r # "compaction" /\ r # "edit"
  BY DEF IInv, TypeOK, Entries, References
<1>2. /\ t \in Seq(Entries)
      /\ ReadsIn(t) = ReadsIn(transcript[s]) \cup {r}
      /\ EditsIn(t) = EditsIn(transcript[s])
  BY <1>1, ReadsAppend, EditsAppend, AppendedEntries
<1>3. reads[s] = ReadsIn(transcript[s]) /\ edits[s] = EditsIn(transcript[s])
  BY DEF IInv, Recalled, ReadReference, Ready
<1>4. edits' = [edits EXCEPT ![s] = EditsIn(t)]
  BY <1>2, <1>3 DEF IInv, TypeOK, ReadReference
<1>5. transcript' = [transcript EXCEPT ![s] = t] /\ reads' = [reads EXCEPT ![s] = ReadsIn(t)]
  BY <1>2, <1>3 DEF ReadReference, Record
<1> HIDE DEF t
<1> QED
  BY <1>2, <1>4, <1>5, BranchStep DEF ReadReference, Ready

(* What a restart forgets is excused. *)
LEMMA RestartOK == ASSUME IInv, Restart PROVE IInv'
<1> DEFINE lost == UNION {Unchecked(s) : s \in Sessions}
<1>1. \A s \in Sessions : Unchecked(s) \subseteq Files /\ Suspects(s) \subseteq Unchecked(s)
  BY DEF IInv, TypeOK, Unchecked, Suspects
<1>2. lost \subseteq Files /\ \A s \in Sessions : Suspects(s) \subseteq lost
  BY <1>1
<1>3. excused' = excused \cup LeftBad(lost) /\ disk' = disk /\ writer' = writer /\ pathCheck' = pathCheck
  BY DEF Restart
<1> HIDE DEF lost
<1>4. TypeOK'
  <2>1. edits' \in [Sessions -> BOOLEAN]
    BY DEF Restart
  <2>2. excused' \subseteq Files
    BY <1>2, <1>3 DEF IInv, TypeOK, LeftBad
  <2> QED
    BY <2>1, <2>2 DEF IInv, TypeOK, Restart
<1>5. BadAreSuspects'
  <2> SUFFICES ASSUME NEW s \in Sessions, NEW f \in Files, pathCheck, writer[f] = s, disk[f] = "bad"
               PROVE  f \in excused'
    BY <1>3 DEF BadAreSuspects
  <2>1. f \in lost \cup excused
    BY <1>2 DEF IInv, BadAreSuspects
  <2>2. s # None
    OBVIOUS
  <2> QED
    BY <1>3, <2>1, <2>2 DEF LeftBad
<1>6. Recalled' /\ StopsAreClean' /\ HandedOffRests' /\ VerifiedInv'
  BY DEF Restart, Recalled, StopsAreClean, HandedOffRests, VerifiedInv
<1> QED
  BY <1>4, <1>5, <1>6 DEF IInv

LEMMA OutsideWriteOK ==
  ASSUME IInv, NEW f \in Files, NEW content \in {"absent", "good", "bad"}, OutsideWrite(f, content)
  PROVE  IInv'
<1> USE DEF OutsideWrite
<1>1. TypeOK'
  BY DEF IInv, TypeOK
<1>2. BadAreSuspects'
  BY DEF IInv, TypeOK, BadAreSuspects, Suspects
<1>3. Recalled' /\ StopsAreClean' /\ HandedOffRests' /\ VerifiedInv'
  BY DEF IInv, Recalled, StopsAreClean, HandedOffRests, VerifiedInv
<1> QED
  BY <1>1, <1>2, <1>3 DEF IInv

---------------------------------------------------------------------------
(* Tools *)

LEMMA EditCallOK == ASSUME IInv, NEW s \in Sessions, NEW f \in Files, EditCall(s, f) PROVE IInv'
<1> USE DEF EditCall, Ready, GoesOn
<1>1. TypeOK'
  BY DEF IInv, TypeOK
<1>2. BadAreSuspects'
  BY DEF IInv, BadAreSuspects, Suspects
<1>3. Recalled' /\ StopsAreClean' /\ HandedOffRests' /\ VerifiedInv'
  BY DEF IInv, Recalled, StopsAreClean, HandedOffRests, VerifiedInv
<1> QED
  BY <1>1, <1>2, <1>3 DEF IInv

LEMMA EditRunsOK ==
  ASSUME IInv, NEW s \in Sessions, NEW content \in {"absent", "good", "bad"}, EditRuns(s, content)
  PROVE  IInv'
<1> USE DEF EditRuns, Step
<1>1. pending \in Files
  BY DEF IInv, TypeOK
<1>2. TypeOK'
  BY <1>1 DEF IInv, TypeOK
<1>3. BadAreSuspects'
  BY <1>1 DEF IInv, TypeOK, BadAreSuspects, Suspects
<1>4. Recalled' /\ StopsAreClean' /\ HandedOffRests' /\ VerifiedInv'
  BY DEF IInv, Recalled, StopsAreClean, HandedOffRests, VerifiedInv
<1> QED
  BY <1>2, <1>3, <1>4 DEF IInv

LEMMA EditFailsOK == ASSUME IInv, NEW s \in Sessions, EditFails(s) PROVE IInv'
<1> USE DEF EditFails, Step
<1>1. TypeOK'
  BY DEF IInv, TypeOK
<1>2. BadAreSuspects'
  BY DEF IInv, BadAreSuspects, Suspects
<1>3. Recalled' /\ StopsAreClean' /\ HandedOffRests' /\ VerifiedInv'
  BY DEF IInv, Recalled, StopsAreClean, HandedOffRests, VerifiedInv
<1> QED
  BY <1>1, <1>2, <1>3 DEF IInv

(* A path check that begins has every bad file among its candidates, but   *)
(* those that git ignores.                                                 *)
CheckBegun(s, paths, checking, passed) ==
  /\ pathFailures' \in [Sessions -> SUBSET Files]
  /\ \A q \in Sessions : q # s => pathFailures'[q] = pathFailures[q]
  /\ candidates' \subseteq Files
  /\ excused \subseteq excused' /\ excused' \subseteq Files
  /\ \A f \in paths : disk[f] = "bad" /\ writer[f] # None => f \in candidates' \cup excused'
  /\ \/ phase' = checking /\ candidates' # {}
     \/ phase' = passed /\ candidates' = {} /\ pathFailures'[s] = {}

LEMMA BeginCheckOK ==
  ASSUME IInv, NEW s \in Sessions, NEW paths \in SUBSET Files, NEW checking, NEW passed,
         BeginCheck(s, paths, checking, passed), candidates = {}
  PROVE  CheckBegun(s, paths, checking, passed)
<1>1. PICK ignored \in SUBSET Existing(paths) :
        /\ excused' = excused \cup LeftBad(ignored)
        /\ IF Existing(paths) \ ignored = {}
           THEN /\ pathFailures' = [pathFailures EXCEPT ![s] = {}]
                /\ phase' = passed
                /\ UNCHANGED candidates
           ELSE /\ candidates' = Existing(paths) \ ignored
                /\ phase' = checking
                /\ UNCHANGED pathFailures
  BY DEF BeginCheck
<1>2. pathFailures \in [Sessions -> SUBSET Files] /\ excused \subseteq Files
  BY DEF IInv, TypeOK
<1>3. excused \subseteq excused' /\ excused' \subseteq Files
  BY <1>1, <1>2 DEF LeftBad, Existing
<1>4. \A f \in paths : disk[f] = "bad" /\ writer[f] # None => f \in (Existing(paths) \ ignored) \cup excused'
  BY <1>1 DEF LeftBad, Existing
<1>5. CASE Existing(paths) \ ignored = {}
  BY <1>1, <1>2, <1>3, <1>4, <1>5 DEF CheckBegun
<1>6. CASE Existing(paths) \ ignored # {}
  <2>1. Existing(paths) \ ignored \subseteq Files
    BY DEF Existing
  <2> QED
    BY <1>1, <1>2, <1>3, <1>4, <1>6, <2>1 DEF CheckBegun
<1> QED
  BY <1>5, <1>6

LEMMA EditResultOK == ASSUME IInv, NEW s \in Sessions, EditResult(s) PROVE IInv'
<1> DEFINE t == Append(transcript[s], "edit")
<1>1. transcript[s] \in Seq(Entries) /\ "edit" \in Entries /\ "edit" \notin References
  BY DEF IInv, TypeOK, Entries, References
<1>2. t \in Seq(Entries) /\ ReadsIn(t) = ReadsIn(transcript[s]) /\ EditsIn(t) = TRUE
  BY <1>1, ReadsAppend, EditsAppend, AppendedEntries
<1>3. transcript' = [transcript EXCEPT ![s] = t]
  BY DEF EditResult, Record
<1> HIDE DEF t
<1>4. /\ s = current /\ phase = "ran" /\ pending \in Files /\ candidates = {} /\ s \notin handedOff
      /\ ToCheck(s) \subseteq Files
      /\ edits' = [edits EXCEPT ![s] = TRUE] /\ pending' = None
      /\ UNCHANGED <<pathCheck, disk, writer, current, reads, handedOff>>
  BY DEF EditResult, IInv, TypeOK, ToCheck, HandedOffRests
<1>5. edits' \in [Sessions -> BOOLEAN]
  BY <1>4 DEF IInv, TypeOK
<1>6. transcript' \in [Sessions -> Seq(Entries)]
  BY <1>2, <1>3 DEF IInv, TypeOK
<1>7. Recalled'
  BY <1>2, <1>3, <1>4 DEF IInv, TypeOK, Recalled
<1>8. HandedOffRests' /\ VerifiedInv'
  BY <1>4 DEF IInv, TypeOK, HandedOffRests, VerifiedInv
<1>9. CASE pathCheck
  <2>1. CheckBegun(s, ToCheck(s), "checking", "idle")
    BY <1>4, <1>9, BeginCheckOK DEF EditResult
  <2>2. TypeOK'
    BY <1>4, <1>5, <1>6, <2>1 DEF IInv, TypeOK, CheckBegun
  <2>3. BadAreSuspects'
    <3> SUFFICES ASSUME NEW q \in Sessions, NEW f \in Files, writer[f] = q, disk[f] = "bad"
                 PROVE  f \in Suspects(q)' \cup excused'
      BY <1>4 DEF BadAreSuspects
    <3>1. f \in Suspects(q) \cup excused
      BY <1>9 DEF IInv, BadAreSuspects
    <3>2. CASE q = s
      BY <1>4, <2>1, <3>1, <3>2 DEF CheckBegun, Suspects, ToCheck
    <3>3. CASE q # s
      BY <1>4, <2>1, <3>1, <3>3 DEF CheckBegun, Suspects
    <3> QED
      BY <3>2, <3>3
  <2>4. StopsAreClean'
    BY <1>4, <2>1 DEF IInv, TypeOK, StopsAreClean, CheckBegun
  <2> QED
    BY <1>7, <1>8, <2>2, <2>3, <2>4 DEF IInv
<1>10. CASE ~pathCheck
  <2>1. phase' = "idle" /\ UNCHANGED <<pathFailures, candidates, excused>>
    BY <1>10 DEF EditResult
  <2>2. TypeOK'
    BY <1>4, <1>5, <1>6, <2>1 DEF IInv, TypeOK
  <2>3. BadAreSuspects' /\ StopsAreClean'
    BY <1>4, <1>10 DEF BadAreSuspects, StopsAreClean
  <2> QED
    BY <1>7, <1>8, <2>2, <2>3 DEF IInv
<1> QED
  BY <1>9, <1>10

(* The end of a path check, for an edit or for a stop *)
LEMMA CheckOK ==
  ASSUME IInv, NEW s \in Sessions,
         \/ CheckPasses(s, "checking", "idle") \/ CheckFails(s, "checking")
         \/ CheckPasses(s, "stopping", "stopped") \/ CheckFails(s, "stopping"),
         UNCHANGED <<repo, transcript, current, reads, edits, pending, handedOff>>
  PROVE  IInv'
<1> USE DEF CheckPasses, CheckFails, Step
<1>1. s = current /\ phase \in {"checking", "stopping"} /\ s \notin handedOff
  BY DEF IInv, HandedOffRests
<1>2. TypeOK'
  BY <1>1 DEF IInv, TypeOK
<1>3. BadAreSuspects'
  BY <1>1 DEF IInv, TypeOK, BadAreSuspects, Suspects
<1>4. StopsAreClean'
  BY <1>1 DEF IInv, TypeOK, StopsAreClean
<1>5. Recalled' /\ HandedOffRests' /\ VerifiedInv'
  BY <1>1 DEF IInv, Recalled, HandedOffRests, VerifiedInv
<1> QED
  BY <1>2, <1>3, <1>4, <1>5 DEF IInv

---------------------------------------------------------------------------
(* The stop *)

LEMMA StopOK == ASSUME IInv, NEW s \in Sessions, Stop(s) PROVE IInv'
<1>1. /\ s = current /\ phase = "idle" /\ candidates = {} /\ pathFailures[s] \subseteq Files
      /\ handedOff' = handedOff \ {s}
      /\ UNCHANGED <<pathCheck, disk, writer, transcript, current, reads, edits, pending>>
  BY DEF Stop, Ready, GoesOn, IInv, TypeOK
<1>2. Recalled' /\ HandedOffRests' /\ VerifiedInv'
  BY <1>1 DEF IInv, Recalled, HandedOffRests, VerifiedInv
<1>3. CASE pathCheck /\ pathFailures[s] # {}
  <2>1. CheckBegun(s, pathFailures[s], "stopping", "stopped")
    BY <1>1, <1>3, BeginCheckOK DEF Stop
  <2>2. TypeOK'
    BY <1>1, <2>1 DEF IInv, TypeOK, CheckBegun
  <2>3. BadAreSuspects'
    <3> SUFFICES ASSUME NEW q \in Sessions, NEW f \in Files, writer[f] = q, disk[f] = "bad"
                 PROVE  f \in Suspects(q)' \cup excused'
      BY <1>1 DEF BadAreSuspects
    <3>1. f \in Suspects(q) \cup excused
      BY <1>3 DEF IInv, BadAreSuspects
    <3>2. CASE q = s
      BY <1>1, <2>1, <3>1, <3>2 DEF CheckBegun, Suspects
    <3>3. CASE q # s
      BY <1>1, <2>1, <3>1, <3>3 DEF CheckBegun, Suspects
    <3> QED
      BY <3>2, <3>3
  <2>4. StopsAreClean'
    BY <1>1, <2>1 DEF IInv, TypeOK, StopsAreClean, CheckBegun
  <2> QED
    BY <1>2, <2>2, <2>3, <2>4 DEF IInv
<1>4. CASE ~(pathCheck /\ pathFailures[s] # {})
  <2>1. phase' = "stopped" /\ UNCHANGED <<pathFailures, candidates, excused>>
    BY <1>4 DEF Stop
  <2>2. TypeOK'
    BY <1>1, <2>1 DEF IInv, TypeOK
  <2>3. BadAreSuspects'
    BY <1>1, <2>1 DEF IInv, BadAreSuspects, Suspects
  <2>4. StopsAreClean'
    BY <1>1, <1>4, <2>1 DEF IInv, StopsAreClean
  <2> QED
    BY <1>2, <2>2, <2>3, <2>4 DEF IInv
<1> QED
  BY <1>3, <1>4

LEMMA AcceptOK == ASSUME IInv, NEW s \in Sessions, Accept(s) PROVE IInv'
<1> USE DEF Accept, Step
<1>1. TypeOK'
  BY DEF IInv, TypeOK
<1>2. BadAreSuspects'
  BY DEF IInv, BadAreSuspects, Suspects
<1>3. Recalled' /\ StopsAreClean' /\ HandedOffRests' /\ VerifiedInv'
  BY DEF IInv, Recalled, StopsAreClean, HandedOffRests, VerifiedInv
<1> QED
  BY <1>1, <1>2, <1>3 DEF IInv

LEMMA RefuseOK == ASSUME IInv, NEW s \in Sessions, Refuse(s) PROVE IInv'
<1> USE DEF Refuse, Step
<1>1. TypeOK'
  BY DEF IInv, TypeOK
<1>2. BadAreSuspects'
  BY DEF IInv, BadAreSuspects, Suspects
<1>3. Recalled' /\ StopsAreClean' /\ HandedOffRests' /\ VerifiedInv'
  BY DEF IInv, Recalled, StopsAreClean, HandedOffRests, VerifiedInv
<1> QED
  BY <1>1, <1>2, <1>3 DEF IInv

LEMMA NextOK == IInv /\ [Next]_vars => IInv'
<1> SUFFICES ASSUME IInv, [Next]_vars PROVE IInv'
  OBVIOUS
<1>1. CASE UNCHANGED vars
  BY <1>1 DEF vars, IInv, TypeOK, Recalled, BadAreSuspects, Suspects, StopsAreClean,
              HandedOffRests, VerifiedInv
<1>2. CASE Next
  <2>1. 0..MaxEntries \subseteq Nat
    BY EntriesAssumption
  <2> QED
    BY <1>2, <2>1, EnterOK, NavigateOK, CompactOK, ReadReferenceOK, RestartOK, OutsideWriteOK,
       EditCallOK, EditRunsOK, EditFailsOK, EditResultOK, CheckOK, StopOK, AcceptOK, RefuseOK
       DEF Next, EndCheck, StopChecked
<1> QED
  BY <1>1, <1>2

---------------------------------------------------------------------------
(* Theorems *)

LEMMA Invariant == Spec => []IInv
BY InitOK, NextOK, PTL DEF Spec

(* TypeOK: the State of every session, the call at work and the files are  *)
(* well typed, and the parts of the call agree with its phase.             *)
THEOREM TypeCorrect == Spec => []TypeOK
BY Invariant, PTL DEF IInv

(* HandoffIsClean: no file is bad as the tools of a session left it when   *)
(* that session hands off, however its checks met other writers, branches  *)
(* and restarts; except what git ignores and what a restart has forgotten. *)
THEOREM CleanTheorem == Spec => []HandoffIsClean
<1>1. ASSUME IInv PROVE HandoffIsClean
  BY <1>1 DEF IInv, TypeOK, BadAreSuspects, Suspects, StopsAreClean, HandedOffRests, HandoffIsClean
<1> QED
  BY <1>1, Invariant, PTL

(* HandoffIsVerified: a handoff with edits on the branch comes with the    *)
(* verification reference, read there after the last compaction.           *)
THEOREM VerifiedTheorem == Spec => []HandoffIsVerified
<1>1. ASSUME IInv PROVE HandoffIsVerified
  <2> SUFFICES ASSUME NEW s \in handedOff, EditsIn(transcript[s])
               PROVE  "verification" \in ReadsIn(transcript[s])
    BY DEF HandoffIsVerified
  <2>1. s \in Sessions /\ reads[s] = ReadsIn(transcript[s]) /\ edits[s] = EditsIn(transcript[s])
    BY <1>1 DEF IInv, TypeOK, Recalled
  <2>2. EditsIn(transcript[s]) = TRUE
    BY <1>1, <2>1 DEF IInv, TypeOK
  <2> QED
    BY <1>1, <2>1, <2>2 DEF IInv, VerifiedInv
<1> QED
  BY <1>1, Invariant, PTL
===========================================================================
