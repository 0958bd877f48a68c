------------------------ MODULE RailsAuthors_proofs ------------------------
(***************************************************************************)
(* Proofs about RailsAuthors, for any number of main sessions, children,   *)
(* families and restarts.                                                  *)
(***************************************************************************)
EXTENDS RailsAuthors, TLAPS

(* A session at work refers to the map of the main session it works for.   *)
MapOfHome ==
  /\ \A s \in Mains : familiesOf[s] = s
  /\ \A k \in Children : home[k] # None => familiesOf[k] = home[k]

(* The model of a call that was let through is recorded, and stays.        *)
CallsAreRecorded == \A s \in calling : family[s] \in authorFamilies[familiesOf[s]]

IInv == TypeOK /\ MapOfHome /\ CallsAreRecorded /\ AuthorsAreKnown

USE SessionAssumption, MainAssumption, BoundAssumption
USE DEF Sessions, Agents

---------------------------------------------------------------------------
(* Lemmas about the operators *)

LEMMA HomeIsMain ==
  ASSUME TypeOK, MapOfHome, NEW s \in Sessions, Working(s)
  PROVE  Home(s) \in Mains /\ familiesOf[s] = Home(s)
BY DEF TypeOK, MapOfHome, Working, Home

(* Registering keeps the registry well typed, and registers the caller.    *)
LEMMA Registers ==
  ASSUME TypeOK, MapOfHome, NEW s \in Sessions, Working(s)
  PROVE  /\ Registered(s) \in [Agents -> Mains \cup {None}]
         /\ Registered(s)[Agent(s)] = Home(s)
<1>1. Agent(s) \in Agents
  BY DEF Agent
<1>2. familiesOf[s] = Home(s) /\ Home(s) \in Mains
  BY HomeIsMain
<1>3. authorLineages \in [Agents -> Mains \cup {None}]
  BY DEF TypeOK
<1> QED
  BY <1>1, <1>2, <1>3 DEF Registered

LEMMA InitOK == Init => IInv
BY DEF Init, IInv, TypeOK, MapOfHome, CallsAreRecorded, AuthorsAreKnown, Working, NoVerifier

---------------------------------------------------------------------------
(* The steps *)

(* A step that at most changes the registry, dynaflows and the verifier.   *)
LEMMA RegistryStep ==
  ASSUME IInv, dynaflows' \in BOOLEAN,
         authorLineages' \in [Agents -> Mains \cup {None}],
         verifier' \in [home : Mains \cup {None}, families : SUBSET Families],
         UNCHANGED <<states, authorFamilies, familiesOf, people, calling, authors, epoch>>
  PROVE  IInv'
<1> USE DEF people
<1>1. TypeOK'
  BY DEF IInv, TypeOK, Working
<1>2. MapOfHome' /\ CallsAreRecorded' /\ AuthorsAreKnown'
  BY DEF IInv, MapOfHome, CallsAreRecorded, AuthorsAreKnown
<1> QED
  BY <1>1, <1>2 DEF IInv

LEMMA EnterOK == ASSUME IInv, NEW s \in Mains, Enter(s) PROVE IInv'
<1> USE DEF history
<1>1. Registered(s) \in [Agents -> Mains \cup {None}]
  BY DEF IInv, TypeOK, MapOfHome, Registered, Agent
<1>2. authorLineages' \in [Agents -> Mains \cup {None}]
  BY <1>1 DEF IInv, TypeOK, Enter, StateFor
<1>3. \A q \in Sessions : Working(q)' => q = s \/ (Working(q) /\ q # current) \/ q = current
  BY DEF Enter, Working
<1>4. \A q \in calling : Working(q)'
  BY DEF IInv, TypeOK, Enter, Working
<1>5. \A q \in Sessions : Working(q)' => q \in states'
  BY DEF IInv, TypeOK, Enter, Working
<1>6. TypeOK'
  BY <1>2, <1>4, <1>5 DEF IInv, TypeOK, Enter
<1>7. MapOfHome' /\ CallsAreRecorded' /\ AuthorsAreKnown'
  BY DEF IInv, MapOfHome, CallsAreRecorded, AuthorsAreKnown, Enter
<1> QED
  BY <1>6, <1>7 DEF IInv

LEMMA SpawnOK == ASSUME IInv, NEW s \in Sessions, NEW k \in Children, Spawn(s, k) PROVE IInv'
<1> USE DEF history
<1>1. Working(s)
  BY DEF Spawn, Ready
<1>2. /\ Registered(s) \in [Agents -> Mains \cup {None}]
      /\ Registered(s)[Agent(s)] = Home(s)
      /\ Home(s) \in Mains
  BY <1>1, Registers, HomeIsMain DEF IInv
<1>3. k \in Agents /\ k \notin Mains
  OBVIOUS
<1>4. /\ home' = [home EXCEPT ![k] = Home(s)]
      /\ familiesOf' = [familiesOf EXCEPT ![k] = Home(s)]
      /\ authorLineages' = [Registered(s) EXCEPT ![k] = Home(s)]
      /\ home[k] = None
  BY <1>2 DEF Spawn
<1>5. k \notin calling
  BY <1>4, <1>3 DEF IInv, TypeOK, Working, Spawn
<1>6. \A q \in Sessions : Working(q)' <=> Working(q) \/ q = k
  BY <1>2, <1>3, <1>4 DEF IInv, TypeOK, Working, Spawn
<1>7. TypeOK'
  <2>1. /\ authorLineages' \in [Agents -> Mains \cup {None}]
        /\ familiesOf' \in [Sessions -> Sessions]
        /\ home' \in [Children -> Mains \cup {None}]
    BY <1>2, <1>4 DEF IInv, TypeOK
  <2> QED
    BY <2>1, <1>6 DEF IInv, TypeOK, Spawn
<1>8. MapOfHome'
  BY <1>2, <1>3, <1>4 DEF IInv, TypeOK, MapOfHome
<1>9. CallsAreRecorded' /\ AuthorsAreKnown'
  BY <1>4, <1>5 DEF IInv, TypeOK, CallsAreRecorded, AuthorsAreKnown, Spawn
<1> QED
  BY <1>7, <1>8, <1>9 DEF IInv

LEMMA ChangeModelOK ==
  ASSUME IInv, NEW s \in Sessions, NEW f \in Families, ChangeModel(s, f)
  PROVE  IInv'
<1> USE DEF rails, history
<1>1. TypeOK'
  BY DEF IInv, TypeOK, ChangeModel, Working
<1>2. CallsAreRecorded'
  BY DEF IInv, TypeOK, CallsAreRecorded, ChangeModel, Ready
<1>3. MapOfHome' /\ AuthorsAreKnown'
  BY DEF IInv, MapOfHome, AuthorsAreKnown, ChangeModel
<1> QED
  BY <1>1, <1>2, <1>3 DEF IInv

LEMMA SetDynaflowsOK == ASSUME IInv, NEW enabled \in BOOLEAN, SetDynaflows(enabled) PROVE IInv'
<1>1. current \in Sessions /\ Working(current)
  BY DEF IInv, TypeOK, SetDynaflows, Working
<1>2. authorLineages' \in [Agents -> Mains \cup {None}]
  BY <1>1, Registers DEF IInv, SetDynaflows, StateFor
<1> QED
  BY <1>2, RegistryStep DEF IInv, TypeOK, SetDynaflows, history

LEMMA OtherCallOK == ASSUME IInv, NEW s \in Sessions, OtherCall(s) PROVE IInv'
<1>1. authorLineages' \in [Agents -> Mains \cup {None}]
  BY Registers DEF IInv, OtherCall, Ready, StateFor
<1> QED
  BY <1>1, RegistryStep DEF IInv, TypeOK, OtherCall, history

LEMMA EditCallOK == ASSUME IInv, NEW s \in Sessions, EditCall(s) PROVE IInv'
<1> USE DEF people, history
<1>1. authorLineages' \in [Agents -> Mains \cup {None}]
  BY Registers DEF IInv, EditCall, Ready, StateFor
<1>2. /\ authorFamilies' \in [Sessions -> SUBSET Families]
      /\ \A q \in Sessions : authorFamilies[q] \subseteq authorFamilies'[q]
      /\ family[s] \in authorFamilies'[familiesOf[s]]
  BY DEF IInv, TypeOK, EditCall, RecordAuthor
<1>3. TypeOK'
  BY <1>1, <1>2 DEF IInv, TypeOK, EditCall, Ready, Working
<1>4. CallsAreRecorded'
  BY <1>2 DEF IInv, TypeOK, CallsAreRecorded, EditCall
<1>5. MapOfHome' /\ AuthorsAreKnown'
  BY <1>2 DEF IInv, MapOfHome, AuthorsAreKnown, EditCall
<1> QED
  BY <1>3, <1>4, <1>5 DEF IInv

LEMMA EditRunsOK == ASSUME IInv, NEW s \in Sessions, EditRuns(s) PROVE IInv'
<1> USE DEF people
<1>1. s \in calling /\ Working(s)
  BY DEF IInv, TypeOK, EditRuns
<1>2. Home(s) \in Mains /\ familiesOf[s] = Home(s) /\ family[s] \in authorFamilies[Home(s)]
  BY <1>1, HomeIsMain DEF IInv, CallsAreRecorded
<1>3. authorLineages' \in [Agents -> Mains \cup {None}]
  BY <1>1, Registers DEF IInv, EditRuns, StateFor
<1>4. /\ authors' \in [Mains -> SUBSET (Families \X (0..epoch))]
      /\ \A q \in Mains : authors'[q] = IF q = Home(s) THEN authors[q] \cup {<<family[s], epoch>>}
                                        ELSE authors[q]
  <2>1. epoch \in 0..epoch /\ family[s] \in Families
    BY DEF IInv, TypeOK
  <2>2. authors \in [Mains -> SUBSET (Families \X (0..epoch))]
    BY DEF IInv, TypeOK
  <2>3. {<<family[s], epoch>>} \subseteq Families \X (0..epoch)
    BY <2>1
  <2>4. authors' = [authors EXCEPT ![Home(s)] = @ \cup {<<family[s], epoch>>}]
    BY DEF EditRuns
  <2> QED
    BY <1>2, <2>2, <2>3, <2>4
<1>5. TypeOK'
  BY <1>3, <1>4 DEF IInv, TypeOK, EditRuns, Working
<1>6. AuthorsAreKnown'
  BY <1>2, <1>4 DEF IInv, AuthorsAreKnown, EditRuns
<1>7. MapOfHome' /\ CallsAreRecorded'
  BY DEF IInv, MapOfHome, CallsAreRecorded, EditRuns
<1> QED
  BY <1>5, <1>6, <1>7 DEF IInv

LEMMA EditFailsOK == ASSUME IInv, NEW s \in Sessions, EditFails(s) PROVE IInv'
<1> USE DEF people, history
<1>1. authorLineages' \in [Agents -> Mains \cup {None}]
  BY Registers DEF IInv, TypeOK, EditFails, StateFor
<1>2. TypeOK'
  BY <1>1 DEF IInv, TypeOK, EditFails, Working
<1>3. MapOfHome' /\ CallsAreRecorded' /\ AuthorsAreKnown'
  BY DEF IInv, MapOfHome, CallsAreRecorded, AuthorsAreKnown, EditFails
<1> QED
  BY <1>2, <1>3 DEF IInv

LEMMA SpawnVerifierOK ==
  ASSUME IInv, NEW s \in Sessions, NEW families \in SUBSET Families, SpawnVerifier(s, families)
  PROVE  IInv'
<1>1. authorLineages' \in [Agents -> Mains \cup {None}] /\ Home(s) \in Mains
  BY Registers, HomeIsMain DEF IInv, SpawnVerifier, StateFor
<1>2. verifier' \in [home : Mains \cup {None}, families : SUBSET Families]
  BY <1>1 DEF SpawnVerifier, Independent
<1> QED
  BY <1>1, <1>2, RegistryStep DEF IInv, TypeOK, SpawnVerifier

LEMMA VerifierEndsOK == ASSUME IInv, VerifierEnds PROVE IInv'
BY RegistryStep DEF IInv, TypeOK, VerifierEnds, NoVerifier, rails

LEMMA RestartOK == ASSUME IInv, Restart PROVE IInv'
<1>1. epoch' \in 0..MaxEpoch /\ 0..epoch \subseteq 0..epoch' /\ epoch' \notin 0..epoch
  BY DEF IInv, TypeOK, Restart
<1>2. \A q \in Sessions : ~Working(q)'
  BY DEF Restart, Working
<1>3. TypeOK'
  BY <1>1, <1>2 DEF IInv, TypeOK, Restart, NoVerifier
<1>4. \A q \in Mains, f \in Families : <<f, epoch'>> \notin authors'[q]
  BY <1>1 DEF IInv, TypeOK, Restart
<1>5. AuthorsAreKnown'
  BY <1>4 DEF AuthorsAreKnown
<1>6. MapOfHome' /\ CallsAreRecorded'
  BY DEF MapOfHome, CallsAreRecorded, Restart
<1> QED
  BY <1>3, <1>5, <1>6 DEF IInv

LEMMA NextOK == IInv /\ [Next]_vars => IInv'
<1> SUFFICES ASSUME IInv, [Next]_vars PROVE IInv'
  OBVIOUS
<1>1. CASE UNCHANGED vars
  BY <1>1 DEF vars, rails, people, history, IInv, TypeOK, MapOfHome, CallsAreRecorded,
              AuthorsAreKnown, Working
<1>2. CASE Next
  BY <1>2, EnterOK, OtherCallOK, EditCallOK, EditRunsOK, EditFailsOK, SpawnOK, ChangeModelOK,
     SpawnVerifierOK, SetDynaflowsOK, VerifierEndsOK, RestartOK DEF Next
<1> QED
  BY <1>1, <1>2

---------------------------------------------------------------------------
(* Theorems *)

LEMMA Invariant == Spec => []IInv
BY InitOK, NextOK, PTL DEF Spec

(* TypeOK: the maps, the registry and the sessions at work are well typed, *)
(* and a child works for the main session whose map it shares.             *)
THEOREM TypeCorrect == Spec => []TypeOK
BY Invariant, PTL DEF IInv

(* AuthorsAreKnown: every family that wrote for a main session since the   *)
(* process began is in its map, however agents nest, overlap and restart.  *)
THEOREM AuthorsTheorem == Spec => []AuthorsAreKnown
BY Invariant, PTL DEF IInv

(* VerifierIsIndependent: no verifier starts with a family of an author of *)
(* its main session while dynaflows are on.                                *)
THEOREM VerifierTheorem == Spec => VerifierIsIndependent
<1> DEFINE Ind == verifier' \notin {verifier, NoVerifier} /\ dynaflows =>
                    \A f \in verifier'.families : <<f, epoch>> \notin authors[verifier'.home]
<1>1. ASSUME IInv, [Next]_vars PROVE [Ind]_vars
  <2>1. ASSUME NEW s \in Sessions, NEW families \in SUBSET Families, SpawnVerifier(s, families)
        PROVE  Ind
    <3>1. Home(s) \in Mains /\ familiesOf[s] = Home(s)
      BY <1>1, <2>1, HomeIsMain DEF IInv, SpawnVerifier
    <3>2. ASSUME dynaflows, NEW f \in verifier'.families
          PROVE  <<f, epoch>> \notin authors[verifier'.home]
      <4>1. verifier'.home = Home(s) /\ f \in Families /\ f \notin authorFamilies[Home(s)]
        BY <2>1, <3>1, <3>2 DEF SpawnVerifier, Independent
      <4> QED
        BY <1>1, <3>1, <4>1 DEF IInv, AuthorsAreKnown
    <3> QED
      BY <3>2
  <2>2. CASE verifier' \in {verifier, NoVerifier}
    BY <2>2
  <2>3. CASE verifier' \notin {verifier, NoVerifier}
    <3>1. \E s \in Sessions, families \in SUBSET Families : SpawnVerifier(s, families)
      BY <1>1, <2>3 DEF Next, vars, history, Enter, OtherCall, EditCall, EditRuns, EditFails,
           Spawn, ChangeModel, SetDynaflows, VerifierEnds, Restart
    <3> QED
      BY <2>1, <3>1
  <2> QED
    BY <2>2, <2>3
<1> QED
  BY <1>1, Invariant, PTL DEF Spec, VerifierIsIndependent
===========================================================================
