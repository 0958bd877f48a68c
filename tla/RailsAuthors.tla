---------------------------- MODULE RailsAuthors ----------------------------
(***************************************************************************)
(* agent/extensions/agent-rails.ts: who wrote the repository's changes,    *)
(* and which model family may verify them.  Every session has its State in *)
(* the factory of its agent; the map authorFamilies alone is shared, by    *)
(* reference, with the sessions of child agents, which find it through     *)
(* authorLineages under the id of their parent.  Agents work concurrently. *)
(***************************************************************************)
EXTENDS Naturals, FiniteSets, Functions

CONSTANTS
  Mains,     \* main sessions, of which one is open at a time
  Children,  \* child agents, each with one session
  Families,  \* model families
  Main,      \* the agent of the main sessions
  None,
  MaxEpoch,  \* bound: restarts of the process
  MaxAuthors \* bound: authors of all sessions together, when an edit begins

Sessions == Mains \cup Children
Agents == {Main} \cup Children

ASSUME SessionAssumption == Mains \cap Children = {} /\ None \notin Sessions
ASSUME MainAssumption == Main \notin Children
ASSUME BoundAssumption == MaxEpoch \in Nat /\ MaxAuthors \in Nat

VARIABLES
  dynaflows,       \* dynaflows are on for the repository
  current,         \* the open main session, or None
  states,          \* the sessions that have a State
  authorFamilies,  \* authorFamilies[s]: the map made for session s
  familiesOf,      \* familiesOf[s]: whose map the State of s refers to
  authorLineages,  \* authorLineages[a]: whose map agent a registered, or None
  family,          \* the family of a session's current model
  calling,         \* the sessions whose edit was let through and has not run
  home,            \* home[k]: the main session child k works for, or None
  authors,         \* authors[s]: who wrote for main session s: <<family, epoch>>
  verifier,        \* the running verifier: [home, families]
  epoch            \* how often the process was restarted

rails == <<states, authorFamilies, familiesOf, authorLineages>>
people == <<current, family, home>>
history == <<authors, verifier, epoch>>
vars == <<dynaflows, rails, people, calling, history>>

NoVerifier == [home |-> None, families |-> {}]

Init ==
  /\ current = None
  /\ states = {}
  /\ authorFamilies = [s \in Sessions |-> {}]
  /\ familiesOf = [s \in Sessions |-> s]
  /\ authorLineages = [a \in Agents |-> None]
  /\ calling = {}
  /\ home = [k \in Children |-> None]
  /\ dynaflows \in BOOLEAN
  /\ family \in [Sessions -> Families]
  /\ authors = [s \in Mains |-> {}]
  /\ verifier = NoVerifier
  /\ epoch = 0

Agent(s) == IF s \in Mains THEN Main ELSE s
Home(s) == IF s \in Mains THEN s ELSE home[s]
Working(s) == s = current \/ (s \in Children /\ home[s] # None)
Ready(s) == Working(s) /\ s \notin calling

(* Mutant: an agent is registered with its first session only. *)
RegisteredOnce(s) ==
  [a \in Agents |-> IF a = Agent(s) /\ authorLineages[a] = None
                    THEN familiesOf[s] ELSE authorLineages[a]]

(* Mutant: every session registers a map of its own. *)
RegisteredOwn(s) == [authorLineages EXCEPT ![Agent(s)] = s]

(* The registry after stateFor for an event of session s, which has its State. *)
Registered(s) == [authorLineages EXCEPT ![Agent(s)] = familiesOf[s]]

StateFor(s) == authorLineages' = Registered(s)

(* Mutant: authors are recorded only while dynaflows are on. *)
RecordAuthorIfOn(s) ==
  authorFamilies' = [authorFamilies EXCEPT
    ![familiesOf[s]] = IF dynaflows THEN @ \cup {family[s]} ELSE @]

RecordAuthor(s) ==
  authorFamilies' = [authorFamilies EXCEPT ![familiesOf[s]] = @ \cup {family[s]}]

---------------------------------------------------------------------------
(* Sessions and agents *)

(* session_start, _switch, _branch, _tree: rebuild keeps the map of the    *)
(* State it replaces; only without one does it call stateFor.              *)
Enter(s) ==
  /\ current \notin calling
  /\ current' = s
  /\ states' = states \cup {s}
  /\ IF s \in states THEN UNCHANGED authorLineages ELSE StateFor(s)
  /\ UNCHANGED <<dynaflows, authorFamilies, familiesOf, family, home, calling, history>>

(* A `task` call of s: tool_call in s, then the first event of its child k, *)
(* whose new State takes the map its parent is registered with.            *)
Spawn(s, k) ==
  /\ Ready(s)
  /\ home[k] = None
  /\ LET lineage == Registered(s)[Agent(s)] IN
       /\ familiesOf' = [familiesOf EXCEPT ![k] = lineage]
       /\ authorLineages' = [Registered(s) EXCEPT ![k] = lineage]
  /\ home' = [home EXCEPT ![k] = Home(s)]
  /\ states' = states \cup {k}
  /\ UNCHANGED <<dynaflows, authorFamilies, current, family, calling, history>>

(* The owner, or a failover of OMP, changes the model between two calls. *)
ChangeModel(s, f) ==
  /\ Ready(s)
  /\ family' = [family EXCEPT ![s] = f]
  /\ UNCHANGED <<dynaflows, rails, current, home, calling, history>>

(* `$dynaflows on` or `off` in a prompt of the main session *)
SetDynaflows(enabled) ==
  /\ current # None
  /\ Ready(current)
  /\ dynaflows' = enabled
  /\ StateFor(current)
  /\ UNCHANGED <<states, authorFamilies, familiesOf, people, calling, history>>

(* Any other call that tool_call lets through. *)
OtherCall(s) ==
  /\ Ready(s)
  /\ StateFor(s)
  /\ UNCHANGED <<dynaflows, states, authorFamilies, familiesOf, people, calling, history>>

---------------------------------------------------------------------------
(* Writing *)

Room == SumFunction([s \in Mains |-> Cardinality(authors[s])]) < MaxAuthors

(* tool_call of `write` or `edit` inside a repository, or of a shell       *)
(* command with `git commit`, after all its conditions                     *)
EditCall(s) ==
  /\ Ready(s)
  /\ Room
  /\ StateFor(s)
  /\ RecordAuthor(s)
  /\ calling' = calling \cup {s}
  /\ UNCHANGED <<dynaflows, states, familiesOf, people, history>>

EditRuns(s) ==
  /\ s \in calling
  /\ calling' = calling \ {s}
  /\ authors' = [authors EXCEPT ![Home(s)] = @ \cup {<<family[s], epoch>>}]
  /\ StateFor(s)
  /\ UNCHANGED <<dynaflows, states, authorFamilies, familiesOf, people, verifier, epoch>>

EditFails(s) ==
  /\ s \in calling
  /\ calling' = calling \ {s}
  /\ StateFor(s)
  /\ UNCHANGED <<dynaflows, states, authorFamilies, familiesOf, people, history>>

---------------------------------------------------------------------------
(* Verifying *)

(* Of the families of the patterns, those the verifier may use. *)
Independent(s, families) ==
  IF dynaflows THEN families \ authorFamilies[familiesOf[s]] ELSE families

(* before_subagent_spawn for the agent `verifier` *)
SpawnVerifier(s, families) ==
  /\ Working(s)
  /\ verifier = NoVerifier
  /\ Independent(s, families) # {}
  /\ verifier' = [home |-> Home(s), families |-> Independent(s, families)]
  /\ StateFor(s)
  /\ UNCHANGED <<dynaflows, states, authorFamilies, familiesOf, people, calling, authors, epoch>>

VerifierEnds ==
  /\ verifier # NoVerifier
  /\ verifier' = NoVerifier
  /\ UNCHANGED <<dynaflows, rails, people, calling, authors, epoch>>

(* The process ends, at any moment; transcripts, changes and                *)
(* .omp/dynaflows.json stay.                                               *)
Restart ==
  /\ epoch < MaxEpoch
  /\ epoch' = epoch + 1
  /\ current' = None
  /\ states' = {}
  /\ authorFamilies' = [s \in Sessions |-> {}]
  /\ familiesOf' = [s \in Sessions |-> s]
  /\ authorLineages' = [a \in Agents |-> None]
  /\ calling' = {}
  /\ home' = [k \in Children |-> None]
  /\ verifier' = NoVerifier
  /\ UNCHANGED <<dynaflows, family, authors>>

Next ==
  \/ \E s \in Mains : Enter(s)
  \/ \E s \in Sessions :
       \/ OtherCall(s) \/ EditCall(s) \/ EditRuns(s) \/ EditFails(s)
       \/ \E k \in Children : Spawn(s, k)
       \/ \E f \in Families : ChangeModel(s, f)
       \/ \E families \in SUBSET Families : SpawnVerifier(s, families)
  \/ \E enabled \in BOOLEAN : SetDynaflows(enabled)
  \/ VerifierEnds
  \/ Restart

Spec == Init /\ [][Next]_vars

---------------------------------------------------------------------------
(* Correctness *)

(* Beside the types: who works has a State, and a child works for the main *)
(* session whose map it shares.                                            *)
TypeOK ==
  /\ dynaflows \in BOOLEAN
  /\ current \in Mains \cup {None}
  /\ states \subseteq Sessions
  /\ authorFamilies \in [Sessions -> SUBSET Families]
  /\ familiesOf \in [Sessions -> Sessions]
  /\ authorLineages \in [Agents -> Mains \cup {None}]
  /\ family \in [Sessions -> Families]
  /\ calling \subseteq {s \in Sessions : Working(s)}
  /\ home \in [Children -> Mains \cup {None}]
  /\ authors \in [Mains -> SUBSET (Families \X (0..epoch))]
  /\ verifier \in [home : Mains \cup {None}, families : SUBSET Families]
  /\ epoch \in 0..MaxEpoch
  /\ \A s \in Sessions : Working(s) => s \in states

(* "Authors are always recorded so turning dynaflows on mid-session still  *)
(* sees them" (agent-rails.ts): every family that wrote for a main session *)
(* since the process began, itself or in a child of a child whose parents  *)
(* have ended or whose main session was left, is in that session's map.    *)
AuthorsAreKnown ==
  \A s \in Mains, f \in Families : <<f, epoch>> \in authors[s] => f \in authorFamilies[s]

(* While dynaflows are on, a verifier starts with none of the families     *)
(* that wrote for its main session since the process began, whichever of   *)
(* that session's agents spawns it and whatever the others are doing.      *)
VerifierIsIndependent ==
  [][verifier' \notin {verifier, NoVerifier} /\ dynaflows =>
       \A f \in verifier'.families : <<f, epoch>> \notin authors[verifier'.home]]_vars
===========================================================================
