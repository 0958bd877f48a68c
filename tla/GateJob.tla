------------------------------ MODULE GateJob ------------------------------
(***************************************************************************)
(* What the NUC gate promises for one revision, as the "NUC gate (CI)"     *)
(* section of readme.md tells it and scripts/nuc-gate.py implements it.    *)
(***************************************************************************)
CONSTANTS Jobs
VARIABLES phase, status

vars == <<phase, status>>

Verdicts == {"success", "failure", "error"}

Init ==
  /\ phase = [j \in Jobs |-> "absent"]
  /\ status = [j \in Jobs |-> "none"]

(* submit accepts the job *)
Accept(j) ==
  /\ phase[j] = "absent"
  /\ phase' = [phase EXCEPT ![j] = "running"]
  /\ UNCHANGED status

(* GitHub hears of a job only while it is running. *)
Report(j, s) ==
  /\ phase[j] = "running"
  /\ status' = [status EXCEPT ![j] = s]
  /\ UNCHANGED phase

(* wait can return *)
Conclude(j, v) ==
  /\ phase[j] = "running"
  /\ phase' = [phase EXCEPT ![j] = v]
  /\ UNCHANGED status

(* The process that has the job dies or raises: its clients are told       *)
(* "running" for ever, and nothing more happens.                           *)
Abandon(j) ==
  /\ phase[j] = "running"
  /\ phase' = [phase EXCEPT ![j] = "abandoned"]
  /\ UNCHANGED status

(* The same, while a resubmission forgets the old job.                     *)
Stall(j) ==
  /\ phase[j] = "absent"
  /\ phase' = [phase EXCEPT ![j] = "abandoned"]
  /\ UNCHANGED status

(* Only an infrastructure error is forgotten, by a resubmission. *)
Forget(j) ==
  /\ phase[j] = "error"
  /\ phase' = [phase EXCEPT ![j] = "absent"]
  /\ UNCHANGED status

Concludes(j) == \E v \in Verdicts : Conclude(j, v)

Next ==
  \E j \in Jobs :
    \/ Accept(j)
    \/ \E s \in Verdicts \cup {"pending"} : Report(j, s)
    \/ Concludes(j)
    \/ Abandon(j)
    \/ Stall(j)
    \/ Forget(j)

SafeSpec == Init /\ [][Next]_vars

Spec == SafeSpec /\ \A j \in Jobs : WF_vars(Concludes(j) \/ Abandon(j))
===========================================================================
