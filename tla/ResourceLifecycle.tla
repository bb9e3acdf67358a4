------------------------- MODULE ResourceLifecycle -------------------------
(***************************************************************************)
(* What the driver promises its providers about one managed resource: how  *)
(* the status they read may move, and for which step the reconcile         *)
(* goroutine must have taken the resource in the cycle in progress.        *)
(* Levels, the flag, the handlers' steps and the calls to the device are   *)
(* left out; ReconcileLoop implements this.                                *)
(***************************************************************************)
CONSTANTS
  Resource,  \* managed resources
  Recreate   \* those a provider may create again while they exist

VARIABLES
  status,    \* what a provider reads of each resource, or "absent"
  turn       \* what the cycle in progress has taken it for

vars == <<status, turn>>

-----------------------------------------------------------------------------

Init ==
  /\ status = [r \in Resource |-> "absent"]
  /\ turn = [r \in Resource |-> "none"]

TakenFor(what) == {r \in Resource : turn[r] = what}

\* What providers ask for.
Create(r) ==
  /\ status[r] = "absent" \/ r \in Recreate
  /\ status' = [status EXCEPT ![r] = "CreatePending"]
  /\ UNCHANGED turn

Delete(r) ==
  /\ status[r] # "absent"
  /\ status' = [status EXCEPT ![r] = "DeletePending"]
  /\ UNCHANGED turn

\* A cycle takes everything it deletes before anything it updates.
TakeForDelete(r) ==
  /\ status[r] = "DeletePending"
  /\ TakenFor("update") = {}
  /\ turn' = [turn EXCEPT ![r] = "delete"]
  /\ UNCHANGED status

TakeForUpdate(r) ==
  /\ status[r] \in {"CreatePending", "Success", "Failed"}
  /\ TakenFor("delete") = {}
  /\ turn' = [turn EXCEPT ![r] = "update"]
  /\ UNCHANGED status

Remove(r) ==
  /\ turn[r] = "delete"
  /\ status' = [status EXCEPT ![r] = "absent"]
  /\ turn' = [turn EXCEPT ![r] = "none"]

\* The outcome that is written, of a resource that is still there.
Report(r) ==
  /\ turn[r] = "update"
  /\ status[r] # "absent"
  /\ \E outcome \in {"Success", "Failed"} :
       status' = [status EXCEPT ![r] = outcome]
  /\ turn' = [turn EXCEPT ![r] = "none"]

\* The resources keep their status, for another cycle.
GiveUpDeletes ==
  /\ TakenFor("update") = {}
  /\ turn' = [r \in Resource |-> "none"]
  /\ UNCHANGED status

\* All of it is memory.
Restart ==
  /\ status' = [r \in Resource |-> "absent"]
  /\ turn' = [r \in Resource |-> "none"]

Next ==
  \/ \E r \in Resource :
       \/ Create(r)
       \/ Delete(r)
       \/ TakeForDelete(r)
       \/ TakeForUpdate(r)
       \/ Remove(r)
       \/ Report(r)
  \/ GiveUpDeletes
  \/ Restart

Spec == Init /\ [][Next]_vars

=============================================================================
