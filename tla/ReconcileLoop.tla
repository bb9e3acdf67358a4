--------------------------- MODULE ReconcileLoop ---------------------------
(***************************************************************************)
(* The reconcile goroutine of the device driver against the gNMI Set       *)
(* handlers that share its cache (internal/dd: ddrunner.go,                *)
(* reconcileconfig.go, gnmiServerSet.go, serverconfig.go).                 *)
(*                                                                         *)
(* Cache.Lock is Mutex.RLock (serverconfig.go:443), so it excludes nobody: *)
(* every access of the goroutine and of the handlers to Data2 and          *)
(* NewProviderUpdates is a step of its own here.  Configuration data is    *)
(* left out; module ConfigSync adds it.                                    *)
(***************************************************************************)
EXTENDS Naturals

CONSTANTS
  Resource,    \* managed resources: the (level, name) keys of Cache.Data2
  Rpc,         \* the permits of unaryRPCsem: Set handlers that run at a time
  LevelOf,     \* the level a resource is created at
  Pathless,    \* resources whose request carried no RootPath
  Recreate,    \* resources a provider may create again while they exist
  NoResource   \* what an idle handler works on

ASSUME LevelOfAssumption == LevelOf \in [Resource -> Nat]
ASSUME PathlessAssumption == Pathless \subseteq Resource
ASSUME RecreateAssumption == Recreate \subseteq Resource
ASSUME NoResourceAssumption == NoResource \notin Resource

VARIABLES
  ready,               \* Cache.ready
  data2,               \* the status of each entry of Cache.Data2, or "absent"
  data2Levels,         \* the first-level keys of Cache.Data2
  newProviderUpdates,  \* Cache.NewProviderUpdates
  rpc,                 \* per permit: how far its Set handler is, and on what
  pc,                  \* where the reconcile goroutine is
  levels,              \* its local "levels", kept after it returns
  todo,                \* what its current range over Data2 has still to visit
  delObjects,          \* its local "delObjects"
  updateObjects        \* its local "updateObjects"

cacheVars == <<ready, data2, data2Levels, newProviderUpdates>>
loopVars == <<pc, levels, todo, delObjects, updateObjects>>
vars == <<cacheVars, rpc, loopVars>>

-----------------------------------------------------------------------------

ResourceStatus == {"CreatePending", "Success", "Failed", "DeletePending"}

\* Resources that a ShowStatus2 at the end of a cycle should no longer show
\* as work to do.
Settled == {"absent", "Success"}

Step == {"idle", "checked", "stored"}

Pc == {"stopped", "wait", "collect", "deleting", "removing",
       "merge", "updating", "succeeded", "failed", "clear", "scan"}

Idle == [step |-> "idle", res |-> NoResource]

AtLevels(L) == {r \in Resource : LevelOf[r] \in L}

\* The elements of S a loop over the sorted levels reaches first; inside a
\* level the order is that of a Go map, hence arbitrary.
FirstOf(S) == {r \in S : \A s \in S : LevelOf[r] <= LevelOf[s]}

Init ==
  /\ ready = FALSE
  /\ data2 = [r \in Resource |-> "absent"]
  /\ data2Levels = {}
  /\ newProviderUpdates = FALSE
  /\ rpc = [c \in Rpc |-> Idle]
  /\ pc = "stopped"
  /\ levels = {}
  /\ todo = {}
  /\ delObjects = {}
  /\ updateObjects = {}

-----------------------------------------------------------------------------
(* Plausible mistakes in the actions below.  No specification uses them:   *)
(* they stand in for the action they are named after when the properties   *)
(* are tested (PROJECT.json, "mutants").                                   *)

\* RaiseNewProviderUpdates, the handler forgetting to let go of the resource.
RaiseKeepsResource(c) ==
  /\ rpc[c].step = "stored"
  /\ newProviderUpdates' = TRUE
  /\ rpc' = [rpc EXCEPT ![c].step = "idle"]
  /\ UNCHANGED <<ready, data2, data2Levels, loopVars>>

\* ScanStatus, a failed entry not counting as work to do.
ScanForgetsFailed ==
  /\ pc = "scan"
  /\ newProviderUpdates' =
       (\/ newProviderUpdates
        \/ \E r \in AtLevels(levels) :
             data2[r] \in {"CreatePending", "DeletePending"})
  /\ pc' = "wait"
  /\ UNCHANGED <<ready, data2, data2Levels, rpc, levels, todo, delObjects,
                 updateObjects>>

\* SetDeletePending, the handler removing the entry itself.
DeleteRemovesEntry(c) ==
  /\ rpc[c].step = "checked"
  /\ data2[rpc[c].res] # "absent"
  /\ data2' = [data2 EXCEPT ![rpc[c].res] = "absent"]
  /\ rpc' = [rpc EXCEPT ![c].step = "stored"]
  /\ UNCHANGED <<ready, data2Levels, newProviderUpdates, loopVars>>

\* DeleteResource2, removing the whole level.
DeleteDropsLevel(r) ==
  /\ pc = "removing"
  /\ r \in FirstOf(delObjects)
  /\ data2' = [s \in Resource |-> IF LevelOf[s] = LevelOf[r]
                                    THEN "absent" ELSE data2[s]]
  /\ delObjects' = delObjects \ {r}
  /\ UNCHANGED <<ready, data2Levels, newProviderUpdates, rpc, pc, levels,
                 todo, updateObjects>>

\* Merge, taking what is to be deleted as well.
MergeTakesDeletes(r) ==
  /\ pc = "merge"
  /\ r \in FirstOf(todo)
  /\ todo' = todo \ {r}
  /\ updateObjects' = IF data2[r] # "absent"
                        THEN updateObjects \union {r}
                        ELSE updateObjects
  /\ UNCHANGED <<cacheVars, rpc, pc, levels, delObjects>>

\* Merge, taking what was never pushed only, as the comment at
\* reconcileconfig.go:172 has it.
MergeCreatePendingOnly(r) ==
  /\ pc = "merge"
  /\ r \in FirstOf(todo)
  /\ todo' = todo \ {r}
  /\ updateObjects' = IF data2[r] = "CreatePending"
                        THEN updateObjects \union {r}
                        ELSE updateObjects
  /\ UNCHANGED <<cacheVars, rpc, pc, levels, delObjects>>

-----------------------------------------------------------------------------
(* The driver brings the cache in the ready state when discovery is done,  *)
(* and then starts the goroutine.                                          *)

CacheReady ==
  /\ ~ready
  /\ ready' = TRUE
  /\ UNCHANGED <<data2, data2Levels, newProviderUpdates, rpc, loopVars>>

StartReconcileProcess ==
  /\ ready
  /\ pc = "stopped"
  /\ newProviderUpdates' = TRUE
  /\ pc' = "wait"
  /\ UNCHANGED <<ready, data2, data2Levels, rpc, levels, todo, delObjects,
                 updateObjects>>

-----------------------------------------------------------------------------
(* Set handlers.  A request that finds the cache not ready, and a delete   *)
(* that finds no entry, are answered without a change of state.            *)

\* The handler stores over whatever is there.  A provider that has looked
\* (Get tells it whether the entry exists) creates what is absent; one that
\* has not, or that changed its mind, is in Recreate.  The level key and the
\* entry are written back to back.
CreateGNMIK8sResource(c, r) ==
  /\ ready
  /\ rpc[c] = Idle
  /\ data2[r] = "absent" \/ r \in Recreate
  /\ data2Levels' = data2Levels \union {LevelOf[r]}
  /\ data2' = [data2 EXCEPT ![r] = "CreatePending"]
  /\ rpc' = [rpc EXCEPT ![c] = [step |-> "stored", res |-> r]]
  /\ UNCHANGED <<ready, newProviderUpdates, loopVars>>

DeleteGNMIK8sResource(c, r) ==
  /\ ready
  /\ rpc[c] = Idle
  /\ data2[r] # "absent"
  /\ rpc' = [rpc EXCEPT ![c] = [step |-> "checked", res |-> r]]
  /\ UNCHANGED <<cacheVars, loopVars>>

SetDeletePending(c) ==
  /\ rpc[c].step = "checked"
  /\ data2[rpc[c].res] # "absent"
  /\ data2' = [data2 EXCEPT ![rpc[c].res] = "DeletePending"]
  /\ rpc' = [rpc EXCEPT ![c].step = "stored"]
  /\ UNCHANGED <<ready, data2Levels, newProviderUpdates, loopVars>>

\* The tail of both handlers.
RaiseNewProviderUpdates(c) ==
  /\ rpc[c].step = "stored"
  /\ newProviderUpdates' = TRUE
  /\ rpc' = [rpc EXCEPT ![c] = Idle]
  /\ UNCHANGED <<ready, data2, data2Levels, loopVars>>

\* Create and Delete of the old service, which is still registered with the
\* gRPC server: what they store is in Cache.Data, which no cycle reads; the
\* flag they raise is the same.
OldServiceRequest ==
  /\ ready
  /\ newProviderUpdates' = TRUE
  /\ UNCHANGED <<ready, data2, data2Levels, rpc, loopVars>>

-----------------------------------------------------------------------------
(* Cache.Reconcile, run by the goroutine.                                  *)

Tick ==
  /\ pc = "wait"
  /\ newProviderUpdates
  /\ pc' = "collect"
  /\ levels' = data2Levels
  /\ todo' = AtLevels(data2Levels)
  /\ UNCHANGED <<cacheVars, rpc, delObjects, updateObjects>>

Collect(r) ==
  /\ pc = "collect"
  /\ r \in FirstOf(todo)
  /\ todo' = todo \ {r}
  /\ delObjects' = IF data2[r] = "DeletePending"
                     THEN delObjects \union {r}
                     ELSE delObjects
  /\ UNCHANGED <<cacheVars, rpc, pc, levels, updateObjects>>

\* The deletes are over: the second range over the same levels begins.
StartMerge ==
  /\ pc' = "merge"
  /\ todo' = AtLevels(levels)
  /\ delObjects' = {}

\* A nil path among the deletes ("murder") cancels all of them.
CollectDone ==
  /\ pc = "collect"
  /\ todo = {}
  /\ \/ /\ delObjects # {}
        /\ delObjects \intersect Pathless = {}
        /\ pc' = "deleting"
        /\ UNCHANGED <<todo, delObjects>>
     \/ /\ \/ delObjects = {}
           \/ delObjects \intersect Pathless # {}
        /\ StartMerge
  /\ UNCHANGED <<cacheVars, rpc, levels, updateObjects>>

DeleteGnmiOk ==
  /\ pc = "deleting"
  /\ pc' = "removing"
  /\ UNCHANGED <<cacheVars, rpc, levels, todo, delObjects, updateObjects>>

DeleteGnmiErr ==
  /\ pc = "deleting"
  /\ StartMerge
  /\ UNCHANGED <<cacheVars, rpc, levels, updateObjects>>

\* DeleteResource2 goes by level and name: whatever the entry is by now.
DeleteResource2(r) ==
  /\ pc = "removing"
  /\ r \in FirstOf(delObjects)
  /\ data2' = [data2 EXCEPT ![r] = "absent"]
  /\ delObjects' = delObjects \ {r}
  /\ UNCHANGED <<ready, data2Levels, newProviderUpdates, rpc, pc, levels,
                 todo, updateObjects>>

RemoveDone ==
  /\ pc = "removing"
  /\ delObjects = {}
  /\ StartMerge
  /\ UNCHANGED <<cacheVars, rpc, levels, updateObjects>>

\* A resource is appended once per Replace update, so that the same status is
\* written as often in a row; here it is an element of a set, written once.
Merge(r) ==
  /\ pc = "merge"
  /\ r \in FirstOf(todo)
  /\ todo' = todo \ {r}
  /\ updateObjects' = IF data2[r] \notin {"absent", "DeletePending"}
                        THEN updateObjects \union {r}
                        ELSE updateObjects
  /\ UNCHANGED <<cacheVars, rpc, pc, levels, delObjects>>

MergeDone ==
  /\ pc = "merge"
  /\ todo = {}
  /\ pc' = IF updateObjects = {} THEN "clear" ELSE "updating"
  /\ UNCHANGED <<cacheVars, rpc, levels, todo, delObjects, updateObjects>>

UpdateGnmiOk ==
  /\ pc = "updating"
  /\ pc' = "succeeded"
  /\ UNCHANGED <<cacheVars, rpc, levels, todo, delObjects, updateObjects>>

UpdateGnmiErr ==
  /\ pc = "updating"
  /\ pc' = "failed"
  /\ UNCHANGED <<cacheVars, rpc, levels, todo, delObjects, updateObjects>>

\* SetStatus2 goes by level and name too.  It dereferences the entry, so an
\* absent one would end the process: StatusTargetsExist says there is none.
SetStatus2(r) ==
  /\ pc \in {"succeeded", "failed"}
  /\ r \in FirstOf(updateObjects)
  /\ data2[r] # "absent"
  /\ data2' = [data2 EXCEPT ![r] =
                 IF pc = "succeeded" THEN "Success" ELSE "Failed"]
  /\ updateObjects' = updateObjects \ {r}
  /\ UNCHANGED <<ready, data2Levels, newProviderUpdates, rpc, pc, levels,
                 todo, delObjects>>

SetStatusDone ==
  /\ pc \in {"succeeded", "failed"}
  /\ updateObjects = {}
  /\ pc' = "clear"
  /\ UNCHANGED <<cacheVars, rpc, levels, todo, delObjects, updateObjects>>

ClearNewProviderUpdates ==
  /\ pc = "clear"
  /\ newProviderUpdates' = FALSE
  /\ pc' = "scan"
  /\ UNCHANGED <<ready, data2, data2Levels, rpc, levels, todo, delObjects,
                 updateObjects>>

\* One step: while the scan runs nobody else turns an entry into Success, so
\* reading the entries one by one finds work exactly if one reading does.
ScanStatus ==
  /\ pc = "scan"
  /\ newProviderUpdates' =
       (\/ newProviderUpdates
        \/ \E r \in AtLevels(levels) : data2[r] \notin Settled)
  /\ pc' = "wait"
  /\ UNCHANGED <<ready, data2, data2Levels, rpc, levels, todo, delObjects,
                 updateObjects>>

-----------------------------------------------------------------------------
(* The end of the process: everything above is memory.  It is killed, the  *)
(* Go runtime stops it over unsynchronised map accesses, or a handler      *)
(* dereferences a nil entry.                                               *)

Reset ==
  /\ ready' = FALSE
  /\ data2' = [r \in Resource |-> "absent"]
  /\ data2Levels' = {}
  /\ newProviderUpdates' = FALSE
  /\ rpc' = [c \in Rpc |-> Idle]
  /\ pc' = "stopped"
  /\ levels' = {}
  /\ todo' = {}
  /\ delObjects' = {}
  /\ updateObjects' = {}

Restart == ready /\ Reset

\* The entry went away between the check of the delete handler and its write.
DeletePanic(c) ==
  /\ rpc[c].step = "checked"
  /\ data2[rpc[c].res] = "absent"
  /\ Reset

-----------------------------------------------------------------------------

Startup == CacheReady \/ StartReconcileProcess

Handler(c) ==
  \/ \E r \in Resource : CreateGNMIK8sResource(c, r)
  \/ \E r \in Resource : DeleteGNMIK8sResource(c, r)
  \/ SetDeletePending(c)
  \/ RaiseNewProviderUpdates(c)
  \/ DeletePanic(c)

\* What the goroutine does on its own; the device's answers are apart.
ReconcileStep ==
  \/ Tick
  \/ \E r \in Resource : Collect(r)
  \/ CollectDone
  \/ \E r \in Resource : DeleteResource2(r)
  \/ RemoveDone
  \/ \E r \in Resource : Merge(r)
  \/ MergeDone
  \/ \E r \in Resource : SetStatus2(r)
  \/ SetStatusDone
  \/ ClearNewProviderUpdates
  \/ ScanStatus

DeviceAnswer == DeleteGnmiOk \/ DeleteGnmiErr \/ UpdateGnmiOk \/ UpdateGnmiErr

Next ==
  \/ Startup
  \/ \E c \in Rpc : Handler(c)
  \/ OldServiceRequest
  \/ ReconcileStep
  \/ DeviceAnswer
  \/ Restart

Spec == Init /\ [][Next]_vars

\* The driver starts, goroutines are scheduled and handlers that passed their
\* checks return.  A call of the device returns (the target has a timeout of
\* 10 s), and a call repeated for ever succeeds at times.
Fairness ==
  /\ WF_vars(Startup)
  /\ WF_vars(ReconcileStep)
  /\ WF_vars(DeviceAnswer)
  /\ SF_vars(DeleteGnmiOk)
  /\ SF_vars(UpdateGnmiOk)
  /\ \A c \in Rpc : WF_vars(SetDeletePending(c) \/ RaiseNewProviderUpdates(c))

FairSpec == Spec /\ Fairness

-----------------------------------------------------------------------------
(* What holds.                                                             *)

\* Every variable has its type, and an idle handler holds no resource.
TypeOK ==
  /\ ready \in BOOLEAN
  /\ data2 \in [Resource -> ResourceStatus \union {"absent"}]
  /\ data2Levels \subseteq {LevelOf[r] : r \in Resource}
  /\ newProviderUpdates \in BOOLEAN
  /\ rpc \in [Rpc -> [step : Step, res : Resource \union {NoResource}]]
  /\ \A c \in Rpc : rpc[c].step = "idle" <=> rpc[c].res = NoResource
  /\ pc \in Pc
  /\ levels \subseteq {LevelOf[r] : r \in Resource}
  /\ todo \subseteq Resource
  /\ delObjects \subseteq Resource
  /\ updateObjects \subseteq Resource

Storing(r) == \E c \in Rpc : rpc[c] = [step |-> "stored", res |-> r]

\* While the goroutine sleeps, every entry that still needs the device, at a
\* level the last cycle looked at, has the next cycle scheduled: the flag is
\* up, or the handler that wrote the entry is about to raise it.  Handlers
\* write the entry first and the flag second, the goroutine clears the flag
\* first and reads the entries second (reconcileconfig.go:249-257).
PendingIsScheduled ==
  pc = "wait" =>
    \A r \in AtLevels(levels) :
      data2[r] \in Settled \/ newProviderUpdates \/ Storing(r)

\* The entries whose status a cycle is about to write are there, whatever
\* the handlers did since it merged them: SetStatus2 never dereferences nil
\* (serverconfig.go:471, reconcileconfig.go:228-238).
StatusTargetsExist == \A r \in updateObjects : data2[r] # "absent"

\* An entry at a level some cycle has looked at does not keep a status that
\* asks for work: a failed update is pushed again, a delete is sent again.
NoStatusIsStuck ==
  \A r \in Resource, s \in ResourceStatus \ {"Success"} :
    (data2[r] = s /\ LevelOf[r] \in levels) ~> (data2[r] # s)

\* Once no handler runs any more, of either service, every entry at a level
\* some cycle has looked at ends up successful or gone, and stays so.
QuietConverges ==
  <>[](\A c \in Rpc : rpc[c] = Idle) /\ <>[][~OldServiceRequest]_vars
    => <>[](\A r \in AtLevels(levels) : data2[r] \in Settled)

\* The entry a create stored, where there was none, stays until a delete or a
\* restart: a cycle does not take it for the entry of that name it has just
\* deleted on the device (reconcileconfig.go:76-78).
CreateIsKept ==
  [][\A r \in Resource \ Recreate : data2[r] = "CreatePending" /\ ready'
       => data2'[r] # "absent"]_vars

\* What the goroutine has taken each resource for.
Turn == [r \in Resource |-> IF r \in delObjects THEN "delete"
                            ELSE IF r \in updateObjects THEN "update"
                            ELSE "none"]

Life == INSTANCE ResourceLifecycle WITH status <- data2, turn <- Turn

\* Whatever the handlers do between its reads and its writes, the goroutine
\* implements the lifecycle of every resource: an entry goes away only in a
\* cycle that collected it while it was to be deleted, a result is written
\* only for an entry that this cycle merged and that is still there, and
\* nothing is merged before all deletes of the cycle are over or given up
\* (reconcileconfig.go:46-94, 167-240).  What the device answered is no part
\* of this; DeliverySpec in ConfigSync is about that.
LifeSpec == Life!Spec

-----------------------------------------------------------------------------
(* What the comments say, and the code does not do.                        *)

\* "set the status to false if all succeeded, if not we keep retrying"
\* (reconcileconfig.go:249), of every entry: the scan leaves out the levels
\* that appeared after the cycle took its snapshot.
AllPendingIsScheduled ==
  pc = "wait" =>
    \A r \in Resource :
      data2[r] \in Settled \/ newProviderUpdates \/ Storing(r)

\* "Delete deletes a managed resource" (gnmiServerSet.go:144): a delete that
\* was accepted is carried out, unless a create overtakes it.  A cycle whose
\* update was on its way writes Success over it.
DeleteIsKept ==
  [][\A r \in Resource : data2[r] = "DeletePending"
       => data2'[r] \in {"DeletePending", "absent", "CreatePending"}]_vars

=============================================================================
