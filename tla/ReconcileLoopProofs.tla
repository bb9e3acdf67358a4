------------------------ MODULE ReconcileLoopProofs ------------------------
(* What ReconcileLoop keeps for every set of resources, levels and permits. *)
EXTENDS ReconcileLoop, TLAPS

\* A cycle holds update targets only between its merge and its last
\* SetStatus2, so the removals of its delete phase meet none of them.
TargetsOnlyInUpdate ==
  pc \notin {"merge", "updating", "succeeded", "failed"} => updateObjects = {}

TargetInv == StatusTargetsExist /\ TargetsOnlyInUpdate

\* What a cycle has collected for deletion is still to be deleted when it
\* removes it, if providers create only what is absent.
DelObjectsPending ==
  /\ pc \notin {"collect", "deleting", "removing"} => delObjects = {}
  /\ \A r \in delObjects \ Recreate : data2[r] = "DeletePending"

\* One step does not lose an entry just created.
CreateKept ==
  \A r \in Resource \ Recreate :
    data2[r] = "CreatePending" /\ ready' => data2'[r] # "absent"

-----------------------------------------------------------------------------

\* Every variable of the cache, the handlers and the goroutine keeps its type
\* in every step, crash included.
THEOREM TypeCorrect == Spec => []TypeOK
<1>1. Init => TypeOK
  <2> SUFFICES ASSUME Init PROVE TypeOK
    OBVIOUS
  <2>1. Idle \in [step : Step, res : Resource \union {NoResource}]
        /\ Idle.step = "idle" /\ Idle.res = NoResource
    BY DEF Idle, Step
  <2>2. data2 \in [Resource -> ResourceStatus \union {"absent"}]
    BY DEF Init
  <2>3. rpc \in [Rpc -> [step : Step, res : Resource \union {NoResource}]]
        /\ \A c \in Rpc : rpc[c].step = "idle" <=> rpc[c].res = NoResource
    BY <2>1 DEF Init
  <2> QED
    BY <2>2, <2>3 DEF Init, TypeOK, Pc
<1>2. TypeOK /\ [Next]_vars => TypeOK'
  <2> SUFFICES ASSUME TypeOK, [Next]_vars PROVE TypeOK'
    OBVIOUS
  <2> USE NoResourceAssumption, LevelOfAssumption DEF TypeOK
  <2>1. CASE CacheReady
    BY <2>1 DEF CacheReady, loopVars
  <2>2. CASE StartReconcileProcess
    BY <2>2 DEF StartReconcileProcess, Pc
  <2>3. ASSUME NEW c \in Rpc, NEW r \in Resource, CreateGNMIK8sResource(c, r)
        PROVE TypeOK'
    BY <2>3 DEF CreateGNMIK8sResource, loopVars, Step, ResourceStatus
  <2>4. ASSUME NEW c \in Rpc, NEW r \in Resource, DeleteGNMIK8sResource(c, r)
        PROVE TypeOK'
    BY <2>4 DEF DeleteGNMIK8sResource, cacheVars, loopVars, Step
  <2>5. ASSUME NEW c \in Rpc, SetDeletePending(c) PROVE TypeOK'
    BY <2>5 DEF SetDeletePending, loopVars, Step, ResourceStatus
  <2>6. ASSUME NEW c \in Rpc, RaiseNewProviderUpdates(c) PROVE TypeOK'
    BY <2>6 DEF RaiseNewProviderUpdates, loopVars, Step, Idle
  <2>7. ASSUME Reset PROVE TypeOK'
    BY <2>7 DEF Reset, Idle, Step, Pc
  <2>8. CASE Tick
    BY <2>8 DEF Tick, cacheVars, Pc, AtLevels
  <2>9. ASSUME NEW r \in Resource, Collect(r) PROVE TypeOK'
    BY <2>9 DEF Collect, cacheVars
  <2>10. CASE CollectDone
    BY <2>10 DEF CollectDone, StartMerge, cacheVars, Pc, AtLevels
  <2>11. ASSUME NEW r \in Resource, DeleteResource2(r) PROVE TypeOK'
    BY <2>11 DEF DeleteResource2
  <2>12. CASE RemoveDone
    BY <2>12 DEF RemoveDone, StartMerge, cacheVars, Pc, AtLevels
  <2>13. ASSUME NEW r \in Resource, Merge(r) PROVE TypeOK'
    BY <2>13 DEF Merge, cacheVars
  <2>14. CASE MergeDone
    BY <2>14 DEF MergeDone, cacheVars, Pc
  <2>15. ASSUME NEW r \in Resource, SetStatus2(r) PROVE TypeOK'
    BY <2>15 DEF SetStatus2, ResourceStatus
  <2>16. CASE SetStatusDone
    BY <2>16 DEF SetStatusDone, cacheVars, Pc
  <2>17. CASE ClearNewProviderUpdates
    BY <2>17 DEF ClearNewProviderUpdates, Pc
  <2>18. CASE ScanStatus
    BY <2>18 DEF ScanStatus, Pc
  <2>19. CASE DeviceAnswer
    BY <2>19 DEF DeviceAnswer, DeleteGnmiOk, DeleteGnmiErr, UpdateGnmiOk,
                 UpdateGnmiErr, StartMerge, cacheVars, Pc, AtLevels
  <2>20. CASE UNCHANGED vars
    BY <2>20 DEF vars, cacheVars, loopVars
  <2>21. CASE OldServiceRequest
    BY <2>21 DEF OldServiceRequest, loopVars
  <2> QED
    BY <2>1, <2>2, <2>3, <2>4, <2>5, <2>6, <2>7, <2>8, <2>9, <2>10, <2>11,
       <2>12, <2>13, <2>14, <2>15, <2>16, <2>17, <2>18, <2>19, <2>20, <2>21
       DEF Next, Startup, Handler, ReconcileStep, DeletePanic, Restart
<1> QED
  BY <1>1, <1>2, PTL DEF Spec

\* The only removals of entries are those of the goroutine's own delete phase,
\* which is over when the cycle starts to collect the entries it will write.
LEMMA TargetInvariant == Spec => []TargetInv
<1>1. Init => TargetInv
  BY DEF Init, TargetInv, StatusTargetsExist, TargetsOnlyInUpdate
<1>2. TypeOK /\ TargetInv /\ [Next]_vars => TargetInv'
  <2> SUFFICES ASSUME TypeOK, TargetInv, [Next]_vars PROVE TargetInv'
    OBVIOUS
  <2> USE DEF TargetInv, StatusTargetsExist, TargetsOnlyInUpdate
  <2>0. data2 \in [Resource -> ResourceStatus \union {"absent"}]
        /\ updateObjects \subseteq Resource
    BY DEF TypeOK
  <2>1. CASE Startup
    BY <2>1 DEF Startup, CacheReady, StartReconcileProcess, loopVars
  <2>2. ASSUME NEW c \in Rpc, NEW r \in Resource, CreateGNMIK8sResource(c, r)
        PROVE TargetInv'
    BY <2>0, <2>2 DEF CreateGNMIK8sResource, loopVars
  <2>3. ASSUME NEW c \in Rpc, NEW r \in Resource, DeleteGNMIK8sResource(c, r)
        PROVE TargetInv'
    BY <2>3 DEF DeleteGNMIK8sResource, cacheVars, loopVars
  <2>4. ASSUME NEW c \in Rpc, SetDeletePending(c) PROVE TargetInv'
    BY <2>0, <2>4 DEF SetDeletePending, loopVars
  <2>5. ASSUME NEW c \in Rpc, RaiseNewProviderUpdates(c) PROVE TargetInv'
    BY <2>5 DEF RaiseNewProviderUpdates, loopVars
  <2>6. ASSUME Reset PROVE TargetInv'
    BY <2>6 DEF Reset
  <2>7. CASE Tick \/ CollectDone \/ RemoveDone
    BY <2>7 DEF Tick, CollectDone, RemoveDone, StartMerge, cacheVars
  <2>8. ASSUME NEW r \in Resource, Collect(r) PROVE TargetInv'
    BY <2>8 DEF Collect, cacheVars
  <2>9. ASSUME NEW r \in Resource, DeleteResource2(r) PROVE TargetInv'
    \* there is no target while entries are removed
    BY <2>9 DEF DeleteResource2
  <2>10. ASSUME NEW r \in Resource, Merge(r) PROVE TargetInv'
    BY <2>10 DEF Merge, cacheVars
  <2>11. CASE MergeDone \/ SetStatusDone
    BY <2>11 DEF MergeDone, SetStatusDone, cacheVars
  <2>12. ASSUME NEW r \in Resource, SetStatus2(r) PROVE TargetInv'
    BY <2>0, <2>12 DEF SetStatus2
  <2>13. CASE ClearNewProviderUpdates \/ ScanStatus
    BY <2>13 DEF ClearNewProviderUpdates, ScanStatus
  <2>14. CASE DeviceAnswer
    BY <2>14 DEF DeviceAnswer, DeleteGnmiOk, DeleteGnmiErr, UpdateGnmiOk,
                 UpdateGnmiErr, StartMerge, cacheVars
  <2>15. CASE UNCHANGED vars
    BY <2>15 DEF vars, cacheVars, loopVars
  <2>16. CASE OldServiceRequest
    BY <2>16 DEF OldServiceRequest, loopVars
  <2> QED
    BY <2>1, <2>2, <2>3, <2>4, <2>5, <2>6, <2>7, <2>8, <2>9, <2>10, <2>11,
       <2>12, <2>13, <2>14, <2>15, <2>16
       DEF Next, Handler, ReconcileStep, DeletePanic, Restart
<1> QED
  BY <1>1, <1>2, TypeCorrect, PTL DEF Spec

\* No cycle writes the status of an entry that is gone, whatever the handlers
\* do while it waits for the device.
THEOREM StatusTargetsAlwaysExist == Spec => []StatusTargetsExist
<1>1. TargetInv => StatusTargetsExist
  BY DEF TargetInv
<1> QED
  BY <1>1, TargetInvariant, PTL

\* No wakeup is lost for an entry at a level the goroutine has looked at: its
\* scan reads the entries after it cleared the flag, and a handler raises the
\* flag after it wrote the entry, so one of the two orders sees the other.
THEOREM PendingIsAlwaysScheduled == Spec => []PendingIsScheduled
<1>1. Init => PendingIsScheduled
  BY DEF Init, PendingIsScheduled
<1>2. TypeOK /\ PendingIsScheduled /\ [Next]_vars => PendingIsScheduled'
  <2> SUFFICES ASSUME TypeOK, PendingIsScheduled, [Next]_vars
               PROVE PendingIsScheduled'
    OBVIOUS
  <2> USE DEF PendingIsScheduled, Storing
  <2>0. /\ data2 \in [Resource -> ResourceStatus \union {"absent"}]
        /\ rpc \in [Rpc -> [step : Step, res : Resource \union {NoResource}]]
    BY DEF TypeOK
  <2>1. CASE CacheReady
    BY <2>1 DEF CacheReady, loopVars, AtLevels
  <2>2. CASE StartReconcileProcess
    BY <2>2 DEF StartReconcileProcess
  <2>3. ASSUME NEW c \in Rpc, NEW r \in Resource, CreateGNMIK8sResource(c, r)
        PROVE PendingIsScheduled'
    \* r is being stored; a handler that was storing is not the idle one
    <3>1. rpc'[c] = [step |-> "stored", res |-> r]
      BY <2>0, <2>3 DEF CreateGNMIK8sResource
    <3>2. \A d \in Rpc \ {c} : rpc'[d] = rpc[d]
      BY <2>0, <2>3 DEF CreateGNMIK8sResource
    <3>3. rpc[c].step = "idle"
      BY <2>3 DEF CreateGNMIK8sResource, Idle
    <3>4. \A s \in Resource \ {r} : data2'[s] = data2[s]
      BY <2>0, <2>3 DEF CreateGNMIK8sResource
    <3> QED
      BY <2>3, <3>1, <3>2, <3>3, <3>4
         DEF CreateGNMIK8sResource, loopVars, AtLevels
  <2>4. ASSUME NEW c \in Rpc, NEW r \in Resource, DeleteGNMIK8sResource(c, r)
        PROVE PendingIsScheduled'
    <3>1. \A d \in Rpc \ {c} : rpc'[d] = rpc[d]
      BY <2>0, <2>4 DEF DeleteGNMIK8sResource
    <3>2. rpc[c].step = "idle"
      BY <2>4 DEF DeleteGNMIK8sResource, Idle
    <3> QED
      BY <2>4, <3>1, <3>2
         DEF DeleteGNMIK8sResource, cacheVars, loopVars, AtLevels
  <2>5. ASSUME NEW c \in Rpc, SetDeletePending(c) PROVE PendingIsScheduled'
    <3>1. rpc'[c] = [step |-> "stored", res |-> rpc[c].res]
      BY <2>0, <2>5 DEF SetDeletePending
    <3>2. \A d \in Rpc \ {c} : rpc'[d] = rpc[d]
      BY <2>0, <2>5 DEF SetDeletePending
    <3>3. \A s \in Resource \ {rpc[c].res} : data2'[s] = data2[s]
      BY <2>0, <2>5 DEF SetDeletePending
    <3> QED
      BY <2>5, <3>1, <3>2, <3>3 DEF SetDeletePending, loopVars, AtLevels
  <2>6. ASSUME NEW c \in Rpc, RaiseNewProviderUpdates(c)
        PROVE PendingIsScheduled'
    BY <2>6 DEF RaiseNewProviderUpdates
  <2>7. ASSUME Reset PROVE PendingIsScheduled'
    BY <2>7 DEF Reset
  <2>8. CASE ScanStatus
    BY <2>8 DEF ScanStatus, AtLevels
  <2>9. CASE UNCHANGED vars
    BY <2>9 DEF vars, cacheVars, loopVars, AtLevels
  <2>10. CASE Tick \/ CollectDone \/ RemoveDone \/ MergeDone \/ SetStatusDone
              \/ ClearNewProviderUpdates
    BY <2>10 DEF Tick, CollectDone, RemoveDone, StartMerge, MergeDone,
                 SetStatusDone, ClearNewProviderUpdates
  <2>11. ASSUME NEW r \in Resource,
                Collect(r) \/ DeleteResource2(r) \/ Merge(r) \/ SetStatus2(r)
         PROVE PendingIsScheduled'
    BY <2>11 DEF Collect, DeleteResource2, Merge, SetStatus2
  <2>12. CASE DeviceAnswer
    BY <2>12 DEF DeviceAnswer, DeleteGnmiOk, DeleteGnmiErr, UpdateGnmiOk,
                 UpdateGnmiErr, StartMerge
  <2>13. CASE OldServiceRequest
    BY <2>13 DEF OldServiceRequest
  <2> QED
    BY <2>1, <2>2, <2>3, <2>4, <2>5, <2>6, <2>7, <2>8, <2>9, <2>10, <2>11,
       <2>12, <2>13
       DEF Next, Startup, Handler, ReconcileStep, DeletePanic, Restart
<1> QED
  BY <1>1, <1>2, TypeCorrect, PTL DEF Spec

\* An entry that is being deleted is not absent, so none is created in its
\* place before the cycle has removed it.
LEMMA DelObjectsInvariant == Spec => []DelObjectsPending
<1>1. Init => DelObjectsPending
  BY DEF Init, DelObjectsPending
<1>2. TypeOK /\ DelObjectsPending /\ [Next]_vars => DelObjectsPending'
  <2> SUFFICES ASSUME TypeOK, DelObjectsPending, [Next]_vars
               PROVE DelObjectsPending'
    OBVIOUS
  <2> USE DEF DelObjectsPending
  <2>0. /\ data2 \in [Resource -> ResourceStatus \union {"absent"}]
        /\ delObjects \subseteq Resource
    BY DEF TypeOK
  <2>1. CASE Startup
    BY <2>1 DEF Startup, CacheReady, StartReconcileProcess, loopVars
  <2>2. ASSUME NEW c \in Rpc, NEW r \in Resource, CreateGNMIK8sResource(c, r)
        PROVE DelObjectsPending'
    <3>1. r \notin delObjects \ Recreate
      BY <2>2 DEF CreateGNMIK8sResource
    <3> QED
      BY <2>0, <2>2, <3>1 DEF CreateGNMIK8sResource, loopVars
  <2>3. ASSUME NEW c \in Rpc, NEW r \in Resource, DeleteGNMIK8sResource(c, r)
        PROVE DelObjectsPending'
    BY <2>3 DEF DeleteGNMIK8sResource, cacheVars, loopVars
  <2>4. ASSUME NEW c \in Rpc, SetDeletePending(c) PROVE DelObjectsPending'
    BY <2>0, <2>4 DEF SetDeletePending, loopVars
  <2>5. ASSUME NEW c \in Rpc, RaiseNewProviderUpdates(c)
        PROVE DelObjectsPending'
    BY <2>5 DEF RaiseNewProviderUpdates, loopVars
  <2>6. ASSUME Reset PROVE DelObjectsPending'
    BY <2>6 DEF Reset
  <2>7. CASE Tick \/ CollectDone \/ RemoveDone
    BY <2>7 DEF Tick, CollectDone, RemoveDone, StartMerge, cacheVars
  <2>8. ASSUME NEW r \in Resource, Collect(r) PROVE DelObjectsPending'
    BY <2>8 DEF Collect, cacheVars
  <2>9. ASSUME NEW r \in Resource, DeleteResource2(r) PROVE DelObjectsPending'
    BY <2>0, <2>9 DEF DeleteResource2
  <2>10. ASSUME NEW r \in Resource, Merge(r) PROVE DelObjectsPending'
    BY <2>10 DEF Merge, cacheVars
  <2>11. CASE MergeDone \/ SetStatusDone
    BY <2>11 DEF MergeDone, SetStatusDone, cacheVars
  <2>12. ASSUME NEW r \in Resource, SetStatus2(r) PROVE DelObjectsPending'
    BY <2>0, <2>12 DEF SetStatus2
  <2>13. CASE ClearNewProviderUpdates \/ ScanStatus
    BY <2>13 DEF ClearNewProviderUpdates, ScanStatus
  <2>14. CASE DeviceAnswer
    BY <2>14 DEF DeviceAnswer, DeleteGnmiOk, DeleteGnmiErr, UpdateGnmiOk,
                 UpdateGnmiErr, StartMerge, cacheVars
  <2>15. CASE UNCHANGED vars
    BY <2>15 DEF vars, cacheVars, loopVars
  <2>16. CASE OldServiceRequest
    BY <2>16 DEF OldServiceRequest, loopVars
  <2> QED
    BY <2>1, <2>2, <2>3, <2>4, <2>5, <2>6, <2>7, <2>8, <2>9, <2>10, <2>11,
       <2>12, <2>13, <2>14, <2>15, <2>16
       DEF Next, Handler, ReconcileStep, DeletePanic, Restart
<1> QED
  BY <1>1, <1>2, TypeCorrect, PTL DEF Spec

\* A created entry is not removed by the cycle that deletes its predecessor.
THEOREM CreateIsAlwaysKept == Spec => CreateIsKept
<1>1. TypeOK /\ DelObjectsPending /\ [Next]_vars => CreateKept
  <2> SUFFICES ASSUME TypeOK, DelObjectsPending, [Next]_vars,
                      NEW r \in Resource \ Recreate,
                      data2[r] = "CreatePending", ready'
               PROVE  data2'[r] # "absent"
    BY DEF CreateKept
  <2>0. data2 \in [Resource -> ResourceStatus \union {"absent"}]
    BY DEF TypeOK
  <2>1. ASSUME NEW c \in Rpc, NEW s \in Resource, CreateGNMIK8sResource(c, s)
        PROVE data2'[r] # "absent"
    BY <2>0, <2>1 DEF CreateGNMIK8sResource
  <2>2. ASSUME NEW c \in Rpc, SetDeletePending(c)
        PROVE data2'[r] # "absent"
    BY <2>0, <2>2 DEF SetDeletePending
  <2>3. ASSUME NEW s \in Resource, DeleteResource2(s)
        PROVE data2'[r] # "absent"
    \* what is removed was DeletePending
    BY <2>0, <2>3 DEF DeleteResource2, DelObjectsPending, FirstOf
  <2>4. ASSUME NEW s \in Resource, SetStatus2(s)
        PROVE data2'[r] # "absent"
    BY <2>0, <2>4 DEF SetStatus2
  <2>5. ~Reset
    BY DEF Reset
  <2>6. CASE UNCHANGED data2
    BY <2>6
  <2> QED
    BY <2>1, <2>2, <2>3, <2>4, <2>5, <2>6
       DEF Next, Startup, Handler, ReconcileStep, DeviceAnswer, DeletePanic,
           Restart, CacheReady, StartReconcileProcess, DeleteGNMIK8sResource,
           RaiseNewProviderUpdates, OldServiceRequest, Tick, Collect,
           CollectDone, RemoveDone, Merge, MergeDone, SetStatusDone,
           ClearNewProviderUpdates,
           ScanStatus, DeleteGnmiOk, DeleteGnmiErr, UpdateGnmiOk,
           UpdateGnmiErr, vars, cacheVars
<1>2. TypeOK /\ DelObjectsPending /\ [Next]_vars => [CreateKept]_vars
  BY <1>1
<1> QED
  BY <1>2, TypeCorrect, DelObjectsInvariant, PTL
     DEF Spec, CreateIsKept, CreateKept

\* Every step of the handlers and of the goroutine is a step of the lifecycle
\* of the resources, or none.  It takes that a cycle holds what it deletes and
\* what it updates at different times.
THEOREM LoopImplementsLifecycle == Spec => LifeSpec
<1>1. Init => Life!Init
  BY DEF Init, Life!Init, Turn
<1>2. TypeOK /\ TargetInv /\ DelObjectsPending /\ [Next]_vars
        => [Life!Next]_(Life!vars)
  <2> SUFFICES ASSUME TypeOK, TargetInv, DelObjectsPending, [Next]_vars
               PROVE  Life!Next \/ UNCHANGED Life!vars
    OBVIOUS
  <2> USE DEF Life!vars, Turn
  <2>0. /\ data2 \in [Resource -> ResourceStatus \union {"absent"}]
        /\ delObjects \subseteq Resource
        /\ updateObjects \subseteq Resource
        /\ rpc \in [Rpc -> [step : Step, res : Resource \union {NoResource}]]
        /\ \A c \in Rpc : rpc[c].step = "idle" <=> rpc[c].res = NoResource
    BY DEF TypeOK
  <2>1. ASSUME UNCHANGED <<data2, delObjects, updateObjects>>
        PROVE  UNCHANGED Life!vars
    BY <2>1
  <2>2. ASSUME NEW c \in Rpc, NEW r \in Resource, CreateGNMIK8sResource(c, r)
        PROVE  Life!Next
    <3>1. Life!Create(r)
      BY <2>2 DEF CreateGNMIK8sResource, loopVars, Life!Create
    <3> QED
      BY <3>1 DEF Life!Next
  <2>3. ASSUME NEW c \in Rpc, SetDeletePending(c)
        PROVE  Life!Next
    <3>1. rpc[c].res \in Resource
      BY <2>0, <2>3 DEF SetDeletePending
    <3>2. Life!Delete(rpc[c].res)
      BY <2>3 DEF SetDeletePending, loopVars, Life!Delete
    <3> QED
      BY <3>1, <3>2 DEF Life!Next
  <2>4. ASSUME Reset PROVE Life!Next
    BY <2>4 DEF Reset, Life!Next, Life!Restart
  <2>5. ASSUME NEW r \in Resource, Collect(r)
        PROVE  Life!Next \/ UNCHANGED Life!vars
    <3>1. updateObjects = {}
      BY <2>5 DEF Collect, TargetInv, TargetsOnlyInUpdate
    <3>2. CASE data2[r] = "DeletePending"
      <4>1. /\ delObjects' = delObjects \union {r}
            /\ UNCHANGED <<data2, updateObjects>>
        BY <2>5, <3>2 DEF Collect, cacheVars
      <4>2. Life!TakeForDelete(r)
        BY <3>1, <3>2, <4>1 DEF Life!TakeForDelete, Life!TakenFor
      <4> QED
        BY <4>2 DEF Life!Next
    <3>3. CASE data2[r] # "DeletePending"
      BY <2>1, <2>5, <3>3 DEF Collect, cacheVars
    <3> QED
      BY <3>2, <3>3
  <2>6. ASSUME StartMerge, UNCHANGED <<data2, updateObjects>>,
               pc \in {"collect", "deleting", "removing"}
        PROVE  Life!Next
    <3>1. updateObjects = {}
      BY <2>6 DEF TargetInv, TargetsOnlyInUpdate
    <3>2. Life!GiveUpDeletes
      BY <2>6, <3>1 DEF StartMerge, Life!GiveUpDeletes, Life!TakenFor
    <3> QED
      BY <3>2 DEF Life!Next
  <2>7. CASE CollectDone
    BY <2>1, <2>6, <2>7 DEF CollectDone, cacheVars
  <2>8. CASE RemoveDone
    BY <2>6, <2>8 DEF RemoveDone, cacheVars
  <2>9. ASSUME NEW r \in Resource, DeleteResource2(r)
        PROVE  Life!Next
    <3>1. r \in delObjects
      BY <2>9 DEF DeleteResource2, FirstOf
    <3>2. updateObjects = {}
      BY <2>9 DEF DeleteResource2, TargetInv, TargetsOnlyInUpdate
    <3>3. Life!Remove(r)
      BY <2>9, <3>1, <3>2 DEF DeleteResource2, Life!Remove
    <3> QED
      BY <3>3 DEF Life!Next
  <2>10. ASSUME NEW r \in Resource, Merge(r)
         PROVE  Life!Next \/ UNCHANGED Life!vars
    <3>1. delObjects = {}
      BY <2>10 DEF Merge, DelObjectsPending
    <3>2. CASE data2[r] \in {"absent", "DeletePending"}
      BY <2>1, <2>10, <3>2 DEF Merge, cacheVars
    <3>3. CASE data2[r] \notin {"absent", "DeletePending"}
      <4>1. /\ updateObjects' = updateObjects \union {r}
            /\ UNCHANGED <<data2, delObjects>>
        BY <2>10, <3>3 DEF Merge, cacheVars
      <4>2. data2[r] \in {"CreatePending", "Success", "Failed"}
        BY <2>0, <3>3 DEF ResourceStatus
      <4>3. Life!TakeForUpdate(r)
        BY <3>1, <4>1, <4>2 DEF Life!TakeForUpdate, Life!TakenFor
      <4> QED
        BY <4>3 DEF Life!Next
    <3> QED
      BY <3>2, <3>3
  <2>11. ASSUME NEW r \in Resource, SetStatus2(r)
         PROVE  Life!Next
    <3>1. r \in updateObjects
      BY <2>11 DEF SetStatus2, FirstOf
    <3>2. delObjects = {}
      BY <2>11 DEF SetStatus2, DelObjectsPending
    <3>3. Life!Report(r)
      BY <2>11, <3>1, <3>2 DEF SetStatus2, Life!Report
    <3> QED
      BY <3>3 DEF Life!Next
  <2>12. CASE DeviceAnswer
    BY <2>1, <2>6, <2>12 DEF DeviceAnswer, DeleteGnmiOk, DeleteGnmiErr,
           UpdateGnmiOk, UpdateGnmiErr, cacheVars
  <2>13. CASE \/ Startup
              \/ \E c \in Rpc, r \in Resource : DeleteGNMIK8sResource(c, r)
              \/ \E c \in Rpc : RaiseNewProviderUpdates(c)
              \/ OldServiceRequest
              \/ Tick \/ MergeDone \/ SetStatusDone
              \/ ClearNewProviderUpdates \/ ScanStatus
              \/ UNCHANGED vars
    BY <2>1, <2>13
       DEF Startup, CacheReady, StartReconcileProcess, DeleteGNMIK8sResource,
           RaiseNewProviderUpdates, OldServiceRequest, Tick, MergeDone,
           SetStatusDone, ClearNewProviderUpdates, ScanStatus, vars,
           cacheVars, loopVars
  <2> QED
    BY <2>2, <2>3, <2>4, <2>5, <2>7, <2>8, <2>9, <2>10, <2>11, <2>12, <2>13
       DEF Next, Handler, ReconcileStep, DeletePanic, Restart
<1> QED
  BY <1>1, <1>2, TypeCorrect, TargetInvariant, DelObjectsInvariant, PTL
     DEF Spec, LifeSpec, Life!Spec

=============================================================================
