------------------------ MODULE ConfigDeliveryProofs ------------------------
(* ConfigSync implements ResourceDelivery, for every value of the constants *)
(* under which the resources are their providers' own.                     *)
EXTENDS ConfigSyncProofs

\* What a cycle is about to take from the cache is off the device.
OffInv ==
  (pc = "deleting" /\ applied) \/ pc = "removing" =>
    \A r \in delObjects : \A l \in OwnOf[r] : device[l] = NoVal

DeliveryInv == DelObjectsPending /\ SuccessInv /\ OffInv

\* Nothing is under way to the device in the beginning.
LEMMA OffInitially == SyncInit => OffInv
BY DEF SyncInit, Init, OffInv

\* Handlers and others leave alone what resources carry.
LEMMA OtherLeavesKeepHeld ==
  ASSUME Exclusive, Known, NEW k \in UpdateLeaf \union OutOfBand, NEW v,
         DeviceLeafBecomes(k, v)
  PROVE  \A r \in Resource : \A l \in OwnOf[r] : device'[l] = device[l]
BY DEF Exclusive, DeviceLeafBecomes, DeviceBecomes, Known, Typed, DeviceTyped,
       Config

\* Entries are taken for deletion while nothing is under way to the device.
LEMMA NextKeepsOff ==
  Exclusive /\ Known /\ DeliveryInv /\ [SyncNext]_syncVars => OffInv'
<1> SUFFICES ASSUME Exclusive, Known, DeliveryInv, [SyncNext]_syncVars
             PROVE  OffInv'
  OBVIOUS
<1>0. /\ applied => pc \in {"deleting", "updating"}
      /\ delObjects \subseteq Resource
      /\ pc \notin {"collect", "deleting", "removing"} => delObjects = {}
  BY DEF Known, Typed, DeviceTyped, TypeOK, DeliveryInv, DelObjectsPending
<1> USE DEF OffInv, DeliveryInv
<1>1. CASE SyncStartup
  BY <1>1
  DEF SyncStartup, GetInitialConfig, SyncCacheReady, CacheReady,
      SyncStartReconcileProcess, StartReconcileProcess,
      StartGnmiSubscriptionHandler, configVars, vars, loopVars
<1>2. ASSUME NEW k \in UpdateLeaf \union OutOfBand, NEW v,
             DeviceLeafBecomes(k, v),
             UNCHANGED <<loopVars, applied>>
      PROVE  OffInv'
  BY <1>0, <1>2, OtherLeavesKeepHeld DEF loopVars
<1>3. ASSUME NEW c \in Rpc, SyncHandler(c) PROVE OffInv'
  <2>1. CASE DeviceAppliesSet(c)
    <3>1. update[c].leaf \in UpdateLeaf
      BY <2>1 DEF DeviceAppliesSet, Known, Typed, UpdateTyped, Sent
    <3> QED
      BY <1>2, <2>1, <3>1 DEF DeviceAppliesSet, vars
  <2>2. CASE SyncDeletePanic(c)
    BY <2>2 DEF SyncDeletePanic, DeletePanic, Reset
  <2>3. CASE UNCHANGED <<loopVars, applied, device>>
    BY <2>3 DEF loopVars
  <2> QED
    BY <1>3, <2>1, <2>2, <2>3
    DEF SyncHandler, SyncCreate, CreateGNMIK8sResource, SyncDelete,
        DeleteGNMIK8sResource, SyncSetDeletePending, SetDeletePending,
        SyncRaiseNewProviderUpdates, RaiseNewProviderUpdates,
        UpdateGNMIK8sResource, SetGnmiOk, SetGnmiErr, configVars, vars
<1>4. CASE SyncReconcileStep
  <2>1. ASSUME NEW r \in Resource, SyncDeleteResource2(r) PROVE OffInv'
    BY <2>1 DEF SyncDeleteResource2, DeleteResource2
  <2>2. ASSUME pc' \notin {"deleting", "removing"} PROVE OffInv'
    BY <2>2
  <2>3. CASE SyncCollectDone
    BY <1>0, <2>2, <2>3
    DEF SyncCollectDone, CollectDone, StartMerge, CopyCurrentConfig,
        configVars
  <2> QED
    BY <1>4, <2>1, <2>2, <2>3
    DEF SyncReconcileStep, SyncTick, Tick, SyncCollect, Collect,
        SyncRemoveDone, RemoveDone, StartMerge, SyncMerge, Merge,
        SyncMergeDone, MergeDone, SyncSetStatus2, SetStatus2,
        SyncSetStatusDone, SetStatusDone, SetStatusDoneOverwritten,
        SyncClearNewProviderUpdates, ClearNewProviderUpdates,
        SyncScanStatus, ScanStatus
<1>5. CASE SyncDevice
  <2>1. CASE DeviceAppliesDelete
    <3>1. device' = Without(device, UNION {PathOf[r] : r \in delObjects})
      BY <2>1 DEF DeviceAppliesDelete, DeviceObeys, DeviceBecomes
    <3>2. delObjects' = delObjects
      BY <2>1 DEF DeviceAppliesDelete, vars, loopVars
    <3> QED
      BY <1>0, <3>1, <3>2, OwnOfAssumption, PathOfAssumption DEF Without
  <2>2. CASE SyncDeleteGnmiOk
    BY <2>2 DEF SyncDeleteGnmiOk, DeleteGnmiOk
  <2>3. ASSUME pc' \notin {"deleting", "removing"} PROVE OffInv'
    BY <2>3
  <2> QED
    BY <1>5, <2>1, <2>2, <2>3
    DEF SyncDevice, SyncDeleteGnmiErr, DeleteGnmiErr, StartMerge,
        DeviceAppliesUpdate, SyncUpdateGnmiOk, UpdateGnmiOk,
        SyncUpdateGnmiErr, UpdateGnmiErr, vars, loopVars
<1>6. CASE \/ SyncOldServiceRequest
           \/ OnChange
           \/ StreamBreaks
           \/ UNCHANGED syncVars
  <2>1. UNCHANGED <<loopVars, applied, device>>
    BY <1>6 DEF SyncOldServiceRequest, OldServiceRequest, configVars,
                OnChange, OnChangeTaken, OnChangeDelete, OnChangeUpdate,
                OnChangeError, StreamBreaks, syncVars, vars
  <2> QED
    BY <2>1 DEF loopVars
<1>7. ASSUME NEW l \in OutOfBand, NEW v \in Value \union {NoVal},
             DeviceChange(l, v)
      PROVE  OffInv'
  BY <1>2, <1>7 DEF DeviceChange, vars
<1>8. CASE SyncRestart
  BY <1>8 DEF SyncRestart, Restart, Reset
<1> QED
  BY <1>1, <1>3, <1>4, <1>5, <1>6, <1>7, <1>8
     DEF SyncNext, SteadyNext, OnChange

\* A call has something to send, and a handler works on an entry only while the
\* driver takes requests.
CallInv ==
  /\ pc = "deleting" => delObjects # {}
  /\ pc = "updating" => updateObjects # {}
  /\ \A c \in Rpc : rpc[c].step # "idle" => ready

\* The loop calls the device only with deletes or entries it has collected.
LEMMA CallInvariant == Spec => []CallInv
<1>1. Init => CallInv
  BY DEF Init, CallInv, Idle
<1>2. TypeOK /\ CallInv /\ [Next]_vars => CallInv'
  <2> SUFFICES ASSUME TypeOK, CallInv, [Next]_vars PROVE CallInv'
    OBVIOUS
  <2> USE DEF CallInv
  <2>0. /\ rpc \in [Rpc -> [step : Step, res : Resource \union {NoResource}]]
        /\ ready \in BOOLEAN
    BY DEF TypeOK
  <2>1. CASE Startup
    BY <2>1 DEF Startup, CacheReady, StartReconcileProcess, loopVars
  <2>2. ASSUME NEW c \in Rpc, Handler(c), ~Reset
        PROVE  CallInv'
    <3>1. UNCHANGED <<ready, loopVars>>
      BY <2>2 DEF Handler, CreateGNMIK8sResource, DeleteGNMIK8sResource,
                  SetDeletePending, RaiseNewProviderUpdates, DeletePanic,
                  cacheVars
    <3>2. rpc' = [rpc EXCEPT ![c] = rpc'[c]]
      BY <2>0, <2>2 DEF Handler, CreateGNMIK8sResource, DeleteGNMIK8sResource,
                  SetDeletePending, RaiseNewProviderUpdates, DeletePanic
    <3>3. ready \/ rpc'[c].step = "idle"
      BY <2>0, <2>2 DEF Handler, CreateGNMIK8sResource, DeleteGNMIK8sResource,
                  SetDeletePending, RaiseNewProviderUpdates, DeletePanic
    <3> QED
      BY <2>0, <3>1, <3>2, <3>3 DEF loopVars
  <2>3. CASE Reset
    BY <2>3 DEF Reset, Idle
  <2>4. CASE ReconcileStep
    <3>1. UNCHANGED <<ready, rpc>>
      BY <2>4
      DEF ReconcileStep, Tick, Collect, CollectDone, DeleteResource2,
          RemoveDone, Merge, MergeDone, SetStatus2, SetStatusDone,
          ClearNewProviderUpdates, ScanStatus, cacheVars
    <3>2. /\ pc' = "deleting" => delObjects' # {}
          /\ pc' = "updating" => updateObjects' # {}
      BY <2>4
      DEF ReconcileStep, Tick, Collect, CollectDone, StartMerge,
          DeleteResource2, RemoveDone, Merge, MergeDone, SetStatus2,
          SetStatusDone, ClearNewProviderUpdates, ScanStatus
    <3> QED
      BY <3>1, <3>2
  <2>5. CASE DeviceAnswer
    BY <2>5 DEF DeviceAnswer, DeleteGnmiOk, DeleteGnmiErr, StartMerge,
                UpdateGnmiOk, UpdateGnmiErr, cacheVars
  <2>6. CASE OldServiceRequest \/ UNCHANGED vars
    BY <2>6 DEF OldServiceRequest, vars, cacheVars, loopVars
  <2> QED
    BY <2>1, <2>2, <2>3, <2>4, <2>5, <2>6 DEF Next, Restart
<1> QED
  BY <1>1, <1>2, TypeCorrect, PTL DEF Spec

\* What is taken, while one kind is.
LEMMA TakenIs ==
  ASSUME delObjects \subseteq Resource, updateObjects \subseteq Resource,
         delObjects = {} \/ updateObjects = {}
  PROVE  /\ Delivery!TakenFor("delete") = delObjects
         /\ Delivery!TakenFor("update") = updateObjects
<1>1. \A r \in Resource : /\ Turn[r] = "delete" <=> r \in delObjects
                          /\ Turn[r] = "update" <=> r \in updateObjects
  BY DEF Turn
<1> QED
  BY <1>1 DEF Delivery!TakenFor

\* What resources hold are values of their leaves.
LEMMA HeldIsOK ==
  /\ DeviceTyped => Delivery!HeldOK
  /\ DeviceTyped' => Delivery!HeldOK'
<1>1. \A r \in Resource : OwnOf[r] \subseteq Leaf
  BY OwnOfAssumption, PathOfAssumption DEF DeviceTyped
<1> QED
  BY <1>1 DEF Delivery!HeldOK, Held, DeviceTyped, Config

-----------------------------------------------------------------------------
(* Every step delivers, or is none of the delivery.                        *)

Delivers == Delivery!DeliveryNext \/ UNCHANGED Delivery!deliveryVars

\* What leaves entries and the data of resources alone is no step of the
\* delivery.
LEMMA RestDelivers ==
  ASSUME UNCHANGED <<ready, data2, delObjects, updateObjects, replace, Held>>
  PROVE  Delivers
BY DEF Delivers, Delivery!deliveryVars, Delivery!vars, Turn

\* However the process ends, it is a crash of the delivery.
LEMMA ResetDelivers ==
  ASSUME Reset, SyncReset
  PROVE  Delivers
<1>1. Turn' = [r \in Resource |-> "none"]
  BY DEF Reset, Turn
<1>2. Held' = Held
  BY DEF SyncReset, Held
<1>3. Delivery!Crash
  BY <1>1, <1>2 DEF Reset, SyncReset, Delivery!Crash, Delivery!Restart
<1> QED
  BY <1>3 DEF Delivers, Delivery!DeliveryNext

\* A create asks for something, a delete proceeds; an Update is to leaves no
\* resource carries.
LEMMA HandlerDelivers ==
  ASSUME Exclusive, Known, CallInv, NEW c \in Rpc, SyncHandler(c)
  PROVE  Delivers
<1>0. rpc \in [Rpc -> [step : Step, res : Resource \union {NoResource}]]
      /\ \A d \in Rpc : rpc[d].step = "idle" <=> rpc[d].res = NoResource
  BY DEF Known, TypeOK
<1>1. ASSUME NEW r \in Resource, NEW v \in Value, SyncCreate(c, r, v)
      PROVE  Delivers
  <2>1. UNCHANGED <<ready, Turn, Held>>
    BY <1>1 DEF SyncCreate, CreateGNMIK8sResource, loopVars, Turn, Held
  <2>2. Delivery!AskFor(r, v)
    BY <1>1, <2>1 DEF SyncCreate, CreateGNMIK8sResource, Delivery!AskFor,
                      Delivery!Create
  <2> QED
    BY <2>2 DEF Delivers, Delivery!DeliveryNext
<1>2. CASE SyncSetDeletePending(c)
  <2>1. ready /\ rpc[c].res \in Resource
    BY <1>0, <1>2 DEF SyncSetDeletePending, SetDeletePending, CallInv
  <2>2. UNCHANGED <<ready, Turn, replace, Held>>
    BY <1>2 DEF SyncSetDeletePending, SetDeletePending, loopVars, configVars,
                Turn, Held
  <2>3. Delivery!Delete(rpc[c].res)
    BY <1>2, <2>2 DEF SyncSetDeletePending, SetDeletePending, Delivery!Delete
  <2> QED
    BY <2>1, <2>2, <2>3 DEF Delivers, Delivery!DeliveryNext, Delivery!Proceed
<1>3. CASE DeviceAppliesSet(c)
  <2>1. update[c].leaf \in UpdateLeaf
    BY <1>3 DEF DeviceAppliesSet, Known, Typed, UpdateTyped, Sent
  <2>2. \A r \in Resource : \A l \in OwnOf[r] : device'[l] = device[l]
    BY <1>3, <2>1, OtherLeavesKeepHeld DEF DeviceAppliesSet
  <2>3. Held' = Held
    BY <2>2 DEF Held
  <2> QED
    BY <1>3, <2>3, RestDelivers DEF DeviceAppliesSet, vars, cacheVars, loopVars
<1>4. CASE SyncDeletePanic(c)
  BY <1>4, ResetDelivers DEF SyncDeletePanic, DeletePanic
<1>5. CASE \/ \E r \in Resource : SyncDelete(c, r)
           \/ SyncRaiseNewProviderUpdates(c)
           \/ \E l \in UpdateLeaf, v \in Value \union {NoVal} :
                UpdateGNMIK8sResource(c, l, v)
           \/ SetGnmiOk(c)
           \/ SetGnmiErr(c)
  <2>1. UNCHANGED <<ready, data2, delObjects, updateObjects, replace, device>>
    BY <1>5
    DEF SyncDelete, DeleteGNMIK8sResource, SyncRaiseNewProviderUpdates,
        RaiseNewProviderUpdates, UpdateGNMIK8sResource, SetGnmiOk, SetGnmiErr,
        configVars, vars, cacheVars, loopVars
  <2> QED
    BY <2>1, RestDelivers DEF Held
<1> QED
  BY <1>1, <1>2, <1>3, <1>4, <1>5 DEF SyncHandler

\* The deletes of a cycle are over.
LEMMA StartMergeDelivers ==
  ASSUME Known, DeliveryInv, StartMerge,
         pc \in {"collect", "deleting", "removing"},
         UNCHANGED <<cacheVars, updateObjects, replace, device>>
  PROVE  Delivers
<1>0. /\ delObjects \subseteq Resource /\ updateObjects = {}
      /\ ready
  BY DEF Known, TypeOK, TargetInv, TargetsOnlyInUpdate, Typed
<1>1. Delivery!TakenFor("update") = {}
  BY <1>0, TakenIs
<1>2. Turn' = [r \in Resource |-> "none"] /\ Held' = Held
  BY <1>0 DEF StartMerge, Turn, Held
<1>3. Delivery!GiveUpDeletes
  BY <1>1, <1>2 DEF Delivery!GiveUpDeletes, cacheVars
<1> QED
  BY <1>0, <1>2, <1>3
  DEF Delivers, Delivery!DeliveryNext, Delivery!Proceed, cacheVars

\* The goroutine takes, removes and reports; what it removes is off the device,
\* and what it reports as successful is on it.
LEMMA ReconcileDelivers ==
  ASSUME Known, DeliveryInv, SyncReconcileStep
  PROVE  Delivers
<1>0. /\ data2 \in [Resource -> ResourceStatus \union {"absent"}]
      /\ delObjects \subseteq Resource
      /\ updateObjects \subseteq Resource
      /\ pc # "stopped" => ready
      /\ pc \notin {"merge", "updating", "succeeded", "failed"}
           => updateObjects = {}
      /\ pc \notin {"collect", "deleting", "removing"} => delObjects = {}
      /\ pc # "stopped"
  <2>1. pc # "stopped"
    BY DEF SyncReconcileStep, SyncTick, Tick, SyncCollect, Collect,
           SyncCollectDone, CollectDone, SyncDeleteResource2, DeleteResource2,
           SyncRemoveDone, RemoveDone, SyncMerge, Merge, SyncMergeDone,
           MergeDone, SyncSetStatus2, SetStatus2, SyncSetStatusDone,
           SetStatusDone, SetStatusDoneOverwritten,
           SyncClearNewProviderUpdates, ClearNewProviderUpdates,
           SyncScanStatus, ScanStatus
  <2> QED
    BY <2>1 DEF Known, TypeOK, TargetInv, TargetsOnlyInUpdate, Typed,
                DeliveryInv, DelObjectsPending
<1>1. ASSUME NEW r \in Resource, SyncCollect(r) PROVE Delivers
  <2> USE <1>1 DEF SyncCollect, Collect
  <2>1. UNCHANGED <<ready, data2, updateObjects, replace, Held>>
    BY DEF cacheVars, configVars, Held
  <2>2. CASE data2[r] = "DeletePending"
    <3>1. Delivery!TakenFor("update") = {}
      BY <1>0, TakenIs
    <3>2. Turn' = [Turn EXCEPT ![r] = "delete"]
      BY <1>0, <2>1, <2>2 DEF Turn
    <3>3. Delivery!TakeForDelete(r)
      BY <2>1, <2>2, <3>1, <3>2 DEF Delivery!TakeForDelete
    <3> QED
      BY <1>0, <2>1, <3>3
      DEF Delivers, Delivery!DeliveryNext, Delivery!Proceed
  <2>3. CASE data2[r] # "DeletePending"
    BY <2>1, <2>3, RestDelivers
  <2> QED
    BY <2>2, <2>3
<1>2. CASE SyncCollectDone
  <2>1. CASE StartMerge
    BY <1>2, <2>1, StartMergeDelivers
    DEF SyncCollectDone, CollectDone, CopyCurrentConfig, configVars
  <2>2. CASE UNCHANGED delObjects
    BY <1>2, <2>2, RestDelivers
    DEF SyncCollectDone, CollectDone, CopyCurrentConfig, configVars,
        cacheVars, Held
  <2> QED
    BY <1>2, <2>1, <2>2 DEF SyncCollectDone, CollectDone
<1>3. ASSUME NEW r \in Resource, SyncDeleteResource2(r) PROVE Delivers
  <2> USE <1>3 DEF SyncDeleteResource2, DeleteResource2
  <2>1. r \in delObjects /\ updateObjects = {}
    BY <1>0 DEF FirstOf
  <2>2. Turn[r] = "delete" /\ Turn' = [Turn EXCEPT ![r] = "none"]
    BY <1>0, <2>1 DEF Turn
  <2>3. Held' = Held /\ Held[r] = Delivery!Nothing(r)
    BY <2>1 DEF Held, Delivery!Nothing, DeliveryInv, OffInv
  <2>4. Delivery!Gone(r)
    BY <1>0, <2>2, <2>3 DEF Delivery!Gone, Delivery!Remove
  <2> QED
    BY <2>4 DEF Delivers, Delivery!DeliveryNext
<1>4. CASE SyncRemoveDone
  BY <1>4, StartMergeDelivers DEF SyncRemoveDone, RemoveDone,
                                  CopyCurrentConfig
<1>5. ASSUME NEW r \in Resource, SyncMerge(r) PROVE Delivers
  <2> USE <1>5 DEF SyncMerge, Merge
  <2>1. UNCHANGED <<ready, data2, delObjects, replace, Held>>
    BY DEF cacheVars, Held
  <2>2. CASE data2[r] \in {"absent", "DeletePending"}
    BY <2>1, <2>2, RestDelivers
  <2>3. CASE data2[r] \in {"CreatePending", "Success", "Failed"}
    <3>1. Delivery!TakenFor("delete") = {}
      BY <1>0, TakenIs
    <3>2. Turn' = [Turn EXCEPT ![r] = "update"]
      BY <1>0, <2>1, <2>3 DEF Turn
    <3>3. Delivery!TakeForUpdate(r)
      BY <2>1, <2>3, <3>1, <3>2 DEF Delivery!TakeForUpdate
    <3> QED
      BY <1>0, <2>1, <3>3
      DEF Delivers, Delivery!DeliveryNext, Delivery!Proceed
  <2> QED
    BY <1>0, <2>2, <2>3 DEF ResourceStatus
<1>6. ASSUME NEW r \in Resource, SyncSetStatus2(r) PROVE Delivers
  <2> USE <1>6 DEF SyncSetStatus2, SetStatus2
  <2>1. r \in updateObjects /\ delObjects = {}
    BY <1>0 DEF FirstOf
  <2>2. Turn[r] = "update" /\ Turn' = [Turn EXCEPT ![r] = "none"]
    BY <1>0, <2>1 DEF Turn
  <2>3. UNCHANGED <<ready, replace, Held>>
    BY DEF configVars, Held
  <2>4. Delivery!Report(r)
    BY <1>0, <2>2 DEF Delivery!Report
  <2>5. ASSUME data2'[r] = "Success"
        PROVE  Held[r] = Delivery!AsAsked(r)
    <3>1. pc = "succeeded"
      BY <1>0, <2>5
    <3>2. Delivered(r)
      BY <2>1, <3>1 DEF DeliveryInv, SuccessInv, CycleInv
    <3> QED
      BY <3>2 DEF Delivered, Held, Delivery!AsAsked
  <2>6. Delivery!Reported(r)
    BY <1>0, <2>3, <2>4, <2>5 DEF Delivery!Reported
  <2> QED
    BY <2>6 DEF Delivers, Delivery!DeliveryNext
<1>7. CASE \/ SyncTick \/ SyncMergeDone
           \/ SyncSetStatusDone \/ SetStatusDoneOverwritten
           \/ SyncClearNewProviderUpdates \/ SyncScanStatus
  <2>1. UNCHANGED <<ready, data2, delObjects, updateObjects, replace, device>>
    BY <1>7
    DEF SyncTick, Tick, SyncMergeDone, MergeDone, SyncSetStatusDone,
        SetStatusDone, SetStatusDoneOverwritten, SyncClearNewProviderUpdates,
        ClearNewProviderUpdates, SyncScanStatus, ScanStatus, configVars,
        cacheVars
  <2> QED
    BY <2>1, RestDelivers DEF Held
<1> QED
  BY <1>1, <1>2, <1>3, <1>4, <1>5, <1>6, <1>7 DEF SyncReconcileStep

\* The device deletes all that was taken, or gets all that was taken and all
\* that was successful.
LEMMA DeviceDelivers ==
  ASSUME Known, DeviceTyped', DeliveryInv, CallInv, SyncDevice
  PROVE  Delivers
<1>0. /\ delObjects \subseteq Resource
      /\ updateObjects \subseteq Resource
      /\ pc # "stopped" => ready
      /\ pc \notin {"merge", "updating", "succeeded", "failed"}
           => updateObjects = {}
      /\ pc \notin {"collect", "deleting", "removing"} => delObjects = {}
      /\ \A r \in Resource : OwnOf[r] \subseteq Leaf
  BY OwnOfAssumption, PathOfAssumption
  DEF Known, TypeOK, TargetInv, TargetsOnlyInUpdate, Typed, DeliveryInv,
      DelObjectsPending
<1>1. CASE DeviceAppliesDelete
  <2> USE <1>1 DEF DeviceAppliesDelete
  <2>1. device' = Without(device, UNION {PathOf[r] : r \in delObjects})
    BY DEF DeviceObeys, DeviceBecomes
  <2>2. UNCHANGED <<ready, data2, delObjects, updateObjects, replace, Turn>>
    BY DEF vars, cacheVars, loopVars, Turn
  <2>3. /\ Delivery!TakenFor("delete") = delObjects
        /\ Delivery!TakenFor("update") = {}
        /\ delObjects # {}
        /\ ready
    BY <1>0, TakenIs DEF CallInv
  <2>4. \A r \in delObjects : Held'[r] = Delivery!Nothing(r)
    <3>1. \A r \in delObjects : \A l \in OwnOf[r] : device'[l] = NoVal
      BY <1>0, <2>1, OwnOfAssumption DEF Without
    <3> QED
      BY <1>0, <3>1 DEF Held, Delivery!Nothing
  <2>5. \A r \in Resource : \A l \in OwnOf[r] :
          Held'[r][l] \in {Held[r][l], NoVal}
    <3>1. \A l \in Leaf : device'[l] \in {device[l], NoVal}
      BY <2>1 DEF Without
    <3> QED
      BY <1>0, <3>1 DEF Held
  <2>6. Delivery!DeleteOnDevice
    BY <2>2, <2>3, <2>4, <2>5, HeldIsOK
    DEF Delivery!DeleteOnDevice, Delivery!vars
  <2> QED
    BY <2>6 DEF Delivers, Delivery!DeliveryNext
<1>2. CASE DeviceAppliesUpdate
  <2> USE <1>2 DEF DeviceAppliesUpdate
  <2>1. device' = Overlay(merged, device)
    BY DEF DeviceObeys, DeviceBecomes
  <2>2. UNCHANGED <<ready, data2, delObjects, updateObjects, replace, Turn>>
    BY DEF vars, cacheVars, loopVars, Turn
  <2>3. /\ Delivery!TakenFor("update") = updateObjects
        /\ Delivery!TakenFor("delete") = {}
        /\ updateObjects # {}
        /\ ready
    BY <1>0, TakenIs DEF CallInv
  <2>4. \A r \in Resource : data2[r] = "Success" => Turn[r] = "update"
    BY <1>0 DEF DeliveryInv, SuccessInv, CycleInv, Successful, Turn
  <2>5. \A r \in updateObjects : Held'[r] = Delivery!AsAsked(r)
    <3> SUFFICES ASSUME NEW r \in updateObjects
                 PROVE  \A l \in OwnOf[r] : device'[l] = replace[r]
      BY <1>0, <2>2 DEF Held, Delivery!AsAsked
    <3>1. replace[r] # NoVal
      BY <1>0 DEF Known, Typed, EntryTyped, TargetInv, StatusTargetsExist
    <3>2. \A l \in OwnOf[r] : merged[l] = replace[r]
      BY DEF DeliveryInv, SuccessInv, CycleInv
    <3> QED
      BY <1>0, <2>1, <3>1, <3>2 DEF Overlay
  <2>6. Delivery!UpdateOnDevice
    BY <2>2, <2>3, <2>4, <2>5, HeldIsOK
    DEF Delivery!UpdateOnDevice, Delivery!vars
  <2> QED
    BY <2>6 DEF Delivers, Delivery!DeliveryNext
<1>3. CASE SyncDeleteGnmiErr
  BY <1>3, StartMergeDelivers DEF SyncDeleteGnmiErr, DeleteGnmiErr
<1>4. CASE SyncDeleteGnmiOk \/ SyncUpdateGnmiOk \/ SyncUpdateGnmiErr
  <2>1. UNCHANGED <<ready, data2, delObjects, updateObjects, replace, device>>
    BY <1>4
    DEF SyncDeleteGnmiOk, DeleteGnmiOk, SyncUpdateGnmiOk, UpdateGnmiOk,
        SyncUpdateGnmiErr, UpdateGnmiErr, cacheVars
  <2> QED
    BY <2>1, RestDelivers DEF Held
<1> QED
  BY <1>1, <1>2, <1>3, <1>4 DEF SyncDevice

\* Every step of the driver and its surroundings delivers, or does nothing to
\* it.
LEMMA NextDelivers ==
  ASSUME Exclusive, Known, DeviceTyped', DeliveryInv, CallInv,
         [SyncNext]_syncVars
  PROVE  Delivers
<1>1. CASE SyncCacheReady
  <2>1. Delivery!Start
    BY <1>1 DEF SyncCacheReady, CacheReady, loopVars, configVars,
                Delivery!Start, Delivery!vars, Turn, Held
  <2> QED
    BY <2>1 DEF Delivers, Delivery!DeliveryNext
<1>2. CASE \/ GetInitialConfig
           \/ SyncStartReconcileProcess
           \/ StartGnmiSubscriptionHandler
           \/ SyncOldServiceRequest
           \/ OnChange
           \/ StreamBreaks
           \/ UNCHANGED syncVars
  <2>1. UNCHANGED <<ready, data2, delObjects, updateObjects, replace, device>>
    BY <1>2
    DEF GetInitialConfig, SyncStartReconcileProcess, StartReconcileProcess,
        StartGnmiSubscriptionHandler, SyncOldServiceRequest,
        OldServiceRequest, OnChange, OnChangeTaken, OnChangeDelete,
        OnChangeUpdate, OnChangeError, StreamBreaks, syncVars, configVars,
        vars, cacheVars, loopVars
  <2> QED
    BY <2>1, RestDelivers DEF Held
<1>3. ASSUME NEW l \in OutOfBand, NEW v \in Value \union {NoVal},
             DeviceChange(l, v)
      PROVE  Delivers
  <2>1. \A r \in Resource : \A k \in OwnOf[r] : device'[k] = device[k]
    BY <1>3, OtherLeavesKeepHeld DEF DeviceChange
  <2>2. Held' = Held
    BY <2>1 DEF Held
  <2> QED
    BY <1>3, <2>2, RestDelivers DEF DeviceChange, vars, cacheVars, loopVars
<1>4. CASE SyncRestart
  BY <1>4, ResetDelivers DEF SyncRestart, Restart
<1> QED
  BY <1>1, <1>2, <1>3, <1>4, HandlerDelivers, ReconcileDelivers,
     DeviceDelivers DEF SyncNext, SteadyNext, OnChange, SyncStartup

-----------------------------------------------------------------------------
(* The result.                                                             *)

\* The three invariants the mapping of the steps needs.
LEMMA DeliveryInvariant ==
  ASSUME Exclusive
  PROVE  SyncSpec => []DeliveryInv
<1>1. SyncInit => SuccessInv /\ OffInv
  BY OffInitially
  DEF SyncInit, Init, SuccessInv, LevelInv, CycleInv, Successful, AtLevels
<1>2. SyncSpec => []TypeOK /\ []TargetInv /\ []DelObjectsPending
  BY SyncImplementsLoop, TypeCorrect, TargetInvariant, DelObjectsInvariant,
     PTL
<1>3. /\ TypeOK /\ Typed /\ TargetInv /\ DelObjectsPending
      /\ SuccessInv /\ OffInv /\ [SyncNext]_syncVars
      => SuccessInv' /\ OffInv'
  BY NextKeepsSuccess, NextKeepsOff DEF Known, DeliveryInv
<1> QED
  BY <1>1, <1>2, <1>3, InitTyped, NextKeepsTyped, PTL
  DEF SyncSpec, DeliveryInv

\* The driver delivers what its providers ask for: every step of its
\* goroutines, of the handlers and of the device is a step of the delivery or
\* none of it, whatever resources, levels, paths and values there are, as long
\* as providers create only what is absent and nobody else writes what a
\* resource carries.
THEOREM SyncImplementsDelivery ==
  ASSUME Exclusive
  PROVE  SyncSpec => DeliverySpec
<1>1. SyncInit => Delivery!DeliveryInit
  <2> SUFFICES ASSUME SyncInit PROVE Delivery!DeliveryInit
    OBVIOUS
  <2>1. DeviceTyped
    BY InitTyped DEF Typed
  <2> QED
    BY <2>1, HeldIsOK
    DEF SyncInit, Init, Delivery!DeliveryInit, Delivery!Init, Turn
<1>2. SyncSpec => []TypeOK /\ []TargetInv /\ []CallInv
  BY SyncImplementsLoop, TypeCorrect, TargetInvariant, CallInvariant, PTL
<1>3. /\ TypeOK /\ Typed /\ Typed' /\ TargetInv /\ DeliveryInv /\ CallInv
      /\ [SyncNext]_syncVars
      => [Delivery!DeliveryNext]_(Delivery!deliveryVars)
  BY NextDelivers DEF Known, Typed, Delivers
<1> QED
  BY <1>1, <1>2, <1>3, DeliveryInvariant, InitTyped, NextKeepsTyped, PTL
  DEF SyncSpec, DeliverySpec, Delivery!DeliverySpec

=============================================================================
