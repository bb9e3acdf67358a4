----------------------------- MODULE ConfigSync -----------------------------
(***************************************************************************)
(* The configuration behind ReconcileLoop: what the resources ask for, the *)
(* driver's copy of the device's configuration (Cache.CurrentConfig) and   *)
(* the device.  Four parties write the copy, none of them excluding the    *)
(* others: the reconcile goroutine, the subscription goroutine             *)
(* (reconcileonchange.go), the handler of provider updates                 *)
(* (gnmiServerSet.go) and the discovery.                                   *)
(*                                                                         *)
(* A configuration tree is a value per leaf; a path is the set of leaves   *)
(* below it.  Every access to one leaf is atomic, while the assignment of  *)
(* a whole tree may fall between the read and the write of another party.  *)
(***************************************************************************)
EXTENDS ReconcileLoop, Sequences

CONSTANTS
  Leaf,         \* leaves of the device's configuration tree
  Value,        \* values of a leaf
  Container,    \* sets of leaves the device reports changes of in one update
  PathOf,       \* the leaves below the RootPath of a resource
  OwnOf,        \* those its Replace updates carry
  UpdateLeaf,   \* leaves providers change by an Update
  OutOfBand,    \* leaves that others change on the device
  MaxNotifs,    \* bound: on-change notifications on their way
  NoVal,        \* no such leaf in the tree, or no such entry
  NoUpdate,     \* a handler that runs no Update
  NoConfig      \* CurrentConfig before the discovery; no mergedData

ASSUME PathOfAssumption == PathOf \in [Resource -> SUBSET Leaf]
ASSUME OwnOfAssumption ==
  /\ OwnOf \in [Resource -> SUBSET Leaf]
  /\ \A r \in Resource : OwnOf[r] \subseteq PathOf[r]
ASSUME ContainerAssumption ==
  /\ Container \subseteq SUBSET Leaf
  /\ UNION Container = Leaf
ASSUME ChangeLeafAssumption ==
  UpdateLeaf \subseteq Leaf /\ OutOfBand \subseteq Leaf
ASSUME MaxNotifsAssumption == MaxNotifs \in Nat \ {0}
ASSUME NoValAssumption == NoVal \notin Value

VARIABLES
  replace,     \* per entry of Data2: the value its Replace asks for
  current,     \* Cache.CurrentConfig
  merged,      \* Reconcile's local mergedData
  device,      \* the configuration of the device
  applied,     \* the device has carried out the reconcile call in flight
  subscribed,  \* the on-change subscription is up
  notifs,      \* its stream: per transaction the leaves that changed
  update,      \* per permit: the Update its handler has sent to the device
  missed       \* auxiliary: leaves whose last change has passed the copy by

configVars == <<replace, current, merged, device, applied, subscribed,
                notifs, update, missed>>
syncVars == <<vars, configVars>>

-----------------------------------------------------------------------------

Config == [Leaf -> Value \union {NoVal}]

Empty == [l \in Leaf |-> NoVal]

Present(cfg) == {l \in Leaf : cfg[l] # NoVal}

\* A tree after a merge of another one into it.
Overlay(top, base) ==
  [l \in Leaf |-> IF top[l] = NoVal THEN base[l] ELSE top[l]]

\* A tree after the removal of some leaves.
Without(cfg, L) == [l \in Leaf |-> IF l \in L THEN NoVal ELSE cfg[l]]

\* A tree after CreateObjectGnmi with the updates of a resource.
WithResource(cfg, r) ==
  [l \in Leaf |-> IF l \in OwnOf[r] THEN replace[r] ELSE cfg[l]]

\* A tree after UpdateObjectGnmi of a leaf: it changes an object of the tree
\* and creates none.
WithUpdate(cfg, l, v) ==
  [cfg EXCEPT ![l] = IF @ = NoVal THEN NoVal ELSE v]

\* What a notification of a change of the device's tree carries.
Difference(old, new) ==
  [l \in {k \in Leaf : old[k] # new[k]} |-> new[l]]

\* The leaves that some notification on its way reports.
Reporting == {l \in Leaf : \E i \in 1..Len(notifs) : l \in DOMAIN notifs[i]}

\* What happens to these leaves passes the copy by, unless more about them is
\* to come.
Misses(L) == missed' = missed \union (L \ Reporting')

\* The device moves to a tree, in one transaction, and tells the subscriber.
\* If there is none, a change of the leaves in unseen passes the copy by.
DeviceBecomes(cfg, unseen) ==
  LET changed == {l \in Leaf : device[l] # cfg[l]}
  IN  /\ device' = cfg
      /\ IF subscribed
           THEN missed' = missed \ changed
           ELSE missed' = missed \union (changed \intersect unseen)
      /\ IF subscribed /\ cfg # device
           THEN /\ Len(notifs) < MaxNotifs
                /\ notifs' = Append(notifs, Difference(device, cfg))
           ELSE notifs' = notifs

\* Others change a leaf.
DeviceLeafBecomes(l, v) == DeviceBecomes([device EXCEPT ![l] = v], Leaf)

\* A call of the loop changes the device.  What it changes the loop knows
\* without the stream, unless that brings an older value still.
DeviceObeys(cfg) == DeviceBecomes(cfg, Reporting)

SyncInit ==
  /\ Init
  /\ replace = [r \in Resource |-> NoVal]
  /\ current = NoConfig
  /\ merged = NoConfig
  /\ device \in [Leaf -> Value \union {NoVal}]
  /\ applied = FALSE
  /\ subscribed = FALSE
  /\ notifs = <<>>
  /\ update = [c \in Rpc |-> NoUpdate]
  /\ missed = {}

-----------------------------------------------------------------------------
(* Plausible mistakes in the actions below.  No specification uses them:   *)
(* they stand in for the action they are named after when the properties   *)
(* are tested (PROJECT.json, "mutants").                                   *)

\* SyncDeleteResource2, leaving what the entry asked for.
RemoveKeepsReplace(r) ==
  /\ DeleteResource2(r)
  /\ current' = Without(current, PathOf[r])
  /\ UNCHANGED <<replace, merged, device, applied, subscribed, notifs, update,
                 missed>>

\* SyncMerge, leaving alone what the copy has already.
MergeKeepsExisting(r) ==
  /\ Merge(r)
  /\ merged' = IF r \in updateObjects'
                 THEN Overlay(merged, WithResource(merged, r))
                 ELSE merged
  /\ UNCHANGED <<replace, current, device, applied, subscribed, notifs, update,
                 missed>>

\* SyncMerge, with the data of new entries only, as the comment at
\* reconcileconfig.go:172 has it.
MergeNewOnly(r) ==
  /\ Merge(r)
  /\ merged' = IF data2[r] = "CreatePending" THEN WithResource(merged, r)
                                             ELSE merged
  /\ UNCHANGED <<replace, current, device, applied, subscribed, notifs, update,
                 missed>>

\* SyncDeleteGnmiErr, the error being logged and the entries removed.
DeleteErrRemoves ==
  /\ DeleteGnmiOk
  /\ applied' = FALSE
  /\ UNCHANGED <<replace, current, merged, device, subscribed, notifs, update,
                 missed>>

\* SyncDeleteResource2, leaving the data in the copy.
RemoveKeepsData(r) ==
  /\ DeleteResource2(r)
  /\ replace' = [replace EXCEPT ![r] = NoVal]
  /\ UNCHANGED <<current, merged, device, applied, subscribed, notifs, update,
                 missed>>

\* OnChangeDelete, the path not being found in the copy.
OnChangeDeleteIgnored(l) ==
  /\ notifs # <<>>
  /\ l \in DOMAIN Head(notifs)
  /\ Head(notifs)[l] = NoVal
  /\ notifs' =
       LET left == DOMAIN Head(notifs) \ {l}
       IN  IF left = {} THEN Tail(notifs)
                        ELSE [notifs EXCEPT ![1] = [k \in left |-> @[k]]]
  /\ UNCHANGED <<vars, replace, current, merged, device, applied, subscribed,
                 update, missed>>

-----------------------------------------------------------------------------
(* Discovery and the two goroutines it starts.                             *)

\* Every attempt of the discovery reads the configuration anew.
GetInitialConfig ==
  /\ ~ready
  /\ current' = device
  /\ missed' = {}
  /\ UNCHANGED <<vars, replace, merged, device, applied, subscribed, notifs,
                 update>>

SyncCacheReady ==
  /\ CacheReady
  /\ current # NoConfig
  /\ UNCHANGED configVars

SyncStartReconcileProcess == StartReconcileProcess /\ UNCHANGED configVars

\* The stream begins with the whole tree, also where gnmic takes it up again
\* after a break: what is present is sent once more, what is gone is not.
StartGnmiSubscriptionHandler ==
  /\ ready
  /\ ~subscribed
  /\ subscribed' = TRUE
  /\ IF Present(device) = {}
       THEN notifs' = notifs
       ELSE /\ Len(notifs) < MaxNotifs
            /\ notifs' = Append(notifs, Difference(Empty, device))
  /\ missed' = missed \ Present(device)
  /\ UNCHANGED <<vars, replace, current, merged, device, applied, update>>

\* The stream fails.  The goroutine logs the error and sleeps; of what was on
\* its way it handles later what had arrived, and the rest is lost.
StreamBreaks ==
  /\ subscribed
  /\ subscribed' = FALSE
  /\ \E n \in 0..Len(notifs) :
       /\ notifs' = SubSeq(notifs, 1, n)
       /\ missed' = missed \union
                      UNION {DOMAIN notifs[i] : i \in (n + 1)..Len(notifs)}
  /\ UNCHANGED <<vars, replace, current, merged, device, applied, update>>

\* No cycle is under way that may write an older copy over the one at hand.
NoCycle == pc \in {"stopped", "wait"}

\* What is left of the response at the head of the stream.
Handled(L) ==
  LET left == DOMAIN Head(notifs) \ L
  IN  notifs' = IF left = {}
                  THEN Tail(notifs)
                  ELSE [notifs EXCEPT ![1] = [l \in left |-> @[l]]]

\* The leaves that an update of the response reports, and those of them that
\* the copy has otherwise.
Reported(K) == K \intersect DOMAIN Head(notifs)

Differing(K) == {l \in Reported(K) : current[l] # Head(notifs)[l]}

\* A container the copy lacks is created as reported.  Otherwise a patch is
\* worked off, in any order, but its first operation makes the path that of
\* its leaf, below which the other operations find nothing to change.
\* (A container whose last leaf was removed may still be there.)
Taken(K) ==
  {{l} : l \in Differing(K)}
    \union (IF Differing(K) = {} \/ Present(current) \intersect K = {}
              THEN {Differing(K)} ELSE {})

WithReported(cfg, L) ==
  [l \in Leaf |-> IF l \in L THEN Head(notifs)[l] ELSE cfg[l]]

\* ReconcileOnChange: first the deletes of a response, leaf by leaf.
OnChangeDelete(l) ==
  /\ notifs # <<>>
  /\ l \in DOMAIN Head(notifs)
  /\ Head(notifs)[l] = NoVal
  /\ current' = Without(current, {l})
  /\ Handled({l})
  /\ Misses(IF NoCycle THEN {} ELSE {l})
  /\ UNCHANGED <<vars, replace, merged, device, applied, subscribed, update>>

DeletesHandled ==
  /\ notifs # <<>>
  /\ \A l \in DOMAIN Head(notifs) : Head(notifs)[l] # NoVal

\* Then its updates, container by container.
OnChangeUpdate(K) ==
  /\ DeletesHandled
  /\ Reported(K) # {}
  /\ Handled(Reported(K))
  /\ \E T \in Taken(K) :
       /\ current' = WithReported(current, T)
       /\ Misses(IF NoCycle THEN Differing(K) \ T ELSE Reported(K))
  /\ UNCHANGED <<vars, replace, merged, device, applied, subscribed, update>>

\* A value that cannot be decoded ends the work on the response: what is left
\* of its updates is dropped.
OnChangeError ==
  /\ DeletesHandled
  /\ Handled(DOMAIN Head(notifs))
  /\ Misses(DOMAIN Head(notifs))
  /\ UNCHANGED <<vars, replace, current, merged, device, applied, subscribed,
                 update>>

-----------------------------------------------------------------------------
(* Set handlers.                                                           *)

SyncCreate(c, r, v) ==
  /\ CreateGNMIK8sResource(c, r)
  /\ update[c] = NoUpdate
  /\ replace' = [replace EXCEPT ![r] = v]
  /\ UNCHANGED <<current, merged, device, applied, subscribed, notifs,
                 update, missed>>

SyncDelete(c, r) ==
  /\ DeleteGNMIK8sResource(c, r)
  /\ update[c] = NoUpdate
  /\ UNCHANGED configVars

SyncOldServiceRequest == OldServiceRequest /\ UNCHANGED configVars

SyncSetDeletePending(c) == SetDeletePending(c) /\ UNCHANGED configVars

SyncRaiseNewProviderUpdates(c) ==
  RaiseNewProviderUpdates(c) /\ UNCHANGED configVars

\* An Update goes straight to the device; v is NoVal for a delete path.
UpdateGNMIK8sResource(c, l, v) ==
  /\ ready
  /\ rpc[c] = Idle
  /\ update[c] = NoUpdate
  /\ update' = [update EXCEPT ![c] = [leaf |-> l, val |-> v, done |-> FALSE]]
  /\ UNCHANGED <<vars, replace, current, merged, device, applied, subscribed,
                 notifs, missed>>

DeviceAppliesSet(c) ==
  /\ update[c] # NoUpdate
  /\ ~update[c].done
  /\ DeviceLeafBecomes(update[c].leaf, update[c].val)
  /\ update' = [update EXCEPT ![c].done = TRUE]
  /\ UNCHANGED <<vars, replace, current, merged, applied, subscribed>>

SetGnmiOk(c) ==
  /\ update[c] # NoUpdate
  /\ update[c].done
  /\ current' = WithUpdate(current, update[c].leaf, update[c].val)
  /\ update' = [update EXCEPT ![c] = NoUpdate]
  /\ UNCHANGED <<vars, replace, merged, device, applied, subscribed, notifs>>
  /\ Misses({update[c].leaf})

\* The call failed; what the device did with it is unknown.
SetGnmiErr(c) ==
  /\ update[c] # NoUpdate
  /\ update' = [update EXCEPT ![c] = NoUpdate]
  /\ UNCHANGED <<vars, replace, current, merged, device, applied, subscribed,
                 notifs, missed>>

-----------------------------------------------------------------------------
(* Cache.Reconcile.                                                        *)

SyncTick == Tick /\ UNCHANGED configVars

SyncCollect(r) == Collect(r) /\ UNCHANGED configVars

\* mergedData starts as a copy of CurrentConfig.
CopyCurrentConfig ==
  /\ merged' = current
  /\ UNCHANGED <<replace, current, device, applied, subscribed, notifs, update,
                 missed>>

SyncCollectDone ==
  /\ CollectDone
  /\ IF pc' = "merge" THEN CopyCurrentConfig ELSE UNCHANGED configVars

DeviceAppliesDelete ==
  /\ pc = "deleting"
  /\ ~applied
  /\ DeviceObeys(Without(device, UNION {PathOf[r] : r \in delObjects}))
  /\ applied' = TRUE
  /\ UNCHANGED <<vars, replace, current, merged, subscribed, update>>

SyncDeleteGnmiOk ==
  /\ DeleteGnmiOk
  /\ applied
  /\ applied' = FALSE
  /\ UNCHANGED <<replace, current, merged, device, subscribed, notifs, update,
                 missed>>

\* The call failed, before or after the device carried it out.
SyncDeleteGnmiErr ==
  /\ DeleteGnmiErr
  /\ applied' = FALSE
  /\ merged' = current
  /\ UNCHANGED <<replace, current, device, subscribed, notifs, update,
                 missed>>

SyncDeleteResource2(r) ==
  /\ DeleteResource2(r)
  /\ current' = Without(current, PathOf[r])
  /\ replace' = [replace EXCEPT ![r] = NoVal]
  /\ UNCHANGED <<merged, device, applied, subscribed, notifs, update,
                 missed>>

SyncRemoveDone == RemoveDone /\ CopyCurrentConfig

SyncMerge(r) ==
  /\ Merge(r)
  /\ merged' = IF r \in updateObjects' THEN WithResource(merged, r)
                                       ELSE merged
  /\ UNCHANGED <<replace, current, device, applied, subscribed, notifs, update,
                 missed>>

SyncMergeDone ==
  /\ MergeDone
  /\ merged' = IF updateObjects = {} THEN NoConfig ELSE merged
  /\ UNCHANGED <<replace, current, device, applied, subscribed, notifs, update,
                 missed>>

\* One update of the root path with the whole of mergedData.
DeviceAppliesUpdate ==
  /\ pc = "updating"
  /\ ~applied
  /\ DeviceObeys(Overlay(merged, device))
  /\ applied' = TRUE
  /\ UNCHANGED <<vars, replace, current, merged, subscribed, update>>

SyncUpdateGnmiOk ==
  /\ UpdateGnmiOk
  /\ applied
  /\ applied' = FALSE
  /\ UNCHANGED <<replace, current, merged, device, subscribed, notifs, update,
                 missed>>

SyncUpdateGnmiErr ==
  /\ UpdateGnmiErr
  /\ applied' = FALSE
  /\ UNCHANGED <<replace, current, merged, device, subscribed, notifs, update,
                 missed>>

SyncSetStatus2(r) == SetStatus2(r) /\ UNCHANGED configVars

\* CurrentConfig becomes mergedData, whether the device took it or not.
SyncSetStatusDone ==
  /\ SetStatusDone
  /\ current' = merged
  /\ merged' = NoConfig
  /\ UNCHANGED <<replace, device, applied, subscribed, notifs, update,
                 missed>>

\* The same, another party having read CurrentConfig before and assigning to it
\* after: with what it has to write, it puts the older tree back.
SetStatusDoneOverwritten ==
  /\ SetStatusDone
  /\ notifs # <<>> \/ \E c \in Rpc : update[c] # NoUpdate /\ update[c].done
  /\ merged' = NoConfig
  /\ UNCHANGED <<replace, current, device, applied, subscribed, notifs,
                 update>>
  /\ Misses(Leaf)

SyncClearNewProviderUpdates ==
  ClearNewProviderUpdates /\ UNCHANGED configVars

SyncScanStatus == ScanStatus /\ UNCHANGED configVars

-----------------------------------------------------------------------------
(* The device outlives the driver, and others configure it as well.        *)

DeviceChange(l, v) ==
  /\ DeviceLeafBecomes(l, v)
  /\ UNCHANGED <<vars, replace, current, merged, applied, subscribed, update>>

SyncReset ==
  /\ replace' = [r \in Resource |-> NoVal]
  /\ current' = NoConfig
  /\ merged' = NoConfig
  /\ applied' = FALSE
  /\ subscribed' = FALSE
  /\ notifs' = <<>>
  /\ update' = [c \in Rpc |-> NoUpdate]
  /\ missed' = {}
  /\ UNCHANGED device

SyncRestart == Restart /\ SyncReset

SyncDeletePanic(c) == DeletePanic(c) /\ SyncReset

-----------------------------------------------------------------------------

SyncStartup ==
  \/ GetInitialConfig
  \/ SyncCacheReady
  \/ SyncStartReconcileProcess
  \/ StartGnmiSubscriptionHandler

SyncHandler(c) ==
  \/ \E r \in Resource, v \in Value : SyncCreate(c, r, v)
  \/ \E r \in Resource : SyncDelete(c, r)
  \/ SyncSetDeletePending(c)
  \/ SyncRaiseNewProviderUpdates(c)
  \/ \E l \in UpdateLeaf, v \in Value \union {NoVal} :
       UpdateGNMIK8sResource(c, l, v)
  \/ DeviceAppliesSet(c)
  \/ SetGnmiOk(c)
  \/ SetGnmiErr(c)
  \/ SyncDeletePanic(c)

SyncReconcileStep ==
  \/ SyncTick
  \/ \E r \in Resource : SyncCollect(r)
  \/ SyncCollectDone
  \/ \E r \in Resource : SyncDeleteResource2(r)
  \/ SyncRemoveDone
  \/ \E r \in Resource : SyncMerge(r)
  \/ SyncMergeDone
  \/ \E r \in Resource : SyncSetStatus2(r)
  \/ SyncSetStatusDone
  \/ SetStatusDoneOverwritten
  \/ SyncClearNewProviderUpdates
  \/ SyncScanStatus

SyncDevice ==
  \/ DeviceAppliesDelete
  \/ SyncDeleteGnmiOk
  \/ SyncDeleteGnmiErr
  \/ DeviceAppliesUpdate
  \/ SyncUpdateGnmiOk
  \/ SyncUpdateGnmiErr

\* What a stream brings that is taken over.
OnChangeTaken ==
  \/ \E l \in Leaf : OnChangeDelete(l)
  \/ \E K \in Container : OnChangeUpdate(K)

OnChange == OnChangeTaken \/ OnChangeError

\* With a stream that never fails, and responses that can be decoded.
SteadyNext ==
  \/ SyncStartup
  \/ \E c \in Rpc : SyncHandler(c)
  \/ SyncReconcileStep
  \/ SyncDevice
  \/ SyncOldServiceRequest
  \/ OnChangeTaken
  \/ \E l \in OutOfBand, v \in Value \union {NoVal} : DeviceChange(l, v)
  \/ SyncRestart

SyncNext ==
  \/ SteadyNext
  \/ OnChangeError
  \/ StreamBreaks

SteadySpec == SyncInit /\ [][SteadyNext]_syncVars

SyncSpec == SyncInit /\ [][SyncNext]_syncVars

\* As in ReconcileLoop; in addition the device carries out what it was sent,
\* gnmic subscribes again after a break, however often there is one, and the
\* subscription goroutine takes what the stream brings.
SyncFairness ==
  /\ WF_syncVars(GetInitialConfig \/ SyncCacheReady
                   \/ SyncStartReconcileProcess)
  /\ WF_syncVars(StartGnmiSubscriptionHandler)
  /\ WF_syncVars(SyncReconcileStep)
  /\ WF_syncVars(SyncDevice)
  /\ SF_syncVars(DeviceAppliesDelete)
  /\ SF_syncVars(SyncDeleteGnmiOk)
  /\ SF_syncVars(DeviceAppliesUpdate)
  /\ SF_syncVars(SyncUpdateGnmiOk)
  /\ WF_syncVars(OnChange)
  /\ \A c \in Rpc :
       /\ WF_syncVars(SyncSetDeletePending(c)
                        \/ SyncRaiseNewProviderUpdates(c))
       /\ WF_syncVars(DeviceAppliesSet(c) \/ SetGnmiOk(c) \/ SetGnmiErr(c))

SyncFairSpec == SyncSpec /\ SyncFairness

-----------------------------------------------------------------------------
(* What holds.                                                             *)

SyncTypeOK ==
  /\ TypeOK
  /\ replace \in [Resource -> Value \union {NoVal}]
  /\ \A r \in Resource : replace[r] = NoVal <=> data2[r] = "absent"
  /\ current \in Config \union {NoConfig}
  /\ ready => current \in Config
  /\ merged \in Config \union {NoConfig}
  /\ pc \in {"merge", "updating", "succeeded", "failed"} => merged \in Config
  /\ device \in Config
  /\ applied \in BOOLEAN
  /\ applied => pc \in {"deleting", "updating"}
  /\ subscribed \in BOOLEAN
  /\ Len(notifs) <= MaxNotifs
  /\ \A i \in 1..Len(notifs) :
       /\ DOMAIN notifs[i] \in (SUBSET Leaf) \ {{}}
       /\ \A l \in DOMAIN notifs[i] : notifs[i][l] \in Value \union {NoVal}
  /\ \A c \in Rpc :
       \/ update[c] = NoUpdate
       \/ /\ rpc[c] = Idle
          /\ update[c] \in [leaf : UpdateLeaf, val : Value \union {NoVal},
                            done : BOOLEAN]
  /\ missed \subseteq Leaf

\* Nothing is under way and nothing waits for the device: no cycle, no
\* handler, no notification, no entry.
Quiet ==
  /\ pc = "wait"
  /\ ~newProviderUpdates
  /\ \A c \in Rpc : rpc[c] = Idle /\ update[c] = NoUpdate
  /\ notifs = <<>>
  /\ \A r \in Resource : data2[r] \in Settled

\* When all is quiet, the driver's copy is the device's configuration,
\* whatever calls failed with or without effect and however late their
\* notifications came: a copy that a failed cycle overwrote
\* (reconcileconfig.go:231) is put right by its retry.  The exceptions, until
\* the device reports them once more, are the leaves
\*  - whose notification was handled while a cycle ran, which may write an
\*    older copy over it, or before the reply to an Update, which writes the
\*    copy once more;
\*  - that a patch of several operations left out
\*    (reconcileonchange.go:124-146), or that were dropped with the rest of a
\*    response after a value that could not be decoded (90-93);
\*  - that a break of the stream lost, or that Updates and others changed
\*    while there was none: a delete is not reported later;
\*  - all of them, after a write-back of a cycle that another party's
\*    assignment undid (SetStatusDoneOverwritten).
MirrorUnlessMissed == Quiet => \A l \in Leaf \ missed : current[l] = device[l]

\* Between two cycles, an entry with status Success has its data on the
\* device, if providers create only what is absent and nobody else writes
\* that data: the status a cycle writes is that of the transaction which
\* carried the entry (reconcileconfig.go:177-178).
SuccessIsOnDevice ==
  pc = "wait" =>
    \A r \in Resource : data2[r] = "Success" =>
      \A l \in OwnOf[r] : device[l] = replace[r]

\* A push has the whole tree, but changes nothing on the device that the copy
\* has followed, save what its entries carry and what lies below an entry that
\* asks for work: data that was deleted or that others changed does not come
\* back with it (reconcileconfig.go:159, 195-213).
PushChangesWhatIsAsked ==
  [][DeviceAppliesUpdate =>
       \A l \in Leaf \ (missed \union Reporting) :
         \/ device'[l] = device[l]
         \/ \E r \in updateObjects : l \in OwnOf[r]
         \/ \E r \in Resource : l \in PathOf[r] /\ data2[r] \notin Settled
    ]_syncVars

\* What the device holds of each resource.
Held == [r \in Resource |-> [l \in OwnOf[r] |-> device[l]]]

Delivery == INSTANCE ResourceDelivery
              WITH up <- ready, status <- data2, turn <- Turn,
                   asked <- replace, held <- Held

\* If providers create only what is absent and nobody else writes what a
\* resource carries, the driver implements the delivery of every resource:
\* what it reports of a transaction is what the device did, also when an
\* answer was lost, an entry goes away after its data, and a push carries all
\* that was successful before (reconcileconfig.go:62-94, 213-240).
DeliverySpec == Delivery!DeliverySpec

\* Once no handler runs any more and the stream stays up, every entry at a
\* level some cycle has looked at ends up gone, or successful with its data on
\* the device, and stays so, although a call of the device is a request, an
\* effect and an answer here, and waits while the stream of notifications is
\* full.  (One that breaks for ever may be full, with the whole tree, at every
\* call.)
QuietDelivers ==
  <>[](\A c \in Rpc : rpc[c] = Idle /\ update[c] = NoUpdate)
  /\ <>[][~SyncOldServiceRequest]_syncVars
  /\ <>[][~StreamBreaks]_syncVars
    => <>[](\A r \in AtLevels(levels) :
              \/ data2[r] = "absent"
              \/ /\ data2[r] = "Success"
                 /\ \A l \in OwnOf[r] : device[l] = replace[r])

-----------------------------------------------------------------------------
(* What the comments say, and the code does not do.                        *)

\* "compare the updates with the cached data and update the currentconfig if
\* there are changes" (reconcileonchange.go:107-108): when all is quiet, the
\* copy is the device's configuration.  A cycle writes back the copy it took
\* before the notification was handled (reconcileconfig.go:159, 231, 242): the
\* stream need not fail for that (SteadySpec).
QuietMirror == Quiet => current = device

\* "only merge the data that is create pending since the other resource
\* should have been" (reconcileconfig.go:172): a push leaves alone the data of
\* entries that were configured before.  It takes the data of all of them
\* once more, as their create gave it, over what an Update changed.
PushLeavesSuccessAlone ==
  [][DeviceAppliesUpdate =>
       \A r \in Resource : data2[r] = "Success" =>
         \A l \in OwnOf[r] : device'[l] = device[l]]_syncVars

=============================================================================
