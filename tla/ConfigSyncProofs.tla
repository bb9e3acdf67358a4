-------------------------- MODULE ConfigSyncProofs --------------------------
(* The types of ConfigSync and what a status Success says, for every value *)
(* of the constants.  What is proved of ReconcileLoop holds here as well.  *)
EXTENDS ConfigSync, ReconcileLoopProofs

\* The configuration data only restricts when the cache and the goroutine take
\* their steps, by the way the actions are written: every step of ConfigSync is
\* a step of ReconcileLoop or leaves its variables alone.
LEMMA SyncImplementsLoop == SyncSpec => Spec
<1>1. SyncInit => Init
  BY DEF SyncInit
<1>2. [SyncNext]_syncVars => [Next]_vars
  <2> SUFFICES ASSUME [SyncNext]_syncVars PROVE [Next]_vars
    OBVIOUS
  <2>1. CASE SyncStartup
    BY <2>1 DEF SyncStartup, GetInitialConfig, SyncCacheReady,
                SyncStartReconcileProcess, StartGnmiSubscriptionHandler,
                Next, Startup
  <2>2. ASSUME NEW c \in Rpc, SyncHandler(c) PROVE [Next]_vars
    <3>1. Handler(c) \/ UNCHANGED vars
      BY <2>2 DEF SyncHandler, SyncCreate, SyncDelete, SyncSetDeletePending,
                  SyncRaiseNewProviderUpdates, UpdateGNMIK8sResource,
                  DeviceAppliesSet, SetGnmiOk, SetGnmiErr, SyncDeletePanic,
                  Handler
    <3> QED
      BY <3>1 DEF Next
  <2>3. CASE SyncReconcileStep
    <3>1. ReconcileStep
      BY <2>3 DEF SyncReconcileStep, SyncTick, SyncCollect, SyncCollectDone,
                  SyncDeleteResource2, SyncRemoveDone, SyncMerge,
                  SyncMergeDone, SyncSetStatus2, SyncSetStatusDone,
                  SetStatusDoneOverwritten,
                  SyncClearNewProviderUpdates, SyncScanStatus, ReconcileStep
    <3> QED
      BY <3>1 DEF Next
  <2>4. CASE SyncDevice
    <3>1. DeviceAnswer \/ UNCHANGED vars
      BY <2>4 DEF SyncDevice, DeviceAppliesDelete, SyncDeleteGnmiOk,
                  SyncDeleteGnmiErr, DeviceAppliesUpdate, SyncUpdateGnmiOk,
                  SyncUpdateGnmiErr, DeviceAnswer
    <3> QED
      BY <3>1 DEF Next
  <2>5. CASE OnChange
    BY <2>5 DEF OnChange, OnChangeTaken, OnChangeDelete, OnChangeUpdate,
                OnChangeError
  <2>6. ASSUME NEW l \in OutOfBand, NEW v \in Value \union {NoVal},
               DeviceChange(l, v)
        PROVE [Next]_vars
    BY <2>6 DEF DeviceChange
  <2>7. CASE SyncRestart
    BY <2>7 DEF SyncRestart, Next
  <2>8. CASE UNCHANGED syncVars
    BY <2>8 DEF syncVars
  <2>9. CASE SyncOldServiceRequest
    BY <2>9 DEF SyncOldServiceRequest, Next
  <2>10. CASE StreamBreaks
    BY <2>10 DEF StreamBreaks
  <2> QED
    BY <2>1, <2>2, <2>3, <2>4, <2>5, <2>6, <2>7, <2>8, <2>9, <2>10
    DEF SyncNext, SteadyNext, OnChange
<1> QED
  BY <1>1, <1>2, PTL DEF SyncSpec, Spec

-----------------------------------------------------------------------------
(* Types.  Those of the loop come from ReconcileLoopProofs, before and      *)
(* after each step.                                                        *)

OptValue == Value \union {NoVal}

Notification == UNION {[L -> OptValue] : L \in (SUBSET Leaf) \ {{}}}

Sent == [leaf : UpdateLeaf, val : OptValue, done : BOOLEAN]

EntryTyped ==
  /\ replace \in [Resource -> OptValue]
  /\ \A r \in Resource : replace[r] = NoVal <=> data2[r] = "absent"

CopyTyped ==
  /\ current \in Config \union {NoConfig}
  /\ ready => current \in Config
  /\ merged \in Config \union {NoConfig}
  /\ pc \in {"merge", "updating", "succeeded", "failed"} => merged \in Config
  /\ missed \subseteq Leaf

DeviceTyped ==
  /\ device \in Config
  /\ applied \in BOOLEAN
  /\ applied => pc \in {"deleting", "updating"}

\* Nothing is on its way from the device before the cache is ready.
StreamTyped ==
  /\ subscribed \in BOOLEAN
  /\ notifs \in Seq(Notification)
  /\ Len(notifs) <= MaxNotifs
  /\ subscribed \/ notifs # <<>> => ready

UpdateTyped ==
  /\ update \in [Rpc -> Sent \union {NoUpdate}]
  /\ \A c \in Rpc : update[c] # NoUpdate => rpc[c] = Idle /\ ready

Typed ==
  /\ pc # "stopped" => ready
  /\ EntryTyped
  /\ CopyTyped
  /\ DeviceTyped
  /\ StreamTyped
  /\ UpdateTyped

\* What a notification is, from outside.
LEMMA NotificationDomain ==
  ASSUME NEW n \in Notification
  PROVE  /\ DOMAIN n \in (SUBSET Leaf) \ {{}}
         /\ n \in [DOMAIN n -> OptValue]
BY DEF Notification

\* The operators on trees make trees.
LEMMA TreesAreTrees ==
  ASSUME NEW cfg \in Config
  PROVE  /\ \A L : Without(cfg, L) \in Config
         /\ \A top \in Config : Overlay(top, cfg) \in Config
         /\ \A l, v : v \in OptValue => WithUpdate(cfg, l, v) \in Config
         /\ \A l, v : v \in OptValue => [cfg EXCEPT ![l] = v] \in Config
         /\ EntryTyped => \A r \in Resource : WithResource(cfg, r) \in Config
<1> USE DEF Config, OptValue
<1>1. \A L : Without(cfg, L) \in Config
  BY DEF Without
<1>2. \A top \in Config : Overlay(top, cfg) \in Config
  BY DEF Overlay
<1>3. \A l, v : v \in OptValue => WithUpdate(cfg, l, v) \in Config
  BY DEF WithUpdate
<1>4. \A l, v : v \in OptValue => [cfg EXCEPT ![l] = v] \in Config
  OBVIOUS
<1>5. EntryTyped => \A r \in Resource : WithResource(cfg, r) \in Config
  BY DEF WithResource, EntryTyped
<1> QED
  BY <1>1, <1>2, <1>3, <1>4, <1>5

\* Whatever the device moves to, the stream carries what changed.
LEMMA DeviceKeepsStream ==
  ASSUME DeviceTyped, StreamTyped, missed \subseteq Leaf,
         NEW cfg \in Config, NEW unseen, DeviceBecomes(cfg, unseen),
         UNCHANGED <<subscribed, ready>>
  PROVE  device' \in Config /\ StreamTyped' /\ missed' \subseteq Leaf
<1>1. device' \in Config /\ missed' \subseteq Leaf
  BY DEF DeviceBecomes
<1>2. CASE subscribed /\ cfg # device
  <2>1. Difference(device, cfg) \in Notification
    <3> DEFINE changed == {k \in Leaf : device[k] # cfg[k]}
    <3>1. changed # {}
      BY <1>2 DEF DeviceTyped, Config
    <3>2. Difference(device, cfg) \in [changed -> OptValue]
      BY DEF Difference, Config, OptValue
    <3> QED
      BY <3>1, <3>2 DEF Notification
  <2>2. notifs' = Append(notifs, Difference(device, cfg))
        /\ Len(notifs) < MaxNotifs
    BY <1>2 DEF DeviceBecomes
  <2>3. notifs' \in Seq(Notification) /\ Len(notifs') = Len(notifs) + 1
    BY <2>1, <2>2 DEF StreamTyped
  <2>4. Len(notifs') <= MaxNotifs
    BY <2>2, <2>3, MaxNotifsAssumption DEF StreamTyped
  <2> QED
    BY <1>1, <1>2, <2>3, <2>4 DEF StreamTyped
<1>3. CASE ~(subscribed /\ cfg # device)
  BY <1>3 DEF DeviceBecomes, StreamTyped
<1> QED
  BY <1>1, <1>2, <1>3

\* What is handled leaves the stream, and the rest stays a notification.
LEMMA HandlingKeepsStream ==
  ASSUME StreamTyped, notifs # <<>>, NEW L, Handled(L),
         UNCHANGED <<subscribed, ready>>
  PROVE  StreamTyped'
<1>1. /\ Len(notifs) \in Nat \ {0}
      /\ Head(notifs) = notifs[1]
      /\ notifs[1] \in Notification
  BY DEF StreamTyped
<1> DEFINE left == DOMAIN Head(notifs) \ L
<1>2. CASE left = {}
  <2>1. notifs' = Tail(notifs)
    BY <1>2 DEF Handled
  <2>2. notifs' \in Seq(Notification) /\ Len(notifs') = Len(notifs) - 1
    BY <1>1, <2>1 DEF StreamTyped
  <2> QED
    BY <1>1, <2>2, MaxNotifsAssumption DEF StreamTyped
<1>3. CASE left # {}
  <2>1. notifs' = [notifs EXCEPT ![1] = [l \in left |-> notifs[1][l]]]
    BY <1>1, <1>3 DEF Handled
  <2>2. [l \in left |-> notifs[1][l]] \in Notification
    <3>1. /\ left \in (SUBSET Leaf) \ {{}}
          /\ \A l \in left : notifs[1][l] \in OptValue
      BY <1>1, <1>3, NotificationDomain
    <3>2. [l \in left |-> notifs[1][l]] \in [left -> OptValue]
      BY <3>1
    <3> QED
      BY <3>1, <3>2 DEF Notification
  <2>3. notifs' \in Seq(Notification) /\ Len(notifs') = Len(notifs)
    BY <1>1, <2>1, <2>2 DEF StreamTyped
  <2> QED
    BY <2>3 DEF StreamTyped
<1> QED
  BY <1>2, <1>3

LEMMA InitTyped == SyncInit => Typed
<1> SUFFICES ASSUME SyncInit PROVE Typed
  OBVIOUS
<1>1. EntryTyped /\ CopyTyped /\ DeviceTyped /\ UpdateTyped
  BY DEF SyncInit, Init, EntryTyped, CopyTyped, DeviceTyped, UpdateTyped,
         OptValue, Config
<1>2. StreamTyped
  <2>1. notifs = <<>> /\ notifs \in Seq(Notification) /\ Len(notifs) = 0
    BY DEF SyncInit
  <2>2. subscribed = FALSE
    BY DEF SyncInit
  <2>3. Len(notifs) <= MaxNotifs
    BY <2>1, MaxNotifsAssumption
  <2> QED
    BY <2>1, <2>2, <2>3, Zenon DEF StreamTyped
<1> QED
  BY <1>1, <1>2 DEF Typed, SyncInit, Init

LEMMA StartupKeepsTyped ==
  ASSUME Typed, SyncStartup
  PROVE  Typed'
<1> USE DEF Typed, EntryTyped, CopyTyped, DeviceTyped, UpdateTyped, StreamTyped
<1>1. CASE GetInitialConfig
  BY <1>1 DEF GetInitialConfig, vars, cacheVars, loopVars
<1>2. CASE SyncCacheReady
  BY <1>2 DEF SyncCacheReady, CacheReady, configVars, loopVars
<1>3. CASE SyncStartReconcileProcess
  BY <1>3
  DEF SyncStartReconcileProcess, StartReconcileProcess, configVars
<1>4. CASE StartGnmiSubscriptionHandler
  <2>1. StreamTyped'
    <3>1. CASE Present(device) = {}
      BY <1>4, <3>1
      DEF StartGnmiSubscriptionHandler, vars, cacheVars, loopVars
    <3>2. CASE Present(device) # {}
      <4>1. notifs' = Append(notifs, Difference(Empty, device))
            /\ Len(notifs) < MaxNotifs
        BY <1>4, <3>2 DEF StartGnmiSubscriptionHandler
      <4>2. Difference(Empty, device) \in Notification
        <5> DEFINE changed == {k \in Leaf : Empty[k] # device[k]}
        <5>1. changed # {}
          BY <3>2 DEF Present, Empty
        <5>2. Difference(Empty, device) \in [changed -> OptValue]
          BY DEF Difference, Config, OptValue
        <5> QED
          BY <5>1, <5>2 DEF Notification
      <4>3. notifs' \in Seq(Notification) /\ Len(notifs') = Len(notifs) + 1
        BY <4>1, <4>2
      <4>4. Len(notifs') <= MaxNotifs
        BY <4>1, <4>3, MaxNotifsAssumption
      <4> QED
        BY <1>4, <4>3, <4>4
        DEF StartGnmiSubscriptionHandler, vars, cacheVars, loopVars
    <3> QED
      BY <3>1, <3>2
  <2> QED
    BY <1>4, <2>1 DEF StartGnmiSubscriptionHandler, vars, cacheVars, loopVars
<1> QED
  BY <1>1, <1>2, <1>3, <1>4 DEF SyncStartup

\* A crash leaves nothing but the device.
LEMMA ResetIsTyped ==
  ASSUME Typed, Reset, SyncReset
  PROVE  Typed'
<1>1. EntryTyped' /\ CopyTyped' /\ DeviceTyped' /\ UpdateTyped'
  BY DEF Typed, Reset, SyncReset, EntryTyped, CopyTyped, DeviceTyped,
         UpdateTyped, OptValue
<1>2. StreamTyped'
  <2>1. notifs' = <<>> /\ notifs' \in Seq(Notification) /\ Len(notifs') = 0
    BY DEF SyncReset
  <2>2. subscribed' = FALSE
    BY DEF SyncReset
  <2>3. Len(notifs') <= MaxNotifs
    BY <2>1, MaxNotifsAssumption
  <2> QED
    BY <2>1, <2>2, <2>3, Zenon DEF StreamTyped
<1>3. pc' = "stopped"
  BY DEF Reset
<1> QED
  BY <1>1, <1>2, <1>3 DEF Typed

LEMMA HandlerKeepsTyped ==
  ASSUME TypeOK, Typed, NEW c \in Rpc, SyncHandler(c)
  PROVE  Typed'
<1> USE DEF Typed, EntryTyped, CopyTyped, DeviceTyped, UpdateTyped
<1>1. ASSUME NEW r \in Resource, NEW v \in Value, SyncCreate(c, r, v)
      PROVE  Typed'
  <2> USE <1>1 DEF SyncCreate, CreateGNMIK8sResource, loopVars
  <2>1. EntryTyped'
    BY NoValAssumption DEF TypeOK, OptValue
  <2>2. UpdateTyped'
    BY DEF TypeOK
  <2>3. StreamTyped'
    BY DEF StreamTyped
  <2> QED
    BY <2>1, <2>2, <2>3
<1>2. ASSUME NEW r \in Resource, SyncDelete(c, r) PROVE Typed'
  <2> USE <1>2 DEF SyncDelete, DeleteGNMIK8sResource, cacheVars, loopVars,
                   configVars
  <2>1. UpdateTyped'
    BY DEF TypeOK
  <2>2. StreamTyped'
    BY DEF StreamTyped
  <2> QED
    BY <2>1, <2>2
<1>3. CASE SyncSetDeletePending(c)
  <2> USE <1>3 DEF SyncSetDeletePending, SetDeletePending, loopVars,
                   configVars
  <2>1. EntryTyped'
    BY DEF TypeOK
  <2>2. UpdateTyped'
    BY DEF TypeOK, Idle
  <2>3. StreamTyped'
    BY DEF StreamTyped
  <2> QED
    BY <2>1, <2>2, <2>3
<1>4. CASE SyncRaiseNewProviderUpdates(c)
  <2> USE <1>4 DEF SyncRaiseNewProviderUpdates, RaiseNewProviderUpdates,
                   loopVars, configVars
  <2>1. UpdateTyped'
    BY DEF TypeOK
  <2>2. StreamTyped'
    BY DEF StreamTyped
  <2> QED
    BY <2>1, <2>2
<1>5. ASSUME NEW l \in UpdateLeaf, NEW v \in Value \union {NoVal},
             UpdateGNMIK8sResource(c, l, v)
      PROVE  Typed'
  <2> USE <1>5 DEF UpdateGNMIK8sResource, vars, cacheVars, loopVars
  <2>1. UpdateTyped'
    BY DEF Sent, OptValue
  <2>2. StreamTyped'
    BY DEF StreamTyped
  <2> QED
    BY <2>1, <2>2
<1>6. ASSUME update[c] # NoUpdate
      PROVE  /\ update[c] \in Sent
             /\ update[c].leaf \in Leaf
             /\ update[c].val \in OptValue
             /\ current \in Config
  BY <1>6, ChangeLeafAssumption DEF Sent
<1>7. CASE DeviceAppliesSet(c)
  <2> USE <1>7 DEF DeviceAppliesSet, vars, cacheVars, loopVars
  <2>1. [device EXCEPT ![update[c].leaf] = update[c].val] \in Config
    BY <1>6, TreesAreTrees
  <2>2. device' \in Config /\ StreamTyped' /\ missed' \subseteq Leaf
    BY <2>1, DeviceKeepsStream DEF DeviceLeafBecomes
  <2>3. UpdateTyped'
    BY <1>6 DEF Sent
  <2>4. CopyTyped'
    BY <2>2
  <2> QED
    BY <2>2, <2>3, <2>4
<1>8. CASE SetGnmiOk(c)
  <2> USE <1>8 DEF SetGnmiOk, vars, cacheVars, loopVars
  <2>1. current' \in Config /\ missed' \subseteq Leaf
    BY <1>6, TreesAreTrees DEF Misses
  <2>2. StreamTyped'
    BY DEF StreamTyped
  <2> QED
    BY <2>1, <2>2
<1>9. CASE SetGnmiErr(c)
  BY <1>9 DEF SetGnmiErr, StreamTyped, vars, cacheVars, loopVars
<1>10. CASE SyncDeletePanic(c)
  BY <1>10, ResetIsTyped DEF SyncDeletePanic, DeletePanic
<1> QED
  BY <1>1, <1>2, <1>3, <1>4, <1>5, <1>7, <1>8, <1>9, <1>10 DEF SyncHandler

\* What a cycle does apart from the calls of the device.
LEMMA ReconcileKeepsTyped ==
  ASSUME TypeOK, Typed, SyncReconcileStep
  PROVE  Typed'
<1> USE DEF Typed, EntryTyped, CopyTyped, DeviceTyped, UpdateTyped,
            StreamTyped
<1>1. CASE SyncTick
  BY <1>1 DEF SyncTick, Tick, configVars, cacheVars
<1>2. ASSUME NEW r \in Resource, SyncCollect(r) PROVE Typed'
  BY <1>2 DEF SyncCollect, Collect, configVars, cacheVars
<1>3. CASE SyncCollectDone
  BY <1>3 DEF SyncCollectDone, CollectDone, StartMerge, CopyCurrentConfig,
              configVars, cacheVars
<1>4. ASSUME NEW r \in Resource, SyncDeleteResource2(r) PROVE Typed'
  <2> USE <1>4 DEF SyncDeleteResource2, DeleteResource2
  <2>1. EntryTyped'
    BY DEF TypeOK, OptValue
  <2>2. current' \in Config
    BY TreesAreTrees
  <2> QED
    BY <2>1, <2>2
<1>5. CASE SyncRemoveDone
  BY <1>5 DEF SyncRemoveDone, RemoveDone, StartMerge, CopyCurrentConfig,
              cacheVars
<1>6. ASSUME NEW r \in Resource, SyncMerge(r) PROVE Typed'
  <2> USE <1>6 DEF SyncMerge, Merge, cacheVars
  <2>1. merged' \in Config
    BY TreesAreTrees
  <2> QED
    BY <2>1
<1>7. CASE SyncMergeDone
  BY <1>7 DEF SyncMergeDone, MergeDone, cacheVars
<1>8. ASSUME NEW r \in Resource, SyncSetStatus2(r) PROVE Typed'
  <2> USE <1>8 DEF SyncSetStatus2, SetStatus2, configVars
  <2>1. EntryTyped'
    BY DEF TypeOK
  <2> QED
    BY <2>1
<1>9. CASE SyncSetStatusDone
  BY <1>9 DEF SyncSetStatusDone, SetStatusDone, cacheVars
<1>10. CASE SetStatusDoneOverwritten
  BY <1>10 DEF SetStatusDoneOverwritten, SetStatusDone, Misses, cacheVars
<1>11. CASE SyncClearNewProviderUpdates
  BY <1>11 DEF SyncClearNewProviderUpdates, ClearNewProviderUpdates,
               configVars
<1>12. CASE SyncScanStatus
  BY <1>12 DEF SyncScanStatus, ScanStatus, configVars
<1> QED
  BY <1>1, <1>2, <1>3, <1>4, <1>5, <1>6, <1>7, <1>8, <1>9, <1>10, <1>11,
     <1>12 DEF SyncReconcileStep

\* The calls of a cycle: their effect and their answer.
LEMMA DeviceKeepsTyped ==
  ASSUME Typed, SyncDevice
  PROVE  Typed'
<1> USE DEF Typed, EntryTyped, CopyTyped, DeviceTyped, UpdateTyped
<1>1. CASE DeviceAppliesDelete
  <2> USE <1>1 DEF DeviceAppliesDelete, vars, cacheVars, loopVars
  <2>1. device' \in Config /\ StreamTyped' /\ missed' \subseteq Leaf
    BY TreesAreTrees, DeviceKeepsStream DEF DeviceObeys
  <2> QED
    BY <2>1
<1>2. CASE SyncDeleteGnmiOk
  BY <1>2 DEF SyncDeleteGnmiOk, DeleteGnmiOk, StreamTyped, cacheVars
<1>3. CASE SyncDeleteGnmiErr
  BY <1>3 DEF SyncDeleteGnmiErr, DeleteGnmiErr, StartMerge, StreamTyped,
              cacheVars
<1>4. CASE DeviceAppliesUpdate
  <2> USE <1>4 DEF DeviceAppliesUpdate, vars, cacheVars, loopVars
  <2>1. device' \in Config /\ StreamTyped' /\ missed' \subseteq Leaf
    BY TreesAreTrees, DeviceKeepsStream DEF DeviceObeys
  <2> QED
    BY <2>1
<1>5. CASE SyncUpdateGnmiOk
  BY <1>5 DEF SyncUpdateGnmiOk, UpdateGnmiOk, StreamTyped, cacheVars
<1>6. CASE SyncUpdateGnmiErr
  BY <1>6 DEF SyncUpdateGnmiErr, UpdateGnmiErr, StreamTyped, cacheVars
<1> QED
  BY <1>1, <1>2, <1>3, <1>4, <1>5, <1>6 DEF SyncDevice

\* What the stream brings, while the cache is up, makes trees of trees.
LEMMA OnChangeKeepsTyped ==
  ASSUME Typed, OnChange
  PROVE  Typed'
<1> USE DEF Typed, EntryTyped, CopyTyped, DeviceTyped, UpdateTyped
<1>1. ASSUME notifs # <<>>
      PROVE  /\ current \in Config
             /\ \A l \in DOMAIN Head(notifs) :
                  l \in Leaf /\ Head(notifs)[l] \in OptValue
  <2>1. Head(notifs) \in Notification /\ current \in Config
    BY <1>1 DEF StreamTyped
  <2> QED
    BY <2>1, NotificationDomain
<1>2. ASSUME NEW l \in Leaf, OnChangeDelete(l) PROVE Typed'
  <2> USE <1>2 DEF OnChangeDelete, vars, cacheVars, loopVars
  <2>1. StreamTyped'
    BY HandlingKeepsStream
  <2>2. current' \in Config
    BY <1>1, TreesAreTrees
  <2>3. missed' \subseteq Leaf
    BY DEF Misses
  <2> QED
    BY <2>1, <2>2, <2>3
<1>3. ASSUME NEW K \in Container, OnChangeUpdate(K) PROVE Typed'
  <2> USE DEF vars, cacheVars, loopVars
  <2>1. /\ notifs # <<>>
        /\ Handled(Reported(K))
        /\ UNCHANGED <<vars, replace, merged, device, applied, subscribed,
                       update>>
    BY <1>3 DEF OnChangeUpdate, DeletesHandled
  <2>2. StreamTyped'
    BY <2>1, HandlingKeepsStream
  <2>3. PICK T \in Taken(K) :
          /\ current' = WithReported(current, T)
          /\ Misses(IF NoCycle THEN Differing(K) \ T ELSE Reported(K))
    BY <1>3 DEF OnChangeUpdate
  <2>4. Differing(K) \subseteq Reported(K) /\ Reported(K) \subseteq Leaf
    BY <1>1, <2>1 DEF Differing, Reported
  <2>5. T \subseteq Differing(K)
    BY DEF Taken
  <2>6. current' \in Config
    <3>1. \A l \in T : Head(notifs)[l] \in OptValue
      BY <1>1, <2>1, <2>4, <2>5 DEF Reported
    <3> QED
      BY <1>1, <2>1, <2>3, <3>1 DEF WithReported, Config, OptValue
  <2>7. missed' \subseteq Leaf
    BY <2>3, <2>4 DEF Misses
  <2> QED
    BY <2>1, <2>2, <2>6, <2>7
<1>4. CASE OnChangeError
  <2> USE <1>4 DEF OnChangeError, DeletesHandled, vars, cacheVars, loopVars
  <2>1. StreamTyped'
    BY HandlingKeepsStream
  <2>2. missed' \subseteq Leaf
    BY <1>1 DEF Misses
  <2> QED
    BY <2>1, <2>2
<1> QED
  BY <1>2, <1>3, <1>4 DEF OnChange, OnChangeTaken

\* A break cuts the stream off somewhere.
LEMMA BreakKeepsTyped ==
  ASSUME Typed, StreamBreaks
  PROVE  Typed'
<1> USE DEF Typed, EntryTyped, CopyTyped, DeviceTyped, UpdateTyped, vars,
            cacheVars, loopVars
<1>1. PICK n \in 0..Len(notifs) :
        /\ notifs' = SubSeq(notifs, 1, n)
        /\ missed' = missed \union
                       UNION {DOMAIN notifs[i] : i \in (n + 1)..Len(notifs)}
  BY DEF StreamBreaks
<1>2. Len(notifs) \in Nat /\ notifs \in Seq(Notification)
  BY DEF StreamTyped
<1>3. notifs' \in Seq(Notification) /\ Len(notifs') = n
  BY <1>1, <1>2
<1>4. missed' \subseteq Leaf
  <2>1. \A i \in (n + 1)..Len(notifs) : notifs[i] \in Notification
    BY <1>2
  <2> QED
    BY <1>1, <2>1, NotificationDomain
<1>5. StreamTyped'
  <2>1. Len(notifs') <= MaxNotifs
    BY <1>2, <1>3, MaxNotifsAssumption DEF StreamTyped
  <2> QED
    BY <1>3, <2>1 DEF StreamBreaks, StreamTyped
<1> QED
  BY <1>4, <1>5 DEF StreamBreaks

LEMMA NextKeepsTyped == TypeOK /\ Typed /\ [SyncNext]_syncVars => Typed'
<1> SUFFICES ASSUME TypeOK, Typed, [SyncNext]_syncVars PROVE Typed'
  OBVIOUS
<1>1. CASE SyncOldServiceRequest
  BY <1>1 DEF SyncOldServiceRequest, OldServiceRequest, Typed, EntryTyped,
              CopyTyped, DeviceTyped, UpdateTyped, StreamTyped, configVars,
              loopVars
<1>2. ASSUME NEW l \in OutOfBand, NEW v \in Value \union {NoVal},
             DeviceChange(l, v)
      PROVE  Typed'
  <2> USE <1>2 DEF DeviceChange, Typed, EntryTyped, CopyTyped, DeviceTyped,
                   UpdateTyped, vars, cacheVars, loopVars
  <2>1. [device EXCEPT ![l] = v] \in Config
    BY TreesAreTrees DEF OptValue
  <2>2. device' \in Config /\ StreamTyped' /\ missed' \subseteq Leaf
    BY <2>1, DeviceKeepsStream DEF DeviceLeafBecomes
  <2> QED
    BY <2>2
<1>3. CASE SyncRestart
  BY <1>3, ResetIsTyped DEF SyncRestart, Restart
<1>4. CASE UNCHANGED syncVars
  BY <1>4 DEF syncVars, vars, cacheVars, loopVars, configVars, Typed,
              EntryTyped, CopyTyped, DeviceTyped, UpdateTyped, StreamTyped
<1> QED
  BY <1>1, <1>2, <1>3, <1>4, StartupKeepsTyped, HandlerKeepsTyped,
     ReconcileKeepsTyped, DeviceKeepsTyped, OnChangeKeepsTyped,
     BreakKeepsTyped DEF SyncNext, SteadyNext, OnChange

\* Every variable of the configuration data keeps its type: once the cache is
\* ready its copy is a tree, also after the write-back of a cycle, an entry has
\* data exactly as long as it exists, and no Update runs beside another request
\* of the same handler.
THEOREM SyncTypeCorrect == SyncSpec => []SyncTypeOK
<1>1. TypeOK /\ Typed => SyncTypeOK
  <2> SUFFICES ASSUME TypeOK, Typed PROVE SyncTypeOK
    OBVIOUS
  <2>1. \A i \in 1..Len(notifs) :
          /\ DOMAIN notifs[i] \in (SUBSET Leaf) \ {{}}
          /\ \A l \in DOMAIN notifs[i] : notifs[i][l] \in Value \union {NoVal}
    <3>1. \A i \in 1..Len(notifs) : notifs[i] \in Notification
      BY DEF Typed, StreamTyped
    <3> QED
      BY <3>1, NotificationDomain DEF OptValue
  <2>2. \A c \in Rpc :
          \/ update[c] = NoUpdate
          \/ /\ rpc[c] = Idle
             /\ update[c] \in [leaf : UpdateLeaf, val : Value \union {NoVal},
                               done : BOOLEAN]
    BY DEF Typed, UpdateTyped, Sent, OptValue
  <2> QED
    BY <2>1, <2>2 DEF SyncTypeOK, Typed, EntryTyped, CopyTyped, DeviceTyped,
                      StreamTyped, OptValue
<1>2. SyncSpec => []TypeOK
  BY SyncImplementsLoop, TypeCorrect, PTL
<1> QED
  BY <1>1, <1>2, InitTyped, NextKeepsTyped, PTL DEF SyncSpec

-----------------------------------------------------------------------------
(* What a status Success says.                                             *)

\* Providers create only what is absent, and what a resource carries nobody
\* else writes.
Exclusive ==
  /\ Recreate = {}
  /\ \A r, s \in Resource : r # s => OwnOf[r] \intersect OwnOf[s] = {}
  /\ \A r \in Resource : OwnOf[r] \intersect (UpdateLeaf \union OutOfBand) = {}

Successful(r) == data2[r] = "Success"

Delivered(r) == \A l \in OwnOf[r] : device[l] = replace[r]

\* The levels of a cycle are those of all entries it has to send again.
LevelInv ==
  /\ levels \subseteq data2Levels
  /\ updateObjects \subseteq AtLevels(levels)
  /\ pc = "merge" => todo \subseteq AtLevels(levels)
  /\ \A r \in Resource :
       Successful(r) => LevelOf[r] \in levels /\ pc # "stopped"

\* A delete may take the data of any entry from the device.  From then on it
\* is among those a cycle has still to send, with the data it asked for.
CycleInv ==
  /\ pc = "merge" =>
       \A r \in Resource : Successful(r) => r \in todo \union updateObjects
  /\ pc \in {"updating", "failed"} =>
       \A r \in Resource : Successful(r) => r \in updateObjects
  /\ pc \in {"merge", "updating"} =>
       \A r \in updateObjects : \A l \in OwnOf[r] : merged[l] = replace[r]
  /\ pc = "updating" /\ applied => \A r \in updateObjects : Delivered(r)
  /\ pc = "succeeded" =>
       \A r \in Resource : Successful(r) \/ r \in updateObjects => Delivered(r)
  /\ pc \in {"clear", "scan", "wait"} =>
       \A r \in Resource : Successful(r) => Delivered(r)

SuccessInv == LevelInv /\ CycleInv

\* What is known anyway.
Known == TypeOK /\ Typed /\ TargetInv

LEMMA StartupKeepsSuccess ==
  ASSUME Known, SuccessInv, SyncStartup
  PROVE  SuccessInv'
<1> USE DEF SuccessInv, LevelInv, CycleInv, Successful, Delivered, AtLevels
<1>1. CASE GetInitialConfig
  BY <1>1 DEF GetInitialConfig, vars, cacheVars, loopVars
<1>2. CASE SyncCacheReady
  BY <1>2 DEF SyncCacheReady, CacheReady, configVars, loopVars
<1>3. CASE SyncStartReconcileProcess
  BY <1>3
  DEF SyncStartReconcileProcess, StartReconcileProcess, configVars
<1>4. CASE StartGnmiSubscriptionHandler
  BY <1>4 DEF StartGnmiSubscriptionHandler, vars, cacheVars, loopVars
<1> QED
  BY <1>1, <1>2, <1>3, <1>4 DEF SyncStartup

\* Nobody but a cycle and the restart disturbs what a resource carries.
LEMMA OtherLeavesKeepSuccess ==
  ASSUME Exclusive, Known, SuccessInv,
         NEW l \in UpdateLeaf \union OutOfBand, NEW v,
         DeviceLeafBecomes(l, v),
         UNCHANGED <<vars, replace, merged, applied>>
  PROVE  SuccessInv'
<1>1. \A r \in Resource : Delivered(r) => Delivered(r)'
  BY OwnOfAssumption, PathOfAssumption
  DEF Exclusive, Delivered, DeviceLeafBecomes, DeviceBecomes, Known, Typed,
      DeviceTyped, Config
<1>2. updateObjects \subseteq Resource
  BY DEF Known, TypeOK
<1> QED
  BY <1>1, <1>2 DEF SuccessInv, LevelInv, CycleInv, Successful, AtLevels, vars,
                    cacheVars, loopVars

LEMMA HandlerKeepsSuccess ==
  ASSUME Exclusive, Known, SuccessInv, NEW c \in Rpc, SyncHandler(c)
  PROVE  SuccessInv'
<1>1. ASSUME NEW r \in Resource, NEW v \in Value, SyncCreate(c, r, v)
      PROVE  SuccessInv'
  <2> USE <1>1 DEF SyncCreate, CreateGNMIK8sResource, loopVars
  <2>1. data2[r] = "absent" /\ r \notin updateObjects
    BY DEF Exclusive, Known, TargetInv, StatusTargetsExist
  <2>2. /\ ~Successful(r)'
        /\ \A s \in Resource \ {r} : Successful(s)' <=> Successful(s)
        /\ \A s \in Resource \ {r} : replace'[s] = replace[s]
    BY DEF Successful, Known, TypeOK, Typed, EntryTyped
  <2>3. LevelInv'
    BY <2>2 DEF SuccessInv, LevelInv, AtLevels
  <2>4. CycleInv'
    BY <2>1, <2>2 DEF SuccessInv, CycleInv, Delivered, Known, TypeOK
  <2> QED
    BY <2>3, <2>4 DEF SuccessInv
<1>2. ASSUME NEW r \in Resource, SyncDelete(c, r) PROVE SuccessInv'
  BY <1>2 DEF SyncDelete, DeleteGNMIK8sResource, SuccessInv, LevelInv,
              CycleInv, Successful, Delivered, AtLevels, cacheVars, loopVars,
              configVars
<1>3. CASE SyncSetDeletePending(c)
  <2> USE <1>3 DEF SyncSetDeletePending, SetDeletePending, loopVars,
                   configVars
  <2>1. \A s \in Resource : Successful(s)' => Successful(s)
    BY DEF Successful, Known, TypeOK
  <2> QED
    BY <2>1 DEF SuccessInv, LevelInv, CycleInv, Delivered, AtLevels
<1>4. CASE SyncRaiseNewProviderUpdates(c)
  BY <1>4 DEF SyncRaiseNewProviderUpdates, RaiseNewProviderUpdates,
              SuccessInv, LevelInv, CycleInv, Successful, Delivered, AtLevels,
              loopVars, configVars
<1>5. ASSUME NEW l \in UpdateLeaf, NEW v \in Value \union {NoVal},
             UpdateGNMIK8sResource(c, l, v)
      PROVE  SuccessInv'
  BY <1>5 DEF UpdateGNMIK8sResource, SuccessInv, LevelInv, CycleInv,
              Successful, Delivered, AtLevels, vars, cacheVars, loopVars
<1>6. CASE DeviceAppliesSet(c)
  <2>1. update[c].leaf \in UpdateLeaf
    BY <1>6 DEF DeviceAppliesSet, Known, Typed, UpdateTyped, Sent
  <2> QED
    BY <1>6, <2>1, OtherLeavesKeepSuccess DEF DeviceAppliesSet
<1>7. CASE SetGnmiOk(c)
  BY <1>7 DEF SetGnmiOk, SuccessInv, LevelInv, CycleInv, Successful,
              Delivered, AtLevels, vars, cacheVars, loopVars
<1>8. CASE SetGnmiErr(c)
  BY <1>8 DEF SetGnmiErr, SuccessInv, LevelInv, CycleInv, Successful,
              Delivered, AtLevels, vars, cacheVars, loopVars
<1>9. CASE SyncDeletePanic(c)
  BY <1>9 DEF SyncDeletePanic, DeletePanic, Reset, SuccessInv, LevelInv,
              CycleInv, Successful, AtLevels
<1> QED
  BY <1>1, <1>2, <1>3, <1>4, <1>5, <1>6, <1>7, <1>8, <1>9 DEF SyncHandler

\* A cycle sends again what was sent before, so that its status is true of all.
LEMMA ReconcileKeepsSuccess ==
  ASSUME Exclusive, Known, SuccessInv, SyncReconcileStep
  PROVE  SuccessInv'
<1> USE DEF SuccessInv, LevelInv, CycleInv
<1>0. /\ updateObjects \subseteq Resource
      /\ data2 \in [Resource -> ResourceStatus \union {"absent"}]
      /\ pc \notin {"merge", "updating", "succeeded", "failed"}
           => updateObjects = {}
  BY DEF Known, TypeOK, TargetInv, TargetsOnlyInUpdate
<1>1. CASE SyncTick
  BY <1>1 DEF SyncTick, Tick, Successful, Delivered, AtLevels, configVars,
              cacheVars
<1>2. ASSUME NEW r \in Resource, SyncCollect(r) PROVE SuccessInv'
  BY <1>2 DEF SyncCollect, Collect, Successful, Delivered, configVars,
              cacheVars
<1>3. ASSUME StartMerge, updateObjects = {},
             UNCHANGED <<cacheVars, levels, updateObjects>>
      PROVE  SuccessInv'
  BY <1>3 DEF StartMerge, Successful, AtLevels, cacheVars
<1>4. CASE SyncCollectDone
  <2>1. CASE pc' = "deleting"
    BY <1>4, <2>1 DEF SyncCollectDone, CollectDone, Successful, cacheVars
  <2>2. CASE StartMerge
    BY <1>0, <1>3, <1>4, <2>2 DEF SyncCollectDone, CollectDone
  <2> QED
    BY <1>4, <2>1, <2>2 DEF SyncCollectDone, CollectDone
<1>5. ASSUME NEW r \in Resource, SyncDeleteResource2(r) PROVE SuccessInv'
  BY <1>0, <1>5 DEF SyncDeleteResource2, DeleteResource2, Successful
<1>6. CASE SyncRemoveDone
  BY <1>0, <1>3, <1>6 DEF SyncRemoveDone, RemoveDone
<1>7. ASSUME NEW r \in Resource, SyncMerge(r) PROVE SuccessInv'
  <2> USE <1>7 DEF SyncMerge, Merge, cacheVars
  <2>1. r \in todo /\ r \in AtLevels(levels)
    BY DEF FirstOf
  <2>2. LevelInv'
    BY <2>1 DEF Successful
  <2>3. \A s \in Resource : Successful(s)' => s \in todo' \union updateObjects'
    BY DEF Successful
  <2>4. \A s \in updateObjects' : \A l \in OwnOf[s] : merged'[l] = replace'[s]
    <3> SUFFICES ASSUME NEW s \in updateObjects', NEW l \in OwnOf[s]
                 PROVE  merged'[l] = replace[s]
      OBVIOUS
    <3>1. s \in Resource /\ l \in Leaf
      BY <1>0, OwnOfAssumption
    <3>2. CASE updateObjects' = updateObjects /\ merged' = merged
      BY <3>2
    <3>3. CASE r \in updateObjects' /\ merged' = WithResource(merged, r)
      <4>1. CASE s = r
        BY <3>1, <3>3, <4>1 DEF WithResource
      <4>2. CASE s # r
        <5>1. s \in updateObjects /\ l \notin OwnOf[r]
          BY <3>1, <4>2 DEF Exclusive
        <5> QED
          BY <3>1, <3>3, <5>1 DEF WithResource
      <4> QED
        BY <4>1, <4>2
    <3> QED
      BY <3>2, <3>3
  <2> QED
    BY <2>2, <2>3, <2>4
<1>8. CASE SyncMergeDone
  BY <1>8 DEF SyncMergeDone, MergeDone, Successful, cacheVars, Known, Typed,
              DeviceTyped
<1>9. ASSUME NEW r \in Resource, SyncSetStatus2(r) PROVE SuccessInv'
  <2> USE <1>9 DEF SyncSetStatus2, SetStatus2, configVars
  <2>1. \A s \in Resource \ {r} : Successful(s)' <=> Successful(s)
    BY <1>0 DEF Successful
  <2>2. r \in updateObjects /\ r \in AtLevels(levels)
    BY DEF FirstOf
  <2>3. Successful(r)' => pc = "succeeded"
    BY <1>0 DEF Successful
  <2>4. LevelInv'
    BY <2>1, <2>2 DEF AtLevels
  <2>5. CycleInv'
    BY <1>0, <2>1, <2>2, <2>3 DEF Delivered
  <2> QED
    BY <2>4, <2>5
<1>10. ASSUME SetStatusDone, UNCHANGED <<replace, device>> PROVE SuccessInv'
  BY <1>10 DEF SetStatusDone, Successful, Delivered, cacheVars
<1>11. CASE SyncSetStatusDone
  BY <1>10, <1>11 DEF SyncSetStatusDone
<1>12. CASE SetStatusDoneOverwritten
  BY <1>10, <1>12 DEF SetStatusDoneOverwritten
<1>13. CASE SyncClearNewProviderUpdates
  BY <1>13 DEF SyncClearNewProviderUpdates, ClearNewProviderUpdates,
               Successful, Delivered, configVars
<1>14. CASE SyncScanStatus
  BY <1>14 DEF SyncScanStatus, ScanStatus, Successful, Delivered, configVars
<1> QED
  BY <1>1, <1>2, <1>4, <1>5, <1>6, <1>7, <1>8, <1>9, <1>11, <1>12, <1>13,
     <1>14 DEF SyncReconcileStep

\* An update that succeeded has brought the data of all it was made of.
LEMMA DeviceKeepsSuccess ==
  ASSUME Known, SuccessInv, SyncDevice
  PROVE  SuccessInv'
<1> USE DEF SuccessInv, LevelInv, CycleInv
<1>0. /\ updateObjects \subseteq Resource
      /\ pc \notin {"merge", "updating", "succeeded", "failed"}
           => updateObjects = {}
      /\ \A r \in updateObjects : data2[r] # "absent"
      /\ applied => pc \in {"deleting", "updating"}
  BY DEF Known, TypeOK, Typed, DeviceTyped, TargetInv, TargetsOnlyInUpdate,
         StatusTargetsExist
<1>1. CASE DeviceAppliesDelete
  BY <1>1 DEF DeviceAppliesDelete, Successful, AtLevels, vars, cacheVars,
              loopVars
<1>2. CASE SyncDeleteGnmiOk
  BY <1>2 DEF SyncDeleteGnmiOk, DeleteGnmiOk, Successful, AtLevels, cacheVars
<1>3. CASE SyncDeleteGnmiErr
  BY <1>0, <1>3 DEF SyncDeleteGnmiErr, DeleteGnmiErr, StartMerge, Successful,
                    AtLevels, cacheVars
<1>4. CASE DeviceAppliesUpdate
  <2> USE <1>4 DEF DeviceAppliesUpdate, vars, cacheVars, loopVars
  <2>1. device' = Overlay(merged, device)
    BY DEF DeviceObeys, DeviceBecomes
  <2>2. \A r \in updateObjects : Delivered(r)'
    <3> SUFFICES ASSUME NEW r \in updateObjects, NEW l \in OwnOf[r]
                 PROVE  device'[l] = replace[r]
      BY DEF Delivered
    <3>1. r \in Resource /\ l \in Leaf
      BY <1>0, OwnOfAssumption
    <3>2. merged[l] = replace[r] /\ replace[r] # NoVal
      BY <1>0, <3>1 DEF Known, Typed, EntryTyped
    <3> QED
      BY <2>1, <3>1, <3>2 DEF Overlay
  <2>3. LevelInv'
    BY DEF Successful, AtLevels
  <2> QED
    BY <2>2, <2>3 DEF Successful
<1>5. CASE SyncUpdateGnmiOk
  BY <1>5 DEF SyncUpdateGnmiOk, UpdateGnmiOk, Successful, Delivered, AtLevels,
              cacheVars
<1>6. CASE SyncUpdateGnmiErr
  BY <1>6 DEF SyncUpdateGnmiErr, UpdateGnmiErr, Successful, AtLevels,
              cacheVars
<1> QED
  BY <1>1, <1>2, <1>3, <1>4, <1>5, <1>6 DEF SyncDevice

LEMMA NextKeepsSuccess ==
  Exclusive /\ Known /\ SuccessInv /\ [SyncNext]_syncVars => SuccessInv'
<1> SUFFICES ASSUME Exclusive, Known, SuccessInv, [SyncNext]_syncVars
             PROVE  SuccessInv'
  OBVIOUS
<1> USE DEF SuccessInv, LevelInv, CycleInv, Successful, Delivered, AtLevels
<1>1. CASE SyncOldServiceRequest
  BY <1>1 DEF SyncOldServiceRequest, OldServiceRequest, configVars, loopVars
<1>2. CASE OnChange \/ StreamBreaks
  <2>1. UNCHANGED <<vars, replace, merged, device, applied>>
    BY <1>2 DEF OnChange, OnChangeTaken, OnChangeDelete, OnChangeUpdate,
                OnChangeError, StreamBreaks
  <2> QED
    BY <2>1 DEF vars, cacheVars, loopVars
<1>3. ASSUME NEW l \in OutOfBand, NEW v \in Value \union {NoVal},
             DeviceChange(l, v)
      PROVE  SuccessInv'
  BY <1>3, OtherLeavesKeepSuccess DEF DeviceChange
<1>4. CASE SyncRestart
  BY <1>4 DEF SyncRestart, Restart, Reset
<1>5. CASE UNCHANGED syncVars
  BY <1>5 DEF syncVars, configVars, vars, cacheVars, loopVars
<1> QED
  BY <1>1, <1>2, <1>3, <1>4, <1>5, StartupKeepsSuccess, HandlerKeepsSuccess,
     ReconcileKeepsSuccess, DeviceKeepsSuccess
     DEF SyncNext, SteadyNext, OnChange

\* Between two cycles every entry with status Success has its data on the
\* device, although a delete of another resource may have removed it there
\* meanwhile, a call may have failed after its effect, and handlers write the
\* entries while a cycle works on them.
THEOREM SuccessIsAlwaysOnDevice ==
  ASSUME Exclusive
  PROVE  SyncSpec => []SuccessIsOnDevice
<1>1. SyncInit => SuccessInv
  BY DEF SyncInit, Init, SuccessInv, LevelInv, CycleInv, Successful, AtLevels
<1>2. SuccessInv => SuccessIsOnDevice
  BY DEF SuccessInv, CycleInv, SuccessIsOnDevice, Successful, Delivered
<1>3. SyncSpec => []TypeOK /\ []TargetInv
  BY SyncImplementsLoop, TypeCorrect, TargetInvariant, PTL
<1>4. TypeOK /\ Typed /\ TargetInv /\ SuccessInv /\ [SyncNext]_syncVars
        => SuccessInv'
  BY NextKeepsSuccess DEF Known
<1> QED
  BY <1>1, <1>2, <1>3, <1>4, InitTyped, NextKeepsTyped, PTL DEF SyncSpec

=============================================================================
