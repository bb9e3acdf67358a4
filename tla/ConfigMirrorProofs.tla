------------------------- MODULE ConfigMirrorProofs -------------------------
(* What the driver's copy of the configuration has to do with the device,  *)
(* for every value of the constants of ConfigSync.                         *)
EXTENDS ConfigSyncProofs

\* Some notification on its way reports the leaf.
Pending(l) == \E i \in 1..Len(notifs) : l \in DOMAIN notifs[i]

\* The last one that reports a leaf has the value of the device, unless that
\* has changed when there was no stream.
Latest ==
  \A i \in 1..Len(notifs) : \A l \in DOMAIN notifs[i] :
    \/ l \in missed
    \/ notifs[i][l] = device[l]
    \/ \E j \in (i + 1)..Len(notifs) : l \in DOMAIN notifs[j]

\* Nothing about the leaf has been missed or is still to come.
Followed(l) == l \notin missed /\ ~Pending(l)

\* This cycle sends the leaf for some entry, or an entry above it still asks
\* for work.
Covered(l) ==
  \E r \in Resource :
    \/ l \in OwnOf[r] /\ r \in updateObjects
    \/ l \in PathOf[r] /\ data2[r] \notin Settled

\* Where a tree differs from the device it has a value, which the next push
\* brings there, and that push is owed.
Owed(cfg, l) == cfg[l] # device[l] => cfg[l] # NoVal /\ Covered(l)

\* Where the loop works on the copy itself.
OnCopy == pc \notin {"updating", "succeeded", "failed"}

MirrorsLeaf(l) ==
  /\ OnCopy /\ (ready \/ current # NoConfig) => Owed(current, l)
  /\ (pc = "deleting" /\ applied) \/ pc = "removing" =>
       \A r \in delObjects : l \in PathOf[r] => device[l] = NoVal
  /\ pc = "merge" =>
       \/ merged[l] = current[l]
       \/ merged[l] # NoVal /\ \E r \in updateObjects : l \in OwnOf[r]
  /\ pc \in {"updating", "failed"} => Owed(merged, l)
  /\ (pc = "updating" /\ applied) \/ pc = "succeeded" => merged[l] = device[l]

Mirrors == \A l \in Leaf : Followed(l) => MirrorsLeaf(l)

\* An entry a cycle has collected for deletion asks for work until it is gone.
DelUnsettled == \A r \in delObjects : data2[r] \notin Settled

MirrorInv == Latest /\ DelUnsettled /\ Mirrors

-----------------------------------------------------------------------------
(* The stream.                                                             *)

\* A change of the device is either in the stream or nobody listens.
LEMMA DeviceMoves ==
  ASSUME Typed, Latest, NEW cfg \in Config, NEW unseen,
         DeviceBecomes(cfg, unseen), Reporting \subseteq unseen
  PROVE  /\ Latest'
         /\ \A l \in Leaf : Followed(l)' =>
              /\ Followed(l)
              /\ subscribed \/ l \in unseen => device'[l] = device[l]
<1>0. /\ notifs \in Seq(Notification)
      /\ device' = cfg
      /\ device \in Config
      /\ Len(notifs) \in Nat
  BY DEF Typed, StreamTyped, DeviceTyped, DeviceBecomes
<1> DEFINE changed == {l \in Leaf : device[l] # cfg[l]}
<1>1. CASE ~subscribed
  <2>1. notifs' = notifs /\ missed' = missed \union (changed \intersect unseen)
    BY <1>1 DEF DeviceBecomes
  <2>2. \A l \in Leaf : l \in unseen /\ l \notin missed' => cfg[l] = device[l]
    BY <2>1
  <2>3. ASSUME NEW i \in 1..Len(notifs), NEW l \in DOMAIN notifs[i]
        PROVE  l \in Leaf /\ l \in unseen
    <3>1. notifs[i] \in Notification
      BY <1>0
    <3>2. l \in Leaf
      BY <3>1, NotificationDomain
    <3> QED
      BY <3>2 DEF Reporting
  <2>4. Latest'
    BY <1>0, <2>1, <2>2, <2>3 DEF Latest
  <2>5. \A l \in Leaf : Followed(l)' => Followed(l)
    BY <2>1 DEF Followed, Pending
  <2> QED
    BY <1>0, <1>1, <2>2, <2>4, <2>5 DEF Followed
<1>2. CASE subscribed /\ cfg = device
  <2>1. notifs' = notifs /\ missed' = missed
    BY <1>2 DEF DeviceBecomes
  <2> QED
    BY <1>0, <1>2, <2>1 DEF Latest, Followed, Pending
<1>3. CASE subscribed /\ cfg # device
  <2> DEFINE n == Len(notifs)
             d == Difference(device, cfg)
  <2>1. notifs' = Append(notifs, d) /\ missed' = missed \ changed
    BY <1>3 DEF DeviceBecomes
  <2>2. /\ n \in Nat
        /\ Len(notifs') = n + 1
        /\ \A i \in 1..n : notifs'[i] = notifs[i]
        /\ notifs'[n + 1] = d
    <3> HIDE DEF d
    <3> QED
      BY <1>0, <2>1
  <2>3. /\ DOMAIN d = {k \in Leaf : device[k] # cfg[k]}
        /\ \A l \in DOMAIN d : d[l] = cfg[l]
    BY DEF Difference
  <2> HIDE DEF n, d
  <2>4. \A i \in 1..n : DOMAIN notifs[i] \subseteq Leaf
    BY <1>0, NotificationDomain DEF n
  <2>5. Latest'
    <3> SUFFICES ASSUME NEW i \in 1..(n + 1), NEW l \in DOMAIN notifs'[i]
                 PROVE  \/ l \in missed'
                        \/ notifs'[i][l] = cfg[l]
                        \/ \E j \in (i + 1)..(n + 1) : l \in DOMAIN notifs'[j]
      BY <1>0, <2>2 DEF Latest
    <3>1. CASE i = n + 1
      BY <2>2, <2>3, <3>1
    <3>2. CASE i \in 1..n /\ l \in DOMAIN d
      <4>1. n + 1 \in (i + 1)..(n + 1)
        BY <2>2, <3>2
      <4> QED
        BY <2>2, <3>2, <4>1
    <3>3. CASE i \in 1..n /\ l \notin DOMAIN d
      <4>1. cfg[l] = device[l]
        BY <2>2, <2>3, <2>4, <3>3
      <4>2. \/ l \in missed
            \/ notifs[i][l] = device[l]
            \/ \E j \in (i + 1)..n : l \in DOMAIN notifs[j]
        BY <2>2, <3>3 DEF Latest, n
      <4>4. l \in missed => l \in missed'
        BY <2>1, <4>1
      <4>3. \A j \in (i + 1)..n :
              j \in (i + 1)..(n + 1) /\ notifs'[j] = notifs[j]
        BY <2>2, <3>3
      <4> QED
        BY <2>2, <3>3, <4>1, <4>2, <4>3, <4>4
    <3> QED
      BY <2>2, <3>1, <3>2, <3>3
  <2>6. ASSUME NEW l \in Leaf, Followed(l)'
        PROVE  Followed(l) /\ device'[l] = device[l]
    <3>1. \A i \in 1..(n + 1) : l \notin DOMAIN notifs'[i]
      BY <2>2, <2>6 DEF Followed, Pending
    <3>2. l \notin DOMAIN d /\ \A i \in 1..n : l \notin DOMAIN notifs[i]
      BY <2>2, <3>1
    <3>3. l \notin changed /\ l \notin missed
      BY <2>1, <2>3, <2>6, <3>2 DEF Followed
    <3> QED
      BY <1>0, <3>2, <3>3 DEF Followed, Pending, n
  <2> QED
    BY <2>5, <2>6
<1> QED
  BY <1>1, <1>2, <1>3

\* What is handled of the response at the head was the last word, or more is
\* to come.
LEMMA HandlingMoves ==
  ASSUME Typed, Latest, notifs # <<>>, NEW L, Handled(L), device' = device,
         missed \subseteq missed'
  PROVE  /\ Latest'
         /\ \A l \in Leaf \ missed : ~Pending(l)' =>
              /\ l \in DOMAIN Head(notifs) => Head(notifs)[l] = device[l]
              /\ l \notin L => ~Pending(l)
<1> DEFINE n == Len(notifs)
           left == DOMAIN Head(notifs) \ L
<1>0. /\ notifs \in Seq(Notification)
      /\ n \in Nat \ {0}
      /\ Head(notifs) = notifs[1]
  BY DEF Typed, StreamTyped
<1>1. CASE left = {}
  <2>1. notifs' = Tail(notifs)
    BY <1>1 DEF Handled
  <2>2. /\ Len(notifs') = n - 1
        /\ \A i \in 1..(n - 1) : notifs'[i] = notifs[i + 1]
    BY <1>0, <2>1
  <2> HIDE DEF n
  <2>3. Latest'
    <3> SUFFICES ASSUME NEW i \in 1..(n - 1), NEW l \in DOMAIN notifs'[i]
                 PROVE  \/ l \in missed
                        \/ notifs'[i][l] = device[l]
                        \/ \E j \in (i + 1)..(n - 1) : l \in DOMAIN notifs'[j]
      BY <2>2 DEF Latest
    <3>0. i + 1 \in 1..n /\ (i + 1) + 1 = i + 2
      BY <1>0
    <3>1. \/ l \in missed
          \/ notifs[i + 1][l] = device[l]
          \/ \E j \in (i + 2)..n : l \in DOMAIN notifs[j]
      BY <2>2, <3>0 DEF Latest, n
    <3>2. \A j \in (i + 2)..n :
            j - 1 \in (i + 1)..(n - 1) /\ notifs'[j - 1] = notifs[j]
      BY <1>0, <2>2
    <3> QED
      BY <2>2, <3>1, <3>2
  <2>4. ASSUME NEW l \in Leaf \ missed, ~Pending(l)'
        PROVE  /\ l \in DOMAIN Head(notifs) => Head(notifs)[l] = device[l]
               /\ l \notin L => ~Pending(l)
    <3>1. \A j \in 2..n : l \notin DOMAIN notifs[j]
      <4> SUFFICES ASSUME NEW j \in 2..n PROVE l \notin DOMAIN notifs[j]
        OBVIOUS
      <4>1. j - 1 \in 1..(n - 1) /\ notifs'[j - 1] = notifs[j]
        BY <1>0, <2>2
      <4> QED
        BY <2>2, <2>4, <4>1 DEF Pending
    <3>2. l \in DOMAIN Head(notifs) => Head(notifs)[l] = device[l]
      BY <1>0, <3>1 DEF Latest, n
    <3>3. l \notin L => l \notin DOMAIN notifs[1]
      BY <1>0, <1>1
    <3> QED
      BY <1>0, <3>1, <3>2, <3>3 DEF Pending, n
  <2> QED
    BY <2>3, <2>4
<1>2. CASE left # {}
  <2> DEFINE h == [l \in left |-> notifs[1][l]]
  <2>1. notifs' = [notifs EXCEPT ![1] = h]
    BY <1>0, <1>2 DEF Handled
  <2>2. /\ Len(notifs') = n
        /\ notifs'[1] = h
        /\ \A i \in 2..n : notifs'[i] = notifs[i]
    <3> HIDE DEF h
    <3> QED
      BY <1>0, <2>1
  <2>3. DOMAIN h = left /\ \A l \in left : h[l] = notifs[1][l]
    OBVIOUS
  <2> HIDE DEF n, h
  <2>4. Latest'
    <3> SUFFICES ASSUME NEW i \in 1..n, NEW l \in DOMAIN notifs'[i]
                 PROVE  \/ l \in missed
                        \/ notifs'[i][l] = device[l]
                        \/ \E j \in (i + 1)..n : l \in DOMAIN notifs'[j]
      BY <2>2 DEF Latest
    <3>1. l \in DOMAIN notifs[i] /\ notifs'[i][l] = notifs[i][l]
      BY <1>0, <2>2, <2>3
    <3>2. \/ l \in missed
          \/ notifs[i][l] = device[l]
          \/ \E j \in (i + 1)..n : l \in DOMAIN notifs[j]
      BY <1>0, <3>1 DEF Latest, n
    <3>3. \A j \in (i + 1)..n : notifs'[j] = notifs[j]
      BY <1>0, <2>2
    <3> QED
      BY <3>1, <3>2, <3>3
  <2>5. ASSUME NEW l \in Leaf \ missed, ~Pending(l)'
        PROVE  /\ l \in DOMAIN Head(notifs) => Head(notifs)[l] = device[l]
               /\ l \notin L => ~Pending(l)
    <3>1. \A j \in 1..n : l \notin DOMAIN notifs'[j]
      BY <2>2, <2>5 DEF Pending
    <3>2. l \notin left /\ \A j \in 2..n : l \notin DOMAIN notifs[j]
      BY <1>0, <2>2, <2>3, <3>1
    <3>3. l \in DOMAIN Head(notifs) => Head(notifs)[l] = device[l]
      BY <1>0, <3>2 DEF Latest, n
    <3> QED
      BY <1>0, <3>2, <3>3 DEF Pending, n
  <2> QED
    BY <2>4, <2>5
<1> QED
  BY <1>1, <1>2

-----------------------------------------------------------------------------
(* The steps.                                                              *)

\* There is no copy in the beginning, and nothing on its way.
LEMMA InitMirrors == SyncInit => MirrorInv
<1> SUFFICES ASSUME SyncInit PROVE MirrorInv
  OBVIOUS
<1>1. notifs = <<>> /\ Len(notifs) = 0
  BY DEF SyncInit
<1>2. Latest
  BY <1>1 DEF Latest
<1> QED
  BY <1>2 DEF SyncInit, Init, MirrorInv, DelUnsettled, Mirrors, MirrorsLeaf

\* A crash leaves nothing to be said of the copy.
LEMMA ResetMirrors ==
  ASSUME Reset, SyncReset
  PROVE  MirrorInv'
<1>1. notifs' = <<>> /\ Len(notifs') = 0
  BY DEF SyncReset
<1>2. Latest'
  BY <1>1 DEF Latest
<1> QED
  BY <1>2 DEF Reset, SyncReset, MirrorInv, DelUnsettled, Mirrors, MirrorsLeaf

\* Handlers only add to what is owed.
LEMMA EntriesMirror ==
  ASSUME TypeOK, MirrorInv,
         UNCHANGED <<loopVars, current, merged, device, applied, notifs,
                     missed>>,
         ready' => ready \/ current # NoConfig,
         \A r \in Resource :
           data2[r] \notin Settled => data2'[r] \notin Settled
  PROVE  MirrorInv'
<1> USE DEF loopVars
<1>1. Latest' /\ \A l : Followed(l)' => Followed(l)
  BY DEF MirrorInv, Latest, Followed, Pending
<1>2. \A l : Covered(l) => Covered(l)'
  BY DEF Covered
<1>3. \A l : Owed(current, l) => Owed(current, l)'
  BY <1>2 DEF Owed
<1>4. \A l : Owed(merged, l) => Owed(merged, l)'
  BY <1>2 DEF Owed
<1>5. \A l : MirrorsLeaf(l) => MirrorsLeaf(l)'
  BY <1>3, <1>4 DEF MirrorsLeaf, OnCopy
<1>6. DelUnsettled'
  BY DEF MirrorInv, DelUnsettled, TypeOK
<1> QED
  BY <1>1, <1>5, <1>6 DEF MirrorInv, Mirrors

\* What handlers and others do to a leaf of the device is reported, or missed.
LEMMA LeafWriteMirrors ==
  ASSUME Known, MirrorInv, NEW k \in Leaf, NEW v \in OptValue,
         DeviceLeafBecomes(k, v),
         UNCHANGED <<vars, current, merged, applied, subscribed>>
  PROVE  MirrorInv'
<1> USE DEF vars, cacheVars, loopVars
<1>1. [device EXCEPT ![k] = v] \in Config
  BY TreesAreTrees DEF Known, Typed, DeviceTyped
<1>2. Latest'
      /\ \A l \in Leaf : Followed(l)' => Followed(l) /\ device'[l] = device[l]
  <2>1. Reporting \subseteq Leaf
    BY DEF Reporting
  <2> QED
    BY <1>1, <2>1, DeviceMoves DEF DeviceLeafBecomes, Known, MirrorInv
<1>4. \A l \in Leaf : device'[l] = device[l] /\ MirrorsLeaf(l)
                        => MirrorsLeaf(l)'
  BY DEF MirrorsLeaf, Owed, Covered, OnCopy
<1> QED
  BY <1>2, <1>4 DEF MirrorInv, Mirrors, DelUnsettled

\* A create or delete adds to what is owed; an Update marks its leaf as missed.
LEMMA HandlerMirrors ==
  ASSUME Known, MirrorInv, NEW c \in Rpc, SyncHandler(c)
  PROVE  MirrorInv'
<1>0. TypeOK
  BY DEF Known
<1>1. ASSUME NEW r \in Resource, NEW v \in Value, SyncCreate(c, r, v)
      PROVE  MirrorInv'
  BY <1>0, <1>1, EntriesMirror
  DEF SyncCreate, CreateGNMIK8sResource, Settled, TypeOK
<1>2. ASSUME NEW r \in Resource, SyncDelete(c, r) PROVE MirrorInv'
  BY <1>0, <1>2, EntriesMirror
  DEF SyncDelete, DeleteGNMIK8sResource, cacheVars, configVars
<1>3. CASE SyncSetDeletePending(c)
  BY <1>0, <1>3, EntriesMirror
  DEF SyncSetDeletePending, SetDeletePending, configVars, Settled, TypeOK
<1>4. CASE SyncRaiseNewProviderUpdates(c)
  BY <1>0, <1>4, EntriesMirror
  DEF SyncRaiseNewProviderUpdates, RaiseNewProviderUpdates, configVars
<1>5. ASSUME NEW l \in UpdateLeaf, NEW v \in Value \union {NoVal},
             UpdateGNMIK8sResource(c, l, v)
      PROVE  MirrorInv'
  BY <1>0, <1>5, EntriesMirror
  DEF UpdateGNMIK8sResource, vars, cacheVars
<1>6. ASSUME update[c] # NoUpdate
      PROVE  /\ update[c].leaf \in Leaf
             /\ update[c].val \in OptValue
             /\ ready
  BY <1>6, ChangeLeafAssumption DEF Known, Typed, UpdateTyped, Sent
<1>7. CASE DeviceAppliesSet(c)
  BY <1>6, <1>7, LeafWriteMirrors DEF DeviceAppliesSet
<1>8. CASE SetGnmiOk(c)
  \* the leaf is missed or more about it is to come, the others are as before
  <2> USE <1>8 DEF SetGnmiOk, vars, cacheVars, loopVars
  <2>1. Latest' /\ \A l \in Leaf : Followed(l)' =>
          Followed(l) /\ l # update[c].leaf
    BY DEF MirrorInv, Latest, Followed, Pending, Misses, Reporting
  <2>2. \A l \in Leaf : l # update[c].leaf => current'[l] = current[l]
    BY <1>6 DEF WithUpdate, Known, Typed, CopyTyped, Config
  <2>3. \A l \in Leaf : current'[l] = current[l] /\ MirrorsLeaf(l)
                          => MirrorsLeaf(l)'
    BY <1>6 DEF MirrorsLeaf, Owed, Covered, OnCopy
  <2> QED
    BY <2>1, <2>2, <2>3 DEF MirrorInv, Mirrors, DelUnsettled
<1>9. CASE SetGnmiErr(c)
  BY <1>0, <1>9, EntriesMirror DEF SetGnmiErr, vars, cacheVars
<1>10. CASE SyncDeletePanic(c)
  BY <1>10, ResetMirrors DEF SyncDeletePanic, DeletePanic
<1> QED
  BY <1>1, <1>2, <1>3, <1>4, <1>5, <1>7, <1>8, <1>9, <1>10 DEF SyncHandler

\* The stream begins with all that is there, behind what is left of it.
LEMMA StreamBegins ==
  ASSUME Known, Latest, StartGnmiSubscriptionHandler
  PROVE  Latest' /\ \A l \in Leaf : Followed(l)' => Followed(l)
<1> USE DEF StartGnmiSubscriptionHandler
<1> DEFINE n == Len(notifs)
           d == Difference(Empty, device)
<1>1. notifs \in Seq(Notification) /\ n \in Nat
  BY DEF Known, Typed, StreamTyped
<1>2. DOMAIN d = Present(device) /\ \A l \in DOMAIN d : d[l] = device[l]
  BY DEF Difference, Empty, Present
<1>3. CASE Present(device) = {}
  BY <1>3 DEF Latest, Followed, Pending
<1>4. CASE Present(device) # {}
  <2>1. notifs' = Append(notifs, d) /\ missed' = missed \ DOMAIN d
    BY <1>2, <1>4
  <2>2. /\ Len(notifs') = n + 1
        /\ \A i \in 1..n : notifs'[i] = notifs[i]
        /\ notifs'[n + 1] = d
    <3> HIDE DEF d
    <3> QED
      BY <1>1, <2>1
  <2> HIDE DEF n, d
  <2>3. Latest'
    <3> SUFFICES ASSUME NEW i \in 1..(n + 1), NEW l \in DOMAIN notifs'[i]
                 PROVE  \/ l \in missed'
                        \/ notifs'[i][l] = device[l]
                        \/ \E j \in (i + 1)..(n + 1) : l \in DOMAIN notifs'[j]
      BY <1>1, <2>2 DEF Latest
    <3>1. CASE i = n + 1
      BY <1>2, <2>2, <3>1
    <3>2. CASE i \in 1..n /\ l \in DOMAIN d
      <4>1. n + 1 \in (i + 1)..(n + 1)
        BY <1>1, <3>2
      <4> QED
        BY <2>2, <3>2, <4>1
    <3>3. CASE i \in 1..n /\ l \notin DOMAIN d
      <4>1. \/ l \in missed
            \/ notifs[i][l] = device[l]
            \/ \E j \in (i + 1)..n : l \in DOMAIN notifs[j]
        BY <2>2, <3>3 DEF Latest, n
      <4>2. \A j \in (i + 1)..n :
              j \in (i + 1)..(n + 1) /\ notifs'[j] = notifs[j]
        BY <1>1, <2>2, <3>3
      <4> QED
        BY <2>1, <2>2, <3>3, <4>1, <4>2
    <3> QED
      BY <1>1, <2>2, <3>1, <3>2, <3>3
  <2>4. ASSUME NEW l \in Leaf, Followed(l)' PROVE Followed(l)
    <3>1. \A i \in 1..(n + 1) : l \notin DOMAIN notifs'[i]
      BY <2>2, <2>4 DEF Followed, Pending
    <3>2. l \notin DOMAIN d /\ \A i \in 1..n : l \notin DOMAIN notifs[i]
      BY <1>1, <2>2, <3>1
    <3> QED
      BY <2>1, <2>4, <3>2 DEF Followed, Pending, n
  <2> QED
    BY <2>3, <2>4
<1> QED
  BY <1>3, <1>4

\* The discovery takes the copy from the device.
LEMMA StartupMirrors ==
  ASSUME Known, MirrorInv, SyncStartup
  PROVE  MirrorInv'
<1>0. TypeOK
  BY DEF Known
<1>1. CASE GetInitialConfig
  <2> USE <1>1 DEF GetInitialConfig, vars, cacheVars, loopVars
  <2>1. pc = "stopped" /\ notifs = <<>> /\ Len(notifs) = 0
    BY DEF Known, Typed, StreamTyped
  <2>2. \A l \in Leaf : Owed(current, l)'
    BY DEF Owed
  <2>3. \A l \in Leaf : MirrorsLeaf(l)'
    BY <2>1, <2>2 DEF MirrorsLeaf
  <2>4. Latest'
    BY <2>1 DEF Latest
  <2> QED
    BY <2>3, <2>4 DEF MirrorInv, Mirrors, DelUnsettled
<1>2. CASE SyncCacheReady
  BY <1>0, <1>2, EntriesMirror
  DEF SyncCacheReady, CacheReady, configVars
<1>3. CASE SyncStartReconcileProcess
  <2> USE <1>3
      DEF SyncStartReconcileProcess, StartReconcileProcess, configVars
  <2>1. \A l \in Leaf : Followed(l)' => Followed(l)
    BY DEF Followed, Pending
  <2>2. \A l \in Leaf : MirrorsLeaf(l) => MirrorsLeaf(l)'
    BY DEF MirrorsLeaf, Owed, Covered, OnCopy
  <2> QED
    BY <2>1, <2>2 DEF MirrorInv, Latest, Mirrors, DelUnsettled
<1>4. CASE StartGnmiSubscriptionHandler
  <2> USE <1>4
      DEF StartGnmiSubscriptionHandler, vars, cacheVars, loopVars
  <2>1. Latest' /\ \A l \in Leaf : Followed(l)' => Followed(l)
    BY <1>4, StreamBegins DEF MirrorInv
  <2>2. \A l \in Leaf : MirrorsLeaf(l) => MirrorsLeaf(l)'
    BY DEF MirrorsLeaf, Owed, Covered, OnCopy
  <2> QED
    BY <2>1, <2>2 DEF MirrorInv, Mirrors, DelUnsettled
<1> QED
  BY <1>1, <1>2, <1>3, <1>4 DEF SyncStartup

\* What a break loses is missed; what it leaves comes as it would have.
LEMMA BreakMirrors ==
  ASSUME Known, MirrorInv, StreamBreaks
  PROVE  MirrorInv'
<1> DEFINE len == Len(notifs)
<1>0. notifs \in Seq(Notification) /\ len \in Nat
  BY DEF Known, Typed, StreamTyped
<1>1. PICK n \in 0..len :
        /\ notifs' = SubSeq(notifs, 1, n)
        /\ missed' = missed \union
                       UNION {DOMAIN notifs[i] : i \in (n + 1)..len}
  BY DEF StreamBreaks
<1>2. Len(notifs') = n /\ \A i \in 1..n : notifs'[i] = notifs[i]
  BY <1>0, <1>1
<1>3. UNCHANGED <<vars, device, current, merged, applied>>
  BY DEF StreamBreaks
<1> HIDE DEF len
<1>4. \A i \in (n + 1)..len : DOMAIN notifs[i] \subseteq missed'
  BY <1>1
<1>5. Latest'
  <2> SUFFICES ASSUME NEW i \in 1..n, NEW l \in DOMAIN notifs[i],
                      l \notin missed', notifs[i][l] # device[l]
               PROVE  \E j \in (i + 1)..n : l \in DOMAIN notifs'[j]
    BY <1>2, <1>3 DEF Latest
  <2>0. i \in 1..len /\ l \notin missed
    BY <1>0, <1>1
  <2>1. PICK j \in (i + 1)..len : l \in DOMAIN notifs[j]
    BY <2>0 DEF MirrorInv, Latest, len
  <2>2. j \in (i + 1)..n
    BY <1>0, <1>4, <2>1
  <2> QED
    BY <1>2, <2>1, <2>2
<1>6. ASSUME NEW l \in Leaf, Followed(l)' PROVE Followed(l)
  <2>1. l \notin missed /\ \A i \in 1..n : l \notin DOMAIN notifs[i]
    BY <1>1, <1>2, <1>6 DEF Followed, Pending
  <2>2. \A i \in 1..len : l \notin DOMAIN notifs[i]
    BY <1>0, <1>4, <1>6, <2>1 DEF Followed
  <2> QED
    BY <2>1, <2>2 DEF Followed, Pending, len
<1>7. \A l \in Leaf : MirrorsLeaf(l) => MirrorsLeaf(l)'
  BY <1>3 DEF MirrorsLeaf, Owed, Covered, OnCopy, vars, cacheVars, loopVars
<1> QED
  BY <1>3, <1>5, <1>6, <1>7
  DEF MirrorInv, Mirrors, DelUnsettled, vars, cacheVars, loopVars

\* A leaf that is followed after a step is not among those the step misses.
LEMMA MissedOrToCome ==
  ASSUME NEW L, Misses(L), NEW l \in Leaf, Followed(l)'
  PROVE  l \notin L
BY DEF Misses, Followed, Reporting, Pending

\* Between two cycles, what is taken from the stream is put right in the copy,
\* and what is not is missed or is to come once more.
LEMMA OnChangeMirrors ==
  ASSUME Known, MirrorInv, OnChange
  PROVE  MirrorInv'
<1>1. /\ notifs # <<>>
      /\ UNCHANGED <<vars, replace, merged, device, applied, subscribed,
                     update>>
  BY DEF OnChange, OnChangeTaken, OnChangeDelete, OnChangeUpdate,
         OnChangeError, DeletesHandled
<1>2. current \in Config /\ ready
  BY <1>1 DEF Known, Typed, StreamTyped, CopyTyped
<1>3. ASSUME NEW L, Handled(L), L \subseteq DOMAIN Head(notifs),
             missed \subseteq missed',
             \A l \in Leaf : Followed(l)' =>
               \/ l \notin L /\ current'[l] = current[l]
               \/ l \in L /\ NoCycle /\ current'[l] = Head(notifs)[l]
      PROVE  MirrorInv'
  <2>1. /\ Latest'
        /\ \A l \in Leaf \ missed : ~Pending(l)' =>
             /\ l \in L => Head(notifs)[l] = device[l]
             /\ l \notin L => ~Pending(l)
    BY <1>1, <1>3, HandlingMoves DEF Known, MirrorInv
  <2>2. ASSUME NEW l \in Leaf, Followed(l)', l \notin L PROVE MirrorsLeaf(l)'
    <3>1. Followed(l) /\ current'[l] = current[l]
      BY <1>3, <2>1, <2>2 DEF Followed
    <3>2. MirrorsLeaf(l)
      BY <3>1 DEF MirrorInv, Mirrors
    <3> QED
      BY <1>1, <1>2, <3>1, <3>2
      DEF MirrorsLeaf, Owed, Covered, OnCopy, vars, cacheVars, loopVars
  <2>3. ASSUME NEW l \in Leaf, Followed(l)', l \in L PROVE MirrorsLeaf(l)'
    <3>1. NoCycle /\ current'[l] = device[l]
      BY <1>3, <2>1, <2>3 DEF Followed
    <3> QED
      BY <1>1, <3>1 DEF MirrorsLeaf, Owed, OnCopy, NoCycle, vars, loopVars
  <2> QED
    BY <1>1, <2>1, <2>2, <2>3
    DEF MirrorInv, Mirrors, DelUnsettled, vars, cacheVars, loopVars
<1>4. ASSUME NEW k \in Leaf, OnChangeDelete(k) PROVE MirrorInv'
  <2>1. /\ Handled({k})
        /\ {k} \subseteq DOMAIN Head(notifs)
        /\ missed \subseteq missed'
    BY <1>4 DEF OnChangeDelete, Misses
  <2>2. ASSUME NEW l \in Leaf, Followed(l)'
        PROVE  \/ l \notin {k} /\ current'[l] = current[l]
               \/ l \in {k} /\ NoCycle /\ current'[l] = Head(notifs)[l]
    BY <1>4, <2>2, MissedOrToCome DEF OnChangeDelete, Without
  <2> QED
    BY <1>3, <2>1, <2>2
<1>5. ASSUME NEW K \in Container, OnChangeUpdate(K) PROVE MirrorInv'
  <2>1. PICK T \in Taken(K) :
          /\ current' = WithReported(current, T)
          /\ Misses(IF NoCycle THEN Differing(K) \ T ELSE Reported(K))
    BY <1>5 DEF OnChangeUpdate
  <2>2. T \subseteq Differing(K)
    BY DEF Taken
  <2>3. /\ Differing(K) \subseteq Reported(K)
        /\ \A l \in Reported(K) \ Differing(K) : current[l] = Head(notifs)[l]
    BY DEF Differing
  <2>4. \A l \in Leaf :
          current'[l] = IF l \in T THEN Head(notifs)[l] ELSE current[l]
    BY <2>1 DEF WithReported
  <2>5. ASSUME NEW l \in Leaf, Followed(l)'
        PROVE  \/ l \notin Reported(K) /\ current'[l] = current[l]
               \/ l \in Reported(K) /\ NoCycle /\ current'[l] = Head(notifs)[l]
    <3>1. l \notin IF NoCycle THEN Differing(K) \ T ELSE Reported(K)
      BY <2>1, <2>5, MissedOrToCome
    <3> QED
      BY <2>2, <2>3, <2>4, <3>1
  <2>6. Handled(Reported(K)) /\ Reported(K) \subseteq DOMAIN Head(notifs)
        /\ missed \subseteq missed'
    BY <1>5, <2>1 DEF OnChangeUpdate, Reported, Misses
  <2> QED
    BY <1>3, <2>5, <2>6
<1>6. CASE OnChangeError
  <2> DEFINE L == DOMAIN Head(notifs)
  <2>1. Handled(L) /\ Misses(L) /\ current' = current
    BY <1>6 DEF OnChangeError
  <2>2. missed \subseteq missed'
    BY <2>1 DEF Misses
  <2>3. ASSUME NEW l \in Leaf, Followed(l)' PROVE l \notin L
    BY <2>1, <2>3, MissedOrToCome
  <2> QED
    BY <1>3, <2>1, <2>2, <2>3
<1> QED
  BY <1>4, <1>5, <1>6 DEF OnChange, OnChangeTaken

\* A step that the device and the stream have no part in is looked at leaf by
\* leaf.
LEMMA LeafByLeaf ==
  ASSUME MirrorInv, UNCHANGED <<device, notifs>>, missed' = missed,
         DelUnsettled',
         \A l \in Leaf : MirrorsLeaf(l) => MirrorsLeaf(l)'
  PROVE  MirrorInv'
BY DEF MirrorInv, Latest, Mirrors, Followed, Pending

\* The merge begins with the copy.
LEMMA StartMergeMirrors ==
  ASSUME Known, MirrorInv, pc # "stopped", StartMerge, updateObjects = {},
         OnCopy, merged' = current,
         UNCHANGED <<cacheVars, updateObjects, current, device, notifs,
                     missed>>
  PROVE  MirrorInv'
<1>1. DelUnsettled'
  BY DEF StartMerge, DelUnsettled
<1>2. \A l \in Leaf : MirrorsLeaf(l) => MirrorsLeaf(l)'
  BY DEF StartMerge, MirrorsLeaf, Owed, Covered, OnCopy, Known, Typed,
         cacheVars
<1> QED
  BY <1>1, <1>2, LeafByLeaf

\* The goroutine works on the copy and writes back what it has pushed.
LEMMA ReconcileMirrors ==
  ASSUME Known, DelObjectsPending, MirrorInv, SyncReconcileStep
  PROVE  MirrorInv'
<1>0. /\ pc # "stopped" => ready
      /\ pc \notin {"merge", "updating", "succeeded", "failed"}
           => updateObjects = {}
      /\ applied => pc \in {"deleting", "updating"}
      /\ updateObjects \subseteq Resource
      /\ delObjects \subseteq Resource
      /\ data2 \in [Resource -> ResourceStatus \union {"absent"}]
      /\ \A r \in delObjects : data2[r] \notin Settled
  BY DEF Known, TypeOK, Typed, DeviceTyped, TargetInv, TargetsOnlyInUpdate,
         MirrorInv, DelUnsettled
<1>1. CASE SyncTick
  <2> USE <1>1 DEF SyncTick, Tick, cacheVars, configVars
  <2>1. DelUnsettled'
    BY <1>0 DEF DelUnsettled
  <2>2. \A l \in Leaf : MirrorsLeaf(l) => MirrorsLeaf(l)'
    BY DEF MirrorsLeaf, Owed, Covered, OnCopy
  <2> QED
    BY <2>1, <2>2, LeafByLeaf
<1>2. ASSUME NEW r \in Resource, SyncCollect(r) PROVE MirrorInv'
  <2> USE <1>2 DEF SyncCollect, Collect, cacheVars, configVars
  <2>1. DelUnsettled'
    BY <1>0 DEF DelUnsettled, Settled
  <2>2. \A l \in Leaf : MirrorsLeaf(l) => MirrorsLeaf(l)'
    BY DEF MirrorsLeaf, Owed, Covered, OnCopy
  <2> QED
    BY <2>1, <2>2, LeafByLeaf
<1>3. CASE SyncCollectDone
  <2> USE <1>3 DEF SyncCollectDone, CollectDone
  <2>1. CASE pc' = "deleting"
    <3> USE <2>1 DEF cacheVars, configVars
    <3>1. UNCHANGED <<ready, data2, delObjects, updateObjects, configVars>>
      BY DEF StartMerge
    <3>2. DelUnsettled'
      BY <1>0, <3>1 DEF DelUnsettled
    <3>3. \A l \in Leaf : MirrorsLeaf(l) => MirrorsLeaf(l)'
      BY <1>0, <3>1 DEF MirrorsLeaf, Owed, Covered, OnCopy
    <3> QED
      BY <3>1, <3>2, <3>3, LeafByLeaf
  <2>2. CASE StartMerge
    <3>1. pc' = "merge" /\ CopyCurrentConfig
      BY <2>2 DEF StartMerge
    <3> QED
      BY <1>0, <2>2, <3>1, StartMergeMirrors DEF CopyCurrentConfig, OnCopy
  <2> QED
    BY <2>1, <2>2
<1>4. ASSUME NEW r \in Resource, SyncDeleteResource2(r) PROVE MirrorInv'
  \* what leaves the copy has left the device
  <2> USE <1>4 DEF SyncDeleteResource2, DeleteResource2
  <2>1. DelUnsettled'
    BY <1>0 DEF DelUnsettled
  <2>2. r \in delObjects
    BY DEF FirstOf
  <2>3. ASSUME NEW l \in Leaf, MirrorsLeaf(l) PROVE MirrorsLeaf(l)'
    <3>1. Owed(current, l)
          /\ \A s \in delObjects : l \in PathOf[s] => device[l] = NoVal
      BY <1>0, <2>3 DEF MirrorsLeaf, OnCopy
    <3>2. CASE l \in PathOf[r]
      BY <2>2, <3>1, <3>2 DEF MirrorsLeaf, Owed, Without
    <3>3. CASE l \notin PathOf[r]
      <4>1. current'[l] = current[l] /\ (Covered(l) => Covered(l)')
        BY <1>0, <3>3 DEF Without, Covered
      <4> QED
        BY <3>1, <4>1 DEF MirrorsLeaf, Owed
    <3> QED
      BY <3>2, <3>3
  <2> QED
    BY <2>1, <2>3, LeafByLeaf
<1>5. CASE SyncRemoveDone
  BY <1>0, <1>5, StartMergeMirrors
  DEF SyncRemoveDone, RemoveDone, CopyCurrentConfig, OnCopy
<1>6. ASSUME NEW r \in Resource, SyncMerge(r) PROVE MirrorInv'
  <2> USE <1>6 DEF SyncMerge, Merge, cacheVars
  <2>1. DelUnsettled'
    BY <1>0 DEF DelUnsettled
  <2>2. ASSUME NEW l \in Leaf, MirrorsLeaf(l) PROVE MirrorsLeaf(l)'
    <3>1. Owed(current, l)'
      BY <1>0, <2>2 DEF MirrorsLeaf, Owed, Covered, OnCopy
    <3>2. \/ merged'[l] = current'[l]
          \/ merged'[l] # NoVal /\ \E s \in updateObjects' : l \in OwnOf[s]
      <4>1. CASE r \in updateObjects' /\ l \in OwnOf[r]
        <5>1. data2[r] # "absent"
          BY <4>1 DEF Known, TargetInv, StatusTargetsExist
        <5>2. merged'[l] = replace[r] /\ replace[r] # NoVal
          BY <4>1, <5>1 DEF WithResource, Known, Typed, EntryTyped
        <5> QED
          BY <4>1, <5>2
      <4>2. CASE ~(r \in updateObjects' /\ l \in OwnOf[r])
        <5>1. merged'[l] = merged[l]
          BY <4>2 DEF WithResource
        <5> QED
          BY <2>2, <5>1 DEF MirrorsLeaf
      <4> QED
        BY <4>1, <4>2
    <3> QED
      BY <3>1, <3>2 DEF MirrorsLeaf
  <2> QED
    BY <2>1, <2>2, LeafByLeaf
<1>7. CASE SyncMergeDone
  <2> USE <1>7 DEF SyncMergeDone, MergeDone, cacheVars
  <2>1. DelUnsettled'
    BY <1>0 DEF DelUnsettled
  <2>2. ASSUME NEW l \in Leaf, MirrorsLeaf(l) PROVE MirrorsLeaf(l)'
    <3>1. Owed(current, l)
      BY <1>0, <2>2 DEF MirrorsLeaf, OnCopy
    <3>2. Covered(l)' <=> Covered(l)
      BY DEF Covered
    <3>3. CASE updateObjects = {}
      BY <3>1, <3>2, <3>3 DEF MirrorsLeaf, Owed
    <3>4. CASE updateObjects # {}
      <4>1. (\E s \in updateObjects : l \in OwnOf[s]) => Covered(l)
        BY <1>0, OwnOfAssumption DEF Covered
      <4>2. Owed(merged, l)
        BY <2>2, <3>1, <4>1 DEF MirrorsLeaf, Owed
      <4> QED
        BY <1>0, <3>2, <3>4, <4>2 DEF MirrorsLeaf, Owed, OnCopy
    <3> QED
      BY <3>3, <3>4
  <2> QED
    BY <2>1, <2>2, LeafByLeaf
<1>8. ASSUME NEW r \in Resource, SyncSetStatus2(r) PROVE MirrorInv'
  <2> USE <1>8 DEF SyncSetStatus2, SetStatus2, configVars
  <2>1. DelUnsettled'
    <3>1. delObjects = {}
      BY DEF DelObjectsPending
    <3> QED
      BY <3>1 DEF DelUnsettled
  <2>2. pc = "failed" => \A l \in Leaf : Covered(l) => Covered(l)'
    BY <1>0, OwnOfAssumption DEF Covered, Settled
  <2>3. \A l \in Leaf : MirrorsLeaf(l) => MirrorsLeaf(l)'
    BY <2>2 DEF MirrorsLeaf, Owed, OnCopy
  <2> QED
    BY <2>1, <2>3, LeafByLeaf
<1>9. CASE SyncSetStatusDone
  <2> USE <1>9 DEF SyncSetStatusDone, SetStatusDone, cacheVars
  <2>1. DelUnsettled'
    BY <1>0 DEF DelUnsettled
  <2>2. \A l \in Leaf : MirrorsLeaf(l) => MirrorsLeaf(l)'
    BY DEF MirrorsLeaf, Owed, Covered
  <2> QED
    BY <2>1, <2>2, LeafByLeaf
<1>10. CASE SetStatusDoneOverwritten
  BY <1>0, <1>10
  DEF SetStatusDoneOverwritten, SetStatusDone, cacheVars, MirrorInv, Latest,
      DelUnsettled, Mirrors, Followed, Pending, Misses, Reporting
<1>11. CASE SyncClearNewProviderUpdates \/ SyncScanStatus
  <2> USE <1>11 DEF SyncClearNewProviderUpdates, ClearNewProviderUpdates,
                    SyncScanStatus, ScanStatus, configVars
  <2>1. DelUnsettled'
    BY <1>0 DEF DelUnsettled
  <2>2. \A l \in Leaf : MirrorsLeaf(l) => MirrorsLeaf(l)'
    BY DEF MirrorsLeaf, Owed, Covered, OnCopy
  <2> QED
    BY <2>1, <2>2, LeafByLeaf
<1> QED
  BY <1>1, <1>2, <1>3, <1>4, <1>5, <1>6, <1>7, <1>8, <1>9, <1>10, <1>11
  DEF SyncReconcileStep

\* A call that failed leaves its entries unsettled, so what it did is owed.
LEMMA DeviceMirrors ==
  ASSUME Known, MirrorInv, SyncDevice
  PROVE  MirrorInv'
<1>0. /\ pc # "stopped" => ready
      /\ pc \notin {"merge", "updating", "succeeded", "failed"}
           => updateObjects = {}
      /\ delObjects \subseteq Resource
      /\ \A r \in delObjects : data2[r] \notin Settled
      /\ device \in Config
  BY DEF Known, TypeOK, Typed, DeviceTyped, TargetInv, TargetsOnlyInUpdate,
         MirrorInv, DelUnsettled
<1>1. ASSUME NEW cfg \in Config, DeviceObeys(cfg),
             UNCHANGED <<vars, subscribed>>,
             \A l \in Leaf :
               MirrorsLeaf(l) /\ (subscribed => cfg[l] = device[l])
                               => MirrorsLeaf(l)'
      PROVE  MirrorInv'
  <2>1. /\ Latest'
        /\ \A l \in Leaf : Followed(l)' =>
             Followed(l) /\ (subscribed => device'[l] = device[l])
    BY <1>1, DeviceMoves DEF DeviceObeys, Known, MirrorInv
  <2>2. device' = cfg
    BY <1>1 DEF DeviceObeys, DeviceBecomes
  <2>3. Mirrors'
    BY <1>1, <2>1, <2>2 DEF MirrorInv, Mirrors
  <2> QED
    BY <1>1, <2>1, <2>3
    DEF MirrorInv, DelUnsettled, vars, cacheVars, loopVars
<1>2. CASE DeviceAppliesDelete
  <2> USE <1>2 DEF DeviceAppliesDelete
  <2> DEFINE L == UNION {PathOf[r] : r \in delObjects}
             cfg == Without(device, L)
  <2>1. cfg \in Config
    BY <1>0, TreesAreTrees
  <2>2. device' = cfg
    BY DEF DeviceObeys, DeviceBecomes
  <2>3. ASSUME NEW l \in Leaf, MirrorsLeaf(l) PROVE MirrorsLeaf(l)'
    <3> USE DEF vars, cacheVars, loopVars
    <3>1. Owed(current, l)
      BY <1>0, <2>3 DEF MirrorsLeaf, OnCopy
    <3>2. l \in L => Covered(l)
      BY <1>0 DEF Covered
    <3>3. cfg[l] = IF l \in L THEN NoVal ELSE device[l]
      BY DEF Without
    <3>4. Owed(current, l)'
      BY <2>2, <3>1, <3>2, <3>3 DEF Owed, Covered
    <3>5. \A r \in delObjects : l \in PathOf[r] => device'[l] = NoVal
      BY <2>2, <3>3
    <3> QED
      BY <3>4, <3>5 DEF MirrorsLeaf
  <2> QED
    BY <1>1, <2>1, <2>3
<1>3. CASE SyncDeleteGnmiOk
  <2> USE <1>3 DEF SyncDeleteGnmiOk, DeleteGnmiOk, cacheVars
  <2>1. DelUnsettled'
    BY <1>0 DEF DelUnsettled
  <2>2. \A l \in Leaf : MirrorsLeaf(l) => MirrorsLeaf(l)'
    BY DEF MirrorsLeaf, Owed, Covered, OnCopy
  <2> QED
    BY <2>1, <2>2, LeafByLeaf
<1>4. CASE SyncDeleteGnmiErr
  BY <1>0, <1>4, StartMergeMirrors
  DEF SyncDeleteGnmiErr, DeleteGnmiErr, OnCopy
<1>5. CASE DeviceAppliesUpdate
  \* with the push, the device has what the tree has
  <2> USE <1>5 DEF DeviceAppliesUpdate
  <2> DEFINE cfg == Overlay(merged, device)
  <2>1. cfg \in Config
    BY <1>0, TreesAreTrees DEF Known, Typed, CopyTyped
  <2>2. device' = cfg
    BY DEF DeviceObeys, DeviceBecomes
  <2>3. ASSUME NEW l \in Leaf, MirrorsLeaf(l) PROVE MirrorsLeaf(l)'
    <3>1. Owed(merged, l)
      BY <2>3 DEF MirrorsLeaf
    <3>2. device'[l] = merged[l]
      BY <2>2, <3>1 DEF Overlay, Owed
    <3> QED
      BY <3>2 DEF MirrorsLeaf, Owed, OnCopy, vars, loopVars
  <2> QED
    BY <1>1, <2>1, <2>3
<1>6. CASE SyncUpdateGnmiOk \/ SyncUpdateGnmiErr
  <2> USE <1>6 DEF SyncUpdateGnmiOk, UpdateGnmiOk, SyncUpdateGnmiErr,
                   UpdateGnmiErr, cacheVars
  <2>1. DelUnsettled'
    BY <1>0 DEF DelUnsettled
  <2>2. \A l \in Leaf : MirrorsLeaf(l) => MirrorsLeaf(l)'
    BY DEF MirrorsLeaf, Owed, Covered, OnCopy
  <2> QED
    BY <2>1, <2>2, LeafByLeaf
<1> QED
  BY <1>2, <1>3, <1>4, <1>5, <1>6 DEF SyncDevice

\* The invariant is inductive, on top of the types and the targets.
LEMMA NextMirrors ==
  Known /\ DelObjectsPending /\ MirrorInv /\ [SyncNext]_syncVars => MirrorInv'
<1> SUFFICES ASSUME Known, DelObjectsPending, MirrorInv, [SyncNext]_syncVars
             PROVE  MirrorInv'
  OBVIOUS
<1>0. TypeOK
  BY DEF Known
<1>1. CASE SyncOldServiceRequest
  BY <1>0, <1>1, EntriesMirror
  DEF SyncOldServiceRequest, OldServiceRequest, configVars
<1>2. ASSUME NEW l \in OutOfBand, NEW v \in Value \union {NoVal},
             DeviceChange(l, v)
      PROVE  MirrorInv'
  BY <1>2, ChangeLeafAssumption, LeafWriteMirrors DEF DeviceChange, OptValue
<1>3. CASE SyncRestart
  BY <1>3, ResetMirrors DEF SyncRestart, Restart
<1>4. CASE UNCHANGED syncVars
  BY <1>0, <1>4, EntriesMirror DEF syncVars, configVars, vars, cacheVars
<1> QED
  BY <1>1, <1>2, <1>3, <1>4, StartupMirrors, HandlerMirrors, ReconcileMirrors,
     DeviceMirrors, OnChangeMirrors, BreakMirrors
     DEF SyncNext, SteadyNext, OnChange

-----------------------------------------------------------------------------
(* The results.                                                            *)

\* It holds in every behaviour.
LEMMA MirrorInvariant == SyncSpec => []MirrorInv
<1>1. SyncSpec => []TypeOK /\ []TargetInv /\ []DelObjectsPending
  BY SyncImplementsLoop, TypeCorrect, TargetInvariant, DelObjectsInvariant,
     PTL
<1>2. TypeOK /\ Typed /\ TargetInv /\ DelObjectsPending /\ MirrorInv
        /\ [SyncNext]_syncVars => MirrorInv'
  BY NextMirrors DEF Known
<1> QED
  BY <1>1, <1>2, InitTyped, NextKeepsTyped, InitMirrors, PTL DEF SyncSpec

\* When all is quiet the copy is the device's configuration, but for the leaves
\* whose last change was handled at the wrong time, dropped, or lost with the
\* stream (all in missed), whatever resources there are and however they
\* overlap, whatever calls failed and whenever the stream broke.
THEOREM AlwaysMirrorUnlessMissed == SyncSpec => []MirrorUnlessMissed
<1>1. TargetInv /\ Typed /\ MirrorInv => MirrorUnlessMissed
  <2> SUFFICES ASSUME TargetInv, Typed, MirrorInv, Quiet,
                      NEW l \in Leaf \ missed
               PROVE  current[l] = device[l]
    BY DEF MirrorUnlessMissed
  <2>1. Followed(l)
    BY DEF Quiet, Followed, Pending
  <2>2. Owed(current, l)
    BY <2>1 DEF Quiet, MirrorInv, Mirrors, MirrorsLeaf, OnCopy, Typed
  <2>3. ~Covered(l)
    BY DEF Quiet, Covered, TargetInv, TargetsOnlyInUpdate
  <2> QED
    BY <2>2, <2>3 DEF Owed
<1>2. SyncSpec => []TargetInv
  BY SyncImplementsLoop, TargetInvariant, PTL
<1>3. SyncSpec => []Typed
  <2>1. SyncSpec => []TypeOK
    BY SyncImplementsLoop, TypeCorrect, PTL
  <2> QED
    BY <2>1, InitTyped, NextKeepsTyped, PTL DEF SyncSpec
<1> QED
  BY <1>1, <1>2, <1>3, MirrorInvariant, PTL

\* What one push may change on the device.
AskedIsChanged ==
  DeviceAppliesUpdate =>
    \A l \in Leaf \ (missed \union Reporting) :
      \/ device'[l] = device[l]
      \/ \E r \in updateObjects : l \in OwnOf[r]
      \/ \E r \in Resource : l \in PathOf[r] /\ data2[r] \notin Settled

\* The tree of a push is that of the device wherever the copy has followed it,
\* save for what the entries ask for: nothing that was deleted or that others
\* changed comes back with it, whatever calls failed and wherever in the cycle
\* notifications, handlers and breaks of the stream fell.
THEOREM PushAlwaysChangesWhatIsAsked == SyncSpec => PushChangesWhatIsAsked
<1>1. MirrorInv => AskedIsChanged
  <2> SUFFICES ASSUME MirrorInv, DeviceAppliesUpdate,
                      NEW l \in Leaf \ missed, ~Pending(l),
                      device'[l] # device[l]
               PROVE  Covered(l)
    BY DEF AskedIsChanged, Reporting, Pending, Covered
  <2>1. Owed(merged, l)
    BY DEF DeviceAppliesUpdate, MirrorInv, Mirrors, MirrorsLeaf, Followed
  <2>2. device'[l] = IF merged[l] = NoVal THEN device[l] ELSE merged[l]
    BY DEF DeviceAppliesUpdate, DeviceObeys, DeviceBecomes, Overlay
  <2> QED
    BY <2>1, <2>2 DEF Owed
<1>2. MirrorInv => [AskedIsChanged]_syncVars
  BY <1>1
<1> QED
  BY <1>2, MirrorInvariant, PTL DEF PushChangesWhatIsAsked, AskedIsChanged

=============================================================================
