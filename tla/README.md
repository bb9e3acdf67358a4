# A verification of the network device driver

`ndd` device drivers (`src/`) sit between Kubernetes providers and one network
device. Providers send gNMI requests to the driver's server; the driver keeps
what they ask for in a cache, and a reconcile goroutine brings the device in
line with it. This directory models the driver in TLA+, checks the models with
TLC and proves part of what they promise with TLAPS. All paths without a
directory are in `src/internal/dd/`.

## 1. The system

### Components, their state and their operations

| Component | State | Operations | Modelled in |
|---|---|---|---|
| Reconcile loop (`ddrunner.go:155`, `reconcileconfig.go:32`) | local: levels, delObjects, updateObjects, mergedData | once per second, if `NewProviderUpdates`: deletes in one call, merge of all other entries, one update of the root path, statuses, flag, scan | `ReconcileLoop`, `ConfigSync`, abstractly `ResourceLifecycle` and `ResourceDelivery` |
| Set handlers (`gnmiServerSet.go:18-247`) | at most 64 at a time (`unaryRPCsem`) | create, delete: change `Data2`, raise the flag; update: straight to the device, then the copy | `ReconcileLoop`, `ConfigSync` |
| Cache (`serverconfig.go:86`) | `Data2` (status, path and updates per level and name), `NewProviderUpdates`, `CurrentConfig`, `ready`, `RegisteredDevices`, `Device` | `DeleteResource2`, `SetStatus2`, `Create/Update/DeleteObjectGnmi`, `Lock` | `ReconcileLoop`, `ConfigSync`, `DriverStartup` |
| On-change reconciliation (`reconcileonchange.go:29`) | none of its own | writes changes the device reports into `CurrentConfig` | `ConfigSync` |
| Discovery (`ddrunner.go:32-128`) | device type, details, driver | capabilities, driver, details, configuration, config map, status, ready; begins anew after a failure | `DriverStartup` |
| Registration (`gnmiServerSet.go:250-351`, `gnmiServerGet.go:365`) | `RegisteredDevices` | create, update, delete, get | `DriverStartup` |
| Kubernetes API (`k8sapi.go`) | the NetworkNode and a config map | status, config map | `DriverStartup` (status) |
| srl driver (`../devices/srl/srl.go`) | the gNMI target | get, set, update, delete | calls that succeed or fail with or without effect |
| Get handlers (`gnmiServerGet.go:79-362`) | none | read the copy and `Data2`, step by step | `GetHandlers` |
| Subscribe server (`gnmiServerSubscribe.go`, `gnmiServer.go:277-373`) | spots, queues, match tree, gNMI cache | take a spot, answer the query, stream to providers until they leave | `SubscribeServer` |
| Path match (`serverconfig.go:639-681`, `gnmiServerGet.go:106`) | none | longest resource path contained in a path | `GetHandlers` |
| Collector (`collector.go`) | the one subscription | start, stop (no caller) | `DriverStartup` (start), `ConfigSync` (stream) |
| Legacy config service (`serverconfig.go:175-429`) | `Cache.Data`, the flag it shares | create, get, update, delete | `GetHandlers` (reads), `ReconcileLoop` (the flag) |
| Legacy register service, `sros`, `utils.go`, command line | none that is used | superseded or no state | not modelled |

### How they interact

The discovery sets `ready` last; then one goroutine reconciles and another reads
the on-change stream of the device. Set handlers run beside both.
`Cache.Lock` is `Mutex.RLock` (`serverconfig.go:443`), so it excludes nobody:
the only order between these parties is that of the statements of each. `Data2`
and the flag connect handlers and loop; `CurrentConfig` is written by the loop,
the on-change goroutine, Update handlers and the discovery; the device by the
loop, Update handlers and other managers.

### What is hard, and what is correct

* Wake-ups: the flag is raised and cleared without exclusion. Correct: whatever
  still needs the device has a next cycle (`PendingIsScheduled`).
* Device calls of up to 10 s between the read and the write of an entry.
  Correct: the status belongs to what was sent (`SuccessIsOnDevice`), deletes
  are not forgotten (`DeleteIsKept`), the entry is there (`StatusTargetsExist`),
  creates survive (`CreateIsKept`).
* Failure and retry: a failed call may have taken effect. Correct: statuses
  settle (`NoStatusIsStuck`, `QuietConverges`) and the data arrives
  (`QuietDelivers`).
* Four writers of one copy, notifications late. Correct: at rest the copy is the
  device's configuration (`QuietMirror`, `MirrorUnlessMissed`), and a push, which
  always has the whole tree, brings nothing back that it was not asked for
  (`PushChangesWhatIsAsked`).
* Streams that end in several ways, each with two goroutines. Correct: spots are
  given back once (`SpotsHeld`, `LeavingFreesSpot`), a refused query is not
  reported as in sync (`SyncedWasAnswered`), nobody waits for ever
  (`StreamIsAnswered`).
* Startup: six steps that can each fail, registration and discovery waiting for
  each other, subscriptions read once. Correct: `ReadyIsDiscovered`,
  `SubscribedAsRegistered`, `EventuallyReady`.
* Requests that read data, entry and other entries one after the other, while all
  of them change, and compare paths as texts. Correct: what is answered was true
  while the request was served (`BestMatch`, `StatusWasTrue`, `InnerDataCutOut`,
  `OwnDataKept`, `AllPathsRead`).
* The on-change stream breaks and begins anew, and responses are dropped half
  handled (`ddrunner.go:196-198`, `reconcileonchange.go:90-93`). Correct: what is
  lost with them is all the copy lacks (`MirrorUnlessMissed`).
* The status of a resource has writers in several places. Correct: it moves only
  as `ResourceLifecycle` says (`LifeSpec`), and with it the data on the device only
  as `ResourceDelivery` says (`DeliverySpec`).

`PROJECT.json` lists the hazards line by line.

## 2. The models

### `ReconcileLoop`

One action per access to shared state. A Set handler is a permit of the
semaphore: `CreateGNMIK8sResource` stores the entry,
`RaiseNewProviderUpdates` raises the flag and returns the permit; the delete
handler looks the entry up (`DeleteGNMIK8sResource`), writes
`SetDeletePending` or, if the entry is gone by then, dereferences nil
(`DeletePanic`), then raises the flag. `pc` is the place of the goroutine:
`Tick` takes the levels, `Collect` visits one entry of the first range,
`CollectDone` decides about the delete call, `DeleteGnmiOk/Err` are its
answers, `DeleteResource2` removes one entry, `Merge` visits one entry of the
second range, `UpdateGnmiOk/Err`, `SetStatus2`, `ClearNewProviderUpdates` and
`ScanStatus` finish the cycle. `levels` survives the cycle so that properties
can speak of the levels the last cycle knew.

Abstractions. The levels of a resource do not change. The level key and the
entry are written in one step, and so is the final scan: no step of another
party in between changes its result, as only the goroutine writes Success. An
unsynchronised access to a Go map that the runtime notices ends the process:
`Restart`. Only maps are at stake: a torn read of a flag or status is not an
outcome of this code. An entry has at least one update, since the create handler
indexes the first one. The code appends an entry to `updateObjects` once per
Replace update (`reconcileconfig.go:175-179`) and then writes the same status as
often in a row; here the entry is in a set and its status is written once. No
property tells the two apart. `Recreate` says for which resources providers create over an
existing entry; what holds only without it says so. `OldServiceRequest` is all
that the loop notices of Create and Delete of the old service: the flag is up.

### `ResourceLifecycle`

What the driver promises about one resource: the status a provider reads, and
`turn`, what the cycle in progress has taken the resource for. A resource is
removed only if a cycle took it for its delete, reported on only if a cycle took
it for its update and while it is there, and a cycle that deletes has nothing
to update yet. What the device answered is no part of it: a driver that removed
after a failed delete would have this lifecycle, and not that of `ResourceDelivery`.
`ReconcileLoop` implements it with `status <- data2` and `turn`
read off `delObjects` and `updateObjects` (`LifeSpec`).

### `ConfigSync`

`EXTENDS ReconcileLoop` and adds to each of its actions what it does to the
configuration: `Sync<Action> == <Action> /\ ...`. A tree is a value or `NoVal`
per leaf, a path a set of leaves. A device call is a request, an effect
(`DeviceApplies...`) and an answer; an error may come before or after the
effect. The device reports each transaction as one notification of the leaves
that changed. `missed` is an auxiliary variable: the leaves whose last change the
copy may not have, used to say how far the copy can be trusted.

A response of the stream is handled in steps: each delete (`OnChangeDelete`),
then each update of a container (`OnChangeUpdate`). A value that cannot be decoded
ends the work on it at any of its updates (`OnChangeError`). `StreamBreaks` is the
error branch of the select: of the responses on their way some have arrived and are
handled later, the others are lost. From then on nothing is reported until gnmic
subscribes again, which is `StartGnmiSubscriptionHandler` once more: it sends what is
present, so what was deleted meanwhile stays in the copy, and in `missed`, until the
device reports the leaf again. The 60 s that the goroutine sleeps only make it late,
and it may be late at any time. That gnmic subscribes again, and that the device then
begins with its whole tree, is assumed of them. `SetStatusDoneOverwritten` is
the race of two assignments to `CurrentConfig`: another party, with a change of
its own in hand, read the tree before the write-back of a cycle and assigns it
afterwards, so that all the cycle wrote is lost.

Abstractions. One access to one leaf is atomic. A call that timed out takes no
effect after its answer. A container is a set of leaves, flat. Of a patch with
several operations the first one worked off takes effect, and it may be any of
them; the others are looked up below the path of the first, where there is
nothing to change (`reconcileonchange.go:124-146`); a container that is not in the
copy is created as reported. The stream is bounded by `MaxNotifs`: the device
waits while it is full. A merged tree that marshals to "null" and failing deep
copies do not occur.

### `ResourceDelivery`

What the driver promises about a resource together with its data. It extends
`ResourceLifecycle` by what each resource asks for (`asked`), what of it the device
holds (`held`) and whether the driver takes requests (`up`). Nothing but
`DeleteOnDevice` and `UpdateOnDevice` changes what the device holds: the one deletes
all that is taken for deletion, and may take what lies below it along, the other
brings all that is taken for update, among which is everything that was successful
before. An entry goes away (`Gone`) only once its data has, a status Success is
written (`Reported`) only if the device holds what the entry asks for, and a crash
(`Crash`) forgets all but the device. `ConfigSync` implements it with
`held <- Held`, the device restricted to what the resources carry (`DeliverySpec`),
if providers create only what is absent and nobody else writes that data. How the
tree comes about that is pushed, the copy and the stream are left out, so that the
promise can be read without them.

### `DriverStartup`

`pc` is the step of `deviceDriver.Run`. A status update that fails may have been
written (`StatusErr`). `ModelMatch` lists, for each model in the capabilities,
which types match it; the driver picks a type that matches the first model that
anything matches, and the Go map decides among several. `UpdateRegister`
indexes `req.Replace` of a request that has none (`gnmiServerSet.go:304`): the
process ends and starts again. `Device.Init` of srl has no error path. An
error of `CleanConfig2String` is only logged; the configuration counts as loaded.
`StartGnmiSubscriptionHandler` reads the list of subscriptions, `StartSubscription` is
the goroutine of the collector that sends the request and then waits for a stop
nobody sends. `withdrawn` is auxiliary: the registration that matched the device
has been deleted since.

### `SubscribeServer`

A stream has a handler (`Subscribe`), a worker (`handleSubscriptionRequest`, or
the goroutine that closes the queue of a ONCE request) and a sender
(`sendStreamingResults`). `free` is what is left of `subscribeRPCsem`.
`SubscribeNoSpot`, `Subscribe` and `SubscribeUnrecognized` are the ways out of the
handler's prologue; `CloseOnce`, `QueryAnswered` and `QueryFails` are the worker;
`SendSync`, `SendFails`, `QueueClosed` and `ContextDone` the sender. The handler
stays at `waiting`: nobody closes `errChan`.

Abstractions. The events of resources are left out: they are addressed to target
"" (`c.target` is set nowhere), the gNMI cache holds only the configured target,
and so none is ever queued; what is queued is the sync marker. The queries in the
match tree are left out with them. A client leaves once and comes back as another
stream. What happens before a spot is asked for has no effect.

### `GetHandlers`

The requests of the gNMI service and of the old one that read the cache; `service`
says which, and with it which map `entries` is. `match` requests search the map
for the longest path contained in a text, `observe` requests read the data, look
the entry up and cut out what belongs to resources inside, `read` requests look
at paths one by one. Between any two steps the environment changes entries, copy
or readiness. A loop over a Go map is `MatchVisit` or `ParseVisit` in any order;
it may end once it has visited what was in the map all the time (`lasting`).
`seen`, `lasting`, `seenLeaf` and `lastingLeaf` are auxiliary: what was there at
any time since the request came, and what all the time.

Abstractions. One request at a time: they share nothing they write. One lookup of
a path in the copy is atomic, and a deep copy that fails does not occur. A text
is a sequence of pieces (`/`, `[`, names and parts of names), enough to tell
containment of texts from paths above each other; as the set of pieces is a constant,
the theorems hold for single characters as well. A key whose value contains
a `/` or `[` does not occur. Resource values are containers, the type assertion in
`ParseReturnObserveDataGnmi` does not fail. `ParsePanic` is the index of the last
element of a path that has none: the process ends and the cache is empty and not
ready. The properties of a request speak of its own answer, so changes are only
counted (`MaxChanges`) while one is served. The status of an entry is in
`ReconcileLoop`. That the runtime may end the process when it sees a map read and
written at once leaves a request without an answer, of which nothing is said; the
restart is in `ReconcileLoop`.

### MC modules

`MCReconcileLoop`, `MCConfigSync`, `MCDriverStartup`, `MCSubscribeServer` and
`MCGetHandlers` define the instances.
Operators under "Plausible mistakes" in the modules are used by no
specification; each stands in for an action to see that a property notices.

## 3. The runs

| Run | Instance | Checks | Result |
|---|---|---|---|
| `loop_safety` | 3 resources on 2 levels, one without path, one created over itself, 2 handlers | `TypeOK`, `PendingIsScheduled`, `StatusTargetsExist`, `CreateIsKept`, `LifeSpec` | holds |
| `loop_liveness` | 2 resources on 2 levels, both created over themselves, 2 handlers | `NoStatusIsStuck`, `QuietConverges` | holds |
| `loop_new_level` | as above, no create over an entry | `AllPendingIsScheduled` | violated |
| `loop_delete_lost` | same | `DeleteIsKept` | violated |
| `sync_mirror` | 1 resource with a leaf below its path that it does not own, which Updates and others change, both leaves in one container, 2 values, 1 handler, 1 notification | `SyncTypeOK`, `MirrorUnlessMissed`, `SuccessIsOnDevice`, `PushChangesWhatIsAsked` | holds |
| `sync_liveness` | 2 resources, one below the other, which alone has a leaf, 1 value, no Update, 2 notifications | `SuccessIsOnDevice`, `PushChangesWhatIsAsked`, `DeliverySpec`, `MirrorUnlessMissed`, `QuietDelivers` | holds |
| `sync_quiet_mirror` | 2 resources, one below the other, each with a leaf, 1 value, no Update, 2 notifications, a stream that never fails (`SteadySpec`) | `QuietMirror` | violated |
| `sync_recreated` | the same resources and leaves, 2 values, 1 notification, creates over entries | `SuccessIsOnDevice` | violated |
| `sync_push_reverts` | 1 resource, 2 values, Updates of its leaf | `PushLeavesSuccessAlone` | violated |
| `subscribe` | 3 streams, 2 spots | `TypeOK`, `SpotsHeld`, `SyncedWasAnswered`, `StreamIsAnswered`, `LeavingFreesSpot` | holds |
| `startup` | 2 types, 1 driver, 2 registrations, 3 models | `TypeOK`, `ReadyIsDiscovered`, `SubscribedAsRegistered`, `EventuallyReady` | holds |
| `get_handlers` | 5 resources, 3 leaves, 2 paths asked for, 2 changes during a request | `TypeOK`, `BestMatch`, `StatusWasTrue`, `InnerDataCutOut`, `OwnDataKept`, `AllPathsRead` | holds |

The bounds. Two levels give an order between resources and a level that can be
new; a third resource gives two of one level. Two handlers let a handler overtake
another one and the loop; a third only repeats what two do, as handlers do not
look at each other. Two leaves, one below the path of the other's resource, let a delete of a parent take the data of
a child. Two values tell an old push from a new one, and a leaf that others
set, change and delete from one that only comes and goes. Two
notifications let the copy lag behind by more than a cycle, and let a break lose the
one and keep the other. A resource without a leaf below whose path another
one has its own is enough for a delete to take what must be delivered again; that
parents have data as well is in the theorems and in the runs that find violations. Three streams
for two spots let one be refused and take the place of another. The paths of
`get_handlers` are one inside another, one the beginning of another's name, one
with a key, one the end of another, and the root; two changes let an entry go and
another one come, or entry and data change between the reads of both.
Handlers are interchangeable
(`RpcSymmetry`, used where no liveness is checked). Deadlock is checked in every
run but `subscribe`, where in the end all streams may be over.

The five violations are what the code does against what its comments say; section
6 of this file lists them.

### Fairness

Goroutines are scheduled, so steps of the loop, of handlers past their checks, of
the startup and of the on-change goroutine are weakly fair. The target has a
timeout of 10 s (`ddriver.go:153`), so a device call is answered: weak fairness of
the answers. That a call repeated for ever succeeds at times is strong fairness
of the successful answer: without it no retry could ever help. Providers are
not obliged to send anything; liveness of the loop holds once they stop
(`QuietConverges`, `QuietDelivers`) or without any such premise
(`NoStatusIsStuck`). gnmic subscribes again after a break (weak fairness of
`StartGnmiSubscriptionHandler`), while breaks themselves need not happen.
`QuietDelivers` asks that they end: the device waits while the stream is full, and a
bounded stream that breaks for ever may be full, with the whole tree, whenever the
loop calls. Other than that the reports of the device play no part in the delivery. The
goroutines of a stream are weakly fair as well; clients may stay or leave. In the
startup the providers of a type check and renew
their registration again and again, and `EventuallyReady` asks that from some
point on none is withdrawn and the process does not end. It also needs that
the first model that anything matches is matched by a type with a driver, as it
is in the instance.

## 4. What is proved

For every value of the constants, by `tlapm`:

* `ReconcileLoopProofs`
  * `TypeCorrect`: `Spec => []TypeOK`. Inductive as it stands.
  * `StatusTargetsAlwaysExist`: `StatusTargetsExist` is strengthened by
    `TargetsOnlyInUpdate` (update objects exist only from the merge to the
    statuses). Only `DeleteResource2` removes entries, and it runs when there
    are no update objects: that is why it needs the place of the goroutine.
  * `PendingIsAlwaysScheduled`: only the steps that enter or happen in the wait
    matter: the scan raises the flag for what it sees, and a handler that writes
    an entry during the wait is storing until it has raised the flag.
  * `CreateIsAlwaysKept`: from `DelObjectsPending`, what a cycle is about to
    remove outside `Recreate` is still to be deleted.
  * `LoopImplementsLifecycle`: every step of the loop and its handlers is a step of
    `ResourceLifecycle` or leaves status and turn alone. It needs from the
    invariants above which of the two sets a resource is in at each place of the
    goroutine, and that what is reported on is still there.
* `ConfigSyncProofs`
  * `SyncTypeCorrect`: `SyncTypeOK` from `Typed`, which adds that the driver's parts
    run only once the cache is ready (a copy is then a tree), and that a
    notification is on its way only once the cache is ready. The lemma
    `SyncImplementsLoop` gives the types of the loop's variables: every action here is
    one of `ReconcileLoop` with more conjuncts or leaves its variables alone, so what
    is proved of `Spec` holds with the data and the device. That is how the module
    is written, and no claim about the code.
  * `SuccessIsAlwaysOnDevice`: `SuccessIsOnDevice`, provided `Exclusive`: creates only
    of what is absent, no leaf carried by two resources, and none of them written
    by Updates or by others on the device. Without the first it does not hold
    (`sync_recreated`), nor without the last (any change on the device). A delete of
    one resource may take the data of others from the device, so in the midst of a
    cycle nothing can be said of them. `LevelInv` says that every successful entry
    is at a level of the running cycle, `CycleInv` follows what is at stake from the
    merge to the status: it is still to be visited or an update object, what
    `merged` holds for update objects is what they ask for, what the device
    carried out is on it, and after an update that failed none keeps its Success.
* `ConfigMirrorProofs`, without a condition on constants: resources may overlap and
  be created over themselves, Updates and others may write any leaf.
  * `AlwaysMirrorUnlessMissed`: `MirrorUnlessMissed` by `MirrorInv`. For the stream,
    `Latest`: the last notification on its way that reports a leaf has the value of
    the device, unless the leaf is missed, so a leaf that none reports and that was not
    missed is followed. A break, which keeps a beginning of the stream, and a response
    that is dropped put what they lose into `missed`; a stream that begins anew
    reports what is present and takes it out again (`StreamBegins`,
    `BreakMirrors`, `MissedOrToCome`). For
    a followed leaf, `Owed`: the copy may differ from the device, namely after a call
    that failed with or after its effect, but then it has a value there, which the
    next push brings, and that push is owed (`Covered`): the leaf belongs to an entry
    the cycle sends, or lies below one that is not settled. While a cycle works on
    `merged` the same is said of it, and what a delete has taken from the device is
    gone there until it is gone from the copy. When all is quiet nothing is owed.
    TLC checked each part before it was proved.
  * `PushAlwaysChangesWhatIsAsked`: `PushChangesWhatIsAsked`, from the same invariant
    at the moment of the push: what `merged` has otherwise than the device is owed.
    Both theorems are about leaves not in `missed`. A delete on the device while the
    stream is down is one of the changes they say nothing of: the copy keeps the
    leaf and the next push sends it.
* `ConfigDeliveryProofs`
  * `SyncImplementsDelivery`: every step of `ConfigSync` is a step of
    `ResourceDelivery` or leaves its variables alone, provided `Exclusive`. Besides
    the invariants above it takes `OffInv` (what a cycle is about to remove from the
    cache is off the device, from the effect of the delete on) and `CallInv` (a call
    has something to send, and a handler works on an entry only while the driver
    takes requests). Without `Exclusive` a provider's second create changes what an
    entry asks for while its push is under way.
* `DriverStartupProofs`: `StartupTypeCorrect` and `ReadyIsAlwaysDiscovered`, both
  from `AttemptInv`: what each step of an attempt finds done by those before it.
  The types need it too, as the subscriptions are looked up by a device type
  that is only known to be one once an attempt has got that far.
  `AlwaysSubscribedAsRegistered` adds `RegistrationInv`: from the match on, the
  type is registered unless it was withdrawn, and a registration that is there
  is not replaced, as providers register only what they found absent.
* `GetHandlersProofs`: all six invariants of `get_handlers`. `TypeOK` has the types of
  requests, answers, elements to cut out and paths to read as well (`RequestTypeOK`),
  which take the invariant below: an element is one of a resource below the one that
  is asked for, since the path of the request is that resource's. First lemmas about
  texts: a path contains that of every path above it (`WithinInText`), and two
  paths below a third, one above the other, have the same first element below it
  (`SameElement`). Then one invariant `Inv`: what the auxiliary sets say of
  entries and copy (`SeenInv`), and for each kind of request what its loop has
  established for what it visited (`MatchInv`, `ParseInv`, `ReadInv`) or what its
  reads were (`StatusInv`). A loop ends only when it has visited `lasting`, which
  turns the one into the property; a change of the cache only makes `seen`
  larger and `lasting` smaller, which keeps it.
* `SubscribeServerProofs`: `SpotsAreAlwaysHeld` by the theorems on the cardinality of
  a set with an element more or less, `StreamsTypeCorrect`, which needs it for
  `free`, and `SyncedAlwaysWasAnswered`, from the query being answered once and
  before anything is sent.

Assumptions: those on the constants in the modules (`LevelOfAssumption`,
`NoResourceAssumption`, `DriversAssumption` and so on), evaluated by TLC in every
run; `SuccessIsAlwaysOnDevice` and `SyncImplementsDelivery` have `Exclusive` besides,
which the instances of the runs satisfy. Nothing else is assumed.

Only model-checked: all liveness (`NoStatusIsStuck`, `QuietConverges`,
`QuietDelivers`, `StreamIsAnswered`, `LeavingFreesSpot`, `EventuallyReady`), as the
prover does no reasoning about fairness or `ENABLED`. Every invariant, every action
property and every refinement that a run finds to hold is a theorem. Induction over data and recursive operators are
out of the prover's reach as well; no model here needs either.

## 5. Plan

Done, in this order: the loop and its handlers, its theorems, the configuration
data and the refinement, the startup and its theorems, the streams of the
subscribe server, the lifecycle of a resource as the abstract specification of the
loop, on-change responses container by container, the start of the collector, the
requests that read the cache, the theorems about these, about the streams, and about
types and status with the configuration data, the theorem about the copy and the
device, the delivery of resources as the abstract specification of the
configuration data, with its theorem, breaks of the stream and dropped responses.
Next:

1. Safety lemmas on the way to the liveness properties: that at every place of the
   loop the guard of some step of its own, or of the device's answer, holds.
2. The same for the sender and the worker of a stream.
3. The match tree of the subscribe server, once events of resources reach it.

## 6. What the violations show

* `loop_new_level` (`reconcileconfig.go:250`): a resource at a level that is new
  during a cycle stays pending until an unrelated request.
* `loop_delete_lost` (`reconcileconfig.go:238`): a delete that arrives during the
  push of its resource is overwritten by Success and never carried out.
* `sync_recreated` (`reconcileconfig.go:238`): so is a create, whose data is never
  sent although it is reported successful.
* `sync_quiet_mirror` (`reconcileconfig.go:242`): changes reported during a cycle
  vanish from the copy for good.
* `sync_push_reverts` (`reconcileconfig.go:173`): a push for any resource undoes
  the Updates of all.

## 7. Not modelled

TLS, the command line, logging, protobuf encoding and the decoding of device
details: no state of the modelled parts depends on them.

* Of the old configuration service, Update with `ReconcileUpdate`
  (`reconcileupdate.go`): the device call and the changes of the copy of
  `UpdateGNMIK8sResource`, which `ConfigSync` has. Its entries in `Cache.Data` matter
  to nobody but its own reads (`GetHandlers`) and `FindManagedResource`.
* The registration service and server of `serverregister.go` and `server.go`: not
  attached to the gRPC server any more (`gnmiServer.go:184-185`).
* `gnmic.go`: builds requests, flattens responses, keeps no state. `sros.go` and
  `utils.go` are commented out, `errors.go` holds constants.
* Events of resources to subscribed providers, and with them the match tree: none is
  ever queued (section 2, `SubscribeServer`).
* `StopSubscription`, `FindManagedResourceGnmi`, deviations and the srl calls with the old
  request types: without a caller, or reached by the old Update only.
