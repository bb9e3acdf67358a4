--------------------------- MODULE DriverStartup ---------------------------
(***************************************************************************)
(* deviceDriver.Run (ddrunner.go:32-153): the discovery that makes the     *)
(* cache ready, against the registrations it waits for                     *)
(* (gnmiServerSet.go:250-351, gnmiServerGet.go:365-409), the device and    *)
(* the node's status in Kubernetes.  What starts when it ends is module    *)
(* ReconcileLoop.                                                          *)
(***************************************************************************)
EXTENDS Naturals, Sequences

CONSTANTS
  DeviceType,   \* device types providers register
  Drivers,      \* devices.Devices: the types this build has a driver for
  Subs,         \* contents of a registration: its list of subscriptions
  ModelMatch,   \* per model of the device's capabilities, in their order:
                \* the types whose match string its name contains
  Unknown,      \* DeviceTypeUnknown
  NoSubs        \* no registration; GetSubscriptions found none

ASSUME DriversAssumption == Drivers \subseteq DeviceType
ASSUME ModelMatchAssumption == ModelMatch \in Seq(SUBSET DeviceType)
ASSUME UnknownAssumption == Unknown \notin DeviceType
ASSUME NoSubsAssumption == NoSubs \notin Subs

VARIABLES
  registered,     \* Cache.RegisteredDevices
  pc,             \* where Run, and then the goroutine it starts, is
  deviceType,     \* deviceDriver.DeviceType
  deviceDetails,  \* deviceDriver.DeviceDetails: "initial" or "discovered"
  cacheDevice,    \* the type of the driver in Cache.Device
  configLoaded,   \* Cache.CurrentConfig holds what the device answered
  ready,          \* Cache.ready
  subscription,   \* the list handed to the collector, once it is
  withdrawn,      \* auxiliary: the registration of deviceType was deleted
                  \* since its driver was chosen
  node,           \* the NetworkNode's condition and details in Kubernetes
  answer          \* what the provider of a type last read of its registration

driverVars == <<pc, deviceType, deviceDetails, cacheDevice, configLoaded,
                ready, subscription>>
vars == <<registered, driverVars, node, answer, withdrawn>>

-----------------------------------------------------------------------------

Condition == {"None", "Configured", "NotDiscovered", "Discovered"}
Details == {"initial", "discovered"}

Pc == {"configure", "capabilities", "match", "discover", "getConfig",
       "configMap", "setReady", "cacheReady", "notReady", "running",
       "subscribing", "subscribed"}

Registered == {t \in DeviceType : registered[t] # NoSubs}

\* getDeviceType: the first model that some registered type matches; the
\* matches are a map, so if there are several any of them may come first.
MatchingTypes ==
  LET hits == {i \in 1..Len(ModelMatch) :
                 ModelMatch[i] \intersect Registered # {}}
  IN  IF hits = {}
        THEN {Unknown}
        ELSE UNION {ModelMatch[i] \intersect Registered :
                      i \in {j \in hits : \A k \in hits : j <= k}}

Init ==
  /\ registered = [t \in DeviceType |-> NoSubs]
  /\ pc = "configure"
  /\ deviceType = Unknown
  /\ deviceDetails = "initial"
  /\ cacheDevice = Unknown
  /\ configLoaded = FALSE
  /\ ready = FALSE
  /\ subscription = NoSubs
  /\ node = [condition |-> "None", details |-> "initial"]
  /\ answer = [t \in DeviceType |-> "none"]
  /\ withdrawn = FALSE

-----------------------------------------------------------------------------
(* SetNetworkNodeStatus: a read and a write of the NetworkNode.  A failed  *)
(* one may have written all the same.                                      *)

StatusOk(c) == node' = [condition |-> c, details |-> deviceDetails']

StatusErr(c) == StatusOk(c) \/ node' = node

-----------------------------------------------------------------------------
(* Plausible mistakes in the actions below.  No specification uses them:   *)
(* they stand in for the action they are named after when the properties   *)
(* are tested (PROJECT.json, "mutants").                                   *)

\* DeleteRegister, the type itself forgotten.
DeleteForgetsType(t) ==
  /\ registered[t] # NoSubs
  /\ registered' = [u \in DeviceType \ {t} |-> registered[u]]
  /\ UNCHANGED <<driverVars, node, answer, withdrawn>>

\* StartGnmiSubscriptionHandler, matching the registrations once more.
SubscribeAsMatchedNow ==
  /\ pc = "running"
  /\ pc' = "subscribing"
  /\ \E t \in MatchingTypes :
       subscription' = IF t = Unknown THEN NoSubs ELSE registered[t]
  /\ UNCHANGED <<registered, answer, deviceType, deviceDetails, cacheDevice,
                 configLoaded, ready, node, withdrawn>>

\* ReadyFails without its "continue".
ReadyFailsGoesOn ==
  /\ pc = "setReady"
  /\ pc' = "cacheReady"
  /\ deviceDetails' = deviceDetails
  /\ StatusErr("Discovered")
  /\ UNCHANGED <<registered, answer, deviceType, cacheDevice, configLoaded,
                 ready, subscription, withdrawn>>

\* GetRegister, answering only when the cache is ready.
GetRegisterWhenReady(t) ==
  /\ ready
  /\ answer' = [answer EXCEPT ![t] =
                  IF registered[t] = NoSubs THEN "absent" ELSE "present"]
  /\ UNCHANGED <<registered, driverVars, node, withdrawn>>

-----------------------------------------------------------------------------
(* The other updates of the status.                                        *)

\* Configured(): a failure is logged.
Configured ==
  /\ pc = "configure"
  /\ deviceDetails' = "initial"
  /\ StatusErr("Configured")
  /\ pc' = "capabilities"
  /\ UNCHANGED <<registered, deviceType, cacheDevice, configLoaded, ready,
                 subscription, answer, withdrawn>>

\* NotReady() and the sleep that follows: a failure is ignored.
NotReady ==
  /\ pc = "notReady"
  /\ deviceDetails' = "initial"
  /\ StatusErr("NotDiscovered")
  /\ pc' = "capabilities"
  /\ UNCHANGED <<registered, deviceType, cacheDevice, configLoaded, ready,
                 subscription, answer, withdrawn>>

-----------------------------------------------------------------------------
(* One attempt of the discovery.                                           *)

\* A step of the attempt succeeds, and Run goes on at p.
Proceed(from, p) ==
  /\ pc = from
  /\ pc' = p
  /\ UNCHANGED <<registered, answer>>

\* A call to the device or to the API server fails.
AttemptFails ==
  /\ pc \in {"capabilities", "discover", "getConfig", "configMap"}
  /\ pc' = "notReady"
  /\ UNCHANGED <<registered, deviceType, deviceDetails, cacheDevice,
                 configLoaded, ready, subscription, node, answer, withdrawn>>

DeviceCapabilities ==
  /\ Proceed("capabilities", "match")
  /\ UNCHANGED <<deviceType, deviceDetails, cacheDevice, configLoaded, ready,
                 subscription, node, withdrawn>>

InitDevice(t) ==
  /\ t \in Drivers
  /\ t \in MatchingTypes
  /\ Proceed("match", "discover")
  /\ deviceType' = t
  /\ cacheDevice' = t
  /\ withdrawn' = FALSE
  /\ UNCHANGED <<deviceDetails, configLoaded, ready, subscription, node>>

NoDriver ==
  /\ pc = "match"
  /\ \E t \in MatchingTypes : t \notin Drivers
  /\ pc' = "notReady"
  /\ UNCHANGED <<registered, deviceType, deviceDetails, cacheDevice,
                 configLoaded, ready, subscription, node, answer, withdrawn>>

Discover ==
  /\ Proceed("discover", "getConfig")
  /\ deviceDetails' = "discovered"
  /\ UNCHANGED <<deviceType, cacheDevice, configLoaded, ready, subscription,
                 node, withdrawn>>

GetConfig ==
  /\ Proceed("getConfig", "configMap")
  /\ configLoaded' = TRUE
  /\ UNCHANGED <<deviceType, deviceDetails, cacheDevice, ready, subscription,
                 node, withdrawn>>

UpdateConfigMap ==
  /\ Proceed("configMap", "setReady")
  /\ UNCHANGED <<deviceType, deviceDetails, cacheDevice, configLoaded, ready,
                 subscription, node, withdrawn>>

Ready ==
  /\ Proceed("setReady", "cacheReady")
  /\ deviceDetails' = deviceDetails
  /\ StatusOk("Discovered")
  /\ UNCHANGED <<deviceType, cacheDevice, configLoaded, ready, subscription,
                 withdrawn>>

ReadyFails ==
  /\ Proceed("setReady", "notReady")
  /\ deviceDetails' = deviceDetails
  /\ StatusErr("Discovered")
  /\ UNCHANGED <<deviceType, cacheDevice, configLoaded, ready, subscription,
                 withdrawn>>

CacheReady ==
  /\ Proceed("cacheReady", "running")
  /\ ready' = TRUE
  /\ UNCHANGED <<deviceType, deviceDetails, cacheDevice, configLoaded,
                 subscription, node, withdrawn>>

\* GetSubscriptions is read once, a second after the discovery: of a type that
\* is no longer registered it is empty, and stays so.
StartGnmiSubscriptionHandler ==
  /\ Proceed("running", "subscribing")
  /\ subscription' = registered[deviceType]
  /\ UNCHANGED <<deviceType, deviceDetails, cacheDevice, configLoaded, ready,
                 node, withdrawn>>

\* The goroutine of the collector sends the request, and waits for a stop that
\* nobody asks for.
StartSubscription ==
  /\ Proceed("subscribing", "subscribed")
  /\ UNCHANGED <<deviceType, deviceDetails, cacheDevice, configLoaded, ready,
                 subscription, node, withdrawn>>

-----------------------------------------------------------------------------
(* Registration handlers; none of them looks whether the cache is ready.   *)

GetRegister(t) ==
  /\ answer' = [answer EXCEPT ![t] =
                  IF registered[t] = NoSubs THEN "absent" ELSE "present"]
  /\ UNCHANGED <<registered, driverVars, node, withdrawn>>

\* A provider registers what it found absent.
CreateRegister(t, s) ==
  /\ answer[t] = "absent"
  /\ registered' = [registered EXCEPT ![t] = s]
  /\ answer' = [answer EXCEPT ![t] = "none"]
  /\ UNCHANGED <<driverVars, node, withdrawn>>

DeleteRegister(t) ==
  /\ registered[t] # NoSubs
  /\ registered' = [registered EXCEPT ![t] = NoSubs]
  /\ withdrawn' = (withdrawn \/ t = deviceType)
  /\ UNCHANGED <<driverVars, node, answer>>

\* The process ends; the NetworkNode and the providers remain.
Restart ==
  /\ registered' = [t \in DeviceType |-> NoSubs]
  /\ pc' = "configure"
  /\ deviceType' = Unknown
  /\ deviceDetails' = "initial"
  /\ cacheDevice' = Unknown
  /\ configLoaded' = FALSE
  /\ ready' = FALSE
  /\ subscription' = NoSubs
  /\ withdrawn' = FALSE
  /\ UNCHANGED <<node, answer>>

\* The handler reads req.Replace[0] of a request that has updates only
\* (gnmiServerSet.go:304): it panics.
UpdateRegister(t, s) ==
  /\ registered[t] # NoSubs
  /\ Restart

-----------------------------------------------------------------------------

DriverStep ==
  \/ Configured
  \/ NotReady
  \/ AttemptFails
  \/ DeviceCapabilities
  \/ \E t \in DeviceType : InitDevice(t)
  \/ NoDriver
  \/ Discover
  \/ GetConfig
  \/ UpdateConfigMap
  \/ Ready
  \/ ReadyFails
  \/ CacheReady
  \/ StartGnmiSubscriptionHandler
  \/ StartSubscription

\* What the providers do of their own accord.
Withdrawal ==
  \/ \E t \in DeviceType : DeleteRegister(t)
  \/ \E t \in DeviceType, s \in Subs : UpdateRegister(t, s)

Next ==
  \/ DriverStep
  \/ \E t \in DeviceType : GetRegister(t)
  \/ \E t \in DeviceType, s \in Subs : CreateRegister(t, s)
  \/ Withdrawal
  \/ Restart

Spec == Init /\ [][Next]_vars

\* Run goes on; calls to the device and to the API server succeed when they
\* are repeated for ever; providers of a type keep checking its registration
\* and register it when it is not there.
Fairness ==
  /\ WF_vars(DriverStep)
  /\ SF_vars(DeviceCapabilities)
  /\ \A t \in DeviceType : SF_vars(InitDevice(t))
  /\ SF_vars(Discover)
  /\ SF_vars(GetConfig)
  /\ SF_vars(UpdateConfigMap)
  /\ SF_vars(Ready)
  /\ \A t \in DeviceType :
       /\ WF_vars(GetRegister(t))
       /\ SF_vars(\E s \in Subs : CreateRegister(t, s))

FairSpec == Spec /\ Fairness

-----------------------------------------------------------------------------
(* What holds.                                                             *)

TypeOK ==
  /\ registered \in [DeviceType -> Subs \union {NoSubs}]
  /\ pc \in Pc
  /\ deviceType \in DeviceType \union {Unknown}
  /\ deviceDetails \in Details
  /\ cacheDevice \in DeviceType \union {Unknown}
  /\ configLoaded \in BOOLEAN
  /\ ready \in BOOLEAN
  /\ subscription \in Subs \union {NoSubs}
  /\ node \in [condition : Condition, details : Details]
  /\ answer \in [DeviceType -> {"none", "absent", "present"}]
  /\ withdrawn \in BOOLEAN

\* A cache that takes requests has a driver for its device and the device's
\* configuration, and Kubernetes shows the node as discovered, with the
\* details of this attempt, whichever earlier calls failed with or without
\* effect and whatever an earlier life of the process left there
\* (ddrunner.go:66-125).
ReadyIsDiscovered ==
  ready =>
    /\ deviceType \in Drivers
    /\ cacheDevice = deviceType
    /\ configLoaded
    /\ node = [condition |-> "Discovered", details |-> "discovered"]

\* The collector, which takes the list of subscriptions once and never again,
\* has that of the registration as it is now, unless the registration was
\* withdrawn since it matched the device: neither a discovery of several
\* attempts nor another provider makes it that of another type or of an older
\* registration (ddrunner.go:185, collector.go:109-144).
SubscribedAsRegistered ==
  pc \in {"subscribing", "subscribed"} /\ ~withdrawn
    => /\ subscription = registered[deviceType]
       /\ subscription # NoSubs

\* A driver whose process no longer ends, and whose providers withdraw no
\* registration, gets ready and subscribes to its device: the discovery waits
\* for a registration, which does not wait for the discovery
\* (gnmiServerGet.go:315-317).
EventuallyReady ==
  <>[][~(Restart \/ Withdrawal)]_vars => <>[](ready /\ pc = "subscribed")

=============================================================================
