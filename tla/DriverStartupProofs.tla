------------------------ MODULE DriverStartupProofs ------------------------
(* The discovery, for every set of device types, drivers and capabilities. *)
EXTENDS DriverStartup, TLAPS

\* The steps of an attempt in their order: what each of them finds done by
\* those before it, since none is skipped and a failure begins anew.
HasDriver == pc \in {"discover", "getConfig", "configMap", "setReady",
                     "cacheReady", "running", "subscribing",
                      "subscribed"}
               => deviceType \in Drivers /\ cacheDevice = deviceType

HasDetails == pc \in {"getConfig", "configMap", "setReady", "cacheReady",
                      "running", "subscribing",
                      "subscribed"}
                => deviceDetails = "discovered"

HasConfig == pc \in {"configMap", "setReady", "cacheReady", "running",
                     "subscribing", "subscribed"}
               => configLoaded

HasNode == pc \in {"cacheReady", "running", "subscribing",
                      "subscribed"}
             => node = [condition |-> "Discovered", details |-> "discovered"]

ReadyRuns == ready => pc \in {"running", "subscribing", "subscribed"}

\* What the provider of a type found absent is, and the registration that the
\* device matched stays the same until it is withdrawn: what the collector was
\* given is what is registered.
AbsentIsAbsent == \A t \in DeviceType : answer[t] = "absent"
                                         => registered[t] = NoSubs

HasRegistration ==
  pc \in {"discover", "getConfig", "configMap", "setReady", "cacheReady",
         "running", "subscribing", "subscribed"} /\ ~withdrawn
    => registered[deviceType] # NoSubs

HasSubscription ==
  pc \in {"subscribing", "subscribed"} /\ ~withdrawn
    => subscription = registered[deviceType]

AttemptInv ==
  TypeOK /\ HasDriver /\ HasDetails /\ HasConfig /\ HasNode /\ ReadyRuns

RegistrationInv ==
  AttemptInv /\ AbsentIsAbsent /\ HasRegistration /\ HasSubscription

-----------------------------------------------------------------------------

LEMMA InitAttemptInv == Init => AttemptInv
<1> SUFFICES ASSUME Init PROVE AttemptInv
  OBVIOUS
<1>1. node \in [condition : Condition, details : Details]
  BY DEF Init, Condition, Details
<1>2. answer \in [DeviceType -> {"none", "absent", "present"}]
  BY DEF Init
<1>3. registered \in [DeviceType -> Subs \union {NoSubs}]
  BY DEF Init
<1>4. TypeOK
  <2>1. /\ pc \in Pc
        /\ deviceType \in DeviceType \union {Unknown}
        /\ deviceDetails \in Details
        /\ cacheDevice \in DeviceType \union {Unknown}
        /\ configLoaded \in BOOLEAN
        /\ ready \in BOOLEAN
        /\ subscription \in Subs \union {NoSubs}
        /\ withdrawn \in BOOLEAN
    BY DEF Init, Details, Pc
  <2> QED
    BY <1>1, <1>2, <1>3, <2>1 DEF TypeOK
<1>5. HasDriver /\ HasDetails /\ HasConfig /\ HasNode /\ ReadyRuns
  BY DEF Init, HasDriver, HasDetails, HasConfig, HasNode, ReadyRuns
<1> QED
  BY <1>4, <1>5 DEF AttemptInv

\* Steps of Run.  The types are part of the induction: what the collector
\* subscribes to is a list of subscriptions because the device's type is that
\* of a driver when it does.
LEMMA DriverKeepsAttemptInv ==
  ASSUME AttemptInv, DriverStep
  PROVE  AttemptInv'
<1> USE DEF AttemptInv, HasDriver, HasDetails, HasConfig, HasNode, ReadyRuns,
            TypeOK, Condition, Details, Pc
<1>1. CASE Configured
  BY <1>1 DEF Configured, StatusErr, StatusOk
<1>2. CASE NotReady
  BY <1>2 DEF NotReady, StatusErr, StatusOk
<1>3. CASE AttemptFails
  BY <1>3 DEF AttemptFails
<1>4. CASE DeviceCapabilities
  BY <1>4 DEF DeviceCapabilities, Proceed
<1>5. ASSUME NEW t \in DeviceType, InitDevice(t) PROVE AttemptInv'
  BY <1>5 DEF InitDevice, Proceed
<1>6. CASE NoDriver
  BY <1>6 DEF NoDriver
<1>7. CASE Discover
  BY <1>7 DEF Discover, Proceed
<1>8. CASE GetConfig
  BY <1>8 DEF GetConfig, Proceed
<1>9. CASE UpdateConfigMap
  BY <1>9 DEF UpdateConfigMap, Proceed
<1>10. CASE Ready
  BY <1>10 DEF Ready, Proceed, StatusOk
<1>11. CASE ReadyFails
  BY <1>11 DEF ReadyFails, Proceed, StatusErr, StatusOk
<1>12. CASE CacheReady
  BY <1>12 DEF CacheReady, Proceed
<1>13. CASE StartGnmiSubscriptionHandler
  <2>1. deviceType \in DeviceType
    BY <1>13, DriversAssumption DEF StartGnmiSubscriptionHandler, Proceed
  <2> QED
    BY <1>13, <2>1 DEF StartGnmiSubscriptionHandler, Proceed
<1>14. CASE StartSubscription
  BY <1>14 DEF StartSubscription, Proceed
<1> QED
  BY <1>1, <1>2, <1>3, <1>4, <1>5, <1>6, <1>7, <1>8, <1>9, <1>10, <1>11,
     <1>12, <1>13, <1>14 DEF DriverStep

\* Everything else: registrations touch no variable of Run, and a new process
\* starts from the beginning.
LEMMA NextKeepsAttemptInv == AttemptInv /\ [Next]_vars => AttemptInv'
<1> SUFFICES ASSUME AttemptInv, [Next]_vars PROVE AttemptInv'
  OBVIOUS
<1> USE DEF AttemptInv, HasDriver, HasDetails, HasConfig, HasNode, ReadyRuns,
            TypeOK
<1>1. CASE DriverStep
  BY <1>1, DriverKeepsAttemptInv
<1>2. ASSUME NEW t \in DeviceType, GetRegister(t) PROVE AttemptInv'
  BY <1>2 DEF GetRegister, driverVars
<1>3. ASSUME NEW t \in DeviceType, NEW s \in Subs, CreateRegister(t, s)
      PROVE AttemptInv'
  BY <1>3 DEF CreateRegister, driverVars
<1>4. ASSUME NEW t \in DeviceType, DeleteRegister(t) PROVE AttemptInv'
  BY <1>4 DEF DeleteRegister, driverVars
<1>5. ASSUME Restart PROVE AttemptInv'
  BY <1>5 DEF Restart, Details, Pc
<1>6. ASSUME NEW t \in DeviceType, NEW s \in Subs, UpdateRegister(t, s)
      PROVE AttemptInv'
  BY <1>5, <1>6 DEF UpdateRegister
<1>7. CASE UNCHANGED vars
  BY <1>7 DEF vars, driverVars
<1> QED
  BY <1>1, <1>2, <1>3, <1>4, <1>5, <1>6, <1>7 DEF Next, Withdrawal

\* The steps of Run move no registration; a driver is chosen for what is
\* registered at the time.
LEMMA DriverKeepsRegistrationInv ==
  ASSUME RegistrationInv, DriverStep
  PROVE  AbsentIsAbsent' /\ HasRegistration' /\ HasSubscription'
<1> USE DEF RegistrationInv, AbsentIsAbsent, HasRegistration, HasSubscription
<1>1. UNCHANGED <<registered, answer>>
  BY DEF DriverStep, Configured, NotReady, AttemptFails, DeviceCapabilities,
         InitDevice, NoDriver, Discover, GetConfig, UpdateConfigMap, Ready,
         ReadyFails, CacheReady, StartGnmiSubscriptionHandler,
         StartSubscription, Proceed
<1>2. ASSUME NEW t \in DeviceType, InitDevice(t)
      PROVE  HasRegistration' /\ HasSubscription'
  <2>1. registered[t] # NoSubs
    <3>1. t # Unknown
      BY UnknownAssumption
    <3>2. PICK i \in 1..Len(ModelMatch) :
                 t \in ModelMatch[i] \intersect Registered
      BY <1>2, <3>1 DEF InitDevice, MatchingTypes
    <3> QED
      BY <3>2 DEF Registered
  <2> QED
    BY <1>1, <1>2, <2>1 DEF InitDevice, Proceed
<1>3. CASE StartGnmiSubscriptionHandler \/ StartSubscription
  BY <1>1, <1>3 DEF StartGnmiSubscriptionHandler, StartSubscription, Proceed
<1>4. CASE ~ \/ \E t \in DeviceType : InitDevice(t)
             \/ StartGnmiSubscriptionHandler
             \/ StartSubscription
  BY <1>1, <1>4
     DEF DriverStep, Configured, NotReady, AttemptFails, DeviceCapabilities,
         NoDriver, Discover, GetConfig, UpdateConfigMap, Ready, ReadyFails,
         CacheReady, Proceed
<1> QED
  BY <1>1, <1>2, <1>3, <1>4

\* A registration changes by what its provider does, one at a time: it reads,
\* and creates what it found absent.
LEMMA NextKeepsRegistrationInv ==
  RegistrationInv /\ [Next]_vars => RegistrationInv'
<1> SUFFICES ASSUME RegistrationInv, [Next]_vars PROVE RegistrationInv'
  OBVIOUS
<1>1. AttemptInv'
  BY NextKeepsAttemptInv DEF RegistrationInv
<1> SUFFICES AbsentIsAbsent' /\ HasRegistration' /\ HasSubscription'
  BY <1>1 DEF RegistrationInv
<1> USE DEF RegistrationInv, AttemptInv, TypeOK, AbsentIsAbsent,
            HasRegistration, HasSubscription
<1>2. CASE DriverStep
  BY <1>2, DriverKeepsRegistrationInv
<1>3. ASSUME NEW t \in DeviceType, GetRegister(t)
      PROVE  AbsentIsAbsent' /\ HasRegistration' /\ HasSubscription'
  BY <1>3 DEF GetRegister, driverVars
<1>4. ASSUME NEW t \in DeviceType, NEW s \in Subs, CreateRegister(t, s)
      PROVE  AbsentIsAbsent' /\ HasRegistration' /\ HasSubscription'
  <2>1. registered[t] = NoSubs /\ \A u \in DeviceType \ {t} :
                                    registered'[u] = registered[u]
    BY <1>4 DEF CreateRegister
  <2>2. AbsentIsAbsent'
    BY <1>4, <2>1 DEF CreateRegister
  <2>3. pc \in {"discover", "getConfig", "configMap", "setReady",
               "cacheReady", "running", "subscribing", "subscribed"}
          => deviceType \in DeviceType
    BY DriversAssumption DEF HasDriver
  <2>4. HasRegistration' /\ HasSubscription'
    BY <1>4, <2>1, <2>3 DEF CreateRegister, driverVars
  <2> QED
    BY <2>2, <2>4
<1>5. ASSUME NEW t \in DeviceType, DeleteRegister(t)
      PROVE  AbsentIsAbsent' /\ HasRegistration' /\ HasSubscription'
  <2>1. pc \in {"discover", "getConfig", "configMap", "setReady",
               "cacheReady", "running", "subscribing", "subscribed"}
          => deviceType \in DeviceType
    BY DriversAssumption DEF HasDriver
  <2> QED
    BY <1>5, <2>1 DEF DeleteRegister, driverVars
<1>6. ASSUME Restart
      PROVE  AbsentIsAbsent' /\ HasRegistration' /\ HasSubscription'
  BY <1>6 DEF Restart
<1>7. ASSUME NEW t \in DeviceType, NEW s \in Subs, UpdateRegister(t, s)
      PROVE  AbsentIsAbsent' /\ HasRegistration' /\ HasSubscription'
  BY <1>6, <1>7 DEF UpdateRegister
<1>8. CASE UNCHANGED vars
  BY <1>8 DEF vars, driverVars
<1> QED
  BY <1>2, <1>3, <1>4, <1>5, <1>6, <1>7, <1>8 DEF Next, Withdrawal

\* Every variable keeps its type in every behaviour of the startup.
THEOREM StartupTypeCorrect == Spec => []TypeOK
<1>1. AttemptInv => TypeOK
  BY DEF AttemptInv
<1> QED
  BY <1>1, InitAttemptInv, NextKeepsAttemptInv, PTL DEF Spec

\* A cache that takes requests has its driver and its configuration, and its
\* node is shown as discovered, for every set of device types, drivers and
\* capabilities, and whatever calls fail (ddrunner.go:66-125).
THEOREM ReadyIsAlwaysDiscovered == Spec => []ReadyIsDiscovered
<1>1. AttemptInv => ReadyIsDiscovered
  BY DEF AttemptInv, HasDriver, HasConfig, HasNode, ReadyRuns,
         ReadyIsDiscovered
<1> QED
  BY <1>1, InitAttemptInv, NextKeepsAttemptInv, PTL DEF Spec

\* What the collector subscribes to is what is registered for the device's
\* type, unless that was withdrawn, for every set of device types, drivers,
\* registrations and capabilities (ddrunner.go:185).
THEOREM AlwaysSubscribedAsRegistered == Spec => []SubscribedAsRegistered
<1>1. Init => RegistrationInv
  BY InitAttemptInv DEF Init, RegistrationInv, AbsentIsAbsent,
                        HasRegistration, HasSubscription
<1>2. RegistrationInv => SubscribedAsRegistered
  BY DEF RegistrationInv, HasRegistration, HasSubscription,
         SubscribedAsRegistered
<1> QED
  BY <1>1, <1>2, NextKeepsRegistrationInv, PTL DEF Spec

=============================================================================
