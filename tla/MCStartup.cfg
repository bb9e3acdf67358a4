SPECIFICATION FairSpec
CONSTANTS
  srl = srl
  sros = sros
  s1 = s1
  s2 = s2
  Unknown = Unknown
  NoSubs = NoSubs
  DeviceType = {srl, sros}
  Drivers = {srl}
  Subs = {s1, s2}
  ModelMatch <- MCModelMatch
INVARIANT TypeOK
INVARIANT ReadyIsDiscovered
INVARIANT SubscribedAsRegistered
PROPERTY EventuallyReady
