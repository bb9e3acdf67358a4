SPECIFICATION SyncSpec
CONSTANTS
  r1 = r1
  r2 = r2
  c1 = c1
  c2 = c2
  a = a
  b = b
  u = u
  v1 = v1
  v2 = v2
  NoResource = NoResource
  NoVal = NoVal
  NoUpdate = NoUpdate
  NoConfig = NoConfig
  Resource = {r1}
  LevelOf <- MCOneLevelOf
  PathOf <- MCWidePathOf
  OwnOf <- MCOnePathOf
  Rpc = {c1}
  Pathless = {}
  Recreate = {}
  Leaf = {a, b}
  Value = {v1, v2}
  UpdateLeaf = {b}
  OutOfBand = {b}
  Container <- MCTogether
  MaxNotifs = 1
INVARIANT SyncTypeOK
INVARIANT MirrorUnlessMissed
INVARIANT SuccessIsOnDevice
PROPERTY PushChangesWhatIsAsked
