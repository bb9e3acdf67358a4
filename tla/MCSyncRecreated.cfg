SPECIFICATION SyncSpec
CONSTANTS
  r1 = r1
  r2 = r2
  c1 = c1
  c2 = c2
  a = a
  b = b
  u = u
  v1 = v1
  v2 = v2
  NoResource = NoResource
  NoVal = NoVal
  NoUpdate = NoUpdate
  NoConfig = NoConfig
  Resource <- MCNested
  LevelOf <- MCNestedLevelOf
  PathOf <- MCNestedPathOf
  OwnOf <- MCNestedOwnOf
  Rpc = {c1}
  Pathless = {}
  Recreate = {r1, r2}
  Leaf = {a, b}
  Value = {v1, v2}
  UpdateLeaf = {}
  OutOfBand = {}
  Container <- MCApart
  MaxNotifs = 1
INVARIANT SuccessIsOnDevice
