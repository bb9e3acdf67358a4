SPECIFICATION Spec
CONSTANTS
  r1 = r1
  r2 = r2
  r3 = r3
  c1 = c1
  c2 = c2
  Recreate = {r1}
  NoResource = NoResource
  Resource <- MCResource3
  LevelOf <- MCLevelOf3
  Rpc <- MCRpc2
  Pathless <- MCPathless3
SYMMETRY RpcSymmetry
INVARIANT TypeOK
INVARIANT PendingIsScheduled
INVARIANT StatusTargetsExist
PROPERTY CreateIsKept
PROPERTY LifeSpec
