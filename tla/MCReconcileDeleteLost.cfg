SPECIFICATION Spec
CONSTANTS
  r1 = r1
  r2 = r2
  r3 = r3
  c1 = c1
  c2 = c2
  Recreate = {}
  NoResource = NoResource
  Resource <- MCResource2
  LevelOf <- MCLevelOf2
  Rpc <- MCRpc2
  Pathless = {}
PROPERTY DeleteIsKept
