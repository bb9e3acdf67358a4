SPECIFICATION Spec
CONSTANTS
  ni = ni
  bgp = bgp
  vpn = vpn
  other = other
  whole = whole
  NoResource = NoResource
  Piece <- MCPiece
  Resource = {ni, bgp, vpn, other, whole}
  XPath <- MCXPath
  Leaf <- MCLeaf
  Asked <- MCAsked
  MaxChanges = 2
INVARIANT TypeOK
INVARIANT BestMatch
INVARIANT StatusWasTrue
INVARIANT InnerDataCutOut
INVARIANT OwnDataKept
INVARIANT AllPathsRead
