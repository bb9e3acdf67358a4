--------------------------- MODULE MCGetHandlers ---------------------------
(* Instances of GetHandlers for TLC.                                       *)
EXTENDS GetHandlers

CONSTANTS ni, bgp, vpn, other, whole

MCPiece == {"/", "[", "]", "ni", "default", "bgp", "-vpn", "1", "2", "as",
            "rt"}

\* A network instance, two protocols of it of which the name of one begins
\* with that of the other, one of them with a key; a resource whose path is
\* the end of that of another one; and one without a path.
NiPath == <<"/", "ni", "[", "default", "]">>
BgpPath == NiPath \o <<"/", "bgp">>
VpnPath == NiPath \o <<"/", "bgp", "-vpn", "[", "1", "]">>

MCXPath ==
  [r \in {ni, bgp, vpn, other, whole} |->
     IF r = ni THEN NiPath
     ELSE IF r = bgp THEN BgpPath
     ELSE IF r = vpn THEN VpnPath
     ELSE IF r = other THEN <<"/", "bgp">>
     ELSE Root]

BgpLeaf == BgpPath \o <<"/", "as">>
VpnLeaf == VpnPath \o <<"/", "rt">>
\* Of the network instance, but in the list that vpn is an entry of.
Vpn2Leaf == NiPath \o <<"/", "bgp", "-vpn", "[", "2", "]", "/", "rt">>
MCLeaf == {BgpLeaf, VpnLeaf, Vpn2Leaf}

MCAsked == {BgpLeaf, VpnPath}

=============================================================================
