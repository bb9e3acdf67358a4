-------------------------- MODULE MCReconcileLoop --------------------------
(* Instances of ReconcileLoop for TLC.                                     *)
EXTENDS ReconcileLoop, TLC

CONSTANTS r1, r2, r3, c1, c2

\* Three resources at two levels, one of them without a path.
MCResource3 == {r1, r2, r3}
MCLevelOf3 == r1 :> 1 @@ r2 :> 2 @@ r3 :> 2
MCPathless3 == {r3}

\* Two resources at two levels.
MCResource2 == {r1, r2}
MCLevelOf2 == r1 :> 1 @@ r2 :> 2

MCRpc2 == {c1, c2}
RpcSymmetry == Permutations(MCRpc2)

=============================================================================
