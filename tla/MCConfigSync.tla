---------------------------- MODULE MCConfigSync ----------------------------
(* Instances of ConfigSync for TLC.                                        *)
EXTENDS ConfigSync, TLC

CONSTANTS r1, r2, c1, c2, a, b, u, v1, v2

\* r2 lives below r1: a delete of r1 takes the leaf of r2 with it.
MCNested == {r1, r2}
MCNestedLevelOf == r1 :> 1 @@ r2 :> 2
MCNestedPathOf == r1 :> {a, b} @@ r2 :> {b}
MCNestedOwnOf == r1 :> {a} @@ r2 :> {b}

\* The same, r1 having no data but that of r2.
MCParentPathOf == r1 :> {b} @@ r2 :> {b}
MCParentOwnOf == r1 :> {} @@ r2 :> {b}

\* One resource.
MCOneLevelOf == r1 :> 1
MCOnePathOf == r1 :> {a}

\* One resource, with a leaf below its path that others write.
MCWidePathOf == r1 :> {a, b}

\* The leaves are of one container, or each is reported on its own.
MCTogether == {Leaf}
MCApart == {{l} : l \in Leaf}

=============================================================================
