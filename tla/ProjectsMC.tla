----------------------------- MODULE ProjectsMC -----------------------------
(* Three runs, two of them with one root. *)
EXTENDS Projects

CONSTANTS p1, p2, p3, r1, r2

Symmetry == Permutations({p1, p2})

const_RootOf == [p \in Runs |-> IF p = p3 THEN r2 ELSE r1]
=============================================================================
