------------------------------ MODULE MCDPList ------------------------------
(* Three elements, two of which compare as equal; addresses are symmetric. *)
EXTENDS DPList

CONSTANTS e1, e2, e3

MCElement == {e1, e2, e3}
MCKey     == (e1 :> 1) @@ (e2 :> 2) @@ (e3 :> 2)
MCIndex   == -1 .. 5

Symmetry == Permutations(Addr)
=============================================================================
