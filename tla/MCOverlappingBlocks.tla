------------------------- MODULE MCOverlappingBlocks -------------------------
(* Two BomRefs, which may be without a value or share one, listed in either  *)
(* order and one of them perhaps twice; one string is drawn for each.        *)
EXTENDS OverlappingBlocks, TLC

CONSTANTS r1, r2, x1, x2

MCListings == {<<r1, r2>>, <<r2, r1>>, <<r1, r2, r1>>}
MCDraws == (r1 :> {x1}) @@ (r2 :> {x2})

MCSymmetry == Permutations(Thread)
=============================================================================
