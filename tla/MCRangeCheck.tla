---------------------------- MODULE MCRangeCheck ----------------------------
(***************************************************************************)
(* RangeCheck for TLC.  The ids differ in nothing the check looks at, so   *)
(* they are model values and a symmetry set.                               *)
(***************************************************************************)
EXTENDS RangeCheck, TLC

CONSTANTS a, b, c

IdSet == {a, b, c}

(* Aligned and misaligned pointers, below the heap, in it, at its end.     *)
AddrSet == {-8, 0, 4, 8, 16, 24}

Symmetry == Permutations(IdSet)
=============================================================================
