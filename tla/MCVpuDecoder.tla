---------------------------- MODULE MCVpuDecoder -----------------------------
(***************************************************************************)
(* VpuDecoder for TLC: one instance with two frame buffers, or two         *)
(* instances of which the second has registered none.                      *)
(***************************************************************************)
EXTENDS VpuDecoder, TLC

CONSTANTS i1, i2, f1, f2

OneFrames == i1 :> {f1, f2}
TwoFrames == i1 :> {f1} @@ i2 :> {}

Symmetry == Permutations({f1, f2})
=============================================================================
