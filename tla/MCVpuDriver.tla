----------------------------- MODULE MCVpuDriver -----------------------------
(* The instance of VpuDriver that TLC checks: files and threads are          *)
(* interchangeable, slots are not (the first free one is taken).             *)
EXTENDS VpuDriver, TLC

Symmetry == Permutations(Files) \cup Permutations(Threads)

=============================================================================
