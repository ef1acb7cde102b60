----------------------------- MODULE MCGTService -----------------------------
(* The instances of GTService that TLC checks.  There is no symmetry set:    *)
(* the runs check liveness.                                                  *)
EXTENDS GTService

=============================================================================
