----------------------------- MODULE MCVidCodec ------------------------------
(* The instance of VidEncoder and VidDecoder that TLC checks: a process that *)
(* uses an encoder, or one that uses a decoder.  Two handles share nothing   *)
(* but the driver, so their interleavings add nothing.                       *)
EXTENDS VidEncoder, VidDecoder, TLC

VARIABLE uses

Init ==
  /\ EncStart /\ DecStart
  /\ uses \in {"encoder", "decoder"}

Next ==
  \/ uses = "encoder" /\ EncNext /\ UNCHANGED <<decVars, uses>>
  \/ uses = "decoder" /\ DecNext /\ UNCHANGED <<encVars, uses>>

Spec == Init /\ [][Next]_<<encVars, decVars, uses>>

Symmetry == Permutations(Seqs) \cup Permutations(Stamps)

\* A bound: once a set-up has gone wrong, a decoder keeps no pictures, and neither
\* does one for AVC.  What a set-up does to memory and what a call does to the
\* stamps do not meet, and the standard matters only to the memory.
TroubleWithoutPictures ==
  \/ /\ decMarks \cap {"halfway", "starved", "switched", "retried"} = {}
     /\ hDec.codecStd = "mpeg2"
  \/ stamp = Flushed /\ picture = NoPictures

=============================================================================
