--------------------------- MODULE MCBufferTables ----------------------------
(***************************************************************************)
(* The two libraries that keep a table of their client's buffers: capture  *)
(* with two threads at each end of a handle, or one handle of a graphic    *)
(* tool.  They share nothing, so their interleavings add nothing.          *)
(***************************************************************************)
EXTENDS VideoInput, GTSurfaces

CONSTANT MaxFailed  \* of a handle: the buffers refused, and a STREAMON that fails

VARIABLE observed

TablesInit ==
  /\ Init /\ SurfStart
  /\ observed \in {"capture", "surfaces"}

TablesNext ==
  \/ observed = "capture" /\ Next /\ UNCHANGED <<surfVars, observed>>
  \/ observed = "surfaces" /\ SurfNext /\ UNCHANGED <<vars, observed>>

TablesSpec == TablesInit /\ [][TablesNext]_<<vars, surfVars, observed>>

Symmetry == Permutations(Queuers) \union Permutations(Dequeuers)
              \union Permutations(Mems)

(* The bound: an index that came from no device, and a configuration change  *)
(* that ran into another call or could not stop a device, are the last steps *)
(* that are followed, for no property says anything after them.  So is what  *)
(* fails after MaxFailed others.                                             *)
Undisturbed ==
  /\ stray = "no" /\ "config" \notin mishaps
  /\ Cardinality(refused["clip"]) + Cardinality(refused["deci"])
       + Cardinality(mishaps \intersect {"on"}) <= MaxFailed

=============================================================================
