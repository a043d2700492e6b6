--------------------------- MODULE MCGpuLifecycle ---------------------------
(***************************************************************************)
(* Instances of GpuLifecycle for TLC.                                      *)
(***************************************************************************)
EXTENDS GpuLifecycle, TLC

CONSTANTS h1, h2, k1, g1, f1, v1, m1, m2, m3, c1, c2, c3, c4, c5, c6, i1, i2, i3

\* One GPU: as a whole, for passthrough, and as MIG devices; m3 overlaps m1.
Kinds == [d \in Devices |->
            CASE d = f1 -> "gpu" [] d = v1 -> "vfio" [] OTHER -> "mig"]
OneGpu == [d \in Devices |-> g1]
Placements == [d \in Devices |->
                 CASE d = m1 -> {1} [] d = m2 -> {2} [] d = m3 -> {1, 3}
                   [] OTHER -> {1, 2, 3}]

\* c1 and c2 compete for m1, and c3 overlaps them; c4 and c5 compete for the
\* whole GPU, which c6 wants for passthrough.
Results == [c \in Claims |->
              CASE c = c1 -> {m1, m2} [] c = c2 -> {m1} [] c = c3 -> {m3}
                [] c \in {c4, c5} -> {f1} [] c = c6 -> {v1}]
Configs == [c \in Claims |->
              CASE c = c4 -> "mps" [] c = c5 -> "long" [] OTHER -> "default"]

Gates(mig_, vfio_, mps_, ts_) ==
  [dynamicMIG |-> mig_, passthrough |-> vfio_, mps |-> mps_, timeSlicing |-> ts_]

\* The ids of GPU instances are told apart only by equality.
IdSymmetry == Permutations(Ids)

EachGate == {Gates(TRUE, FALSE, FALSE, FALSE), Gates(FALSE, TRUE, FALSE, FALSE),
             Gates(FALSE, FALSE, TRUE, TRUE), Gates(TRUE, TRUE, FALSE, FALSE)}

\* MIG devices are advertised with DynamicMIG only.
MigOrSharing == [g \in GateSets |->
                   {{c4, c5, c6}} \cup IF g.dynamicMIG THEN {{c1, c2, c3}} ELSE {}]
=============================================================================
