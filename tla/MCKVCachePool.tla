---------------------------- MODULE MCKVCachePool ----------------------------
(***************************************************************************)
(* The instance of KVCachePool for TLC.                                    *)
(***************************************************************************)
EXTENDS KVCachePool

CONSTANTS r1, r2, h1, c1, n1, n2, k1, k2

\* n1 and n2 are the generated names of k1 and k2.
Hash == [k \in Keys |-> IF k = k1 THEN n1 ELSE n2]

NoClass == [c \in Claims |-> <<>>]

\* The claim leaves the name to the controller.
Generated == [c \in Claims |-> <<[pool |-> None, key |-> k1, valid |-> TRUE]>>]

\* An administrator makes a pool for k2, or an incompatible one of the name that
\* k1 generates.
Squatting == {<<n1, k2>>, <<n2, k2>>}
=============================================================================
