----------------------------- MODULE MCWorkQueue -----------------------------
(***************************************************************************)
(* Instances of WorkQueue for TLC: three items share a key, one has none.  *)
(***************************************************************************)
EXTENDS WorkQueue

CONSTANTS i1, i2, i3, i4, k1

OneKey == [i \in Items |-> IF i = i4 THEN NoKey ELSE k1]
=============================================================================
