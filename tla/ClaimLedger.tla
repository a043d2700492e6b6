----------------------------- MODULE ClaimLedger -----------------------------
(***************************************************************************)
(* What a kubelet plugin promises: a ledger of the claims that hold their  *)
(* devices.  A claim is granted its device only if no conflicting claim    *)
(* holds it, and gives it back as a whole.                                 *)
(***************************************************************************)
CONSTANTS Claims, Conflict(_, _)

VARIABLE prepared

Free(c) == \A e \in prepared : ~ Conflict(c, e)

Init ==
  /\ prepared \subseteq Claims
  /\ \A c, e \in prepared : ~ Conflict(c, e)

Grant(c) ==
  /\ c \notin prepared
  /\ Free(c)
  /\ prepared' = prepared \cup {c}

Revoke(c) ==
  /\ c \in prepared
  /\ prepared' = prepared \ {c}

Next == \E c \in Claims : Grant(c) \/ Revoke(c)

Spec == Init /\ [][Next]_prepared
=============================================================================
