-------------------------- MODULE MCClaimLifecycle --------------------------
(***************************************************************************)
(* Instances of ClaimLifecycle for TLC.                                    *)
(***************************************************************************)
EXTENDS ClaimLifecycle, TLC

CONSTANTS p1, p2, h1, h2, k1, c1, c2, c3, d1

\* Every handler and cleaner in one process, or one handler in a second.
OneProc == [t \in Threads |-> p1]
TwoProcs == [t \in Threads |-> IF t = h2 THEN p2 ELSE p1]

OneDomain == [c \in Claims |-> d1]

\* Every config is in order; or c1 has an unknown field and c3 is of the wrong
\* type, for which Unprepare fails just as for one that does not decode.
AllValid == [c \in Claims |-> "valid"]
SomeRefused == [c \in Claims |->
                  CASE c = c1 -> "unknownField" [] c = c3 -> "mismatched" [] OTHER -> "valid"]
=============================================================================
