--------------------------- MODULE MCDetachedRuns ---------------------------
(***************************************************************************)
(* The instance of DetachedRuns that TLC checks.                           *)
(***************************************************************************)
EXTENDS DetachedRuns

MCTarget == [r \in 1..MaxRuns |-> IF r = 1 THEN "media" ELSE "chat"]
=============================================================================
