--------------------------- MODULE MCRootOwnership ---------------------------
(***************************************************************************)
(* The instance of RootOwnership that TLC checks.                          *)
(***************************************************************************)
EXTENDS RootOwnership

CONSTANTS s1, o1, g1, f1

MCStarters == {s1}
MCOperators == {o1}
MCManaged == {g1}
MCForeground == {f1}
=============================================================================
