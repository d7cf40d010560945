------------------------------- MODULE MCWdog -------------------------------
(* Model checking Wdog. *)
EXTENDS Wdog
=============================================================================
