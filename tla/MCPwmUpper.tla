----------------------------- MODULE MCPwmUpper -----------------------------
(* Model checking PwmUpper. *)
EXTENDS PwmUpper
=============================================================================
