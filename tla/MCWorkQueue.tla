---------------------------- MODULE MCWorkQueue -----------------------------
(* Model checking WorkQueue. *)
EXTENDS WorkQueue
=============================================================================
