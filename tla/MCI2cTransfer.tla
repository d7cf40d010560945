---------------------------- MODULE MCI2cTransfer ---------------------------
(* Model checking I2cTransfer. *)
EXTENDS I2cTransfer
=============================================================================
