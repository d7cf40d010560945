------------------------------ MODULE MCI2cDev ------------------------------
(* Model values for the threads come from the configurations. *)
EXTENDS I2cDev
=============================================================================
