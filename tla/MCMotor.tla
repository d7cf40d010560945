------------------------------ MODULE MCMotor -------------------------------
EXTENDS Motor
=============================================================================
