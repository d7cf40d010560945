------------------------------ MODULE MCNxSem -------------------------------
EXTENDS NxSem
=============================================================================
