------------------------------- MODULE MCImu --------------------------------
(* One other thread uses the heap. *)
EXTENDS Imu

MCRegions == {[base |-> 16, size |-> 80]}
MCSizes == {8}
MCAlignments == {32}
=============================================================================
