------------------------------- MODULE PwmDev -------------------------------
(***************************************************************************)
(* What the PWM character device promises its clients: every open, close   *)
(* and ioctl takes effect at one instant (GETCHARACTERISTICS changes       *)
(* nothing and is a stuttering step).  PwmUpper is shown to implement it.  *)
(***************************************************************************)
EXTENDS PwmOps

VARIABLE dev        \* [crefs, started, info, tim]

Init == dev = NewDev

Open  == CanOpen(dev) /\ dev' = DevOpen(dev)
Close == dev' = DevClose(dev)
Set   == \E i \in Infos : dev' = DevSet(dev, i)
Start == dev' = DevStart(dev)
Stop  == dev' = DevStop(dev)

Next == Open \/ Close \/ Set \/ Start \/ Stop

Spec == Init /\ [][Next]_dev
=============================================================================
