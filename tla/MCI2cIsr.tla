------------------------------ MODULE MCI2cIsr ------------------------------
(* Message lists as the drivers of the repository build them, and around   *)
(* them other lengths and combinations.  flag is "nostart", "nostop" or    *)
(* "0" for neither.                                                        *)
EXTENDS I2cIsr

Msg(read, flag, n) ==
  [addr |-> 1, read |-> read, nostart |-> flag = "nostart",
   nostop |-> flag = "nostop", length |-> n]

W(flag, n) == Msg(FALSE, flag, n)
R(flag, n) == Msg(TRUE, flag, n)

Ends == {"0", "nostop"}

(* A register written and then read: with NOSTOP lib_i2c_read() and        *)
(* i2c_writeread(), without it bmp280_getreg8() and bmi160_getreg8().      *)
RegisterReads ==
  {<<W(e, n), R("0", m)>> : e \in Ends, n \in 1 .. 2, m \in 1 .. 6}

(* Single messages, with NOSTOP as i2ctool_set() sends the register.       *)
Plain == {<<W(e, n)>> : e \in Ends, n \in 1 .. 4} \union {<<R("0", n)>> : n \in 1 .. 6}

(* A write continued without a start condition: sht21_access() without     *)
(* NOSTOP, i2c_writeread() with it.                                        *)
Continued == {<<W(e, n), W("nostart", m)>> : e \in Ends, n, m \in 1 .. 3}

(* Messages that each have a start condition, as those of ina219.c.        *)
Chained ==
  {<<W(e, n), W("0", m)>> : e \in Ends, n, m \in 1 .. 3}
  \union {<<R(e, n), R("0", m)>> : e \in Ends, n \in 2 .. 4, m \in 1 .. 3}
  \union {<<R(e, n), W("0", m)>> : e \in Ends, n \in 2 .. 4, m \in 1 .. 3}

(* The lists of the clock drivers ds3231.c and mcp794xx.c. *)
Clocks ==
  {<<W(e, 1), R("0", 7), W(e, 1), R("0", 1)>> : e \in Ends}
  \union {<<W("0", 8), W("0", 1), R("0", 1)>>}

(* Lists no driver builds, with a message that the routine does not start. *)
Unstarted == {<<W("0", 1), W("nostop", 2)>>, <<W("0", 2), W("nostop", 1), R("0", 1)>>}

MCLists ==
  RegisterReads \union Plain \union Continued \union Chained \union Clocks
  \union Unstarted

(* All messages of a list go to one slave, and the unstarted lists are     *)
(* those that TransferEnds leaves out.                                     *)
ASSUME OneSlaveEach == \A l \in MCLists : OneSlave(l)
ASSUME UnstartedLists == Unstarted = {l \in MCLists : ~Startable(l)}

(* i2c_master.h and the code agree on the regular lists and on no others.  *)
(* Those of bmp280.c, ina219.c and ds3231.c, which say nothing of NOSTOP,  *)
(* are not regular: "Two normal, separate messages with STOP on msg[n]     *)
(* then START on msg[n+1]" (i2c_master.h:96).                              *)
ASSUME Divergence ==
  /\ \A l \in MCLists : Documented(l) = Combined(l) <=> Regular(l)
  /\ \A m \in 1 .. 6 : ~Regular(<<W("0", 1), R("0", m)>>)
  /\ ~Regular(<<W("0", 1), W("0", 1)>>)
=============================================================================
