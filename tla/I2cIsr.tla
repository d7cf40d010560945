------------------------------- MODULE I2cIsr -------------------------------
(***************************************************************************)
(* The byte machine of stm32_i2c_isr_process(): how one transfer of a list *)
(* of messages is carried out interrupt by interrupt.                      *)
(*                                                                         *)
(* The controller and the slave are external: an automaton with the status *)
(* bits, the data register and its shift register, and the requests of CR1 *)
(* as the driver uses them.  The controller moves between any two runs of  *)
(* the routine, so an interrupt may be served late: the routine may find   *)
(* one byte or two, a byte and a start condition, an error and a byte.     *)
(* One run of the routine is short against a byte on the wire and is one   *)
(* step.  The handshake with the waiting thread is module I2cTransfer,     *)
(* from whose names those of this specification are distinct, so that one  *)
(* module proves about both.                                               *)
(***************************************************************************)
EXTENDS Integers, Sequences, SequencesExt, FiniteSets

CONSTANTS
  Lists,     \* the message lists a caller may hand to stm32_i2c_transfer()
  Faults     \* whether a slave may refuse its address or a byte

(* struct i2c_msg_s, the flags one by one. *)
Message == [addr : Nat, read : BOOLEAN, nostart : BOOLEAN, nostop : BOOLEAN,
            length : Nat]

(* The lists that the routine handles: no message is empty, a message      *)
(* without a start condition continues a write, and a single byte is read  *)
(* only at the end of the list.                                            *)
Handled(l) ==
  /\ ~l[1].nostart /\ \A i \in DOMAIN l : l[i].length > 0
  /\ \A i \in 1 .. Len(l) - 1 :
       /\ l[i].read => l[i].length > 1
       /\ l[i + 1].nostart => ~l[i].read /\ ~l[i + 1].read

ASSUME ListsAssumption ==
  \A l \in Lists : l \in Seq(Message) /\ l # <<>> /\ Handled(l)
ASSUME FaultsAssumption == Faults \in BOOLEAN

VARIABLES
  msgs,      \* the list of the transfer under way, <<>> before the first
  priv,      \* struct stm32_i2c_priv_s
  hw,        \* the controller (external)
  buf,       \* the buffers of the messages that read
  wire,      \* what has been on the bus since the transfer began
  faulted    \* whether this transfer met a fault

byteVars == <<msgs, priv, hw, buf, wire, faulted>>

NONE == <<>>
NoMsg == [addr |-> 0, read |-> FALSE, nostart |-> FALSE, nostop |-> FALSE,
          length |-> 0]
ErrorBits == {"AF", "TIMEOUT"}

(***************************************************************************)
(* Tokens of the wire.                                                     *)
(***************************************************************************)
START == <<"start">>
STOP == <<"stop">>
ADDRESS(a, read) == <<"address", a, read>>
WRITTEN(byte) == <<"written", byte>>
RECEIVED(k, ack) == <<"received", k, ack>>
REFUSED == <<"refused">>

(***************************************************************************)
(* The registers as the driver uses them.                                  *)
(***************************************************************************)
InitHw == [mode |-> "idle", sr1 |-> {}, dr |-> NONE, shift |-> NONE,
           ack |-> FALSE, pos |-> FALSE, start |-> FALSE, stop |-> FALSE,
           itevt |-> FALSE, itbuf |-> FALSE, k |-> 0, nacked |-> FALSE]

(* A write of the data register: the address after a start condition, and  *)
(* otherwise a byte that goes on to the shift register if that is empty.   *)
PutDr(h, v) ==
  IF h.mode = "sb"
    THEN [h EXCEPT !.mode = "addr", !.sr1 = @ \ {"SB"}, !.dr = v]
    ELSE IF h.shift = NONE
           THEN [h EXCEPT !.shift = v, !.sr1 = @ \ {"BTF"}]
           ELSE [h EXCEPT !.dr = v, !.sr1 = @ \ {"TXE", "BTF"}]

(* A read of the data register lets a byte that waits in the shift         *)
(* register follow.                                                        *)
TakeDr(h) ==
  IF h.mode = "rx" /\ h.shift # NONE
    THEN [h EXCEPT !.dr = h.shift, !.shift = NONE, !.sr1 = @ \ {"BTF"}]
    ELSE [h EXCEPT !.sr1 = @ \ {"RXNE", "BTF"}]

(* Reading SR2 after SR1 clears ADDR and lets the data phase begin.        *)
ReadSr2(h) ==
  IF "ADDR" \notin h.sr1 THEN h
  ELSE IF h.dr[2] THEN [h EXCEPT !.mode = "rx", !.sr1 = @ \ {"ADDR"},
                                 !.dr = NONE, !.shift = NONE, !.k = 0,
                                 !.nacked = FALSE]
  ELSE [h EXCEPT !.mode = "tx", !.sr1 = (@ \ {"ADDR"}) \union {"TXE"},
                 !.dr = NONE, !.shift = NONE]

stm32_i2c_sendstart(h) == [h EXCEPT !.ack = FALSE, !.start = TRUE]

stm32_i2c_sendstop(h) == [h EXCEPT !.ack = FALSE, !.stop = TRUE]

stm32_i2c_clrstart(h) == [h EXCEPT !.start = FALSE, !.stop = FALSE]

(***************************************************************************)
(* The routine.  s gathers what one run works on: the private state p, the *)
(* registers h, the buffers b, and st, the copy of SR1 it began with.      *)
(***************************************************************************)
Current(p) == msgs[p.cur]

(* The message msgv points to: the next one, or the last one when none is  *)
(* left.                                                                   *)
Msgv(p) == msgs[p.msgv]

NextContinues(p) == p.msgc > 0 /\ Msgv(p).nostart

BetweenMessages(p) == p.dcnt = -1 /\ p.msgc > 0

(* A new message begins with the start condition, or, when it continues    *)
(* the last one, with an empty data register.                              *)
MayBegin(p, st) == IF Msgv(p).nostart THEN "TXE" \in st ELSE "SB" \in st

(* Messages handling (1/2). *)
SwitchMessage(p) ==
  [p EXCEPT !.cur = p.msgv, !.ptr = 1, !.dcnt = Msgv(p).length,
            !.msgc = @ - 1, !.msgv = IF p.msgc = 1 THEN @ ELSE @ + 1]

StartOrStop(p, h) ==
  IF p.msgc > 0 THEN stm32_i2c_sendstart(h) ELSE stm32_i2c_sendstop(h)

(* Address handling. *)
SendAddress(s) ==
  IF s.p.dcnt > 0
    THEN [s EXCEPT !.h = PutDr([s.h EXCEPT !.pos = FALSE, !.ack = TRUE],
                               <<Msgv(s.p).addr, Current(s.p).read>>),
                   !.p.check = TRUE]
    ELSE [s EXCEPT !.p.dcnt = -1, !.h.itbuf = TRUE]

(* Mutant: no stop condition after a refused address *)
AddressNackedHolds(s) ==
  [s EXCEPT !.p.dcnt = -1, !.p.msgc = 0, !.p.check = FALSE]

AddressNacked(s) ==
  [s EXCEPT !.p.dcnt = -1, !.p.msgc = 0, !.p.check = FALSE,
            !.h = stm32_i2c_sendstop(s.h)]

AddressAckedRead(s) ==
  LET p == [s.p EXCEPT !.check = FALSE]
      h == CASE p.dcnt = 1 ->
                  StartOrStop(p, ReadSr2([s.h EXCEPT !.pos = FALSE, !.ack = FALSE,
                                                     !.itbuf = TRUE]))
             [] p.dcnt = 2 ->
                  ReadSr2([s.h EXCEPT !.pos = TRUE, !.ack = FALSE])
             [] OTHER ->
                  [ReadSr2(s.h) EXCEPT !.itbuf = @ \/ p.dcnt > 3]
  IN [s EXCEPT !.p = p, !.h = h]

(* Mutant: a next message that reads is not started *)
WriteEndNoRead(s) ==
  LET restart == ~Msgv(s.p).read /\ ~Msgv(s.p).nostart /\ ~Msgv(s.p).nostop
      t == IF s.p.msgc = 0
             THEN [s EXCEPT !.h = stm32_i2c_sendstop(s.h), !.p.dcnt = @ - 1]
             ELSE IF restart
             THEN [s EXCEPT !.h = TakeDr(stm32_i2c_sendstart(s.h)),
                            !.p.dcnt = @ - 1]
             ELSE s
  IN [t EXCEPT !.h = ReadSr2(t.h)]

(* After the last byte of a message that writes. *)
WriteEnd(s) ==
  LET restart == Msgv(s.p).read
                 \/ (~Msgv(s.p).nostart /\ ~Msgv(s.p).nostop)
      t == IF s.p.msgc = 0
             THEN [s EXCEPT !.h = stm32_i2c_sendstop(s.h), !.p.dcnt = @ - 1]
             ELSE IF restart
             THEN [s EXCEPT !.h = TakeDr(stm32_i2c_sendstart(s.h)),
                            !.p.dcnt = @ - 1]
             ELSE s
  IN [t EXCEPT !.h = ReadSr2(t.h)]

PutByte(s) ==
  [s EXCEPT !.h = PutDr(s.h, <<s.p.cur, s.p.ptr>>), !.p.ptr = @ + 1,
            !.p.dcnt = @ - 1]

(* Mutant: the buffer interrupt stays on behind the last byte *)
WriteByteKeepsBuf(s) ==
  LET first == "ADDR" \in s.st
      s1 == PutByte([s EXCEPT !.h = ReadSr2(s.h), !.p.check = FALSE])
      s2 == IF first /\ s1.p.dcnt > 0 THEN PutByte(s1) ELSE s1
  IN [s2 EXCEPT
        !.h.itbuf = @ \/ (first /\ s2.p.dcnt > 0) \/ NextContinues(s2.p),
        !.p.dcnt = IF @ = 0 /\ NextContinues(s2.p) THEN -1 ELSE @]

(* The address is acknowledged or the data register is empty: one byte     *)
(* more, or two after the address.                                         *)
WriteByte(s) ==
  LET first == "ADDR" \in s.st
      keep == ~(s.p.dcnt = 1 /\ ~NextContinues(s.p))
      s1 == PutByte([s EXCEPT !.h = [ReadSr2(s.h) EXCEPT !.itbuf = @ /\ keep],
                              !.p.check = FALSE])
      s2 == IF first /\ s1.p.dcnt > 0 THEN PutByte(s1) ELSE s1
  IN [s2 EXCEPT
        !.h.itbuf = @ \/ (first /\ s2.p.dcnt > 0) \/ NextContinues(s2.p),
        !.p.dcnt = IF @ = 0 /\ NextContinues(s2.p) THEN -1 ELSE @]

TakeByte(s) ==
  [s EXCEPT !.b[s.p.cur] = Append(@, s.h.dr), !.h = TakeDr(s.h),
            !.p.ptr = @ + 1, !.p.dcnt = @ - 1]

(* Mutant: the last byte is acknowledged *)
ReadByteAcksLast(s) ==
  LET h1 == [ReadSr2(s.h) EXCEPT !.itbuf = @ /\ s.p.dcnt >= 5]
      s1 == IF s.p.dcnt = 2 THEN TakeByte([s EXCEPT !.h = StartOrStop(s.p, h1)])
            ELSE [s EXCEPT !.h = h1]
      s2 == TakeByte(s1)
  IN [s2 EXCEPT !.p.dcnt = IF @ = 0 THEN -1 ELSE @]

(* Mutant: the buffer interrupt is left on for two bytes longer *)
ReadByteBufLate(s) ==
  LET h1 == [ReadSr2(s.h) EXCEPT !.itbuf = @ /\ s.p.dcnt >= 3]
      s1 == CASE s.p.dcnt = 3 -> [s EXCEPT !.h = [h1 EXCEPT !.ack = FALSE]]
              [] s.p.dcnt = 2 -> TakeByte([s EXCEPT !.h = StartOrStop(s.p, h1)])
              [] OTHER -> [s EXCEPT !.h = h1]
      s2 == TakeByte(s1)
  IN [s2 EXCEPT !.p.dcnt = IF @ = 0 THEN -1 ELSE @]

(* A received byte, the last two at once. *)
ReadByte(s) ==
  LET h1 == [ReadSr2(s.h) EXCEPT !.itbuf = @ /\ s.p.dcnt >= 5]
      s1 == CASE s.p.dcnt = 3 -> [s EXCEPT !.h = [h1 EXCEPT !.ack = FALSE]]
              [] s.p.dcnt = 2 -> TakeByte([s EXCEPT !.h = StartOrStop(s.p, h1)])
              [] OTHER -> [s EXCEPT !.h = h1]
      s2 == TakeByte(s1)
  IN [s2 EXCEPT !.p.dcnt = IF @ = 0 THEN -1 ELSE @]

EmptyCall(s) == [s EXCEPT !.h = ReadSr2(s.h)]

(* A state the routine does not know.  The bus error bit is only set when  *)
(* there is an error bit already.                                          *)
UnknownState(s) ==
  [s EXCEPT !.h = ReadSr2(s.h), !.p.dcnt = -1, !.p.msgc = 0]

Branches == {"address", "nack", "acked", "end", "write", "read", "empty",
             "unknown"}

(* The chain of alternatives, in the order of the code. *)
BranchOf(p, st) ==
  LET read == Current(p).read
  IN IF "SB" \in st THEN "address"
     ELSE IF "ADDR" \notin st /\ p.check THEN "nack"
     ELSE IF read /\ "ADDR" \in st /\ p.check THEN "acked"
     ELSE IF ~read /\ "BTF" \in st /\ p.dcnt = 0 THEN "end"
     ELSE IF ~read /\ {"ADDR", "TXE"} \intersect st # {} /\ p.dcnt # 0 THEN "write"
     ELSE IF read /\ {"RXNE", "BTF"} \intersect st # {} THEN "read"
     ELSE IF p.dcnt = -1 /\ p.msgc = 0 THEN "empty"
     ELSE "unknown"

Branch(b, s) ==
  CASE b = "address" -> SendAddress(s)
    [] b = "nack" -> AddressNacked(s)
    [] b = "acked" -> AddressAckedRead(s)
    [] b = "end" -> WriteEnd(s)
    [] b = "write" -> WriteByte(s)
    [] b = "read" -> ReadByte(s)
    [] b = "empty" -> EmptyCall(s)
    [] b = "unknown" -> UnknownState(s)

(* Messages handling (2/2): an error ends the list. *)
CheckErrors(s, error) ==
  IF error
    THEN [s EXCEPT !.h.sr1 = @ \ ErrorBits, !.p.dcnt = -1, !.p.msgc = 0]
    ELSE s

Shutdown(s) ==
  IF s.p.dcnt = -1 /\ s.p.msgc = 0
    THEN [s EXCEPT !.h.itevt = FALSE, !.h.itbuf = FALSE, !.p.done = TRUE]
    ELSE s

IrqPending ==
  /\ hw.itevt
  /\ \/ hw.sr1 \intersect ({"SB", "ADDR", "BTF"} \union ErrorBits) # {}
     \/ hw.itbuf /\ hw.sr1 \intersect {"TXE", "RXNE"} # {}

(* Mutant: the status is not stored for the waiting thread *)
LatchNothing(st, b) == [priv EXCEPT !.branch = b]

(* The status a run of the routine leaves for stm32_i2c_transfer(). *)
Latch(st, b) == [priv EXCEPT !.status = st, !.branch = b]

Apply(s) ==
  /\ priv' = s.p
  /\ hw' = s.h
  /\ buf' = s.b
  /\ UNCHANGED <<msgs, wire, faulted>>

(* A run of the routine that goes through branch b. *)
IsrBranch(b) ==
  LET st == hw.sr1
      between == BetweenMessages(priv)
      p0 == Latch(st, b)
      p1 == IF between THEN SwitchMessage(p0) ELSE p0
      s1 == Branch(b, [p |-> p1, h |-> hw, b |-> buf, st |-> st])
  IN /\ IrqPending
     /\ between => MayBegin(priv, st)
     /\ BranchOf(p1, st) = b
     /\ Apply(Shutdown(CheckErrors(s1, st \intersect ErrorBits # {})))

(* A new message is due and the controller is in another state. *)
IsrStateError ==
  LET p0 == Latch(hw.sr1 \union {"TIMEOUT"}, "state")
  IN /\ IrqPending
     /\ BetweenMessages(priv)
     /\ ~MayBegin(priv, hw.sr1)
     /\ Apply(Shutdown(CheckErrors([p |-> p0, h |-> hw, b |-> buf, st |-> hw.sr1],
                                   TRUE)))

RunIsr == IsrStateError \/ \E b \in Branches : IsrBranch(b)

(***************************************************************************)
(* stm32_i2c_transfer() up to the wait, once a stop condition in progress  *)
(* is over.                                                                *)
(***************************************************************************)
SetupBytes ==
  /\ priv.done
  /\ ~hw.stop
  /\ \E l \in Lists :
       /\ msgs' = l
       /\ priv' = [priv EXCEPT !.dcnt = -1, !.ptr = 0, !.msgv = 1, !.msgc = Len(l),
                               !.status = {}, !.cur = 0, !.done = FALSE,
                               !.branch = "none"]
       /\ buf' = [i \in 1 .. Len(l) |-> <<>>]
  /\ hw' = [stm32_i2c_sendstart(stm32_i2c_clrstart(hw)) EXCEPT
              !.sr1 = @ \ ErrorBits, !.itevt = TRUE]
  /\ wire' = <<>>
  /\ faulted' = FALSE

(***************************************************************************)
(* The controller and the slave (external).                                *)
(***************************************************************************)
Hardware(h, tokens) ==
  /\ hw' = h
  /\ wire' = wire \o tokens
  /\ UNCHANGED <<msgs, priv, buf>>

(* The bus is between two bytes: the controller may leave the transfer. *)
BetweenBytes ==
  \/ hw.mode \in {"idle", "held", "sb"}
  \/ hw.mode = "tx" /\ hw.shift = NONE
  \/ hw.mode = "rx" /\ (hw.nacked \/ hw.shift # NONE)

StartCondition ==
  /\ hw.start /\ ~hw.stop /\ BetweenBytes
  /\ Hardware([hw EXCEPT !.mode = "sb", !.start = FALSE,
                         !.sr1 = (@ \ {"TXE", "BTF"}) \union {"SB"}], <<START>>)
  /\ UNCHANGED faulted

StopCondition ==
  /\ hw.stop /\ BetweenBytes
  /\ Hardware([hw EXCEPT !.mode = "idle", !.stop = FALSE,
                         !.sr1 = @ \ {"TXE", "BTF"}], <<STOP>>)
  /\ UNCHANGED faulted

AddressAck ==
  /\ hw.mode = "addr"
  /\ Hardware([hw EXCEPT !.mode = "wait", !.sr1 = @ \union {"ADDR"}],
              <<ADDRESS(hw.dr[1], hw.dr[2])>>)
  /\ UNCHANGED faulted

SendByte ==
  /\ hw.mode = "tx" /\ hw.shift # NONE
  /\ Hardware(IF hw.dr # NONE
                THEN [hw EXCEPT !.shift = hw.dr, !.dr = NONE,
                                !.sr1 = @ \union {"TXE"}]
                ELSE [hw EXCEPT !.shift = NONE, !.sr1 = @ \union {"BTF"}],
              <<WRITTEN(hw.shift)>>)
  /\ UNCHANGED faulted

(* With POS the bit ACK speaks of the byte after the one being received.   *)
ReceiveByte ==
  LET k == hw.k + 1
      ack == hw.ack \/ (hw.pos /\ k = 1)
      h == [hw EXCEPT !.k = k, !.nacked = ~ack]
  IN /\ hw.mode = "rx" /\ ~hw.nacked /\ hw.shift = NONE
     /\ Hardware(IF "RXNE" \in hw.sr1
                   THEN [h EXCEPT !.shift = <<k>>, !.sr1 = @ \union {"BTF"}]
                   ELSE [h EXCEPT !.dr = <<k>>, !.sr1 = @ \union {"RXNE"}],
                 <<RECEIVED(k, ack)>>)
     /\ UNCHANGED faulted

(* The slave does not acknowledge its address or a byte. *)
Refuse ==
  /\ Faults /\ ~faulted /\ faulted' = TRUE
  /\ hw.mode = "addr" \/ (hw.mode = "tx" /\ hw.shift # NONE)
  /\ Hardware([hw EXCEPT !.mode = "held", !.shift = NONE, !.dr = NONE,
                         !.sr1 = @ \union {"AF"}], <<REFUSED>>)

Controller ==
  \/ StartCondition \/ StopCondition \/ AddressAck
  \/ SendByte \/ ReceiveByte

ByteInit ==
  /\ msgs = <<>>
  /\ priv = [dcnt |-> 0, msgc |-> 0, msgv |-> 0, cur |-> 0, ptr |-> 0,
             check |-> FALSE, status |-> {}, done |-> TRUE, branch |-> "none"]
  /\ hw = InitHw
  /\ buf = <<>>
  /\ wire = <<>>
  /\ faulted = FALSE

ByteNext == SetupBytes \/ RunIsr \/ Controller \/ Refuse

ByteSpec == ByteInit /\ [][ByteNext]_byteVars

(* The bus is healthy enough to move and the interrupt is served in the    *)
(* end; a bus that hangs is the business of the timeout in I2cTransfer.    *)
FairByteSpec == ByteSpec /\ WF_byteVars(Controller) /\ WF_byteVars(RunIsr)

(***************************************************************************)
(* What the transfers promise.                                             *)
(***************************************************************************)
(* The variables keep their types: dcnt is -1 or a number of bytes left of *)
(* the message of priv->ptr, and msgv points into the caller's list while  *)
(* the routine works on it (struct stm32_i2c_priv_s).                      *)
ByteTypeOK ==
  /\ msgs \in Lists \union {<<>>}
  /\ priv.dcnt \in Nat \union {-1} /\ priv.msgc \in 0 .. Len(msgs)
  /\ priv.msgv \in 0 .. Len(msgs) /\ priv.cur \in 0 .. Len(msgs)
  /\ priv.ptr \in Nat /\ priv.branch \in Branches \union {"none", "state"}
  /\ {priv.check, priv.done, faulted} \subseteq BOOLEAN
  /\ priv.status \subseteq {"SB", "ADDR", "TXE", "BTF", "RXNE"} \union ErrorBits
  /\ hw.mode \in {"idle", "sb", "addr", "wait", "tx", "rx", "held"}
  /\ hw.sr1 \subseteq {"SB", "ADDR", "TXE", "BTF", "RXNE"} \union ErrorBits
  /\ ~priv.done => priv.msgv \in DOMAIN msgs
  /\ ~priv.done /\ priv.dcnt >= 0 => priv.ptr + priv.dcnt = Current(priv).length + 1

Ended == priv.done /\ msgs # <<>>

Succeeded == Ended /\ priv.status \intersect ErrorBits = {}

Bytes(l, i) ==
  [k \in 1 .. l[i].length |->
     IF l[i].read THEN RECEIVED(k, k < l[i].length) ELSE WRITTEN(<<i, k>>)]

(* The messages of a list on the bus, with a stop condition after those    *)
(* in stops.                                                               *)
OnWire(l, stops) ==
  FlattenSeq([i \in 1 .. Len(l) |->
    (IF l[i].nostart THEN <<>> ELSE <<START, ADDRESS(l[i].addr, l[i].read)>>)
    \o Bytes(l, i)
    \o (IF i \in stops THEN <<STOP>> ELSE <<>>)])

(* The rules for start and stop conditions in i2c_master.h, and the list   *)
(* as one combined transfer: no stop condition before the end.             *)
StopAfter(l, i) ==
  ~l[i].nostop /\ (i < Len(l) => ~l[i + 1].nostart)

Documented(l) == OnWire(l, {i \in 1 .. Len(l) : StopAfter(l, i)})

Combined(l) == OnWire(l, {Len(l)})

Sent == wire \o (IF hw.stop THEN <<STOP>> ELSE <<>>)

OneSlave(l) == \A i \in DOMAIN l : l[i].addr = l[1].addr

(* The lists of which the rules say what a combined transfer does.         *)
Regular(l) == \A i \in 1 .. Len(l) : StopAfter(l, i) <=> i = Len(l)

(* A transfer that ends without an error was one combined transfer of its  *)
(* messages, however late each interrupt was served: every start condition *)
(* with the address of its message, every byte once and in order, no       *)
(* acknowledge for the last byte of a read, a repeated start condition     *)
(* from one message to the next, whatever their flags say of stop          *)
(* conditions, and one stop condition, sent or requested, at the end.      *)
WireCombined == Succeeded => Sent = Combined(msgs)

(* The same against the rules of i2c_master.h, which agree with the code   *)
(* on regular lists.                                                       *)
WireAsDocumented == Succeeded => Sent = Documented(msgs)

(* The pointer and the count of bytes left agree with the message, the     *)
(* routine never writes past its buffer, the bytes are stored once and in  *)
(* the order of the wire although the last ones are taken from two         *)
(* registers, and a transfer without an error has stored them all.         *)
ReadsExact ==
  /\ ByteTypeOK
  /\ \A i \in DOMAIN buf :
       LET room == IF msgs[i].read THEN msgs[i].length ELSE 0
       IN /\ Len(buf[i]) <= room
          /\ ~faulted => buf[i] = [k \in 1 .. Len(buf[i]) |-> <<k>>]
          /\ Succeeded => Len(buf[i]) = room

(* On a bus without faults the routine always knows its state: "This       *)
(* should not happen in interrupt based operation".                        *)
StateKnown ==
  ~faulted => priv.branch \notin {"unknown", "state"}

(* A transfer that succeeds, or whose slave does not answer its address,   *)
(* leaves the bus free or a stop condition on its way.                     *)
BusReleased ==
  Ended /\ (Succeeded \/ priv.branch = "nack") =>
    hw.stop \/ hw.mode = "idle"

(* A refused address or byte is never reported as success, also when the   *)
(* interrupt for it is served together with the one before it.             *)
FaultsReported == Ended /\ faulted => ~Succeeded

(* A write that follows a write is started only when it has no flags.      *)
Startable(l) ==
  \A i \in 2 .. Len(l) :
    ~l[i - 1].read /\ ~l[i].read /\ ~l[i].nostart => ~l[i].nostop

(* On a bus that moves, a transfer comes to its end, unless its list has a *)
(* message that the routine does not start.                                *)
TransferEnds == ~priv.done /\ Startable(msgs) ~> priv.done

=============================================================================
