--------------------------------- MODULE Spi ---------------------------------
(***************************************************************************)
(* The SPI controller: transmit and receive FIFO (uncore/spi_fifo.sv),     *)
(* registers (uncore/spi_apb.sv) and the state machine that frames the     *)
(* bytes and drives the chip select (uncore/spi_controller.sv), with the   *)
(* delays the boot loader sets: one before, one after, one between selects *)
(* and none between the frames of one select.                              *)
(*                                                                         *)
(* A step is a cycle of the bus clock.  In some of them, those with        *)
(* SCLKenable, half a period of the serial clock ends.  A frame is some    *)
(* such halves and carries one byte each way.                              *)
(***************************************************************************)
EXTENDS Integers, Sequences

CONSTANTS Depth,       \* entries of a FIFO
          Halves       \* half periods in a frame

ASSUME SpiAssumption ==
  /\ Depth \in Nat \ {0}
  /\ Halves \in Nat /\ Halves > 2 /\ Halves % 2 = 0

VARIABLES
  apb,               \* the transfer on the bus: phase, register, data written
  Dout, CSMode, IP,
  tx, rx,            \* the FIFOs
  TransmitData, TransmitReg, RegLoaded, ReceiveReg,
  start, StartD,     \* CurrState of the start machine, TransmitStartD
  curr, half         \* CurrState of the controller, half periods of the frame gone

spiVars == <<apb, Dout, CSMode, IP, tx, rx, TransmitData, TransmitReg, RegLoaded,
             ReceiveReg, start, StartD, curr, half>>

Stale == <<"stale">>     \* what a slot holds that was never or no longer in use
-----------------------------------------------------------------------------
(***************************************************************************)
(* A FIFO: what it holds, the increments that take effect in the next      *)
(* enabled cycle, and its flags, each of which is renewed only when its own*)
(* side is enabled, from where the other side was.                         *)
(***************************************************************************)
EmptyFifo == [q |-> <<>>, winc |-> FALSE, rinc |-> FALSE, full |-> FALSE, empty |-> TRUE]

Level(f) == Len(f.q) % Depth          \* waddr - raddr
rdata(f) == IF f.q = <<>> THEN Stale ELSE Head(f.q)

Pushes(f) == f.winc /\ ~f.full
Pops(f) == f.rinc /\ ~f.empty

FillsLate(f, next) == Len(f.q) = Depth                    \* mutant of Fills
Fills(f, next) == Len(next) = Depth

\* The FIFO in the next cycle, but for its increments.
Clocked(f, wen, ren, wdata) ==
  LET old    == IF ren /\ Pops(f) THEN Tail(f.q) ELSE f.q
      new(q) == IF wen /\ Pushes(f) THEN Append(q, wdata) ELSE q
  IN  [f EXCEPT !.q     = new(old),
                !.full  = IF wen THEN Fills(f, new(f.q)) ELSE @,
                !.empty = IF ren THEN old = <<>> ELSE @]

TransmitReadMark == Level(tx) < 1 /\ ~tx.full
ReceiveWriteMark == Level(rx) > 0 \/ rx.full
-----------------------------------------------------------------------------
(***************************************************************************)
(* Frames.                                                                 *)
(***************************************************************************)
Transmitting == curr = "TRANSMIT"
InactiveState == curr \in {"INACTIVE", "INTERCS"}
Selected == CSMode # "OFF" /\ ~InactiveState       \* chip select is low
TransmitStart == start = "START"
EndOfFrame(tick) == tick /\ Transmitting /\ ~TransmitStart /\ half = Halves - 1
ShiftEdge(tick) == tick /\ Transmitting /\ ~TransmitStart /\ half % 2 = 1 /\ half # Halves - 1
Continue(tick) == EndOfFrame(tick) /\ ~tx.empty
TransmitLoad(tick) == TransmitStart \/ Continue(tick)

\* Where the controller goes at the end of a half period.  A delay takes any
\* number of them.
ForgetsHold(tick) == IF EndOfFrame(tick) THEN {"SCKCS"} ELSE {"TRANSMIT"}   \* mutant of AfterFrame
AfterFrame(tick) ==
  IF ~EndOfFrame(tick) THEN {"TRANSMIT"}
  ELSE IF CSMode = "AUTO" THEN {"SCKCS"}
  ELSE {IF tx.empty THEN "HOLD" ELSE "TRANSMIT"}
NextCurr(tick) ==
  CASE curr = "INACTIVE" -> {IF RegLoaded THEN "CSSCK" ELSE "INACTIVE"}
    [] curr = "CSSCK"    -> {"CSSCK", "TRANSMIT"}
    [] curr = "TRANSMIT" -> AfterFrame(tick)
    [] curr = "SCKCS"    -> {"SCKCS", "INTERCS"}
    [] curr = "INTERCS"  -> {"INTERCS", IF RegLoaded THEN "CSSCK" ELSE "INACTIVE"}
    [] curr = "HOLD"     -> {IF CSMode = "AUTO" THEN "INACTIVE"
                             ELSE IF RegLoaded THEN "TRANSMIT" ELSE "HOLD"}

NextStart ==
  CASE start = "READY" -> IF ~tx.empty /\ ~Transmitting THEN "START" ELSE "READY"
    [] start = "START" -> "WAIT"
    [] start = "WAIT"  -> IF ~Transmitting /\ ~RegLoaded THEN "READY" ELSE "WAIT"
-----------------------------------------------------------------------------
(***************************************************************************)
(* Bus transfers: a setup cycle, in which a register is read, an access    *)
(* cycle, in which it is written, and a cycle in which the core takes the  *)
(* result.  The next address goes out in the cycle after that.             *)
(***************************************************************************)
NoTransfer == [phase |-> "idle"]
Ended == [phase |-> "done"]
Read(r) == [phase |-> "setup", reg |-> r, write |-> FALSE]
Write(r, v) == [phase |-> "setup", reg |-> r, write |-> TRUE, data |-> v]

Selects(r) == apb.phase \in {"setup", "access"} /\ apb.reg = r
Memwrite(r) == apb.phase = "access" /\ apb.write /\ apb.reg = r

ReadData ==
  IF Selects("RXDATA") THEN rdata(rx) ELSE IF Selects("IP") THEN IP ELSE Stale

ReceiveReadInc == Selects("RXDATA") /\ ~rx.empty /\ ~rx.rinc

\* A cycle with or without SCLKenable; "in" is the byte a frame brings, "to" what
\* a delay does.
SpiCycle(tick, in, to) ==
  /\ half' = IF tick /\ Transmitting THEN (half + 1) % Halves ELSE half
  /\ curr' = IF tick THEN to ELSE curr
  /\ Dout' = ReadData
  /\ CSMode' = IF Memwrite("CSMODE") THEN apb.data ELSE CSMode
  /\ IP' = <<"ip", TransmitReadMark, ReceiveWriteMark>>
  /\ tx' = [Clocked(tx, TRUE, tick, TransmitData)
            EXCEPT !.winc = Memwrite("TXDATA") /\ ~tx.full,
                   !.rinc = IF tick THEN StartD \/ Continue(tick) ELSE @]
  /\ TransmitData' = IF Memwrite("TXDATA") /\ ~tx.full THEN apb.data ELSE TransmitData
  /\ rx' = [Clocked(rx, tick, TRUE, ReceiveReg)
            EXCEPT !.winc = IF tick THEN EndOfFrame(tick) ELSE @,
                   !.rinc = ReceiveReadInc]
  /\ TransmitReg' = IF TransmitLoad(tick) THEN rdata(tx) ELSE TransmitReg
  /\ RegLoaded' = (TransmitLoad(tick) \/ (RegLoaded /\ ~ShiftEdge(tick) /\ ~EndOfFrame(tick)))
  /\ ReceiveReg' = IF EndOfFrame(tick) THEN in ELSE IF tick /\ rx.winc THEN Stale ELSE ReceiveReg
  /\ start' = NextStart
  /\ StartD' = (TransmitStart \/ (StartD /\ ~tick))

SpiInit ==
  /\ apb = NoTransfer /\ Dout = Stale /\ CSMode = "AUTO" /\ IP = <<"ip", FALSE, FALSE>>
  /\ tx = EmptyFifo /\ rx = EmptyFifo /\ TransmitData = Stale
  /\ TransmitReg = Stale /\ RegLoaded = FALSE /\ ReceiveReg = Stale
  /\ start = "READY" /\ StartD = FALSE /\ curr = "INACTIVE" /\ half = 0
-----------------------------------------------------------------------------
\* A FIFO never holds more than it can, and never claims an entry or a free slot
\* it does not have: its flags are late, and never early (spi_fifo.sv:31-54).
SafeFlags(f) ==
  /\ Len(f.q) <= Depth
  /\ ~f.empty => f.q # <<>>
  /\ Len(f.q) = Depth => f.full
FlagsAreSafe == SafeFlags(tx) /\ SafeFlags(rx)
=============================================================================
