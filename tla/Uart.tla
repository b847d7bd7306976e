-------------------------------- MODULE Uart --------------------------------
(***************************************************************************)
(* The serial port (uncore/uartPC16550D.sv behind uncore/uart_apb.sv) with *)
(* the lines on both sides and the program that drives it.                 *)
(*                                                                         *)
(* A step is a clock cycle with at most one register access.  The number   *)
(* of cycles a bit takes is abstracted: a character ends in some cycle.    *)
(* The divisor is set, all interrupts are enabled, loopback is off.        *)
(***************************************************************************)
EXTENDS Naturals, Sequences

CONSTANTS Depth,     \* slots of each FIFO: 16
          Trigger,   \* rxfifotriggerlevel
          Chars,     \* what a character can be
          None, Nul, \* no character; the zero an empty FIFO reads as
          Garbled,   \* a character with a bit sent twice
          Races      \* coincidences that may happen, see Allowed

IDs == {"status", "data", "timeout", "thre", "none"}   \* intrID, intrpending

ASSUME UartAssumption ==
  /\ Depth \in Nat \ {0} /\ Trigger \in Nat
  /\ {None, Nul, Garbled} \cap Chars = {}
  /\ (Chars \cup {Nul}) \cap IDs = {}        \* Dout shows which register was read
  /\ Races \subseteq {"pop", "status", "reset"}

VARIABLES
  fifoenabled,                                \* FCR[0]
  done,                                       \* the frame ending in this cycle, or None
  rxfifo, rxfifohead, rxfifotail, rxdataready,
  RXBR,                                       \* the last frame and its errors
  rxfifotimeout,
  txfifo, txfifohead, txfifotail, HeadPointerLastMove,
  TXHR, txhrfull,
  txsr, txsrfull, txstate,
  LSR, prevSquashRXerrIP, prevSquashTHRE_IP,
  Dout,                                       \* what the last cycle's access read
  hart,                                       \* what the program may do next
  owed                                        \* errors received and not yet read

rxVars == <<rxfifo, rxfifohead, rxfifotail, rxdataready, RXBR>>
txVars == <<txfifo, txfifohead, txfifotail, TXHR, txhrfull, txsr, txsrfull>>
vars   == <<fifoenabled, done, rxVars, rxfifotimeout, txVars, HeadPointerLastMove, txstate,
            LSR, prevSquashRXerrIP, prevSquashTHRE_IP, Dout, hart, owed>>

Slots  == 0 .. Depth - 1
Errors == {"overrun", "line"}        \* "line": parity or framing
Frames == [char : Chars, bad : BOOLEAN]

NoStatus == [dr |-> FALSE, err |-> {}, thre |-> TRUE, temt |-> TRUE]
-----------------------------------------------------------------------------
(***************************************************************************)
(* Combinational logic.                                                    *)
(***************************************************************************)
Past(i)  == i + 1                                    \* mutant of After
After(i) == (i + 1) % Depth

rxfifoempty   == rxfifohead = rxfifotail
rxfifoentries == (rxfifohead + Depth - rxfifotail) % Depth
txfifoempty   == txfifohead = txfifotail /\ ~HeadPointerLastMove

OverrunWhenFull ==                                  \* mutant of rxoverrunerr
  IF fifoenabled THEN rxfifoentries = Depth ELSE rxdataready
rxoverrunerr    == IF fifoenabled THEN rxfifoentries = Depth - 1 ELSE rxdataready

FrameErrors == (IF rxoverrunerr THEN {"overrun"} ELSE {})
                 \cup (IF done.bad THEN {"line"} ELSE {})

RBR == IF ~fifoenabled THEN RXBR.char
       ELSE IF rxfifoempty THEN Nul ELSE rxfifo[rxfifotail]

THRE    == IF fifoenabled THEN txfifoempty ELSE ~txhrfull
THRE_IP == THRE /\ ~prevSquashTHRE_IP

TEMT == ~txsrfull /\ THRE

SquashUntilRead(op) == prevSquashRXerrIP \/ op = "LSR"   \* mutant of SquashRXerrIP
SquashRXerrIP(op)   == (prevSquashRXerrIP \/ op = "LSR") /\ done = None

rxdataavailintr == IF fifoenabled THEN rxfifoentries >= Trigger ELSE rxdataready

\* The highest pending interrupt, in a cycle that does not read LSR.
intrID ==
  IF LSR.err # {} /\ ~SquashRXerrIP("none") THEN "status"
  ELSE IF rxdataavailintr THEN "data"
  ELSE IF rxfifotimeout /\ fifoenabled THEN "timeout"
  ELSE IF THRE_IP THEN "thre"
  ELSE "none"

\* What is waiting on either side.
recvq == IF fifoenabled
         THEN [i \in 1 .. rxfifoentries |-> rxfifo[(rxfifotail + i - 1) % Depth]]
         ELSE IF rxdataready THEN <<RXBR.char>> ELSE <<>>

txfifoentries == IF txfifohead = txfifotail
                 THEN IF HeadPointerLastMove THEN Depth ELSE 0
                 ELSE (txfifohead + Depth - txfifotail) % Depth

sendq == IF fifoenabled
         THEN [i \in 1 .. txfifoentries |-> txfifo[(txfifotail + i - 1) % Depth]]
         ELSE IF txhrfull THEN <<TXHR>> ELSE <<>>
-----------------------------------------------------------------------------
(***************************************************************************)
(* Receiver.  A cycle resets it, stores the frame that ends in it, or lets *)
(* a read of RBR pop it, in this order of priority.                        *)
(***************************************************************************)
ResetReceiver ==
  /\ rxfifohead' = 0 /\ rxfifotail' = 0
  /\ rxdataready' = FALSE
  /\ UNCHANGED <<rxfifo, RXBR>>

StoreFrame ==
  /\ RXBR' = [char |-> done.char, err |-> FrameErrors]
  /\ rxdataready' = TRUE
  /\ rxfifo' = IF fifoenabled THEN [rxfifo EXCEPT ![rxfifohead] = done.char] ELSE rxfifo
  /\ rxfifohead' = IF fifoenabled THEN After(rxfifohead) ELSE rxfifohead
  /\ UNCHANGED rxfifotail

PopFifo ==
  /\ fifoenabled
  /\ rxfifotail' = IF rxfifoempty THEN rxfifotail ELSE After(rxfifotail)
  /\ rxdataready' = (rxdataready /\ rxfifoentries # 1)
  /\ UNCHANGED <<rxfifo, rxfifohead, RXBR>>

PopRegister ==
  /\ ~fifoenabled
  /\ rxdataready' = FALSE
  /\ RXBR' = [RXBR EXCEPT !.err = @ \ {"overrun"}]
  /\ UNCHANGED <<rxfifo, rxfifohead, rxfifotail>>

Receiver(op) ==
  \/ op = "FCR" /\ ResetReceiver
  \/ op # "FCR" /\ done # None /\ StoreFrame
  \/ op = "RBR" /\ done = None /\ (PopFifo \/ PopRegister)
  \/ op \notin {"FCR", "RBR"} /\ done = None /\ UNCHANGED rxVars

\* Four character times with something in the FIFO and no read.
RxTimeout(op) ==
  rxfifotimeout' \in IF op = "RBR" THEN {FALSE}
                     ELSE {rxfifotimeout} \cup {rxfifotimeout \/ (fifoenabled /\ ~rxfifoempty)}

\* The line: frames end at least a cycle apart.
Arrive == done' \in {None} \cup (IF done = None THEN Frames ELSE {})
-----------------------------------------------------------------------------
(***************************************************************************)
(* Transmitter.                                                            *)
(***************************************************************************)
nexttxdata == IF fifoenabled THEN txfifo[txfifotail] ELSE TXHR

\* The shift register takes the next character in this cycle.
Load == /\ txstate = "IDLE"
        /\ IF fifoenabled THEN ~txfifoempty /\ ~txsrfull ELSE txhrfull

\* A reset of the FIFO suspends the transmitter for a cycle: a character being
\* shifted out may have a bit repeated, one that is finished stays in txsrfull.
ResetTransmitter ==
  /\ txfifohead' = 0 /\ txfifotail' = 0
  /\ txsr' \in CASE txstate = "IDLE" -> {txsr}
                 [] txstate = "ACTIVE" -> IF txsr = None THEN {None} ELSE {txsr, Garbled}
                 [] txstate = "DONE" -> {None}
  /\ UNCHANGED <<txfifo, TXHR, txhrfull, txsrfull>>

WriteHolding(op, c) ==
  /\ txfifo' = IF op = "THR" /\ fifoenabled THEN [txfifo EXCEPT ![txfifohead] = c] ELSE txfifo
  /\ txfifohead' = IF op = "THR" /\ fifoenabled THEN After(txfifohead) ELSE txfifohead
  /\ TXHR' = IF op = "THR" /\ ~fifoenabled THEN c ELSE TXHR
  /\ txhrfull' = (~fifoenabled /\ ~Load /\ (op = "THR" \/ txhrfull))

MoveToShift ==
  /\ txfifotail' = IF Load /\ fifoenabled THEN After(txfifotail) ELSE txfifotail
  /\ txsr' = IF Load THEN nexttxdata ELSE IF txstate = "DONE" THEN None ELSE txsr
  /\ txsrfull' = (Load \/ (txsrfull /\ txstate # "DONE"))

Transmitter(op, c) ==
  \/ op = "FCR" /\ ResetTransmitter
  \/ op # "FCR" /\ WriteHolding(op, c) /\ MoveToShift

\* Which pointer moved last, to tell a full FIFO from an empty one.
PointerFlag(op) ==
  HeadPointerLastMove' =
    IF fifoenabled /\ op = "THR" THEN TRUE
    ELSE HeadPointerLastMove /\ ~(fifoenabled /\ Load)

ShiftState ==
  txstate' \in CASE txstate = "IDLE" -> IF txsrfull THEN {"ACTIVE"} ELSE {"IDLE"}
                 [] txstate = "ACTIVE" -> {"ACTIVE", "DONE"}
                 [] txstate = "DONE" -> {"IDLE"}
-----------------------------------------------------------------------------
(***************************************************************************)
(* Line status, and what reading it or the identification squashes.        *)
(***************************************************************************)
Status(op) ==
  /\ LSR' = [dr   |-> rxdataready,
             err  |-> IF SquashRXerrIP(op) THEN {} ELSE LSR.err \cup RXBR.err,
             thre |-> THRE,
             temt |-> TEMT]
  /\ prevSquashRXerrIP' = SquashRXerrIP(op)

AcknowledgeAny(op) ==                               \* mutant of SquashTHRE
  prevSquashTHRE_IP' = ((prevSquashTHRE_IP /\ THRE) \/ op = "IIR")
SquashTHRE(op) ==
  prevSquashTHRE_IP' = ((prevSquashTHRE_IP /\ THRE) \/ (op = "IIR" /\ intrID = "thre"))

\* The part of a cycle that is the same whatever register is accessed.
Cycle(op, c) ==
  /\ Receiver(op) /\ RxTimeout(op) /\ Arrive
  /\ Transmitter(op, c) /\ PointerFlag(op) /\ ShiftState
  /\ Status(op) /\ SquashTHRE(op)
  /\ owed' = (IF op = "LSR" THEN owed \ LSR.err ELSE owed)
               \cup (IF done # None /\ op # "FCR" THEN FrameErrors ELSE {})
-----------------------------------------------------------------------------
(***************************************************************************)
(* The program.  Accesses are at least a cycle apart, as the bridge and    *)
(* the bus need several.  It reads characters it was told of, writes no    *)
(* more than fit into a transmitter it saw empty, and switches the FIFOs   *)
(* on and off when it saw everything sent.                                 *)
(***************************************************************************)
Room == IF fifoenabled THEN Depth ELSE 1

\* An error that has been received but not yet copied to LSR.
Unlatched == ~prevSquashRXerrIP /\ ~(RXBR.err \subseteq LSR.err)

Allowed(op) ==
  /\ op # "none" => hart.rested
  /\ op = "RBR" => hart.data /\ ("pop" \in Races \/ done = None)
  /\ op = "LSR" => "status" \in Races \/ ~Unlatched
  /\ op = "THR" => hart.credit > 0

NoAccess ==
  /\ Cycle("none", None)
  /\ hart' = [hart EXCEPT !.rested = TRUE]
  /\ Dout' = None
  /\ UNCHANGED fifoenabled

ReadRBR ==
  /\ Allowed("RBR") /\ Cycle("RBR", None)
  /\ hart' = [hart EXCEPT !.rested = FALSE, !.data = FALSE]
  /\ Dout' = RBR
  /\ UNCHANGED fifoenabled

ReadLSR ==
  /\ Allowed("LSR") /\ Cycle("LSR", None)
  /\ hart' = [rested |-> FALSE, data |-> LSR.dr, idle |-> LSR.temt,
              credit |-> IF LSR.thre THEN Room ELSE hart.credit]
  /\ Dout' = None
  /\ UNCHANGED fifoenabled

ReadIIR ==
  /\ Allowed("IIR") /\ Cycle("IIR", None)
  /\ hart' = [hart EXCEPT !.rested = FALSE,
                          !.data = @ \/ intrID \in {"data", "timeout"},
                          !.credit = IF intrID = "thre" THEN Room ELSE @]
  /\ Dout' = intrID
  /\ UNCHANGED fifoenabled

WriteTHR(c) ==
  /\ Allowed("THR") /\ Cycle("THR", c)
  /\ hart' = [hart EXCEPT !.rested = FALSE, !.idle = FALSE, !.credit = @ - 1]
  /\ Dout' = None
  /\ UNCHANGED fifoenabled

\* Every write resets both FIFOs and keeps them on or off, or switches them.
WriteFCR(enable) ==
  /\ hart.rested
  /\ hart.idle \/ ("reset" \in Races /\ fifoenabled /\ enable)
  /\ Cycle("FCR", None)
  /\ hart' = [hart EXCEPT !.rested = FALSE, !.data = FALSE, !.credit = 0]
  /\ Dout' = None
  /\ fifoenabled' = enable
-----------------------------------------------------------------------------
Init ==
  /\ fifoenabled = FALSE /\ done = None
  /\ rxfifo \in [Slots -> Chars] /\ txfifo \in [Slots -> Chars]
  /\ RXBR \in [char : Chars, err : {{}}] /\ TXHR \in Chars
  /\ rxfifohead = 0 /\ rxfifotail = 0 /\ rxdataready = FALSE /\ rxfifotimeout = FALSE
  /\ txfifohead = 0 /\ txfifotail = 0 /\ HeadPointerLastMove = FALSE
  /\ txhrfull = FALSE /\ txsr = None /\ txsrfull = FALSE /\ txstate = "IDLE"
  /\ LSR = NoStatus /\ prevSquashRXerrIP = FALSE /\ prevSquashTHRE_IP = FALSE
  /\ Dout = None /\ owed = {}
  /\ hart = [rested |-> TRUE, data |-> FALSE, idle |-> FALSE, credit |-> 0]

Next == \/ NoAccess \/ ReadRBR \/ ReadLSR \/ ReadIIR
        \/ \E c \in Chars : WriteTHR(c)
        \/ \E enable \in BOOLEAN : WriteFCR(enable)

Spec == Init /\ [][Next]_vars
-----------------------------------------------------------------------------
(***************************************************************************)
(* Properties.                                                             *)
(***************************************************************************)
\* Every register has its type.
TypeOK ==
  /\ fifoenabled \in BOOLEAN /\ done \in Frames \cup {None}
  /\ rxfifo \in [Slots -> Chars] /\ rxfifohead \in Slots /\ rxfifotail \in Slots
  /\ rxdataready \in BOOLEAN /\ rxfifotimeout \in BOOLEAN
  /\ RXBR \in [char : Chars, err : SUBSET Errors]
  /\ txfifo \in [Slots -> Chars] /\ txfifohead \in Slots /\ txfifotail \in Slots
  /\ HeadPointerLastMove \in BOOLEAN
  /\ TXHR \in Chars /\ txhrfull \in BOOLEAN
  /\ txsr \in Chars \cup {None, Garbled} /\ txsrfull \in BOOLEAN
  /\ txstate \in {"IDLE", "ACTIVE", "DONE"}
  /\ LSR \in [dr : BOOLEAN, err : SUBSET Errors, thre : BOOLEAN, temt : BOOLEAN]
  /\ prevSquashRXerrIP \in BOOLEAN /\ prevSquashTHRE_IP \in BOOLEAN
  /\ Dout \in Chars \cup {None, Nul} \cup IDs
  /\ hart \in [rested : BOOLEAN, data : BOOLEAN, idle : BOOLEAN, credit : 0 .. Depth]
  /\ owed \subseteq Errors

\* The port is two queues: nothing is sent or read twice, out of order or after
\* it was reset, and nothing is lost without an overrun being flagged.
S == INSTANCE Serial WITH
       Capacity <- Depth, line <- txsr,
       Dout <- IF Dout \in IDs THEN None ELSE Dout
Faithful == S!Spec

\* An error of a received character stays in sight until a read of LSR shows it:
\* the squash that a read leaves behind never hides a later error.
ErrorsReported ==
  owed \subseteq LSR.err \cup (IF prevSquashRXerrIP THEN {} ELSE RXBR.err)

\* A transmitter that becomes empty interrupts, and the interrupt is withdrawn
\* only by a read of IIR that returned it or by a character to send.
EmptyIsAnnounced ==
  [][/\ ~THRE /\ THRE' => THRE_IP'
     /\ THRE_IP /\ ~THRE_IP' => Dout' = "thre" \/ ~THRE']_vars

\* When a read of LSR has told the program that all is sent, nothing is left in
\* the FIFO or the shift register, although LSR shows the state of a cycle ago.
IdleIsSent == hart.idle => sendq = <<>> /\ txsr = None /\ txstate = "IDLE"

\* A read of RBR takes the character it returns out of the receive FIFO.
ReadPops ==
  [][ReadRBR /\ fifoenabled /\ ~rxfifoempty => rxfifotail' = After(rxfifotail)]_vars

\* A reset of the transmit FIFO leaves nothing to send.
ResetClears == [][(\E enable \in BOOLEAN : WriteFCR(enable)) => sendq' = <<>>]_vars
=============================================================================
