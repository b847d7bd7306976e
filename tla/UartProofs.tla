----------------------------- MODULE UartProofs -----------------------------
(***************************************************************************)
(* Theorems about the serial port, for FIFOs of any depth.                 *)
(***************************************************************************)
EXTENDS Uart, SequenceTheorems, TLAPS

\* Every action is a cycle with some access, and what that access needed.
Ops == {"none", "RBR", "LSR", "IIR", "THR", "FCR"}

LEMMA NextIsCycle ==
  ASSUME Next
  PROVE  \E op \in Ops, c \in Chars \cup {None} :
            Cycle(op, c) /\ (op = "LSR" => Allowed("LSR")) /\ (op = "THR" => c \in Chars)
BY DEF Next, NoAccess, ReadRBR, ReadLSR, ReadIIR, WriteTHR, WriteFCR, Ops
-----------------------------------------------------------------------------
(***************************************************************************)
(* Errors of received characters.  That a squashed status shows no error   *)
(* is what makes ErrorsReported inductive: the read that left the squash   *)
(* behind has cleared LSR, and the next frame lifts it.                    *)
(***************************************************************************)
ErrorTypes ==
  /\ done \in Frames \cup {None}
  /\ RXBR \in [char : Chars, err : SUBSET Errors]
  /\ prevSquashRXerrIP \in BOOLEAN

ErrorInv ==
  /\ ErrorTypes
  /\ ErrorsReported
  /\ prevSquashRXerrIP => LSR.err = {}

LEMMA ErrorStep ==
  ASSUME ErrorInv, "status" \notin Races, NEW op \in Ops, NEW c,
         Cycle(op, c), op = "LSR" => Allowed("LSR")
  PROVE  ErrorInv'
<1>2. done' \in Frames \cup {None}
  BY DEF Cycle, Arrive
<1>3. RXBR' \in [char : Chars, err : SUBSET Errors]
  <2>1. CASE op = "FCR"
    BY <2>1 DEF Cycle, Receiver, ResetReceiver, ErrorInv, ErrorTypes, Ops
  <2>2. CASE op # "FCR" /\ done # None
    BY <2>2 DEF Cycle, Receiver, StoreFrame, FrameErrors, Errors, Frames,
                ErrorInv, ErrorTypes
  <2>3. CASE op # "FCR" /\ done = None
    BY <2>3 DEF Cycle, Receiver, PopFifo, PopRegister, rxVars, ErrorInv, ErrorTypes
  <2> QED BY <2>1, <2>2, <2>3
<1>4. /\ LSR'.err = IF SquashRXerrIP(op) THEN {} ELSE LSR.err \cup RXBR.err
      /\ prevSquashRXerrIP' = SquashRXerrIP(op)
  BY DEF Cycle, Status
<1>5. owed' = (IF op = "LSR" THEN owed \ LSR.err ELSE owed)
                \cup (IF done # None /\ op # "FCR" THEN FrameErrors ELSE {})
  BY DEF Cycle
<1>6. ErrorsReported'
  <2>1. CASE done # None
    <3>1. ~SquashRXerrIP(op)
      BY <2>1 DEF SquashRXerrIP
    <3>2. op # "FCR" => RXBR'.err = FrameErrors
      BY <2>1 DEF Cycle, Receiver, StoreFrame
    <3>3. owed \subseteq LSR'.err
      BY <1>4, <3>1 DEF ErrorInv, ErrorsReported
    <3> QED BY <1>4, <1>5, <3>1, <3>2, <3>3 DEF ErrorsReported
  <2>2. CASE done = None /\ SquashRXerrIP(op)
    <3>1. op = "LSR" \/ prevSquashRXerrIP
      BY <2>2 DEF SquashRXerrIP
    <3>2. CASE prevSquashRXerrIP
      BY <2>2, <3>2, <1>5 DEF ErrorInv, ErrorsReported
    <3>3. CASE op = "LSR" /\ ~prevSquashRXerrIP
      <4>1. RXBR.err \subseteq LSR.err
        BY <3>3 DEF Allowed, Unlatched
      <4> QED BY <2>2, <3>3, <4>1, <1>5 DEF ErrorInv, ErrorsReported
    <3> QED BY <3>1, <3>2, <3>3
  <2>3. CASE done = None /\ ~SquashRXerrIP(op)
    BY <2>3, <1>4, <1>5 DEF ErrorInv, ErrorsReported, SquashRXerrIP
  <2> QED BY <2>1, <2>2, <2>3
<1> QED BY <1>2, <1>3, <1>4, <1>6 DEF ErrorInv, ErrorTypes, SquashRXerrIP

\* An error is never lost between the line and the program, if no read of LSR falls
\* into the cycle in which the error is on its way into it.
THEOREM UartReportsErrors ==
  ASSUME "status" \notin Races
  PROVE  Spec => []ErrorsReported
<1>1. Init => ErrorInv
  BY DEF Init, ErrorInv, ErrorTypes, ErrorsReported, NoStatus
<1>2. ErrorInv /\ [Next]_vars => ErrorInv'
  <2> SUFFICES ASSUME ErrorInv, [Next]_vars PROVE ErrorInv'
    OBVIOUS
  <2>1. CASE Next
    <3>1. PICK op \in Ops, c \in Chars \cup {None} :
            Cycle(op, c) /\ (op = "LSR" => Allowed("LSR"))
      BY <2>1, NextIsCycle
    <3> QED BY <3>1, ErrorStep
  <2>2. CASE UNCHANGED vars
    BY <2>2 DEF ErrorInv, ErrorTypes, ErrorsReported, vars, rxVars
  <2> QED BY <2>1, <2>2
<1>3. ErrorInv => ErrorsReported
  BY DEF ErrorInv
<1> QED BY <1>1, <1>2, <1>3, PTL DEF Spec
-----------------------------------------------------------------------------
(***************************************************************************)
(* What the program knows of the transmitter.  LSR shows an empty          *)
(* transmitter a cycle late; a program that lets a cycle pass after its    *)
(* accesses never sees it before the character it wrote.                   *)
(***************************************************************************)
IdleTypes ==
  /\ hart \in [rested : BOOLEAN, data : {hart.data}, idle : BOOLEAN, credit : Nat]
  /\ fifoenabled \in BOOLEAN /\ HeadPointerLastMove \in BOOLEAN
  /\ txhrfull \in BOOLEAN /\ txsrfull \in BOOLEAN
  /\ LSR.temt \in BOOLEAN

\* What the mode that is off left behind, and an empty shift register.
UnusedClean ==
  /\ fifoenabled => ~txhrfull
  /\ ~fifoenabled => txfifohead = txfifotail /\ ~HeadPointerLastMove
  /\ ~txsrfull => txsr = None /\ txstate = "IDLE"

IdleInv ==
  /\ IdleTypes
  /\ UnusedClean
  /\ LSR.temt /\ hart.rested => TEMT
  /\ hart.idle => TEMT

\* A cycle without a write to the transmitter or the FIFO control register.
LEMMA StaysEmpty ==
  ASSUME IdleInv, NEW op \in Ops \ {"THR", "FCR"}, NEW c, Cycle(op, c), UNCHANGED fifoenabled,
         TEMT
  PROVE  TEMT'
<1>1. ~Load
  BY DEF Load, TEMT, THRE
<1>2. txfifohead' = txfifohead /\ txfifotail' = txfifotail /\ ~txsrfull' /\ txhrfull' = (~fifoenabled /\ txhrfull)
  BY <1>1 DEF Cycle, Transmitter, WriteHolding, MoveToShift, TEMT, THRE, Ops
<1>3. HeadPointerLastMove' = HeadPointerLastMove
  BY <1>1 DEF Cycle, PointerFlag, IdleInv, IdleTypes, Ops
<1> QED BY <1>2, <1>3 DEF TEMT, THRE, txfifoempty

LEMMA UnusedStaysClean ==
  ASSUME IdleInv, NEW op \in Ops \ {"FCR"}, NEW c, Cycle(op, c), UNCHANGED fifoenabled
  PROVE  UnusedClean' /\ txhrfull' \in BOOLEAN /\ txsrfull' \in BOOLEAN
                      /\ HeadPointerLastMove' \in BOOLEAN
<1>1. WriteHolding(op, c) /\ MoveToShift
  BY DEF Cycle, Transmitter, Ops
<1>2. PointerFlag(op) /\ ShiftState
  BY DEF Cycle
<1>3. ~txsrfull' => ~Load /\ (~txsrfull \/ txstate = "DONE")
  BY <1>1 DEF MoveToShift
<1>4. ~txsrfull' => txsr' = None /\ txstate' = "IDLE"
  BY <1>1, <1>2, <1>3 DEF MoveToShift, ShiftState, IdleInv, UnusedClean
<1>5. fifoenabled => ~txhrfull'
  BY <1>1 DEF WriteHolding
<1>6. ~fifoenabled => txfifohead' = txfifotail' /\ ~HeadPointerLastMove'
  BY <1>1, <1>2 DEF WriteHolding, MoveToShift, PointerFlag, IdleInv, UnusedClean
<1>7. txhrfull' \in BOOLEAN /\ txsrfull' \in BOOLEAN
  BY <1>1 DEF WriteHolding, MoveToShift
<1>8. HeadPointerLastMove' \in BOOLEAN
  BY <1>2 DEF PointerFlag
<1> QED BY <1>4, <1>5, <1>6, <1>7, <1>8 DEF UnusedClean

\* The FIFOs are reset or switched only when everything is known to be sent.
LEMMA ResetWhenIdle ==
  ASSUME IdleInv, "reset" \notin Races, NEW enable \in BOOLEAN, WriteFCR(enable)
  PROVE  UnusedClean' /\ TEMT' /\ txhrfull' \in BOOLEAN /\ txsrfull' \in BOOLEAN
                      /\ HeadPointerLastMove' \in BOOLEAN
<1>1. TEMT /\ ResetTransmitter /\ PointerFlag("FCR") /\ ShiftState
  BY DEF WriteFCR, Cycle, Transmitter, IdleInv
<1>2. ~txsrfull /\ txsr = None /\ txstate = "IDLE" /\ ~HeadPointerLastMove /\ ~txhrfull
  BY <1>1 DEF TEMT, THRE, txfifoempty, IdleInv, UnusedClean, IdleTypes
<1>3. /\ txfifohead' = 0 /\ txfifotail' = 0 /\ ~txsrfull' /\ ~txhrfull'
      /\ txsr' = None /\ txstate' = "IDLE"
  BY <1>1, <1>2 DEF ResetTransmitter, ShiftState
<1>4. ~HeadPointerLastMove' /\ HeadPointerLastMove' \in BOOLEAN
  BY <1>1, <1>2 DEF PointerFlag
<1>5. UnusedClean'
  BY <1>3, <1>4 DEF UnusedClean
<1>6. TEMT'
  BY <1>3, <1>4 DEF TEMT, THRE, txfifoempty
<1>7. txhrfull' \in BOOLEAN /\ txsrfull' \in BOOLEAN
  BY <1>1, <1>2 DEF ResetTransmitter, IdleInv, IdleTypes
<1> QED BY <1>4, <1>5, <1>6, <1>7

LEMMA IdleStep ==
  ASSUME IdleInv, "reset" \notin Races, Next
  PROVE  IdleInv'
<1>1. LSR'.temt = TEMT /\ TEMT \in BOOLEAN
  <2>1. \E op \in Ops, c \in Chars \cup {None} : Status(op)
    BY NextIsCycle DEF Cycle
  <2> QED BY <2>1 DEF Status, TEMT
<1>2. Room \in Nat
  BY UartAssumption DEF Room
<1>3. CASE NoAccess
  <2>1. UnusedClean' /\ txhrfull' \in BOOLEAN /\ txsrfull' \in BOOLEAN
                     /\ HeadPointerLastMove' \in BOOLEAN /\ (TEMT => TEMT')
    BY <1>3, UnusedStaysClean, StaysEmpty DEF NoAccess, Ops
  <2> QED BY <2>1, <1>1, <1>3 DEF NoAccess, IdleInv, IdleTypes
<1>4. CASE ReadRBR
  <2>1. UnusedClean' /\ txhrfull' \in BOOLEAN /\ txsrfull' \in BOOLEAN
                     /\ HeadPointerLastMove' \in BOOLEAN /\ (TEMT => TEMT')
    BY <1>4, UnusedStaysClean, StaysEmpty DEF ReadRBR, Ops
  <2> QED BY <2>1, <1>1, <1>4 DEF ReadRBR, IdleInv, IdleTypes
<1>5. CASE ReadLSR
  <2>1. UnusedClean' /\ txhrfull' \in BOOLEAN /\ txsrfull' \in BOOLEAN
                     /\ HeadPointerLastMove' \in BOOLEAN /\ (TEMT => TEMT')
    BY <1>5, UnusedStaysClean, StaysEmpty DEF ReadLSR, Ops
  <2>2. LSR.temt => TEMT
    BY <1>5 DEF ReadLSR, Allowed, IdleInv
  <2> QED BY <2>1, <2>2, <1>1, <1>2, <1>5 DEF ReadLSR, IdleInv, IdleTypes
<1>6. CASE ReadIIR
  <2>1. UnusedClean' /\ txhrfull' \in BOOLEAN /\ txsrfull' \in BOOLEAN
                     /\ HeadPointerLastMove' \in BOOLEAN /\ (TEMT => TEMT')
    BY <1>6, UnusedStaysClean, StaysEmpty DEF ReadIIR, Ops
  <2> QED BY <2>1, <1>1, <1>2, <1>6 DEF ReadIIR, IdleInv, IdleTypes
<1>7. CASE \E c \in Chars : WriteTHR(c)
  <2>1. PICK c \in Chars : WriteTHR(c)
    BY <1>7
  <2>2. UnusedClean' /\ txhrfull' \in BOOLEAN /\ txsrfull' \in BOOLEAN
                     /\ HeadPointerLastMove' \in BOOLEAN
    BY <2>1, UnusedStaysClean DEF WriteTHR, Ops
  <2>3. hart.credit - 1 \in Nat
    BY <2>1 DEF WriteTHR, Allowed, IdleInv, IdleTypes
  <2>4. /\ hart' = [hart EXCEPT !.rested = FALSE, !.idle = FALSE, !.credit = @ - 1]
        /\ fifoenabled' = fifoenabled
    BY <2>1 DEF WriteTHR
  <2> QED BY <2>2, <2>3, <2>4, <1>1 DEF IdleInv, IdleTypes
<1>8. CASE \E enable \in BOOLEAN : WriteFCR(enable)
  <2>1. PICK enable \in BOOLEAN : WriteFCR(enable)
    BY <1>8
  <2>2. UnusedClean' /\ TEMT' /\ txhrfull' \in BOOLEAN /\ txsrfull' \in BOOLEAN
                     /\ HeadPointerLastMove' \in BOOLEAN
    BY <2>1, ResetWhenIdle
  <2>3. /\ hart' = [hart EXCEPT !.rested = FALSE, !.data = FALSE, !.credit = 0]
        /\ fifoenabled' \in BOOLEAN
    BY <2>1 DEF WriteFCR
  <2> QED BY <2>2, <2>3, <1>1 DEF IdleInv, IdleTypes
<1> QED BY <1>3, <1>4, <1>5, <1>6, <1>7, <1>8 DEF Next

\* A program that has read "transmitter empty" and written nothing since can switch
\* the port off: no character is in the FIFO, the holding or the shift register.
THEOREM UartIdleIsSent ==
  ASSUME "reset" \notin Races
  PROVE  Spec => []IdleIsSent
<1>1. Init => IdleInv
  <2> SUFFICES ASSUME Init PROVE IdleInv
    OBVIOUS
  <2>1. IdleTypes
    BY DEF Init, IdleTypes, NoStatus
  <2>2. UnusedClean /\ TEMT
    BY DEF Init, UnusedClean, TEMT, THRE, txfifoempty
  <2> QED BY <2>1, <2>2 DEF IdleInv
<1>2. IdleInv /\ [Next]_vars => IdleInv'
  <2> SUFFICES ASSUME IdleInv, [Next]_vars PROVE IdleInv'
    OBVIOUS
  <2>1. CASE Next
    BY <2>1, IdleStep
  <2>2. CASE UNCHANGED vars
    BY <2>2 DEF IdleInv, IdleTypes, UnusedClean, TEMT, THRE, txfifoempty, vars, txVars
  <2> QED BY <2>1, <2>2
<1>3. IdleInv => IdleIsSent
  <2> SUFFICES ASSUME IdleInv, hart.idle PROVE IdleIsSent
    BY DEF IdleIsSent
  <2>1. TEMT /\ ~txsrfull /\ txsr = None /\ txstate = "IDLE"
    BY DEF IdleInv, UnusedClean, TEMT
  <2>2. CASE fifoenabled
    <3>1. txfifoentries = 0
      BY <2>1, <2>2 DEF txfifoentries, TEMT, THRE, txfifoempty
    <3>2. sendq = [i \in 1 .. 0 |-> txfifo[(txfifotail + i - 1) % Depth]]
      BY <2>2, <3>1 DEF sendq
    <3>3. sendq = <<>>
      BY <3>2
    <3> QED BY <2>1, <3>3 DEF IdleIsSent
  <2>3. CASE ~fifoenabled
    BY <2>1, <2>3 DEF IdleIsSent, sendq, TEMT, THRE
  <2> QED BY <2>2, <2>3
<1> QED BY <1>1, <1>2, <1>3, PTL DEF Spec
-----------------------------------------------------------------------------
(***************************************************************************)
(* Types.                                                                  *)
(***************************************************************************)
LEMMA SlotFacts == 0 \in Slots /\ \A i \in Slots : After(i) \in Slots
BY UartAssumption DEF Slots, After

LEMMA IntrType == intrID \in IDs
BY DEF intrID, IDs

LEMMA RBRType == ASSUME TypeOK PROVE RBR \in Chars \cup {Nul}
BY DEF TypeOK, RBR

LEMMA ReceiverType ==
  ASSUME TypeOK, NEW op \in Ops, Receiver(op)
  PROVE  /\ rxfifo' \in [Slots -> Chars] /\ rxfifohead' \in Slots /\ rxfifotail' \in Slots
         /\ rxdataready' \in BOOLEAN /\ RXBR' \in [char : Chars, err : SUBSET Errors]
<1>1. CASE op = "FCR" BY <1>1, SlotFacts DEF Receiver, ResetReceiver, TypeOK
<1>2. CASE op # "FCR" /\ done # None
  <2>1. StoreFrame /\ done \in Frames BY <1>2 DEF Receiver, TypeOK
  <2>2. done.char \in Chars /\ FrameErrors \in SUBSET Errors
    BY <2>1 DEF Frames, FrameErrors, Errors
  <2> QED BY <2>1, <2>2, SlotFacts DEF StoreFrame, TypeOK
<1>3. CASE op # "FCR" /\ done = None
  <2>1. /\ rxfifo \in [Slots -> Chars] /\ rxfifohead \in Slots /\ rxfifotail \in Slots
        /\ rxdataready \in BOOLEAN /\ RXBR \in [char : Chars, err : SUBSET Errors]
    BY DEF TypeOK
  <2>2. CASE PopFifo BY <2>1, <2>2, SlotFacts DEF PopFifo
  <2>3. CASE PopRegister BY <2>1, <2>3 DEF PopRegister
  <2>4. CASE UNCHANGED rxVars BY <2>1, <2>4 DEF rxVars
  <2> QED BY <1>3, <2>2, <2>3, <2>4 DEF Receiver
<1> QED BY <1>1, <1>2, <1>3

LEMMA TransmitterType ==
  ASSUME TypeOK, NEW op \in Ops, NEW c, op = "THR" => c \in Chars, Transmitter(op, c)
  PROVE  /\ txfifo' \in [Slots -> Chars] /\ txfifohead' \in Slots /\ txfifotail' \in Slots
         /\ TXHR' \in Chars /\ txhrfull' \in BOOLEAN
         /\ txsr' \in Chars \cup {None, Garbled} /\ txsrfull' \in BOOLEAN
<1>1. CASE op = "FCR"
  BY <1>1, SlotFacts DEF Transmitter, ResetTransmitter, TypeOK
<1>2. CASE op # "FCR"
  <2>1. WriteHolding(op, c) /\ MoveToShift BY <1>2 DEF Transmitter
  <2>2. nexttxdata \in Chars BY DEF nexttxdata, TypeOK
  <2>3. /\ txfifo' \in [Slots -> Chars] /\ txfifohead' \in Slots /\ TXHR' \in Chars
        /\ txhrfull' \in BOOLEAN
    BY <2>1, SlotFacts DEF WriteHolding, TypeOK
  <2>4. txfifotail' \in Slots /\ txsr' \in Chars \cup {None, Garbled} /\ txsrfull' \in BOOLEAN
    BY <2>1, <2>2, SlotFacts DEF MoveToShift, TypeOK
  <2> QED BY <2>3, <2>4
<1> QED BY <1>1, <1>2

LEMMA CycleType ==
  ASSUME TypeOK, NEW op \in Ops, NEW c, op = "THR" => c \in Chars, Cycle(op, c),
         fifoenabled' \in BOOLEAN, Dout' \in Chars \cup {None, Nul} \cup IDs,
         hart' \in [rested : BOOLEAN, data : BOOLEAN, idle : BOOLEAN, credit : 0 .. Depth]
  PROVE  TypeOK'
<1>1. Receiver(op) /\ Transmitter(op, c) /\ Status(op) /\ SquashTHRE(op) BY DEF Cycle
<1>2. done' \in Frames \cup {None} BY DEF Cycle, Arrive
<1>3. rxfifotimeout' \in BOOLEAN BY DEF Cycle, RxTimeout, TypeOK
<1>4. HeadPointerLastMove' \in BOOLEAN BY DEF Cycle, PointerFlag, TypeOK
<1>5. txstate' \in {"IDLE", "ACTIVE", "DONE"} BY DEF Cycle, ShiftState, TypeOK
<1>6. THRE \in BOOLEAN /\ TEMT \in BOOLEAN BY DEF THRE, TEMT, txfifoempty, TypeOK
<1>7. /\ LSR' \in [dr : BOOLEAN, err : SUBSET Errors, thre : BOOLEAN, temt : BOOLEAN]
      /\ prevSquashRXerrIP' \in BOOLEAN /\ prevSquashTHRE_IP' \in BOOLEAN
  BY <1>1, <1>6 DEF Status, SquashTHRE, SquashRXerrIP, TypeOK
<1>8. owed' \subseteq Errors
  BY DEF Cycle, FrameErrors, Errors, TypeOK
<1> QED BY <1>1, <1>2, <1>3, <1>4, <1>5, <1>7, <1>8, ReceiverType, TransmitterType DEF TypeOK

LEMMA NextType == ASSUME TypeOK, [Next]_vars PROVE TypeOK'
<1>1. Room \in 0 .. Depth BY UartAssumption DEF Room
<1>2. intrID \in IDs /\ RBR \in Chars \cup {Nul} BY IntrType, RBRType
<1>3. CASE NoAccess
  BY <1>3, CycleType DEF NoAccess, Ops, TypeOK
<1>4. CASE ReadRBR
  BY <1>2, <1>4, CycleType DEF ReadRBR, Ops, TypeOK
<1>5. CASE ReadLSR
  BY <1>1, <1>5, CycleType DEF ReadLSR, Ops, TypeOK
<1>6. CASE ReadIIR
  BY <1>1, <1>2, <1>6, CycleType DEF ReadIIR, Ops, TypeOK
<1>7. ASSUME NEW c \in Chars, WriteTHR(c) PROVE TypeOK'
  <2>1. hart.credit - 1 \in 0 .. Depth
    BY <1>7, UartAssumption DEF WriteTHR, Allowed, TypeOK
  <2> QED BY <1>7, <2>1, CycleType DEF WriteTHR, Ops, TypeOK
<1>8. ASSUME NEW enable \in BOOLEAN, WriteFCR(enable) PROVE TypeOK'
  <2>1. 0 \in 0 .. Depth BY UartAssumption
  <2> QED BY <1>8, <2>1, CycleType DEF WriteFCR, Ops, TypeOK
<1>9. CASE UNCHANGED vars BY <1>9 DEF vars, rxVars, txVars, TypeOK
<1> QED BY <1>3, <1>4, <1>5, <1>6, <1>7, <1>8, <1>9 DEF Next

LEMMA InitType == ASSUME Init PROVE TypeOK
<1>1. 0 \in Slots /\ 0 \in 0 .. Depth BY SlotFacts, UartAssumption
<1>2. RXBR \in [char : Chars, err : SUBSET Errors] BY DEF Init
<1>3. LSR \in [dr : BOOLEAN, err : SUBSET Errors, thre : BOOLEAN, temt : BOOLEAN]
  BY DEF Init, NoStatus
<1>4. hart \in [rested : BOOLEAN, data : BOOLEAN, idle : BOOLEAN, credit : 0 .. Depth]
  BY <1>1 DEF Init
<1> QED BY <1>1, <1>2, <1>3, <1>4 DEF Init, TypeOK

\* The registers keep their types, the credit of the program included: it never
\* believes in more room than the FIFO has.
THEOREM UartTypeCorrect == Spec => []TypeOK
BY InitType, NextType, PTL DEF Spec
-----------------------------------------------------------------------------
(***************************************************************************)
(* The transmitter interrupt.                                              *)
(***************************************************************************)
LEMMA Announced ==
  ASSUME Next
  PROVE  /\ ~THRE /\ THRE' => THRE_IP'
         /\ THRE_IP /\ ~THRE_IP' => Dout' = "thre" \/ ~THRE'
<1>1. PICK op \in Ops : /\ SquashTHRE(op)
                        /\ op = "IIR" => Dout' = intrID
  BY DEF Next, NoAccess, ReadRBR, ReadLSR, ReadIIR, WriteTHR, WriteFCR, Cycle, Ops
<1>2. prevSquashTHRE_IP' = ((prevSquashTHRE_IP /\ THRE) \/ (op = "IIR" /\ intrID = "thre"))
  BY <1>1 DEF SquashTHRE
<1>3. intrID = "thre" => THRE_IP BY DEF intrID
<1> QED BY <1>1, <1>2, <1>3 DEF THRE_IP

\* A transmitter that becomes empty interrupts, and only the read of IIR that
\* returns the interrupt, or a character to send, withdraws it: for any depth, in
\* every program, whatever arrives meanwhile.
THEOREM UartAnnouncesEmpty == Spec => EmptyIsAnnounced
<1>1. [Next]_vars => [/\ ~THRE /\ THRE' => THRE_IP'
                      /\ THRE_IP /\ ~THRE_IP' => Dout' = "thre" \/ ~THRE']_vars
  BY Announced
<1> QED BY <1>1, PTL DEF Spec, EmptyIsAnnounced
-----------------------------------------------------------------------------
(***************************************************************************)
(* Circular buffers.  Window is the n characters from pointer t on, in     *)
(* order; a write at the head appends to it and moving the tail takes its  *)
(* first character.                                                        *)
(***************************************************************************)
Slot(x) == x % Depth

LEMMA SlotValue ==
  ASSUME NEW x \in Int, 0 <= x, x < 2 * Depth
  PROVE  Slot(x) = (IF x < Depth THEN x ELSE x - Depth) /\ Slot(x) \in Slots
<1>0. Depth \in Nat /\ Depth > 0 /\ x \in Int BY UartAssumption
<1>1. x % Depth \in 0 .. Depth - 1 BY <1>0
<1>2. x = Depth * (x \div Depth) + (x % Depth) /\ x \div Depth \in Int BY <1>0
<1> DEFINE q == x \div Depth
<1>3. x - (x % Depth) = Depth * q BY <1>1, <1>2, <1>0
<1>4. q < 2 
  <2> SUFFICES ASSUME q >= 2 PROVE FALSE BY <1>2
  <2>1. Depth * q >= Depth * 2 BY <1>0, <1>2
  <2> QED BY <2>1, <1>3, <1>1, <1>0
<1>5. q >= 0
  <2> SUFFICES ASSUME q <= -1 PROVE FALSE BY <1>2
  <2>1. Depth * q <= Depth * (-1) BY <1>0, <1>2
  <2> QED BY <2>1, <1>3, <1>1, <1>0
<1>6. q = 0 \/ q = 1 BY <1>2, <1>4, <1>5
<1> QED BY <1>6, <1>3, <1>1, <1>0 DEF Slot, Slots
Window(f, t, n) == [i \in 1 .. n |-> f[Slot(t + i - 1)]]
Entries(h, t) == Slot(h + Depth - t)

LEMMA AfterSlot ==
  \A i \in Slots : /\ After(i) \in Slots
                   /\ After(i) = IF i + 1 = Depth THEN 0 ELSE i + 1
<1> SUFFICES ASSUME NEW i \in Slots
             PROVE  After(i) \in Slots /\ After(i) = IF i + 1 = Depth THEN 0 ELSE i + 1
  OBVIOUS
<1>1. i + 1 \in Int /\ 0 <= i + 1 /\ i + 1 < 2 * Depth BY UartAssumption DEF Slots
<1>2. After(i) = Slot(i + 1) BY DEF After, Slot
<1> QED BY <1>1, <1>2, SlotValue, UartAssumption DEF Slots

LEMMA EntriesValue ==
  ASSUME NEW h \in Slots, NEW t \in Slots
  PROVE  /\ Entries(h, t) = IF h < t THEN h + Depth - t ELSE h - t
         /\ Entries(h, t) \in 0 .. Depth - 1
<1>1. h + Depth - t \in Int /\ 0 <= h + Depth - t /\ h + Depth - t < 2 * Depth
  BY UartAssumption DEF Slots
<1>2. Slot(h + Depth - t) = IF h + Depth - t < Depth THEN h + Depth - t ELSE h + Depth - t - Depth
  BY <1>1, SlotValue, UartAssumption DEF Slots
<1> QED BY <1>2, UartAssumption DEF Entries, Slots

LEMMA WindowIsSeq ==
  ASSUME NEW f \in [Slots -> Chars], NEW t \in Slots, NEW n \in 0 .. Depth
  PROVE  /\ Window(f, t, n) \in Seq(Chars)
         /\ Len(Window(f, t, n)) = n
         /\ \A i \in 1 .. n : /\ Slot(t + i - 1) \in Slots
                              /\ Slot(t + i - 1) = IF t + i - 1 < Depth THEN t + i - 1 ELSE t + i - 1 - Depth
                              /\ Window(f, t, n)[i] = f[Slot(t + i - 1)]
<1>1. \A i \in 1 .. n : t + i - 1 \in Int /\ 0 <= t + i - 1 /\ t + i - 1 < 2 * Depth
  BY UartAssumption DEF Slots
<1>2. \A i \in 1 .. n : /\ Slot(t + i - 1) = IF t + i - 1 < Depth THEN t + i - 1 ELSE t + i - 1 - Depth
                        /\ Slot(t + i - 1) \in Slots
  BY <1>1, SlotValue, UartAssumption DEF Slots
<1>3. \A i \in 1 .. n : f[Slot(t + i - 1)] \in Chars BY <1>2
<1>4. n \in Nat BY UartAssumption
<1>5. Window(f, t, n) \in [1 .. n -> Chars] BY <1>3 DEF Window
<1>6. Window(f, t, n) \in Seq(Chars) BY <1>4, <1>5, SeqDef
<1>7. Len(Window(f, t, n)) = n BY <1>4, <1>6, <1>5, LenProperties
<1> QED BY <1>2, <1>6, <1>7 DEF Window

LEMMA WindowGrows ==
  ASSUME NEW f \in [Slots -> Chars], NEW t \in Slots, NEW n \in 0 .. Depth - 1, NEW c \in Chars,
         NEW h \in Slots, h = Slot(t + n)
  PROVE  Window([f EXCEPT ![h] = c], t, n + 1) = Append(Window(f, t, n), c)
<1> DEFINE g == [f EXCEPT ![h] = c]
           V == Window(g, t, n + 1)
           W == Window(f, t, n)
<1>1. g \in [Slots -> Chars] /\ n \in 0 .. Depth /\ n + 1 \in 0 .. Depth BY UartAssumption
<1>2. V \in Seq(Chars) /\ Len(V) = n + 1
  <2> HIDE DEF g
  <2> QED BY <1>1, WindowIsSeq
<1>3. W \in Seq(Chars) /\ Len(W) = n BY <1>1, WindowIsSeq
<1>4. Append(W, c) \in Seq(Chars) /\ Len(Append(W, c)) = n + 1 BY <1>3, AppendProperties
<1>5. h = IF t + n < Depth THEN t + n ELSE t + n - Depth
  <2>1. t + n \in Int /\ 0 <= t + n /\ t + n < 2 * Depth BY UartAssumption DEF Slots
  <2> QED BY <2>1, SlotValue, UartAssumption DEF Slots
<1>6. ASSUME NEW i \in 1 .. n + 1 PROVE V[i] = Append(W, c)[i]
  <2>1. V[i] = g[Slot(t + i - 1)]
    <3> HIDE DEF g
    <3> QED BY <1>1, WindowIsSeq
  <2>2. CASE i = n + 1
    <3>1. Slot(t + i - 1) = h BY <2>2, UartAssumption DEF Slots
    <3>2. Append(W, c)[i] = c BY <2>2, <1>3, AppendProperties
    <3> QED BY <2>1, <3>1, <3>2
  <2>3. CASE i # n + 1
    <3>1. i \in 1 .. n BY <2>3
    <3>2. Append(W, c)[i] = W[i] BY <3>1, <1>3, AppendProperties
    <3>3. /\ W[i] = f[Slot(t + i - 1)] /\ Slot(t + i - 1) \in Slots
          /\ Slot(t + i - 1) = IF t + i - 1 < Depth THEN t + i - 1 ELSE t + i - 1 - Depth
      <4>1. W[i] = f[Slot(t + i - 1)] BY <3>1, <1>1, WindowIsSeq
      <4>2. t + i - 1 \in Int /\ 0 <= t + i - 1 /\ t + i - 1 < 2 * Depth
        BY <3>1, UartAssumption DEF Slots
      <4>3. Slot(t + i - 1) = (IF t + i - 1 < Depth THEN t + i - 1 ELSE t + i - 1 - Depth)
        BY <4>2, SlotValue, UartAssumption DEF Slots
      <4>4. Slot(t + i - 1) \in Slots
        BY <4>2, SlotValue, UartAssumption DEF Slots
      <4> QED BY <4>1, <4>3, <4>4
    <3>4. Slot(t + i - 1) # h BY <3>1, <3>3, <1>5, UartAssumption DEF Slots
    <3> QED BY <2>1, <3>2, <3>3, <3>4
  <2> QED BY <2>2, <2>3
<1> HIDE DEF V, W
<1>7. V = Append(W, c) BY <1>2, <1>4, <1>6, SeqEqual
<1> QED BY <1>7 DEF V, W

LEMMA WindowShrinks ==
  ASSUME NEW f \in [Slots -> Chars], NEW t \in Slots, NEW n \in 1 .. Depth
  PROVE  /\ Window(f, t, n) # <<>>
         /\ Head(Window(f, t, n)) = f[t]
         /\ Window(f, After(t), n - 1) = Tail(Window(f, t, n))
<1> DEFINE W == Window(f, t, n)
           V == Window(f, After(t), n - 1)
<1>1. n \in 0 .. Depth /\ n - 1 \in 0 .. Depth /\ After(t) \in Slots BY AfterSlot, UartAssumption
<1>2. W \in Seq(Chars) /\ Len(W) = n BY <1>1, WindowIsSeq
<1>3. V \in Seq(Chars) /\ Len(V) = n - 1 BY <1>1, WindowIsSeq
<1>4. W # <<>> BY <1>2, EmptySeq
<1>5. Tail(W) \in Seq(Chars) /\ Len(Tail(W)) = n - 1 BY <1>2, <1>4, HeadTailProperties
<1>6. ASSUME NEW i \in 1 .. n - 1 PROVE V[i] = Tail(W)[i]
  <2>1. Tail(W)[i] = W[i + 1] BY <1>2, <1>4, <1>5, HeadTailProperties
  <2>2. i + 1 \in 1 .. n BY <1>1
  <2>3. /\ W[i + 1] = f[Slot(t + (i + 1) - 1)]
        /\ Slot(t + (i + 1) - 1) = IF t + (i + 1) - 1 < Depth THEN t + (i + 1) - 1 ELSE t + (i + 1) - 1 - Depth
    BY <1>1, <2>2, WindowIsSeq
  <2>4. /\ V[i] = f[Slot(After(t) + i - 1)]
        /\ Slot(After(t) + i - 1) = IF After(t) + i - 1 < Depth THEN After(t) + i - 1 ELSE After(t) + i - 1 - Depth
    BY <1>1, WindowIsSeq
  <2>5. Slot(After(t) + i - 1) = Slot(t + (i + 1) - 1)
    <3>1. After(t) = IF t + 1 = Depth THEN 0 ELSE t + 1 BY AfterSlot
    <3> QED BY <2>3, <2>4, <3>1, UartAssumption DEF Slots
  <2> QED BY <2>1, <2>3, <2>4, <2>5
<1>7. Head(W) = f[t]
  <2>1. 1 \in 1 .. n BY UartAssumption
  <2>2. W[1] = f[Slot(t + 1 - 1)]
    BY <1>1, <2>1, WindowIsSeq
  <2>4. t + 1 - 1 = t /\ Slot(t) = t BY SlotValue, UartAssumption DEF Slots
  <2>3. Head(W) = W[1] BY <1>2, <1>4
  <2> QED BY <2>2, <2>3, <2>4
<1> HIDE DEF V, W
<1>8. V = Tail(W) BY <1>3, <1>5, <1>6, SeqEqual
<1> QED BY <1>4, <1>7, <1>8 DEF V, W

\* How many characters two pointers enclose, when one of them moves.
LEMMA EntriesMove ==
  ASSUME NEW h \in Slots, NEW t \in Slots, NEW n, n = Entries(h, t)
  PROVE  /\ n \in 0 .. Depth - 1 /\ Slot(t + n) = h
         /\ n = 0 <=> h = t
         /\ n = Depth - 1 => Entries(After(h), t) = 0
         /\ n < Depth - 1 => Entries(After(h), t) = n + 1
         /\ n > 0 => Entries(h, After(t)) = n - 1
<1>1. n = (IF h < t THEN h + Depth - t ELSE h - t) /\ n \in 0 .. Depth - 1 BY EntriesValue
<1>2. Slot(t + n) = h
  <2>1. t + n \in Int /\ 0 <= t + n /\ t + n < 2 * Depth BY <1>1, UartAssumption DEF Slots
  <2>2. Slot(t + n) = IF t + n < Depth THEN t + n ELSE t + n - Depth
    BY <2>1, <1>1, SlotValue, UartAssumption DEF Slots
  <2> QED BY <1>1, <2>2, UartAssumption DEF Slots
<1>3. After(h) \in Slots /\ After(h) = IF h + 1 = Depth THEN 0 ELSE h + 1 BY AfterSlot
<1>4. After(t) \in Slots /\ After(t) = IF t + 1 = Depth THEN 0 ELSE t + 1 BY AfterSlot
<1>5. Entries(After(h), t) = IF After(h) < t THEN After(h) + Depth - t ELSE After(h) - t
  BY <1>3, EntriesValue
<1>6. Entries(h, After(t)) = IF h < After(t) THEN h + Depth - After(t) ELSE h - After(t)
  BY <1>4, EntriesValue
<1>7. n = 0 <=> h = t BY <1>1, UartAssumption DEF Slots
<1>8. n = Depth - 1 => Entries(After(h), t) = 0 BY <1>1, <1>3, <1>5, UartAssumption DEF Slots
<1>9. n < Depth - 1 => Entries(After(h), t) = n + 1 BY <1>1, <1>3, <1>5, UartAssumption DEF Slots
<1>10. n > 0 => Entries(h, After(t)) = n - 1 BY <1>1, <1>4, <1>6, UartAssumption DEF Slots
<1> QED BY <1>1, <1>2, <1>7, <1>8, <1>9, <1>10

\* The same for a FIFO that holds e characters, all or none, when the pointers meet.
Held(h, t, e) == IF h = t THEN e ELSE Entries(h, t)
Met(moved) == IF moved THEN Depth ELSE 0

LEMMA HeldMove ==
  ASSUME NEW h \in Slots, NEW t \in Slots, NEW e \in {0, Depth}, NEW n, n = Held(h, t, e)
  PROVE  /\ n \in 0 .. Depth /\ Slot(t + n) = h
         /\ n = 0 <=> (h = t /\ e = 0)
         /\ n < Depth => Held(After(h), t, Depth) = n + 1
         /\ n > 0 => Held(h, After(t), 0) = n - 1
         /\ 0 < n /\ n < Depth => Held(After(h), After(t), Depth) = n
<1>0. After(h) \in Slots /\ After(h) = (IF h + 1 = Depth THEN 0 ELSE h + 1)
      /\ After(t) \in Slots /\ After(t) = (IF t + 1 = Depth THEN 0 ELSE t + 1)
  BY AfterSlot
<1>00. Entries(h, t) = (IF h < t THEN h + Depth - t ELSE h - t) BY EntriesValue
<1>1. n = IF h < t THEN h + Depth - t ELSE IF h > t THEN h - t ELSE e
  BY <1>00, UartAssumption DEF Held, Slots
<1>2. n \in 0 .. Depth /\ (n = 0 <=> (h = t /\ e = 0)) BY <1>1, UartAssumption DEF Slots
<1>3. Slot(t + n) = h
  <2>1. t + n \in Int /\ 0 <= t + n /\ t + n < 2 * Depth BY <1>1, UartAssumption DEF Slots
  <2>2. Slot(t + n) = IF t + n < Depth THEN t + n ELSE t + n - Depth
    BY <2>1, <1>2, SlotValue, UartAssumption DEF Slots
  <2> QED BY <1>1, <2>2, UartAssumption DEF Slots
<1>5. Entries(After(h), t) = IF After(h) < t THEN After(h) + Depth - t ELSE After(h) - t
  BY <1>0, EntriesValue
<1>6. Entries(h, After(t)) = IF h < After(t) THEN h + Depth - After(t) ELSE h - After(t)
  BY <1>0, EntriesValue
<1>7. Entries(After(h), After(t)) = IF After(h) < After(t) THEN After(h) + Depth - After(t)
                                    ELSE After(h) - After(t)
  BY <1>0, EntriesValue
<1>8. n < Depth => Held(After(h), t, Depth) = n + 1 BY <1>1, <1>0, <1>5, UartAssumption DEF Slots, Held
<1>9. n > 0 => Held(h, After(t), 0) = n - 1 BY <1>1, <1>0, <1>6, UartAssumption DEF Slots, Held
<1>10. 0 < n /\ n < Depth => Held(After(h), After(t), Depth) = n
  BY <1>1, <1>0, <1>7, UartAssumption DEF Slots, Held
<1> QED BY <1>2, <1>3, <1>8, <1>9, <1>10
-----------------------------------------------------------------------------
(***************************************************************************)
(* The port is two queues.  Told relates what the program was told to what *)
(* is waiting now: LSR is a cycle old, so it binds only a rested program.  *)
(***************************************************************************)
\* The characters waiting to be sent, and what the program knows of them.
Waiting == IF fifoenabled THEN txfifoentries ELSE IF txhrfull THEN 1 ELSE 0

Told ==
  /\ ~fifoenabled /\ (hart.data \/ (LSR.dr /\ hart.rested)) => rxdataready
  /\ LSR.thre /\ hart.rested => THRE
  /\ hart.credit + Waiting <= Room
  /\ ~fifoenabled /\ txsrfull /\ txstate = "IDLE" => ~txhrfull

QueueInv == TypeOK /\ IdleInv /\ Told

LEMMA QueueViews ==
  /\ recvq = IF fifoenabled THEN Window(rxfifo, rxfifotail, Entries(rxfifohead, rxfifotail))
             ELSE IF rxdataready THEN <<RXBR.char>> ELSE <<>>
  /\ recvq' = IF fifoenabled' THEN Window(rxfifo', rxfifotail', Entries(rxfifohead', rxfifotail'))
              ELSE IF rxdataready' THEN <<RXBR'.char>> ELSE <<>>
  /\ txfifoentries = Held(txfifohead, txfifotail, Met(HeadPointerLastMove))
  /\ txfifoentries' = Held(txfifohead', txfifotail', Met(HeadPointerLastMove'))
  /\ sendq = IF fifoenabled
             THEN Window(txfifo, txfifotail, Held(txfifohead, txfifotail, Met(HeadPointerLastMove)))
             ELSE IF txhrfull THEN <<TXHR>> ELSE <<>>
  /\ sendq' = IF fifoenabled'
              THEN Window(txfifo', txfifotail', Held(txfifohead', txfifotail', Met(HeadPointerLastMove')))
              ELSE IF txhrfull' THEN <<TXHR'>> ELSE <<>>
BY DEF recvq, rxfifoentries, Entries, sendq, txfifoentries, Held, Met, Window, Slot

LEMMA LastOfTwo ==
  ASSUME NEW a \in Chars, NEW b \in Chars
  PROVE  SubSeq(Append(<<a>>, b), 1 + 1, 1 + 1) = <<b>>
<1> DEFINE s == Append(<<a>>, b)
           u == SubSeq(s, 2, 2)
<1>1. <<a>> \in Seq(Chars) /\ Len(<<a>>) = 1 OBVIOUS
<1>2. s \in Seq(Chars) /\ Len(s) = 2 /\ s[2] = b BY <1>1, AppendProperties
<1>3. <<b>> \in Seq(Chars) /\ Len(<<b>>) = 1 /\ <<b>>[1] = b OBVIOUS
<1> HIDE DEF s
<1>4. u \in Seq(Chars) /\ Len(u) = 1 /\ u[1] = b
  <2>1. \A i \in 2 .. 2 : s[i] \in Chars BY <1>2
  <2> QED BY <1>2, <2>1, SubSeqProperties
<1> HIDE DEF u
<1>5. u = <<b>> BY <1>3, <1>4, SeqEqual
<1> QED BY <1>5 DEF u, s

\* A frame that ends is appended, or flagged as an overrun.
LEMMA StoreAppends ==
  ASSUME QueueInv, done # None, StoreFrame, UNCHANGED fifoenabled
  PROVE  /\ done \in Frames /\ recvq \in Seq(Chars)
         /\ ~rxoverrunerr => recvq' = Append(recvq, done.char)
         /\ rxoverrunerr => \E n \in 0 .. Len(recvq) + 1 :
              recvq' = SubSeq(Append(recvq, done.char), n + 1, Len(recvq) + 1)
<1> DEFINE n == Entries(rxfifohead, rxfifotail)
<1>1. done \in Frames /\ done.char \in Chars BY DEF QueueInv, TypeOK, Frames
<1>2. CASE fifoenabled
  <2>1. /\ rxfifo \in [Slots -> Chars] /\ rxfifohead \in Slots /\ rxfifotail \in Slots
    BY DEF QueueInv, TypeOK
  <2>2. /\ rxfifo' = [rxfifo EXCEPT ![rxfifohead] = done.char] /\ rxfifohead' = After(rxfifohead)
        /\ rxfifotail' = rxfifotail /\ fifoenabled'
    BY <1>2 DEF StoreFrame
  <2>3. n \in 0 .. Depth - 1 /\ rxfifohead = Slot(rxfifotail + n) BY <2>1, EntriesMove
  <2>4. n \in 0 .. Depth /\ n \in Nat BY <2>3, UartAssumption
  <2>5. recvq = Window(rxfifo, rxfifotail, n) BY <1>2, QueueViews
  <2>6. recvq \in Seq(Chars) /\ Len(recvq) = n BY <2>1, <2>4, <2>5, WindowIsSeq
  <2>7. rxoverrunerr <=> n = Depth - 1 BY <1>2 DEF rxoverrunerr, rxfifoentries, Entries, Slot
  <2>8. recvq' = Window([rxfifo EXCEPT ![rxfifohead] = done.char], rxfifotail, Entries(After(rxfifohead), rxfifotail))
    BY <2>2, QueueViews
  <2>9. CASE n = Depth - 1
    <3>1. Entries(After(rxfifohead), rxfifotail) = 0 BY <2>1, <2>9, EntriesMove
    <3>2. recvq' = <<>> BY <2>8, <3>1 DEF Window
    <3>3. SubSeq(Append(recvq, done.char), (n + 1) + 1, n + 1) = <<>> BY <2>4, SubSeqEmpty
    <3> QED BY <1>1, <2>6, <2>7, <2>9, <3>2, <3>3, <2>4
  <2>10. CASE n # Depth - 1
    <3>1. n < Depth - 1 BY <2>3, <2>10, UartAssumption
    <3>2. Entries(After(rxfifohead), rxfifotail) = n + 1 BY <2>1, <3>1, EntriesMove
    <3>3. recvq' = Append(recvq, done.char)
      <4> HIDE DEF n
      <4>1. Window([rxfifo EXCEPT ![rxfifohead] = done.char], rxfifotail, n + 1)
              = Append(Window(rxfifo, rxfifotail, n), done.char)
        BY <1>1, <2>1, <2>3, WindowGrows
      <4> QED BY <2>5, <2>8, <3>2, <4>1
    <3> QED BY <1>1, <2>6, <2>7, <2>10, <3>3
  <2> QED BY <2>9, <2>10
<1>3. CASE ~fifoenabled
  <2>1. recvq = (IF rxdataready THEN <<RXBR.char>> ELSE <<>>) /\ recvq' = <<done.char>>
    BY <1>3, QueueViews DEF StoreFrame
  <2>2. RXBR.char \in Chars BY DEF QueueInv, TypeOK
  <2>3. rxoverrunerr = rxdataready BY <1>3 DEF rxoverrunerr
  <2>4. CASE rxdataready
    <3>1. recvq = <<RXBR.char>> /\ Len(recvq) = 1 /\ recvq \in Seq(Chars) BY <2>1, <2>2, <2>4
    <3>2. SubSeq(Append(recvq, done.char), 1 + 1, 1 + 1) = <<done.char>>
      BY <1>1, <2>2, <3>1, LastOfTwo
    <3> QED BY <1>1, <2>1, <2>3, <2>4, <3>1, <3>2
  <2>5. CASE ~rxdataready
    <3>1. recvq = <<>> /\ recvq \in Seq(Chars) BY <2>1, <2>5
    <3> QED BY <1>1, <2>1, <2>3, <2>5, <3>1
  <2> QED BY <2>4, <2>5
<1> QED BY <1>2, <1>3

\* A read of RBR returns the oldest character and takes it out.
LEMMA ReadTakes ==
  ASSUME QueueInv, PopFifo \/ PopRegister, hart.data, UNCHANGED fifoenabled
  PROVE  /\ RBR = IF recvq = <<>> THEN Nul ELSE Head(recvq)
         /\ recvq' = IF recvq = <<>> THEN <<>> ELSE Tail(recvq)
<1> DEFINE n == Entries(rxfifohead, rxfifotail)
<1>2. CASE fifoenabled
  <2>1. /\ rxfifo \in [Slots -> Chars] /\ rxfifohead \in Slots /\ rxfifotail \in Slots
    BY DEF QueueInv, TypeOK
  <2>2. /\ rxfifotail' = IF rxfifoempty THEN rxfifotail ELSE After(rxfifotail)
        /\ rxfifo' = rxfifo /\ rxfifohead' = rxfifohead /\ fifoenabled'
    BY <1>2 DEF PopFifo, PopRegister
  <2>3. recvq = Window(rxfifo, rxfifotail, n) BY <1>2, QueueViews
  <2>4. recvq' = Window(rxfifo, rxfifotail', Entries(rxfifohead, rxfifotail')) BY <2>2, QueueViews
  <2>5. CASE rxfifoempty
    <3>1. n = 0 BY <2>1, <2>5, EntriesMove DEF rxfifoempty
    <3>2. recvq = <<>> /\ recvq' = <<>> BY <2>2, <2>3, <2>4, <2>5, <3>1 DEF Window
    <3> QED BY <1>2, <2>5, <3>2 DEF RBR
  <2>6. CASE ~rxfifoempty
    <3>1. n \in 0 .. Depth - 1 /\ n # 0 BY <2>1, <2>6, EntriesMove DEF rxfifoempty
    <3>2. n \in 1 .. Depth /\ n > 0 BY <3>1, UartAssumption
    <3>3. Entries(rxfifohead, After(rxfifotail)) = n - 1 BY <2>1, <3>2, EntriesMove
    <3>4. /\ recvq # <<>> /\ Head(recvq) = rxfifo[rxfifotail]
          /\ Window(rxfifo, After(rxfifotail), n - 1) = Tail(recvq)
      BY <2>1, <2>3, <3>2, WindowShrinks
    <3>5. recvq' = Tail(recvq) BY <2>2, <2>4, <2>6, <3>3, <3>4
    <3> QED BY <1>2, <2>6, <3>4, <3>5 DEF RBR
  <2> QED BY <2>5, <2>6
<1>3. CASE ~fifoenabled
  <2>1. rxdataready /\ ~rxdataready' BY <1>3 DEF QueueInv, Told, PopFifo, PopRegister
  <2>2. recvq = <<RXBR.char>> /\ recvq' = <<>> BY <1>3, <2>1, QueueViews
  <2>3. recvq # <<>> /\ Head(recvq) = RXBR.char /\ Tail(recvq) = <<>> BY <2>2
  <2> QED BY <1>3, <2>2, <2>3 DEF RBR
<1> QED BY <1>2, <1>3

Sent(op, c) == IF op = "THR" THEN <<c>> ELSE <<>>

\* With the FIFOs on: a character written is appended, and one that is loaded into
\* the shift register is the oldest.
LEMMA FifoTransmits ==
  ASSUME QueueInv, NEW op \in Ops \ {"FCR"}, NEW c, fifoenabled, fifoenabled',
         op = "THR" => c \in Chars /\ Waiting < Depth,
         WriteHolding(op, c), MoveToShift, PointerFlag(op)
  PROVE  /\ sendq \in Seq(Chars) /\ sendq' \in Seq(Chars) /\ Len(sendq') <= Depth
         /\ ~Load => sendq' = sendq \o Sent(op, c)
         /\ Load => /\ sendq # <<>> /\ txsr = None /\ txsr' = Head(sendq)
                    /\ sendq' = Tail(sendq) \o Sent(op, c)
<1> DEFINE n == Held(txfifohead, txfifotail, Met(HeadPointerLastMove))
           Old == Window(txfifo, txfifotail, n)
<1>1. /\ txfifo \in [Slots -> Chars] /\ txfifohead \in Slots /\ txfifotail \in Slots
      /\ HeadPointerLastMove \in BOOLEAN
  BY DEF QueueInv, TypeOK
<1>h. /\ n \in 0 .. Depth /\ Slot(txfifotail + n) = txfifohead
      /\ n = 0 <=> (txfifohead = txfifotail /\ Met(HeadPointerLastMove) = 0)
      /\ n < Depth => Held(After(txfifohead), txfifotail, Depth) = n + 1
      /\ n > 0 => Held(txfifohead, After(txfifotail), 0) = n - 1
      /\ 0 < n /\ n < Depth => Held(After(txfifohead), After(txfifotail), Depth) = n
  <2> HIDE DEF n
  <2>1. n = Held(txfifohead, txfifotail, Met(HeadPointerLastMove)) BY DEF n
  <2>2. Met(HeadPointerLastMove) \in {0, Depth} BY DEF Met
  <2> QED BY <1>1, <2>1, <2>2, HeldMove
<1>2. n \in 0 .. Depth /\ txfifohead = Slot(txfifotail + n) /\ (n = 0 <=> txfifoempty)
  <2>1. Met(HeadPointerLastMove) = 0 <=> ~HeadPointerLastMove BY UartAssumption DEF Met
  <2> HIDE DEF n
  <2> QED BY <1>h, <2>1 DEF txfifoempty
<1>3. sendq = Old /\ Waiting = n BY QueueViews DEF Waiting
<1>4. Old \in Seq(Chars) /\ Len(Old) = n BY <1>1, <1>2, WindowIsSeq
<1>5. /\ txfifo' = IF op = "THR" THEN [txfifo EXCEPT ![txfifohead] = c] ELSE txfifo
      /\ txfifohead' = IF op = "THR" THEN After(txfifohead) ELSE txfifohead
      /\ txfifotail' = IF Load THEN After(txfifotail) ELSE txfifotail
      /\ Met(HeadPointerLastMove') = IF op = "THR" THEN Depth
                                    ELSE IF Load THEN 0 ELSE Met(HeadPointerLastMove)
  BY DEF WriteHolding, MoveToShift, PointerFlag, Met
<1>6. sendq' = Window(txfifo', txfifotail', Held(txfifohead', txfifotail', Met(HeadPointerLastMove')))
  BY QueueViews
<1> DEFINE New == Window(txfifo', txfifotail, IF op = "THR" THEN n + 1 ELSE n)
<1>7. /\ New = Old \o Sent(op, c) /\ New \in Seq(Chars)
      /\ Len(New) = (IF op = "THR" THEN n + 1 ELSE n) /\ Len(New) <= Depth
  <2>1. CASE op = "THR"
    <3>1. n \in 0 .. Depth - 1 /\ c \in Chars BY <2>1, <1>2, <1>3, UartAssumption
    <3>w. Old = Window(txfifo, txfifotail, n) OBVIOUS
    <3>h. txfifohead = Slot(txfifotail + n) BY <1>2
    <3> HIDE DEF n, Old
    <3>2. Window([txfifo EXCEPT ![txfifohead] = c], txfifotail, n + 1) = Append(Old, c)
      <4>1. txfifotail \in Slots /\ txfifohead \in Slots /\ txfifo \in [Slots -> Chars] BY <1>1
      <4>2. Window([txfifo EXCEPT ![txfifohead] = c], txfifotail, n + 1)
              = Append(Window(txfifo, txfifotail, n), c)
        BY <4>1, <3>1, <3>h, WindowGrows, ZenonT(40)
      <4> QED BY <4>2, <3>w
    <3>3. Append(Old, c) = Old \o <<c>> BY <1>4, <3>1, AppendIsConcat
    <3>4. Append(Old, c) \in Seq(Chars) /\ Len(Append(Old, c)) = n + 1
      BY <1>4, <3>1, AppendProperties
    <3>5. n + 1 <= Depth BY <3>1, UartAssumption
    <3> QED BY <2>1, <1>5, <3>2, <3>3, <3>4, <3>5 DEF Sent
  <2>2. CASE op # "THR"
    <3>1. New = Old BY <2>2, <1>5
    <3>2. Old \o <<>> = Old BY <1>4, ConcatEmptySeq
    <3>3. n <= Depth BY <1>2, UartAssumption
    <3> QED BY <2>2, <3>1, <3>2, <3>3, <1>4 DEF Sent
  <2> QED BY <2>1, <2>2
<1>8. CASE ~Load
  <2>1. Held(txfifohead', txfifotail', Met(HeadPointerLastMove')) = IF op = "THR" THEN n + 1 ELSE n
    <3>1. CASE op = "THR"
      <4>1. n < Depth BY <3>1, <1>3
      <4>2. Held(After(txfifohead), txfifotail, Depth) = n + 1 BY <4>1, <1>h
      <4> QED BY <3>1, <4>2, <1>5, <1>8
    <3>2. CASE op # "THR"
      <4> QED BY <3>2, <1>5, <1>8
    <3> QED BY <3>1, <3>2
  <2>2. sendq' = New BY <2>1, <1>5, <1>6, <1>8
  <2> HIDE DEF New, Old, n
  <2> QED BY <2>2, <1>3, <1>4, <1>7, <1>8
<1>9. CASE Load
  <2>1. n \in 1 .. Depth /\ n > 0 /\ txsr = None /\ txsr' = txfifo[txfifotail]
    BY <1>2, <1>9, UartAssumption
       DEF Load, MoveToShift, nexttxdata, QueueInv, IdleInv, UnusedClean, TypeOK
  <2>2. Old # <<>> /\ Head(Old) = txfifo[txfifotail]
        /\ Window(txfifo, After(txfifotail), n - 1) = Tail(Old)
    <3> HIDE DEF n
    <3> QED BY <1>1, <2>1, WindowShrinks
  <2>3. Tail(Old) \in Seq(Chars) /\ Len(Tail(Old)) = n - 1 BY <1>4, <2>2, HeadTailProperties
  <2>4. CASE op = "THR"
    <3>1. n < Depth /\ c \in Chars BY <2>4, <1>3
    <3>2. Held(After(txfifohead), After(txfifotail), Depth) = n BY <2>1, <3>1, <1>h
    <3>3. sendq' = Window(txfifo', After(txfifotail), n) BY <1>5, <1>6, <1>9, <2>4, <3>2
    <3>4. txfifo' \in [Slots -> Chars] BY <1>1, <1>5, <3>1
    <3>5. After(txfifotail) \in Slots BY <1>1, AfterSlot
    <3>6. sendq' \in Seq(Chars) /\ Len(sendq') = n BY <1>2, <3>3, <3>4, <3>5, WindowIsSeq
    <3>7. New = Window(txfifo', txfifotail, n + 1) /\ n + 1 \in 1 .. Depth
      BY <2>1, <2>4, <3>1, UartAssumption
    <3>8. Window(txfifo', After(txfifotail), (n + 1) - 1) = Tail(New)
      <4> HIDE DEF n, New
      <4> QED BY <1>1, <3>4, <3>7, WindowShrinks
    <3>9. (n + 1) - 1 = n BY <2>1, UartAssumption
    <3>10. sendq' = Tail(Old \o <<c>>) BY <1>7, <2>4, <3>3, <3>8, <3>9 DEF Sent
    <3>11. Tail(Old \o <<c>>) = Tail(Old) \o <<c>>
      <4> HIDE DEF Old
      <4>1. Append(Old, c) = Old \o <<c>> BY <1>4, <3>1, AppendIsConcat
      <4>2. Tail(Append(Old, c)) = Append(Tail(Old), c) BY <1>4, <2>2, <3>1, HeadTailAppend
      <4>3. Append(Tail(Old), c) = Tail(Old) \o <<c>> BY <2>3, <3>1, AppendIsConcat
      <4> QED BY <4>1, <4>2, <4>3
    <3>12. n <= Depth BY <2>1, UartAssumption
    <3> HIDE DEF Old, n, New
    <3> QED BY <1>3, <1>4, <1>9, <2>1, <2>2, <2>4, <3>6, <3>10, <3>11, <3>12 DEF Sent
  <2>5. CASE op # "THR"
    <3>1. Held(txfifohead, After(txfifotail), 0) = n - 1 BY <2>1, <1>h
    <3>2. Met(HeadPointerLastMove') = 0 BY <1>5, <1>9, <2>5
    <3>3. sendq' = Window(txfifo, After(txfifotail), n - 1) BY <1>5, <1>6, <1>9, <2>5, <3>1, <3>2
    <3>4. Tail(Old) \o <<>> = Tail(Old) BY <2>3, ConcatEmptySeq
    <3>5. n - 1 <= Depth BY <2>1, UartAssumption
    <3> HIDE DEF Old, n
    <3> QED BY <1>3, <1>4, <1>9, <2>1, <2>2, <2>3, <2>5, <3>3, <3>4, <3>5 DEF Sent
  <2> QED BY <2>4, <2>5
<1> QED BY <1>8, <1>9

\* With the FIFOs off: the same for the holding register.
LEMMA HoldingTransmits ==
  ASSUME QueueInv, NEW op \in Ops \ {"FCR"}, NEW c, ~fifoenabled, ~fifoenabled',
         op = "THR" => c \in Chars /\ Waiting < 1,
         WriteHolding(op, c), MoveToShift, PointerFlag(op)
  PROVE  /\ sendq \in Seq(Chars) /\ sendq' \in Seq(Chars) /\ Len(sendq') <= Depth
         /\ ~Load => sendq' = sendq \o Sent(op, c)
         /\ Load => /\ sendq # <<>> /\ txsr = None /\ txsr' = Head(sendq)
                    /\ sendq' = Tail(sendq) \o Sent(op, c)
<1>1. /\ sendq = IF txhrfull THEN <<TXHR>> ELSE <<>>
      /\ sendq' = IF txhrfull' THEN <<TXHR'>> ELSE <<>>
  BY QueueViews
<1>2. op = "THR" => ~txhrfull /\ c \in Chars BY DEF Waiting
<1>3. TXHR \in Chars /\ TXHR' = (IF op = "THR" THEN c ELSE TXHR)
      /\ (txhrfull' <=> ~Load /\ (op = "THR" \/ txhrfull))
  BY DEF WriteHolding, QueueInv, TypeOK
<1>4. Load <=> txstate = "IDLE" /\ txhrfull BY DEF Load
<1>5. sendq \in Seq(Chars) /\ sendq' \in Seq(Chars) /\ Len(sendq') <= Depth
  <2>1. TXHR' \in Chars BY <1>2, <1>3
  <2>2. Len(sendq') \in {0, 1} BY <1>1
  <2> QED BY <1>1, <1>3, <2>1, <2>2, UartAssumption
<1>6. CASE Load
  <2>1. txsr = None
    BY <1>4, <1>6 DEF QueueInv, Told, IdleInv, UnusedClean, TypeOK
  <2>2. op # "THR" /\ sendq = <<TXHR>> /\ sendq' = <<>> BY <1>1, <1>2, <1>3, <1>4, <1>6
  <2>3. sendq # <<>> /\ Head(sendq) = TXHR /\ Tail(sendq) = <<>> /\ <<>> \o <<>> = <<>>
    BY <2>2
  <2>4. txsr' = TXHR BY <1>6 DEF MoveToShift, nexttxdata
  <2> QED BY <1>5, <1>6, <2>1, <2>2, <2>3, <2>4 DEF Sent
<1>7. CASE ~Load
  <2>1. CASE op = "THR"
    <3>1. sendq = <<>> /\ sendq' = <<c>> BY <1>1, <1>2, <1>3, <1>7, <2>1
    <3>2. <<>> \o <<c>> = <<c>> /\ <<c>> \in Seq(Chars) BY <1>2, <2>1, ConcatEmptySeq
    <3> QED BY <1>5, <1>7, <2>1, <3>1, <3>2 DEF Sent
  <2>2. CASE op # "THR"
    <3>1. sendq' = sendq BY <1>1, <1>3, <1>7, <2>2
    <3>2. sendq \o <<>> = sendq BY <1>5, ConcatEmptySeq
    <3> QED BY <1>5, <1>7, <2>2, <3>1, <3>2 DEF Sent
  <2> QED BY <2>1, <2>2
<1> QED BY <1>6, <1>7

LEMMA TransmitStep ==
  ASSUME QueueInv, NEW op \in Ops \ {"FCR"}, NEW c, UNCHANGED fifoenabled,
         op = "THR" => c \in Chars /\ Waiting < Room, Cycle(op, c)
  PROVE  S!Transmit
<1>1. WriteHolding(op, c) /\ MoveToShift /\ PointerFlag(op) BY DEF Cycle, Transmitter
<1>2. /\ Len(sendq') <= Depth
      /\ ~Load => sendq' = sendq \o Sent(op, c)
      /\ Load => /\ sendq # <<>> /\ txsr = None /\ txsr' = Head(sendq)
                 /\ sendq' = Tail(sendq) \o Sent(op, c)
  <2>1. CASE fifoenabled BY <1>1, <2>1, FifoTransmits DEF Room
  <2>2. CASE ~fifoenabled BY <1>1, <2>2, HoldingTransmits DEF Room
  <2> QED BY <2>1, <2>2
<1>3. Sent(op, c) \in S!Written BY DEF Sent, S!Written
<1>4. CASE Load
  BY <1>2, <1>3, <1>4 DEF S!Transmit, S!Start
<1>5. CASE ~Load
  <2>1. txsr' \in {txsr, None} BY <1>1, <1>5 DEF MoveToShift
  <2> QED BY <1>2, <1>3, <1>5, <2>1 DEF S!Transmit, S!Queue
<1> QED BY <1>4, <1>5

\* A cycle that reads RBR takes a character; any other one stores a frame, or
\* leaves the receiver alone.
LEMMA ReceiveStep ==
  ASSUME QueueInv, NEW op \in Ops \ {"FCR"}, NEW c, UNCHANGED fifoenabled, Cycle(op, c),
         op = "RBR" => hart.data /\ done = None /\ Dout' = RBR,
         op # "RBR" => Dout' \in IDs \cup {None}
  PROVE  S!Quiet \/ S!Receive \/ S!Overrun \/ S!Read
<1> DEFINE shown == IF Dout' \in IDs THEN None ELSE Dout'
<1>1. /\ Receiver(op)
      /\ owed' = (IF op = "LSR" THEN owed \ LSR.err ELSE owed)
                   \cup (IF done # None /\ op # "FCR" THEN FrameErrors ELSE {})
  BY DEF Cycle
<1>2. CASE op = "RBR"
  <2>1. PopFifo \/ PopRegister BY <1>1, <1>2 DEF Receiver
  <2>2. /\ RBR = IF recvq = <<>> THEN Nul ELSE Head(recvq)
        /\ recvq' = IF recvq = <<>> THEN <<>> ELSE Tail(recvq)
    BY <1>2, <2>1, ReadTakes
  <2>3. shown = RBR BY <1>2, RBRType, UartAssumption DEF QueueInv
  <2>4. owed' = owed BY <1>1, <1>2
  <2> QED BY <2>2, <2>3, <2>4 DEF S!Read
<1>3. CASE op # "RBR" /\ done = None
  <2>1. UNCHANGED rxVars BY <1>1, <1>3 DEF Receiver
  <2>2. recvq' = recvq BY <2>1, QueueViews DEF rxVars
  <2>3. shown = None BY <1>3
  <2>4. owed' \subseteq owed BY <1>1, <1>3
  <2> QED BY <2>2, <2>3, <2>4 DEF S!Quiet
<1>4. CASE op # "RBR" /\ done # None
  <2>1. StoreFrame BY <1>1, <1>4 DEF Receiver
  <2>2. /\ done \in Frames
        /\ ~rxoverrunerr => recvq' = Append(recvq, done.char)
        /\ rxoverrunerr => \E n \in 0 .. Len(recvq) + 1 :
             recvq' = SubSeq(Append(recvq, done.char), n + 1, Len(recvq) + 1)
    BY <1>4, <2>1, StoreAppends
  <2>3. done.char \in Chars BY <2>2 DEF Frames
  <2>4. shown = None BY <1>4
  <2>5. CASE rxoverrunerr
    <3>1. "overrun" \in owed' BY <1>1, <1>4, <2>5 DEF FrameErrors
    <3> QED BY <2>2, <2>3, <2>4, <2>5, <3>1 DEF S!Overrun
  <2>6. CASE ~rxoverrunerr
    <3>1. "overrun" \notin owed' \ owed BY <1>1, <2>6 DEF FrameErrors
    <3> QED BY <2>2, <2>3, <2>4, <2>6, <3>1 DEF S!Receive
  <2> QED BY <2>5, <2>6
<1> QED BY <1>2, <1>3, <1>4

LEMMA NothingHeld == \A t \in Slots : Held(t, t, Met(FALSE)) = 0 /\ Entries(t, t) = 0
<1> SUFFICES ASSUME NEW t \in Slots PROVE Held(t, t, Met(FALSE)) = 0 /\ Entries(t, t) = 0
  OBVIOUS
<1>1. Entries(t, t) = t - t BY EntriesValue, UartAssumption DEF Slots
<1> QED BY <1>1, UartAssumption DEF Held, Met, Slots

LEMMA ResetEmpties ==
  ASSUME QueueInv, "reset" \notin Races, NEW enable \in BOOLEAN, WriteFCR(enable)
  PROVE  /\ S!Reset
         /\ THRE' /\ Waiting' = 0 /\ ~txsrfull'
<1>1. UnusedClean' /\ TEMT' BY ResetWhenIdle DEF QueueInv
<1>2. THRE' /\ ~txsrfull' /\ txsr' = None BY <1>1 DEF TEMT, UnusedClean
<1>3. /\ rxfifohead' = 0 /\ rxfifotail' = 0 /\ rxdataready' = FALSE
      /\ txfifohead' = 0 /\ txfifotail' = 0 /\ Dout' = None /\ owed' = owed
      /\ fifoenabled' = enable
  BY DEF WriteFCR, Cycle, Receiver, ResetReceiver, Transmitter, ResetTransmitter
<1>4. recvq' = <<>>
  <2>1. recvq' = IF fifoenabled' THEN Window(rxfifo', rxfifotail', Entries(rxfifohead', rxfifotail'))
                 ELSE IF rxdataready' THEN <<RXBR'.char>> ELSE <<>>
    BY QueueViews
  <2>2. Entries(0, 0) = 0 BY NothingHeld, SlotFacts
  <2>3. Window(rxfifo', 0, 0) = <<>> BY DEF Window
  <2> QED BY <1>3, <2>1, <2>2, <2>3
<1>5. Held(txfifohead', txfifotail', Met(HeadPointerLastMove')) = 0
  <2>1. ~HeadPointerLastMove' BY <1>2, <1>1 DEF THRE, txfifoempty, UnusedClean
  <2>2. Met(HeadPointerLastMove') = 0 BY <2>1 DEF Met
  <2> QED BY <1>3, <2>2 DEF Held
<1>6. fifoenabled' \/ ~txhrfull' BY <1>2 DEF THRE
<1>7. sendq' = <<>>
  <2>1. Window(txfifo', txfifotail', 0) = <<>> BY DEF Window
  <2> QED BY <1>5, <1>6, <2>1, QueueViews
<1>8. Waiting' = 0
  <2>1. txfifoentries' = 0 BY <1>5, QueueViews
  <2> QED BY <1>6, <2>1 DEF Waiting
<1>9. (IF Dout' \in IDs THEN None ELSE Dout') = None BY <1>3
<1> QED BY <1>2, <1>3, <1>4, <1>7, <1>8, <1>9 DEF S!Reset

\* The queue is as long as the pointers say, before and after a step.
LEMMA SendLength == TypeOK /\ fifoenabled => Len(sendq) = Waiting
<1> SUFFICES ASSUME TypeOK, fifoenabled PROVE Len(sendq) = Waiting
  OBVIOUS
<1> DEFINE n == Held(txfifohead, txfifotail, Met(HeadPointerLastMove))
<1>1. Met(HeadPointerLastMove) \in {0, Depth} /\ txfifohead \in Slots /\ txfifotail \in Slots
      /\ txfifo \in [Slots -> Chars]
  BY DEF Met, TypeOK
<1>2. n \in 0 .. Depth BY <1>1, HeldMove
<1>3. Len(Window(txfifo, txfifotail, n)) = n
  <2> HIDE DEF n
  <2> QED BY <1>1, <1>2, WindowIsSeq
<1> QED BY <1>2, <1>3, QueueViews DEF Waiting

\* A cycle without a reset: the count of waiting characters grows only by a write,
\* and an empty transmitter or a ready receiver stays so unless it is accessed.
LEMMA CountsMove ==
  ASSUME QueueInv, NEW op \in Ops \ {"FCR"}, NEW c, UNCHANGED fifoenabled,
         op = "THR" => c \in Chars /\ Waiting < Room, Cycle(op, c), TypeOK'
  PROVE  /\ Waiting' \in 0 .. Depth
         /\ Waiting' <= Waiting + (IF op = "THR" THEN 1 ELSE 0)
         /\ op # "THR" /\ THRE => THRE'
         /\ op # "RBR" /\ rxdataready => rxdataready'
         /\ ~fifoenabled' /\ txsrfull' /\ txstate' = "IDLE" => ~txhrfull'
<1>1. WriteHolding(op, c) /\ MoveToShift /\ PointerFlag(op) /\ ShiftState
  BY DEF Cycle, Transmitter
<1>2. op # "RBR" /\ rxdataready => rxdataready'
  BY DEF Cycle, Receiver, StoreFrame, rxVars
<1>3. ~fifoenabled' /\ txsrfull' /\ txstate' = "IDLE" => ~txhrfull'
  BY <1>1 DEF ShiftState, MoveToShift, WriteHolding, QueueInv, TypeOK
<1>4. op # "THR" /\ THRE => THRE'
  BY <1>1 DEF THRE, txfifoempty, Load, WriteHolding, MoveToShift, PointerFlag, QueueInv, TypeOK
<1>5. CASE ~fifoenabled
  <2>1. Waiting = (IF txhrfull THEN 1 ELSE 0) /\ Waiting' = (IF txhrfull' THEN 1 ELSE 0)
    BY <1>5 DEF Waiting
  <2>2. txhrfull' => op = "THR" \/ txhrfull BY <1>1 DEF WriteHolding
  <2>3. Waiting' <= Waiting + (IF op = "THR" THEN 1 ELSE 0) BY <2>1, <2>2
  <2> QED BY <1>2, <1>3, <1>4, <2>1, <2>3, UartAssumption
<1>6. CASE fifoenabled
  <2>1. /\ sendq' \in Seq(Chars) /\ sendq \in Seq(Chars) /\ Len(sendq') <= Depth
        /\ ~Load => sendq' = sendq \o Sent(op, c)
        /\ Load => sendq # <<>> /\ sendq' = Tail(sendq) \o Sent(op, c)
    BY <1>1, <1>6, FifoTransmits DEF Room
  <2>2. Len(sendq) = Waiting /\ Len(sendq') = Waiting'
    <3>1. TypeOK /\ fifoenabled => Len(sendq) = Waiting BY SendLength
    <3>2. (TypeOK /\ fifoenabled => Len(sendq) = Waiting)' BY SendLength, PTL
    <3> QED BY <1>6, <3>1, <3>2 DEF QueueInv
  <2>3. Sent(op, c) \in Seq(Chars) /\ Len(Sent(op, c)) = IF op = "THR" THEN 1 ELSE 0
    BY DEF Sent
  <2>4. CASE ~Load
    <3>1. Len(sendq') = Len(sendq) + Len(Sent(op, c)) BY <2>1, <2>3, <2>4, ConcatProperties
    <3>2. Len(sendq') \in 0 .. Depth BY <2>1, LenProperties, UartAssumption
    <3>3. Len(sendq) \in Nat BY <2>1, LenProperties
    <3> QED BY <1>2, <1>3, <1>4, <2>2, <2>3, <3>1, <3>2, <3>3
  <2>5. CASE Load
    <3>1. Tail(sendq) \in Seq(Chars) /\ Len(Tail(sendq)) = Len(sendq) - 1
      BY <2>1, <2>5, HeadTailProperties
    <3>2. Len(sendq') = Len(Tail(sendq)) + Len(Sent(op, c))
      BY <2>1, <2>3, <2>5, <3>1, ConcatProperties
    <3>3. Len(sendq') \in 0 .. Depth /\ Len(sendq) \in Nat BY <2>1, LenProperties, UartAssumption
    <3> QED BY <1>2, <1>3, <1>4, <2>2, <2>3, <3>1, <3>2, <3>3
  <2> QED BY <2>4, <2>5
<1> QED BY <1>5, <1>6

LEMMA EmptyHolds ==
  /\ TypeOK /\ THRE => Waiting = 0
  /\ TypeOK => Waiting \in 0 .. Depth
<1>1. ASSUME TypeOK, THRE PROVE Waiting = 0
  BY <1>1 DEF THRE, txfifoempty, Waiting, txfifoentries, TypeOK
<1>2. ASSUME TypeOK PROVE Waiting \in 0 .. Depth
  <2>1. Met(HeadPointerLastMove) \in {0, Depth} /\ txfifohead \in Slots /\ txfifotail \in Slots
    BY <1>2 DEF Met, TypeOK
  <2>2. Held(txfifohead, txfifotail, Met(HeadPointerLastMove)) \in 0 .. Depth
    BY <2>1, HeldMove
  <2> QED BY <2>2, QueueViews, UartAssumption DEF Waiting
<1> QED BY <1>1, <1>2

\* Every step keeps the invariant and is a step of the two queues.
LEMMA QueueStep ==
  ASSUME QueueInv, "reset" \notin Races, "pop" \notin Races, Next
  PROVE  QueueInv' /\ S!Next
<1>1. TypeOK' BY NextType DEF QueueInv
<1>2. IdleInv' BY IdleStep DEF QueueInv
<1> SUFFICES Told' /\ S!Next BY <1>1, <1>2 DEF QueueInv
<1>3. /\ hart.credit \in 0 .. Depth /\ Waiting \in 0 .. Depth /\ Room \in 0 .. Depth
      /\ (THRE => Waiting = 0) /\ hart.credit + Waiting <= Room
      /\ hart \in [rested : BOOLEAN, data : BOOLEAN, idle : BOOLEAN, credit : 0 .. Depth]
  BY EmptyHolds, UartAssumption DEF QueueInv, Told, TypeOK, Room
<1>4. /\ THRE' => Waiting' = 0
      /\ Waiting' \in 0 .. Depth /\ hart'.credit \in 0 .. Depth
  <2>1. (TypeOK /\ THRE => Waiting = 0)' /\ (TypeOK => Waiting \in 0 .. Depth)'
    BY EmptyHolds, PTL
  <2> QED BY <1>1, <2>1 DEF TypeOK
<1>5. ASSUME NEW op \in Ops \ {"FCR"}, NEW c, UNCHANGED fifoenabled, Cycle(op, c),
             op = "THR" => c \in Chars /\ hart.credit > 0,
             op = "RBR" => hart.data /\ done = None /\ Dout' = RBR,
             op # "RBR" => Dout' \in IDs \cup {None}
      PROVE  /\ S!Next
             /\ Waiting' <= Waiting + (IF op = "THR" THEN 1 ELSE 0)
             /\ op # "THR" /\ THRE => THRE'
             /\ op # "RBR" /\ rxdataready => rxdataready'
             /\ ~fifoenabled' /\ txsrfull' /\ txstate' = "IDLE" => ~txhrfull'
             /\ Room' = Room /\ LSR'.thre = THRE /\ LSR'.dr = rxdataready
  <2>1. op = "THR" => c \in Chars /\ Waiting < Room BY <1>3, <1>5, UartAssumption
  <2>2. S!Transmit BY <1>5, <2>1, TransmitStep
  <2>3. S!Quiet \/ S!Receive \/ S!Overrun \/ S!Read BY <1>5, ReceiveStep
  <2>4. S!Next BY <2>2, <2>3 DEF S!Next
  <2>5. Room' = Room /\ LSR'.thre = THRE /\ LSR'.dr = rxdataready
    BY <1>5 DEF Room, Cycle, Status
  <2> QED BY <1>1, <1>5, <2>1, <2>4, <2>5, CountsMove
<1>6. CASE NoAccess
  <2>1. /\ UNCHANGED fifoenabled /\ Cycle("none", None) /\ Dout' = None
        /\ hart' = [hart EXCEPT !.rested = TRUE]
    BY <1>6 DEF NoAccess
  <2>2. "none" \in Ops \ {"FCR"} BY DEF Ops
  <2>3. hart'.credit = hart.credit /\ hart'.data = hart.data BY <1>3, <2>1
  <2>4. ~fifoenabled' /\ hart'.data => rxdataready' BY <1>5, <2>1, <2>2, <2>3 DEF QueueInv, Told
  <2> QED BY <1>3, <1>4, <1>5, <2>1, <2>2, <2>3, <2>4 DEF Told
<1>7. CASE ReadRBR
  <2>1. /\ UNCHANGED fifoenabled /\ Cycle("RBR", None) /\ Dout' = RBR
        /\ hart' = [hart EXCEPT !.rested = FALSE, !.data = FALSE] /\ hart.data /\ done = None
    BY <1>7 DEF ReadRBR, Allowed
  <2>2. "RBR" \in Ops \ {"FCR"} BY DEF Ops
  <2>3. hart'.credit = hart.credit /\ ~hart'.data /\ ~hart'.rested BY <1>3, <2>1
  <2> QED BY <1>3, <1>4, <1>5, <2>1, <2>2, <2>3 DEF Told
<1>8. CASE ReadLSR
  <2>1. /\ UNCHANGED fifoenabled /\ Cycle("LSR", None) /\ Dout' = None /\ hart.rested
        /\ hart' = [rested |-> FALSE, data |-> LSR.dr, idle |-> LSR.temt,
                    credit |-> IF LSR.thre THEN Room ELSE hart.credit]
    BY <1>8 DEF ReadLSR, Allowed
  <2>2. "LSR" \in Ops \ {"FCR"} BY DEF Ops
  <2>3. /\ hart'.credit = (IF LSR.thre THEN Room ELSE hart.credit)
        /\ hart'.data = LSR.dr /\ ~hart'.rested
    BY <2>1
  <2>4. LSR.thre => Waiting' = 0 BY <1>4, <1>5, <2>1, <2>2 DEF QueueInv, Told
  <2>5. ~fifoenabled' /\ hart'.data => rxdataready' BY <1>5, <2>1, <2>2, <2>3 DEF QueueInv, Told
  <2> QED BY <1>3, <1>4, <1>5, <2>1, <2>2, <2>3, <2>4, <2>5 DEF Told
<1>9. CASE ReadIIR
  <2>1. /\ UNCHANGED fifoenabled /\ Cycle("IIR", None) /\ Dout' = intrID
        /\ hart' = [hart EXCEPT !.rested = FALSE,
                                !.data = @ \/ intrID \in {"data", "timeout"},
                                !.credit = IF intrID = "thre" THEN Room ELSE @]
    BY <1>9 DEF ReadIIR
  <2>2. "IIR" \in Ops \ {"FCR"} /\ Dout' \in IDs BY <2>1, IntrType DEF Ops
  <2>3. /\ hart'.credit = (IF intrID = "thre" THEN Room ELSE hart.credit)
        /\ (hart'.data <=> hart.data \/ intrID \in {"data", "timeout"}) /\ ~hart'.rested
    BY <1>3, <2>1
  <2>4. intrID = "thre" => THRE BY DEF intrID, THRE_IP
  <2>5. ~fifoenabled /\ intrID \in {"data", "timeout"} => rxdataready
    BY DEF intrID, rxdataavailintr
  <2>6. intrID = "thre" => Waiting' = 0 BY <1>4, <1>5, <2>1, <2>2, <2>4
  <2>7. ~fifoenabled' /\ hart'.data => rxdataready'
    BY <1>5, <2>1, <2>2, <2>3, <2>5 DEF QueueInv, Told
  <2> QED BY <1>3, <1>4, <1>5, <2>1, <2>2, <2>3, <2>6, <2>7 DEF Told
<1>10. ASSUME NEW c \in Chars, WriteTHR(c) PROVE Told' /\ S!Next
  <2>1. /\ UNCHANGED fifoenabled /\ Cycle("THR", c) /\ Dout' = None /\ hart.credit > 0
        /\ hart' = [hart EXCEPT !.rested = FALSE, !.idle = FALSE, !.credit = @ - 1]
    BY <1>10 DEF WriteTHR, Allowed
  <2>2. "THR" \in Ops \ {"FCR"} BY DEF Ops
  <2>3. hart'.credit = hart.credit - 1 /\ hart'.data = hart.data /\ ~hart'.rested BY <1>3, <2>1
  <2>4. ~fifoenabled' /\ hart'.data => rxdataready' BY <1>5, <2>1, <2>2, <2>3 DEF QueueInv, Told
  <2> QED BY <1>3, <1>4, <1>5, <2>1, <2>2, <2>3, <2>4 DEF Told
<1>11. ASSUME NEW enable \in BOOLEAN, WriteFCR(enable) PROVE Told' /\ S!Next
  <2>1. hart'.credit = 0 /\ ~hart'.data /\ ~hart'.rested BY <1>3, <1>11 DEF WriteFCR
  <2>2. S!Reset /\ THRE' /\ Waiting' = 0 /\ ~txsrfull' BY <1>11, ResetEmpties
  <2>3. Room' \in 0 .. Depth BY UartAssumption DEF Room
  <2> QED BY <2>1, <2>2, <2>3 DEF Told, S!Next
<1> QED BY <1>6, <1>7, <1>8, <1>9, <1>10, <1>11 DEF Next

\* The port is two queues for FIFOs of any depth, as long as no frame ends in the cycle
\* of a read of RBR and nothing is being sent when the FIFOs are reset: nothing is sent
\* or read twice or out of order, and nothing is lost without an overrun being told.
THEOREM UartIsTwoQueues ==
  ASSUME "pop" \notin Races, "reset" \notin Races
  PROVE  Spec => Faithful
<1>1. Init => QueueInv /\ S!Init
  <2> SUFFICES ASSUME Init PROVE QueueInv /\ S!Init
    OBVIOUS
  <2>1. TypeOK BY InitType
  <2>2. IdleInv
    <3>1. IdleTypes BY DEF Init, IdleTypes, NoStatus
    <3>2. UnusedClean /\ TEMT BY DEF Init, UnusedClean, TEMT, THRE, txfifoempty
    <3> QED BY <3>1, <3>2 DEF IdleInv
  <2>3. Told BY DEF Init, Told, NoStatus, THRE, Waiting, Room
  <2>4. S!Init BY DEF Init, S!Init, sendq, recvq
  <2> QED BY <2>1, <2>2, <2>3, <2>4 DEF QueueInv
<1>2. QueueInv /\ [Next]_vars => QueueInv' /\ [S!Next]_(S!vars)
  <2> SUFFICES ASSUME QueueInv, [Next]_vars PROVE QueueInv' /\ [S!Next]_(S!vars)
    OBVIOUS
  <2>1. CASE Next BY <2>1, QueueStep
  <2>2. CASE UNCHANGED vars
    <3>1. TypeOK' BY <2>2, NextType DEF QueueInv
    <3>2. IdleInv'
      BY <2>2 DEF QueueInv, IdleInv, IdleTypes, UnusedClean, TEMT, THRE, txfifoempty, vars, txVars
    <3>3. Told'
      BY <2>2 DEF QueueInv, Told, Waiting, txfifoentries, Room, THRE, txfifoempty, vars, rxVars, txVars
    <3>4. UNCHANGED S!vars
      BY <2>2 DEF S!vars, sendq, txfifoentries, recvq, rxfifoentries, vars, rxVars, txVars
    <3> QED BY <3>1, <3>2, <3>3, <3>4 DEF QueueInv
  <2> QED BY <2>1, <2>2
<1> QED BY <1>1, <1>2, PTL DEF Spec, Faithful, S!Spec
=============================================================================
