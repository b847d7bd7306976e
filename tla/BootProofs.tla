----------------------------- MODULE BootProofs -----------------------------
(***************************************************************************)
(* The flags of the SPI controller's FIFOs, which each side renews in its  *)
(* own time, are safe, for FIFOs of any depth, any divider, any program on *)
(* the bus and any card: that proof looks at nothing but the FIFO.  That   *)
(* no byte is dropped takes the loader too: BootInv counts, at each of its *)
(* accesses, the bytes on their way.  That a block is the one asked for    *)
(* takes the card as well: IntactInv says what those bytes are.            *)
(***************************************************************************)
EXTENDS Boot, SequenceTheorems, TLAPS

\* A FIFO that holds members of S.
Fifo(S) == [q : Seq(S), winc : BOOLEAN, rinc : BOOLEAN, full : BOOLEAN, empty : BOOLEAN]

\* The invariant: a FIFO is a FIFO, whatever it holds, and its flags are safe.
FifoInv(f) == (\E S : f \in Fifo(S)) /\ SafeFlags(f)
Inv == FifoInv(tx) /\ FifoInv(rx)

\* A cycle of a FIFO, enabled on either side or on none, keeps its flags safe.
LEMMA ClockedIsSafe ==
  ASSUME NEW f, FifoInv(f), NEW wen \in BOOLEAN, NEW ren \in BOOLEAN, NEW wdata
  PROVE  FifoInv(Clocked(f, wen, ren, wdata))
<1> DEFINE old == IF ren /\ Pops(f) THEN Tail(f.q) ELSE f.q
           new(q) == IF wen /\ Pushes(f) THEN Append(q, wdata) ELSE q
           g == Clocked(f, wen, ren, wdata)
<1>1. PICK S0 : f \in Fifo(S0)
  BY DEF FifoInv
<1> DEFINE S == S0 \cup {wdata}
<1>2. f \in Fifo(S)
  <2>1. f.q \in Seq(S)
    BY <1>1, SeqMonotonic, S0 \subseteq S DEF Fifo
  <2> QED BY <1>1, <2>1 DEF Fifo
<1>3. /\ f.q \in Seq(S) /\ Len(f.q) \in Nat
      /\ f.winc \in BOOLEAN /\ f.rinc \in BOOLEAN /\ f.full \in BOOLEAN /\ f.empty \in BOOLEAN
  BY <1>2, LenProperties DEF Fifo
<1>4. /\ Len(f.q) <= Depth /\ (~f.empty => f.q # <<>>)
      /\ (Len(f.q) = Depth => f.full) /\ Depth \in Nat
  BY SpiAssumption DEF FifoInv, SafeFlags
<1>5. /\ old \in Seq(S)
      /\ Len(old) = IF ren /\ Pops(f) THEN Len(f.q) - 1 ELSE Len(f.q)
  <2>1. CASE ren /\ Pops(f)
    BY <2>1, <1>3, <1>4, HeadTailProperties DEF Pops
  <2>2. CASE ~(ren /\ Pops(f))
    BY <2>2, <1>3
  <2> QED BY <2>1, <2>2
<1>6. ASSUME NEW q \in Seq(S)
      PROVE  /\ new(q) \in Seq(S)
             /\ Len(new(q)) = IF wen /\ Pushes(f) THEN Len(q) + 1 ELSE Len(q)
             /\ q # <<>> => new(q) # <<>>
  <2>1. CASE wen /\ Pushes(f)
    BY <2>1, AppendProperties
  <2>2. CASE ~(wen /\ Pushes(f))
    BY <2>2
  <2> QED BY <2>1, <2>2
<1>7. g = [f EXCEPT !.q = new(old),
                    !.full = IF wen THEN Fills(f, new(f.q)) ELSE @,
                    !.empty = IF ren THEN old = <<>> ELSE @]
  BY DEF Clocked
<1>8. /\ g.q = new(old)
      /\ g.full = IF wen THEN Fills(f, new(f.q)) ELSE f.full
      /\ g.empty = IF ren THEN old = <<>> ELSE f.empty
      /\ g \in Fifo(S)
  <2> HIDE DEF old, new, g
  <2>1. Fills(f, new(f.q)) \in BOOLEAN
    BY DEF Fills
  <2> QED BY <1>2, <1>3, <1>5, <1>6, <1>7, <2>1 DEF Fifo
<1>9. SafeFlags(g)
  <2>1. Len(g.q) <= Depth
    BY <1>3, <1>4, <1>5, <1>6, <1>8 DEF Pushes
  <2>2. ~g.empty => g.q # <<>>
    <3>1. CASE ren
      BY <3>1, <1>5, <1>6, <1>8
    <3>2. CASE ~ren
      BY <3>2, <1>3, <1>4, <1>6, <1>8
    <3> QED BY <3>1, <3>2
  <2>3. Len(g.q) = Depth => g.full
    <3>1. CASE wen
      <4>0. (ren /\ Pops(f)) \/ old = f.q
        OBVIOUS
      <4> HIDE DEF old, new, g
      <4>1. /\ g.full = (Len(new(f.q)) = Depth)
            /\ g.q = new(old)
        BY <3>1, <1>8 DEF Fills
      <4>2. /\ Len(new(old)) = IF Pushes(f) THEN Len(old) + 1 ELSE Len(old)
            /\ Len(new(f.q)) = IF Pushes(f) THEN Len(f.q) + 1 ELSE Len(f.q)
        BY <3>1, <1>3, <1>5, <1>6
      <4>3. Pushes(f) => Len(f.q) < Depth
        BY <1>3, <1>4 DEF Pushes
      <4>4. CASE ren /\ Pops(f)
        <5>1. Len(g.q) < Depth
          BY <4>1, <4>2, <4>3, <4>4, <1>3, <1>4, <1>5
        <5> QED BY <5>1, <1>4
      <4>5. CASE old = f.q
        BY <4>1, <4>2, <4>5
      <4> QED BY <4>0, <4>4, <4>5
    <3>2. CASE ~wen
      BY <3>2, <1>3, <1>4, <1>5, <1>6, <1>8 DEF Pops
    <3> QED BY <3>1, <3>2
  <2> QED BY <2>1, <2>2, <2>3 DEF SafeFlags
<1> QED BY <1>8, <1>9 DEF FifoInv

\* The increments are registers beside the FIFO.
LEMMA IncrementsAreApart ==
  ASSUME NEW f, FifoInv(f), NEW w \in BOOLEAN, NEW r \in BOOLEAN
  PROVE  FifoInv([f EXCEPT !.winc = w, !.rinc = r])
<1>1. PICK S : f \in Fifo(S)
  BY DEF FifoInv
<1> DEFINE g == [f EXCEPT !.winc = w, !.rinc = r]
<1>2. g \in Fifo(S) /\ g.q = f.q /\ g.full = f.full /\ g.empty = f.empty
  BY <1>1 DEF Fifo
<1> QED BY <1>2 DEF FifoInv, SafeFlags

\* A cycle of the controller keeps the flags of both safe.
LEMMA InvCycle ==
  ASSUME Inv, NEW tick \in BOOLEAN, NEW in, NEW to, SpiCycle(tick, in, to)
  PROVE  Inv'
<1>1. FifoInv(tx')
  <2> DEFINE g == Clocked(tx, TRUE, tick, TransmitData)
             w == Memwrite("TXDATA") /\ ~tx.full
             r == IF tick THEN StartD \/ Continue(tick) ELSE g.rinc
  <2>1. FifoInv(g)
    BY ClockedIsSafe DEF Inv
  <2>2. w \in BOOLEAN /\ r \in BOOLEAN
    BY <2>1 DEF FifoInv, Fifo
  <2>3. tx' = [g EXCEPT !.winc = w, !.rinc = r]
    BY DEF SpiCycle
  <2> QED BY <2>1, <2>2, <2>3, IncrementsAreApart
<1>2. FifoInv(rx')
  <2> DEFINE g == Clocked(rx, tick, TRUE, ReceiveReg)
             w == IF tick THEN EndOfFrame(tick) ELSE g.winc
             r == ReceiveReadInc
  <2>1. FifoInv(g)
    BY ClockedIsSafe DEF Inv
  <2>2. w \in BOOLEAN /\ r \in BOOLEAN
    BY <2>1 DEF FifoInv, Fifo, EndOfFrame, ReceiveReadInc
  <2>3. rx' = [g EXCEPT !.winc = w, !.rinc = r]
    BY DEF SpiCycle
  <2> QED BY <2>1, <2>2, <2>3, IncrementsAreApart
<1> QED BY <1>1, <1>2 DEF Inv, FifoInv, SafeFlags

\* Empty FIFOs are safe.
LEMMA InvInit == Init => Inv
<1>1. FifoInv(EmptyFifo)
  <2>1. EmptyFifo \in Fifo({})
    BY DEF EmptyFifo, Fifo
  <2>2. EmptyFifo.q = <<>> /\ EmptyFifo.empty
    BY DEF EmptyFifo
  <2>3. SafeFlags(EmptyFifo)
    BY <2>2, SpiAssumption DEF SafeFlags
  <2> QED BY <2>1, <2>3 DEF FifoInv
<1> QED BY <1>1 DEF Init, SpiInit, Inv

\* The flags are safe, whatever the loader, the card and the divider do.
THEOREM SpiFlagsAreSafe == Spec => []FlagsAreSafe
<1>1. Init => Inv
  BY InvInit
<1>2. Inv /\ [Next]_vars => Inv'
  <2> SUFFICES ASSUME Inv, [Next]_vars
               PROVE  Inv'
    OBVIOUS
  <2>1. CASE UNCHANGED vars
    BY <2>1 DEF Inv, vars, spiVars
  <2>2. CASE Next
    <3>0. PICK tick \in BOOLEAN : \E in, to : SpiCycle(tick, in, to)
      BY <2>2 DEF Next, Cycle
    <3>1. PICK in, to : SpiCycle(tick, in, to)
      BY <3>0
    <3> QED BY <3>1, InvCycle
  <2> QED BY <2>1, <2>2
<1>3. Inv => FlagsAreSafe
  BY DEF Inv, FifoInv, FlagsAreSafe
<1> QED BY <1>1, <1>2, <1>3, PTL DEF Spec
-----------------------------------------------------------------------------
(***************************************************************************)
(* Bytes on their way.  A byte written is Queued, then on the Line, then   *)
(* Unread: an exchange of a frame takes it off the line and brings one     *)
(* that waits to be read.                                                  *)
(***************************************************************************)
Bit(b) == IF b THEN 1 ELSE 0
Phase(s) == apb.phase = s
Busy == apb.phase \in {"setup", "access"}

Loaded == Transmitting \/ RegLoaded       \* a byte is in the shift register
Unpopped == StartD \/ tx.rinc             \* and still at the head of the FIFO
Line == Bit(Loaded /\ ~Unpopped)
Queued == Len(tx.q) + Bit(tx.winc)
Unread == Len(rx.q) + Bit(rx.winc)
Unsent == Queued + Line
Owed == Unsent + Unread

\* The invariant of the controller: what its registers say of one another.
Registers ==
  /\ RegLoaded \in BOOLEAN /\ StartD \in BOOLEAN
  /\ curr \in {"INACTIVE", "CSSCK", "TRANSMIT", "SCKCS", "INTERCS", "HOLD"}
  /\ start \in {"READY", "START", "WAIT"}
  /\ half \in 0 .. Halves - 1
Frames ==
  /\ tx.rinc \/ rx.winc \/ ~Transmitting => half = 0
  /\ StartD => ~tx.rinc /\ ~Transmitting
  /\ Unpopped => RegLoaded /\ ~tx.empty
  /\ Loaded => start = "WAIT"
  /\ curr = "CSSCK" => RegLoaded
  /\ start = "START" => ~tx.empty
  /\ start = "WAIT" /\ ~Loaded => rx.winc
  /\ rx.winc /\ Loaded => Unpopped
Controller == Inv /\ Registers /\ Frames

\* Nothing has been dropped in the FIFOs, nor will it be.
Roomy == (tx.winc => ~tx.full) /\ (rx.winc => ~rx.full) /\ (rx.rinc => ~rx.empty)

Writes == Memwrite("TXDATA") /\ ~tx.full
Leaves(tick) == tick /\ tx.rinc           \* the byte on the line leaves the FIFO

\* What a cycle makes of a FIFO that drops nothing.
Counted(f, g, wen, ren) ==
  /\ Len(g.q) = Len(f.q) + Bit(wen /\ f.winc) - Bit(ren /\ f.rinc)
  /\ g.full = IF wen THEN Len(f.q) + Bit(f.winc) = Depth ELSE f.full
  /\ g.empty = IF ren THEN Len(f.q) = Bit(f.rinc) ELSE f.empty
  /\ g.winc = f.winc /\ g.rinc = f.rinc

\* A cycle of a FIFO adds a word, takes one, both or none.
LEMMA ClockedCounts ==
  ASSUME NEW f, FifoInv(f), f.winc => ~f.full, f.rinc => ~f.empty,
         NEW wen \in BOOLEAN, NEW ren \in BOOLEAN, NEW wdata
  PROVE  Counted(f, Clocked(f, wen, ren, wdata), wen, ren)
<1> DEFINE old == IF ren /\ Pops(f) THEN Tail(f.q) ELSE f.q
           new(q) == IF wen /\ Pushes(f) THEN Append(q, wdata) ELSE q
           g == Clocked(f, wen, ren, wdata)
<1>1. PICK S0 : f \in Fifo(S0)
  BY DEF FifoInv
<1> DEFINE S == S0 \cup {wdata}
<1>2. f \in Fifo(S)
  <2>1. f.q \in Seq(S)
    BY <1>1, SeqMonotonic, S0 \subseteq S DEF Fifo
  <2> QED BY <1>1, <2>1 DEF Fifo
<1>3. /\ f.q \in Seq(S) /\ Len(f.q) \in Nat
      /\ f.winc \in BOOLEAN /\ f.rinc \in BOOLEAN /\ f.full \in BOOLEAN /\ f.empty \in BOOLEAN
  BY <1>2, LenProperties DEF Fifo
<1>4. (~f.empty => f.q # <<>>) /\ Depth \in Nat
  BY SpiAssumption DEF FifoInv, SafeFlags
<1>5. Pushes(f) = f.winc /\ Pops(f) = f.rinc
  BY <1>3 DEF Pushes, Pops
<1>6. old \in Seq(S) /\ Len(old) = Len(f.q) - Bit(ren /\ f.rinc)
  <2>1. CASE ren /\ Pops(f)
    BY <2>1, <1>3, <1>4, <1>5, HeadTailProperties DEF Pops, Bit
  <2>2. CASE ~(ren /\ Pops(f))
    BY <2>2, <1>3, <1>5 DEF Bit
  <2> QED BY <2>1, <2>2
<1>7. ASSUME NEW q \in Seq(S)
      PROVE  Len(new(q)) = Len(q) + Bit(wen /\ f.winc)
  <2>0. Len(q) \in Nat
    BY LenProperties
  <2>1. CASE wen /\ Pushes(f)
    <3>1. Len(new(q)) = Len(q) + 1
      BY <2>1, AppendProperties
    <3>2. Bit(wen /\ f.winc) = 1
      BY <2>1, <1>5 DEF Bit
    <3> QED BY <3>1, <3>2
  <2>2. CASE ~(wen /\ Pushes(f))
    <3>1. new(q) = q
      BY <2>2
    <3>2. Bit(wen /\ f.winc) = 0
      BY <2>2, <1>5 DEF Bit
    <3> QED BY <2>0, <3>1, <3>2
  <2> QED BY <2>1, <2>2
<1>8. /\ g.q = new(old)
      /\ g.full = IF wen THEN Fills(f, new(f.q)) ELSE f.full
      /\ g.empty = IF ren THEN old = <<>> ELSE f.empty
      /\ g.winc = f.winc /\ g.rinc = f.rinc
  <2>1. g = [f EXCEPT !.q = new(old),
                      !.full = IF wen THEN Fills(f, new(f.q)) ELSE @,
                      !.empty = IF ren THEN old = <<>> ELSE @]
    BY DEF Clocked
  <2> HIDE DEF old, new, g
  <2> QED BY <1>2, <2>1 DEF Fifo
<1>9. (old = <<>>) = (Len(f.q) = Bit(ren /\ f.rinc))
  <2>1. (old = <<>>) <=> (Len(old) = 0)
    BY <1>6, EmptySeq
  <2> HIDE DEF old
  <2> QED BY <2>1, <1>3, <1>6 DEF Bit
<1> HIDE DEF old, new, g
<1>10. Len(g.q) = Len(f.q) + Bit(wen /\ f.winc) - Bit(ren /\ f.rinc)
  <2>1. Len(new(old)) = Len(old) + Bit(wen /\ f.winc)
    BY <1>6, <1>7
  <2>2. Bit(wen /\ f.winc) \in Nat /\ Bit(ren /\ f.rinc) \in Nat
    BY DEF Bit
  <2>3. Len(old) = Len(f.q) - Bit(ren /\ f.rinc) /\ g.q = new(old) /\ Len(f.q) \in Nat
    BY <1>3, <1>6, <1>8
  <2> QED BY <2>1, <2>2, <2>3
<1>11. g.full = IF wen THEN Len(f.q) + Bit(f.winc) = Depth ELSE f.full
  BY <1>3, <1>7, <1>8 DEF Bit, Fills
<1>12. g.empty = IF ren THEN Len(f.q) = Bit(f.rinc) ELSE f.empty
  BY <1>8, <1>9 DEF Bit
<1> QED BY <1>8, <1>10, <1>11, <1>12 DEF g, Counted

\* What a cycle does to the FIFOs if nothing is dropped.
LEMMA FifoCycle ==
  ASSUME Inv, Roomy, StartD \in BOOLEAN, (tx.rinc => ~tx.empty),
         NEW tick \in BOOLEAN, NEW in, NEW to, SpiCycle(tick, in, to)
  PROVE  /\ Len(tx'.q) = Len(tx.q) + Bit(tx.winc) - Bit(Leaves(tick))
         /\ tx'.winc = Writes
         /\ tx'.full = (Queued = Depth)
         /\ tx'.empty = IF tick THEN Len(tx.q) = Bit(Leaves(tick)) ELSE tx.empty
         /\ tx'.rinc = IF tick THEN StartD \/ Continue(tick) ELSE tx.rinc
         /\ Len(rx'.q) = Len(rx.q) + Bit(tick /\ rx.winc) - Bit(rx.rinc)
         /\ rx'.winc = IF tick THEN EndOfFrame(tick) ELSE rx.winc
         /\ rx'.full = IF tick THEN Unread = Depth ELSE rx.full
         /\ rx'.empty = (Len(rx.q) = Bit(rx.rinc))
         /\ rx'.rinc = ReceiveReadInc
<1>0. /\ tx.winc \in BOOLEAN /\ tx.rinc \in BOOLEAN /\ rx.winc \in BOOLEAN /\ rx.rinc \in BOOLEAN
      /\ Len(tx.q) \in Nat /\ Len(rx.q) \in Nat /\ tx.full \in BOOLEAN /\ rx.full \in BOOLEAN
  <2>1. PICK S : tx \in Fifo(S)
    BY DEF Inv, FifoInv
  <2>2. PICK T : rx \in Fifo(T)
    BY DEF Inv, FifoInv
  <2> QED BY <2>1, <2>2, LenProperties DEF Fifo
<1>1. SUFFICES
        /\ \A g : g = Clocked(tx, TRUE, tick, TransmitData) =>
             /\ tx'.q = g.q /\ tx'.full = g.full /\ tx'.empty = g.empty
             /\ tx'.winc = Writes
             /\ tx'.rinc = IF tick THEN StartD \/ Continue(tick) ELSE g.rinc
        /\ \A g : g = Clocked(rx, tick, TRUE, ReceiveReg) =>
             /\ rx'.q = g.q /\ rx'.full = g.full /\ rx'.empty = g.empty
             /\ rx'.winc = IF tick THEN EndOfFrame(tick) ELSE g.winc
             /\ rx'.rinc = ReceiveReadInc
  <2>1. LET g == Clocked(tx, TRUE, tick, TransmitData) IN
        /\ Len(g.q) = Len(tx.q) + Bit(tx.winc) - Bit(Leaves(tick))
        /\ g.full = (Len(tx.q) + Bit(tx.winc) = Depth)
        /\ g.empty = IF tick THEN Len(tx.q) = Bit(Leaves(tick)) ELSE tx.empty
        /\ g.winc = tx.winc /\ g.rinc = tx.rinc
    <3>1. /\ Bit(TRUE /\ tx.winc) = Bit(tx.winc)
          /\ Bit(tick /\ tx.rinc) = Bit(Leaves(tick))
      BY <1>0 DEF Leaves, Bit
    <3>2. FifoInv(tx) /\ (tx.winc => ~tx.full)
      BY DEF Inv, Roomy
    <3>3. Counted(tx, Clocked(tx, TRUE, tick, TransmitData), TRUE, tick)
      BY <3>2, ClockedCounts
    <3> QED BY <1>0, <3>3 DEF Counted, Leaves, Bit
  <2>2. LET g == Clocked(rx, tick, TRUE, ReceiveReg) IN
        /\ Len(g.q) = Len(rx.q) + Bit(tick /\ rx.winc) - Bit(rx.rinc)
        /\ g.full = IF tick THEN Len(rx.q) + Bit(rx.winc) = Depth ELSE rx.full
        /\ g.empty = (Len(rx.q) = Bit(rx.rinc))
        /\ g.winc = rx.winc /\ g.rinc = rx.rinc
    <3>1. Bit(TRUE /\ rx.rinc) = Bit(rx.rinc)
      BY <1>0 DEF Bit
    <3>2. FifoInv(rx) /\ (rx.winc => ~rx.full) /\ (rx.rinc => ~rx.empty)
      BY DEF Inv, Roomy
    <3>3. Counted(rx, Clocked(rx, tick, TRUE, ReceiveReg), tick, TRUE)
      BY <3>2, ClockedCounts
    <3> QED BY <3>1, <3>3 DEF Counted
  <2> QED BY <1>0, <2>1, <2>2 DEF Queued, Unread, Roomy
<1>2. ASSUME NEW g, g = Clocked(tx, TRUE, tick, TransmitData)
      PROVE  /\ tx'.q = g.q /\ tx'.full = g.full /\ tx'.empty = g.empty
             /\ tx'.winc = Writes
             /\ tx'.rinc = IF tick THEN StartD \/ Continue(tick) ELSE g.rinc
  <2>1. PICK S : g \in Fifo(S)
    BY <1>2, ClockedIsSafe DEF Inv, FifoInv
  <2>2. tx' = [g EXCEPT !.winc = Writes, !.rinc = IF tick THEN StartD \/ Continue(tick) ELSE @]
    BY <1>2 DEF SpiCycle, Writes
  <2> QED BY <2>1, <2>2 DEF Fifo
<1>3. ASSUME NEW g, g = Clocked(rx, tick, TRUE, ReceiveReg)
      PROVE  /\ rx'.q = g.q /\ rx'.full = g.full /\ rx'.empty = g.empty
             /\ rx'.winc = IF tick THEN EndOfFrame(tick) ELSE g.winc
             /\ rx'.rinc = ReceiveReadInc
  <2>1. PICK S : g \in Fifo(S)
    BY <1>3, ClockedIsSafe DEF Inv, FifoInv
  <2>2. rx' = [g EXCEPT !.winc = IF tick THEN EndOfFrame(tick) ELSE @, !.rinc = ReceiveReadInc]
    BY <1>3 DEF SpiCycle
  <2> QED BY <2>1, <2>2 DEF Fifo
<1> QED BY <1>2, <1>3

\* What every cycle may rely on.
LEMMA Basics ==
  ASSUME Controller
  PROVE  /\ tx.winc \in BOOLEAN /\ tx.rinc \in BOOLEAN /\ tx.full \in BOOLEAN /\ tx.empty \in BOOLEAN
         /\ rx.winc \in BOOLEAN /\ rx.rinc \in BOOLEAN /\ rx.full \in BOOLEAN /\ rx.empty \in BOOLEAN
         /\ Len(tx.q) \in Nat /\ Len(rx.q) \in Nat
         /\ ~tx.empty => Len(tx.q) > 0
         /\ ~rx.empty => Len(rx.q) > 0
         /\ Depth \in Nat /\ Halves \in Nat /\ Halves > 2
<1>1. PICK S : tx \in Fifo(S)
  BY DEF Controller, Inv, FifoInv
<1>2. PICK T : rx \in Fifo(T)
  BY DEF Controller, Inv, FifoInv
<1>3. (~tx.empty => tx.q # <<>>) /\ (~rx.empty => rx.q # <<>>)
  BY DEF Controller, Inv, FifoInv, SafeFlags
<1> QED BY <1>1, <1>2, <1>3, SpiAssumption, LenProperties, EmptySeq DEF Fifo

\* A cycle of the controller keeps its registers in step with the FIFOs.
LEMMA ControllerCycle ==
  ASSUME Controller, Roomy, NEW tick \in BOOLEAN, NEW in, NEW to \in NextCurr(tick),
         SpiCycle(tick, in, to)
  PROVE  Controller'
<1>1. Inv'
  BY InvCycle DEF Controller
<1>2. Registers'
  <2>1. /\ TransmitLoad(tick) \in BOOLEAN /\ TransmitStart \in BOOLEAN
        /\ EndOfFrame(tick) \in BOOLEAN /\ ShiftEdge(tick) \in BOOLEAN
    BY DEF TransmitLoad, TransmitStart, Continue, EndOfFrame, ShiftEdge
  <2>2. RegLoaded' \in BOOLEAN /\ StartD' \in BOOLEAN
    BY <2>1 DEF SpiCycle, Controller, Registers
  <2>3. curr' \in {"INACTIVE", "CSSCK", "TRANSMIT", "SCKCS", "INTERCS", "HOLD"}
    BY DEF SpiCycle, NextCurr, AfterFrame, Controller, Registers
  <2>4. start' \in {"READY", "START", "WAIT"}
    BY DEF SpiCycle, NextStart, Controller, Registers
  <2>5. half' \in 0 .. Halves - 1
    BY SpiAssumption DEF SpiCycle, Controller, Registers
  <2> QED BY <2>2, <2>3, <2>4, <2>5 DEF Registers
<1>3. Frames'
  <2>0. /\ tx.rinc => ~tx.empty
        /\ StartD \in BOOLEAN /\ RegLoaded \in BOOLEAN
    BY DEF Controller, Registers, Frames, Unpopped
  <2>1. /\ tx'.rinc = IF tick THEN StartD \/ Continue(tick) ELSE tx.rinc
        /\ rx'.winc = IF tick THEN EndOfFrame(tick) ELSE rx.winc
        /\ tx'.empty = IF tick THEN Len(tx.q) = Bit(Leaves(tick)) ELSE tx.empty
    <3> HIDE DEF Controller, Registers, Frames
    <3> QED BY <2>0, FifoCycle DEF Controller
  <2>2. /\ RegLoaded' = (TransmitLoad(tick) \/ (RegLoaded /\ ~ShiftEdge(tick) /\ ~EndOfFrame(tick)))
        /\ start' = NextStart
        /\ StartD' = (TransmitStart \/ (StartD /\ ~tick))
        /\ curr' = IF tick THEN to ELSE curr
        /\ half' = IF tick /\ Transmitting THEN (half + 1) % Halves ELSE half
    BY DEF SpiCycle
  <2>3. /\ Frames /\ Registers
        /\ tx.winc \in BOOLEAN /\ tx.rinc \in BOOLEAN /\ tx.empty \in BOOLEAN /\ rx.winc \in BOOLEAN
        /\ Len(tx.q) \in Nat /\ (~tx.empty => Len(tx.q) > 0)
        /\ Halves \in Nat /\ Halves > 2
    BY Basics DEF Controller
  <2>4. EndOfFrame(tick) => /\ Loaded /\ ~Unpopped /\ tick /\ Transmitting
                            /\ half = Halves - 1 /\ ~rx.winc /\ start = "WAIT"
    BY <2>3 DEF EndOfFrame, Frames, Loaded, Unpopped
  <2>5. Transmitting' => \/ Transmitting
                         \/ tick /\ RegLoaded /\ curr \in {"CSSCK", "HOLD"}
    BY <2>2, <2>3 DEF Transmitting, NextCurr, AfterFrame, Registers, Frames
  <2>6. Transmitting /\ ~Transmitting' => EndOfFrame(tick) /\ ~(CSMode # "AUTO" /\ Continue(tick))
    BY <2>2, <2>3 DEF Transmitting, NextCurr, AfterFrame, Registers, Continue
  <2>7. curr' = "CSSCK" => RegLoaded'
    BY <2>2, <2>3, <2>4 DEF Transmitting, NextCurr, AfterFrame, Registers, Frames, ShiftEdge
  <2>8. /\ TransmitStart => ~Loaded /\ ~Unpopped /\ ~tx.empty
        /\ Continue(tick) => EndOfFrame(tick) /\ ~tx.empty
    BY <2>3 DEF TransmitStart, Frames, Loaded, Unpopped, Continue
  <2>9. half' = IF tick /\ Transmitting THEN IF half = Halves - 1 THEN 0 ELSE half + 1 ELSE half
    BY <2>2, <2>3 DEF Registers
  <2>10. Leaves(tick) => Len(tx.q) > 0
    BY <2>3 DEF Leaves, Frames, Unpopped
  <2>11. (tx.rinc \/ rx.winc \/ ~Transmitting => half = 0)'
    BY <2>1, <2>2, <2>3, <2>4, <2>5, <2>6, <2>8, <2>9 DEF Frames, Unpopped, EndOfFrame
  <2>12. (StartD => ~tx.rinc /\ ~Transmitting)'
    BY <2>1, <2>2, <2>3, <2>4, <2>5, <2>8 DEF Frames, Unpopped, Loaded, Transmitting
  <2>13. (Unpopped => RegLoaded /\ ~tx.empty)'
    BY <2>1, <2>2, <2>3, <2>4, <2>8 DEF Frames, Unpopped, Bit, Leaves, TransmitLoad, ShiftEdge
  <2>14. (Loaded => start = "WAIT")'
    BY <2>2, <2>3, <2>4, <2>5, <2>8 DEF Frames, Loaded, NextStart, TransmitLoad, TransmitStart, Registers, Transmitting
  <2>15. (start = "START" => ~tx.empty)'
    BY <2>1, <2>2, <2>3 DEF Frames, NextStart, Bit, Leaves, Registers, Unpopped, Loaded
  <2>16. (start = "WAIT" /\ ~Loaded => rx.winc)'
    BY <2>1, <2>2, <2>3, <2>4, <2>6, <2>8 DEF Frames, Loaded, NextStart, TransmitLoad, TransmitStart, Registers, ShiftEdge, EndOfFrame
  <2>17. (rx.winc /\ Loaded => Unpopped)'
    <3>1. EndOfFrame(tick) /\ ~Continue(tick) => ~Transmitting'
      BY <2>2, <2>3, <2>4 DEF Transmitting, NextCurr, AfterFrame, Continue
    <3>2. CASE tick
      BY <2>1, <2>2, <2>4, <2>8, <3>1, <3>2 DEF Loaded, Unpopped, TransmitLoad
    <3>3. CASE ~tick
      BY <2>1, <2>2, <2>3, <2>5, <3>3 DEF Frames, Loaded, Unpopped, TransmitLoad, Continue, EndOfFrame
    <3> QED BY <3>2, <3>3
  <2> QED BY <2>7, <2>11, <2>12, <2>13, <2>14, <2>15, <2>16, <2>17 DEF Frames
<1> QED BY <1>1, <1>2, <1>3 DEF Controller

\* An exchange moves the bytes on, and neither makes nor loses one.
LEMMA Exchange ==
  ASSUME Controller, Roomy, NEW tick \in BOOLEAN, NEW in, NEW to \in NextCurr(tick),
         SpiCycle(tick, in, to)
  PROVE  /\ Queued' = Queued + Bit(Writes) - Bit(Leaves(tick))
         /\ Line' = Line + Bit(Leaves(tick)) - Bit(EndOfFrame(tick))
         /\ Unread' = Unread + Bit(EndOfFrame(tick)) - Bit(rx.rinc)
         /\ EndOfFrame(tick) => Line = 1 /\ ~rx.winc /\ tick
         /\ Leaves(tick) => Line = 0 /\ Len(tx.q) > 0
         /\ rx.rinc => Len(rx.q) > 0
         /\ Line \in 0 .. 1 /\ Queued \in Nat /\ Unread \in Nat
<1>0. /\ tx.rinc => ~tx.empty
      /\ StartD \in BOOLEAN /\ RegLoaded \in BOOLEAN
  BY DEF Controller, Registers, Frames, Unpopped
<1>1. /\ Frames /\ Frames' /\ Registers
      /\ tx.winc \in BOOLEAN /\ tx.rinc \in BOOLEAN /\ rx.winc \in BOOLEAN /\ rx.rinc \in BOOLEAN
      /\ Len(tx.q) \in Nat /\ Len(rx.q) \in Nat
      /\ (~tx.empty => Len(tx.q) > 0) /\ (~rx.empty => Len(rx.q) > 0)
      /\ Halves \in Nat /\ Halves > 2
  BY Basics, ControllerCycle DEF Controller
<1>2. /\ Len(tx'.q) = Len(tx.q) + Bit(tx.winc) - Bit(Leaves(tick))
      /\ tx'.winc = Writes
      /\ tx'.rinc = IF tick THEN StartD \/ Continue(tick) ELSE tx.rinc
      /\ Len(rx'.q) = Len(rx.q) + Bit(tick /\ rx.winc) - Bit(rx.rinc)
      /\ rx'.winc = IF tick THEN EndOfFrame(tick) ELSE rx.winc
  <2> HIDE DEF Controller, Registers, Frames
  <2> QED BY <1>0, FifoCycle DEF Controller
<1>3. /\ RegLoaded' = (TransmitLoad(tick) \/ (RegLoaded /\ ~ShiftEdge(tick) /\ ~EndOfFrame(tick)))
      /\ StartD' = (TransmitStart \/ (StartD /\ ~tick))
      /\ curr' = IF tick THEN to ELSE curr
  BY DEF SpiCycle
<1>4. EndOfFrame(tick) => /\ Loaded /\ ~Unpopped /\ tick /\ Transmitting /\ ~rx.winc /\ ~TransmitStart
  BY <1>1 DEF EndOfFrame, Frames, Loaded, Unpopped
<1>5. Leaves(tick) => Loaded /\ Unpopped /\ Len(tx.q) > 0 /\ tick
  BY <1>1 DEF Leaves, Frames, Loaded, Unpopped
<1>6. Queued' = Queued + Bit(Writes) - Bit(Leaves(tick))
  BY <1>1, <1>2 DEF Queued, Bit
<1>7. Unread' = Unread + Bit(EndOfFrame(tick)) - Bit(rx.rinc)
  <2>1. CASE tick
    BY <1>1, <1>2, <1>4, <2>1 DEF Unread, Bit
  <2>2. CASE ~tick
    <3>1. Bit(EndOfFrame(tick)) = 0 /\ Bit(tick /\ rx.winc) = 0 /\ rx'.winc = rx.winc
      BY <1>2, <1>4, <2>2 DEF Bit
    <3>2. Bit(rx.winc) \in Nat /\ Bit(rx.rinc) \in Nat
      BY DEF Bit
    <3> QED BY <1>1, <1>2, <3>1, <3>2 DEF Unread
  <2> QED BY <2>1, <2>2
<1>8. Loaded' /\ ~Unpopped' <=> (Loaded /\ ~Unpopped /\ ~EndOfFrame(tick)) \/ Leaves(tick)
  <2>1. /\ TransmitStart => ~Loaded
        /\ Continue(tick) => EndOfFrame(tick)
        /\ ShiftEdge(tick) => Transmitting
    BY <1>1 DEF TransmitStart, Frames, Continue, ShiftEdge
  <2>2. /\ Transmitting' => Loaded
        /\ Transmitting /\ ~EndOfFrame(tick) => Transmitting'
        /\ EndOfFrame(tick) /\ ~Continue(tick) => ~Transmitting'
    BY <1>1, <1>3, <1>4 DEF Transmitting, NextCurr, AfterFrame, Registers, Frames, Loaded, Continue
  <2>3. StartD => ~tx.rinc
    BY <1>1 DEF Frames
  <2>4. ASSUME Loaded', ~Unpopped'
        PROVE  (Loaded /\ ~Unpopped /\ ~EndOfFrame(tick)) \/ Leaves(tick)
    BY <1>2, <1>3, <1>4, <2>1, <2>2, <2>4 DEF Loaded, Unpopped, TransmitLoad, Leaves
  <2>5. ASSUME Loaded, ~Unpopped, ~EndOfFrame(tick)
        PROVE  Loaded' /\ ~Unpopped'
    BY <1>0, <1>1, <1>2, <1>3, <2>1, <2>2, <2>5 DEF Loaded, Unpopped, TransmitLoad
  <2>6. ASSUME Leaves(tick)
        PROVE  Loaded' /\ ~Unpopped'
    BY <1>0, <1>1, <1>2, <1>3, <1>4, <1>5, <2>1, <2>2, <2>3, <2>6 DEF Loaded, Unpopped, TransmitLoad, Leaves
  <2> QED BY <2>4, <2>5, <2>6
<1>9. Line' = Line + Bit(Leaves(tick)) - Bit(EndOfFrame(tick))
  BY <1>4, <1>5, <1>8 DEF Line, Bit
<1>10. EndOfFrame(tick) => Line = 1 /\ ~rx.winc /\ tick
  BY <1>4 DEF Line, Bit
<1>11. Leaves(tick) => Line = 0 /\ Len(tx.q) > 0
  BY <1>5 DEF Line, Bit
<1>12. rx.rinc => Len(rx.q) > 0
  BY <1>1 DEF Roomy
<1>13. Line \in 0 .. 1 /\ Queued \in Nat /\ Unread \in Nat
  <2>1. \A b : Bit(b) \in 0 .. 1
    BY DEF Bit
  <2> QED BY <1>1, <2>1 DEF Line, Queued, Unread
<1> QED BY <1>6, <1>7, <1>9, <1>10, <1>11, <1>12, <1>13
-----------------------------------------------------------------------------
(***************************************************************************)
(* The loader.  A command and its drain fit the FIFOs, and between two     *)
(* ticks there is no time to read all of a full FIFO but its last bytes:   *)
(* so the full flag has followed before the FIFO is empty.                 *)
(***************************************************************************)
Fits == Depth >= 8 /\ Most <= 2 * Depth - 5

Still == {"off", "auto", "hold", "release", "dummy", "failed", "booted"}
Sends == {"dummy", "send", "bsend"}
Takes == {"drain", "take", "btake"}
Places == Still \cup Sends \cup Takes \cup Polls
Reasons == {"warm", "lead", "poll", "rest", "tail", "token", "crc"}
Commands == {0, 8, 55, 41, 18, 12}
Fields == {"pc", "why", "cmd", "i", "tries", "r", "ok", "job", "block"}

\* Where the loader is, and how far in its loops.
Program(p) ==
  /\ DOMAIN p = Fields
  /\ p.pc \in Places /\ p.why \in Reasons /\ p.cmd \in Commands
  /\ p.why = "lead" /\ p.pc \notin {"send", "waittx", "drain"} => p.i = 1
  /\ p.pc \in {"hold", "send", "waittx", "drain"} => p.why = "lead"
  /\ p.pc = "send" => p.i \in 1 .. 6
  /\ p.pc = "waittx" => p.i = 0
  /\ p.pc = "release" => p.cmd # 18
  /\ p.pc = "drain" => p.i \in 0 .. 6
  /\ p.pc \in Batch => p.i \in 0 .. Depth - 1 /\ p.why = "token"
OnBus == \/ apb \in {NoTransfer, Ended}
         \/ ~Halted /\ apb \in {SPI(prog), [SPI(prog) EXCEPT !.phase = "access"]}

\* What stays true of its variables wherever it goes on.
Variables(p) == DOMAIN p = Fields /\ p.cmd \in Commands /\ p.why \in Reasons

\* The loader goes on to send an idle byte.
LEMMA Dummies ==
  ASSUME NEW p, Variables(p), NEW why \in Reasons \ {"lead"}
  PROVE  Program(Dummy(p, why)) /\ Dummy(p, why).pc = "dummy"
BY DEF Variables, Program, Dummy, Fields, Places, Still, Sends, Takes, Polls, Batch

\* The loader goes on to the next command.
LEMMA CommandGoes ==
  ASSUME NEW p, Variables(p), NEW c \in Commands
  PROVE  Program(Command(p, c)) /\ Command(p, c).pc \in {"dummy", "hold"}
BY DEF Variables, Program, Command, Fields, Places, Still, Sends, Takes, Polls, Batch, Reasons

\* The loader gives up.
LEMMA Fails ==
  ASSUME NEW p, Variables(p), p.why = "lead" => p.i = 1
  PROVE  Program(Fail(p)) /\ Fail(p).pc = "failed"
BY DEF Variables, Program, Fail, Fields, Places, Still, Sends, Takes, Polls, Batch

\* Where the loader is when a command is over.
LEMMA ReturnedGoes ==
  ASSUME NEW p, Program(p), p.pc = "release"
  PROVE  Program(Returned(p)) /\ Returned(p).pc \in Still
<1> DEFINE tried == [p EXCEPT !.tries = @ + 1]
           warmed == [p EXCEPT !.tries = 0]
           read(k) == [p EXCEPT !.tries = 0, !.job = k, !.block = 1]
           booted == [p EXCEPT !.pc = "booted"]
<1>1. /\ Variables(p) /\ Variables(tried) /\ Variables(warmed)
      /\ Variables(read(1)) /\ Variables(read(p.job + 1))
  BY DEF Program, Variables, Fields
<1>2. p.why = "lead" => p.i = 1
  BY DEF Program
<1>3. Program(booted) /\ booted.pc \in Still
  BY DEF Program, Fields, Places, Still, Sends, Takes, Polls, Batch
<1>4. Program(Fail(p)) /\ Fail(p).pc \in Still
  BY <1>1, <1>2, Fails DEF Still
<1> DEFINE Goes(q) == Program(q) /\ q.pc \in Still
<1>5. ASSUME NEW q, Variables(q), NEW c \in Commands
      PROVE  Goes(Command(q, c))
  BY <1>5, CommandGoes DEF Still
<1>6. Goes(DiskRead(p, 1)) /\ Goes(DiskRead(p, p.job + 1))
  BY <1>1, <1>5 DEF DiskRead, Commands
<1>7. /\ Goes(Command(p, 8)) /\ Goes(Command(tried, 0)) /\ Goes(Command(warmed, 55))
      /\ Goes(Command(p, 41)) /\ Goes(Command(tried, 55))
  BY <1>1, <1>5 DEF Commands
<1>8. Goes(booted) /\ Goes(Fail(p))
  BY <1>3, <1>4
<1> HIDE DEF Goes
<1>9. p.cmd \in Commands
  BY DEF Program
<1>10. Goes(Returned(p))
  <2> HIDE DEF booted, warmed, tried
  <2>1. CASE p.cmd = 0
    BY <2>1, <1>7, <1>8 DEF Returned, tried
  <2>2. CASE p.cmd = 8
    BY <2>2, <1>7, <1>8 DEF Returned, warmed
  <2>3. CASE p.cmd = 55
    BY <2>3, <1>7 DEF Returned
  <2>4. CASE p.cmd = 41
    BY <2>4, <1>6, <1>7, <1>8 DEF Returned, tried
  <2>5. CASE p.cmd = 12
    BY <2>5, <1>6, <1>8 DEF Returned, booted
  <2> QED BY <1>9, <2>1, <2>2, <2>3, <2>4, <2>5 DEF Commands, Program
<1> QED BY <1>10 DEF Goes

\* Where the loader is when it has looked at a byte.
LEMMA TakenGoes ==
  ASSUME Depth >= 8, Depth \in Nat,
         NEW p, Program(p), p.pc = "take", NEW b, NEW q \in Taken(p, b)
  PROVE  /\ Program(q)
         /\ \/ q.pc \in Still
            \/ q.pc = "send" /\ q.i = 1
            \/ q.pc = "bsend" /\ q.i = 0 /\ p.why = "token"
<1> DEFINE Goes(n) == Program(n) /\ n.pc \in Still
<1>1. Variables(p) /\ p.why \in Reasons /\ (p.why = "lead" => p.i = 1)
  BY DEF Program, Variables
<1>2. ASSUME NEW n, Variables(n), NEW why \in Reasons \ {"lead"}
      PROVE  Goes(Dummy(n, why))
  BY <1>2, Dummies DEF Still
<1>3. ASSUME NEW n, Variables(n), n.why # "lead"
      PROVE  Goes(Fail(n))
  BY <1>3, Fails DEF Still
<1>4. ASSUME NEW n, Variables(n), n.why \in {"poll", "rest"}
      PROVE  Goes(Responded(n))
  <2> DEFINE over == [n EXCEPT !.pc = "release"]
  <2>1. Goes(Dummy(n, "rest")) /\ Goes(Dummy(n, "tail"))
    BY <1>2, <1>4 DEF Reasons
  <2>2. n.cmd # 18 => Goes(over)
    BY <1>4 DEF Variables, Program, Fields, Places, Still, Sends, Takes, Polls, Batch
  <2> HIDE DEF over, Goes
  <2> QED BY <2>1, <2>2 DEF Responded, over
<1>5. CASE p.why = "warm"
  <2> DEFINE next == [p EXCEPT !.i = @ + 1]
             auto == [p EXCEPT !.pc = "auto"]
  <2>1. Variables(next)
    BY <1>1 DEF Variables
  <2>2. Goes(auto)
    BY <1>1, <1>5 DEF Variables, Program, Fields, Places, Still, Sends, Takes, Polls, Batch
  <2>3. Goes(Dummy(next, "warm"))
    BY <2>1, <1>2 DEF Reasons
  <2>4. q \in {Dummy(next, "warm"), auto}
    BY <1>5 DEF Taken
  <2> QED BY <2>2, <2>3, <2>4
<1>6. CASE p.why = "lead"
  <2>1. q = [p EXCEPT !.pc = "send"]
    BY <1>6 DEF Taken
  <2> QED BY <1>1, <1>6, <2>1 DEF Variables, Program, Fields, Places, Still, Sends, Takes, Polls, Batch
<1>7. CASE p.why = "poll"
  <2> DEFINE next == [p EXCEPT !.r = b, !.i = 1, !.ok = TRUE]
  <2>1. Variables(next) /\ next.why = "poll"
    BY <1>1, <1>7 DEF Variables, Fields
  <2>2. Goes(Dummy(p, "poll")) /\ Goes(Responded(next))
    <3> HIDE DEF next
    <3> QED BY <2>1, <1>1, <1>2, <1>4 DEF Reasons
  <2>3. q \in {Dummy(p, "poll"), Responded(next)}
    BY <1>7 DEF Taken
  <2> QED BY <2>2, <2>3
<1>8. CASE p.why = "rest"
  <2> DEFINE next == [p EXCEPT !.i = @ + 1, !.ok = @ /\ b = <<"r7", p.i>>]
  <2>1. Variables(next) /\ next.why = "rest"
    BY <1>1, <1>8 DEF Variables, Fields
  <2>2. q = Responded(next)
    BY <1>8 DEF Taken
  <2> HIDE DEF next
  <2> QED BY <1>4, <2>1, <2>2
<1>9. CASE p.why = "tail"
  <2>1. q \in {Dummy(p, "token"), Fail(p)}
    BY <1>9 DEF Taken
  <2> QED BY <1>1, <1>2, <1>3, <1>9, <2>1 DEF Reasons
<1>10. CASE p.why = "token"
  <2> DEFINE next == [p EXCEPT !.pc = "bsend", !.i = 0]
  <2>1. Program(next) /\ next.pc = "bsend" /\ next.i = 0
    BY <1>1, <1>10 DEF Variables, Program, Fields, Places, Still, Sends, Takes, Polls, Batch
  <2>2. q \in {next, Dummy(p, "token")}
    BY <1>10 DEF Taken
  <2> HIDE DEF next
  <2> QED BY <1>1, <1>2, <1>10, <2>1, <2>2 DEF Reasons
<1>11. CASE p.why = "crc"
  <2> DEFINE second == [p EXCEPT !.i = 1, !.r = b]
             next == [p EXCEPT !.block = @ + 1]
  <2>1. Variables(second) /\ Variables(next)
    BY <1>1 DEF Variables
  <2>2. Goes(Command(p, 12))
    BY <1>1, CommandGoes DEF Commands, Still
  <2>3. q \in {Dummy(second, "crc"), Fail(p), Dummy(next, "token"), Command(p, 12)}
    BY <1>11 DEF Taken, Checked
  <2> HIDE DEF second, next
  <2> QED BY <1>1, <1>2, <1>3, <1>11, <2>1, <2>2, <2>3 DEF Reasons
<1> QED BY <1>1, <1>5, <1>6, <1>7, <1>8, <1>9, <1>10, <1>11 DEF Reasons

\* Where the loader goes after an access that returned d.
Follows(q, d) ==
  /\ prog.pc \in {"off", "auto", "hold", "release"} => q.pc \in Still
  /\ prog.pc = "dummy" => q.pc = "waitrx"
  /\ prog.pc = "waitrx" => IF d[3] THEN q.pc = "take" ELSE q = prog
  /\ prog.pc = "take" => \/ q.pc \in Still
                         \/ q.pc = "send" /\ q.i = 1
                         \/ q.pc = "bsend" /\ q.i = 0 /\ prog.why = "token"
  /\ prog.pc = "send" => IF prog.i < 6 THEN q.pc = "send" /\ q.i = prog.i + 1
                         ELSE q.pc = "waittx"
  /\ prog.pc = "waittx" => IF d[2] THEN q.pc = "drain" /\ q.i = 0 ELSE q = prog
  /\ prog.pc = "drain" => IF prog.i < 6 THEN q.pc = "drain" /\ q.i = prog.i + 1
                          ELSE q.pc = "dummy"
  /\ prog.pc = "bsend" => IF prog.i + 1 < Depth THEN q.pc = "bsend" /\ q.i = prog.i + 1
                          ELSE q.pc = "bwait" /\ q.i = 0
  /\ prog.pc = "bwait" => IF d[3] THEN q.pc = "btake" /\ q.i = prog.i ELSE q = prog
  /\ prog.pc = "btake" => IF Len(buf) + 1 = BlockBytes THEN q.pc = "dummy"
                          ELSE IF prog.i + 1 = Depth THEN q.pc = "bsend" /\ q.i = 0
                          ELSE q.pc = "bwait" /\ q.i = prog.i + 1

\* The code behind an access leads to Follows.
LEMMA AfterGoes ==
  ASSUME Program(prog), ~Halted, Depth >= 8, Depth \in Nat, NEW d, NEW q \in After(prog, d)
  PROVE  Program(q) /\ Follows(q, d)
<1>1. Variables(prog) /\ (prog.why = "lead" => prog.i = 1 \/ prog.pc \in {"send", "waittx", "drain"})
  BY DEF Program, Variables
<1>2. CASE prog.pc = "off"
  <2>1. q = Dummy(prog, "warm")
    BY <1>2 DEF After
  <2> QED BY <1>1, <1>2, <2>1, Dummies DEF Follows, Reasons, Still
<1>3. CASE prog.pc = "auto"
  <2>1. q = Command(prog, 0)
    BY <1>3 DEF After
  <2> QED BY <1>1, <1>3, <2>1, CommandGoes DEF Follows, Commands, Still
<1>4. CASE prog.pc = "hold"
  <2>1. q = [prog EXCEPT !.pc = "dummy", !.why = "lead"] /\ prog.i = 1
    BY <1>4 DEF After, Dummy, Program
  <2>2. Program(q) /\ q.pc = "dummy"
    BY <1>4, <2>1 DEF Program, Fields, Places, Still, Sends, Takes, Polls, Batch, Reasons
  <2> QED BY <1>4, <2>2 DEF Follows, Still
<1>5. CASE prog.pc = "release"
  <2>1. q = Returned(prog)
    BY <1>5 DEF After
  <2> QED BY <1>5, <2>1, ReturnedGoes DEF Follows
<1>6. CASE prog.pc = "take"
  <2>1. q \in Taken(prog, d)
    BY <1>6 DEF After
  <2> QED BY <1>6, <2>1, TakenGoes DEF Follows
<1>7. CASE prog.pc \in {"dummy", "waitrx"}
  <2>1. q = IF prog.pc = "dummy" THEN [prog EXCEPT !.pc = "waitrx"]
            ELSE IF d[3] THEN [prog EXCEPT !.pc = "take"] ELSE prog
    BY <1>7 DEF After
  <2> QED BY <1>7, <2>1 DEF Follows, Program, Fields, Places, Still, Sends, Takes, Polls, Batch
<1>8. CASE prog.pc = "send"
  <2>1. q = IF prog.i < 6 THEN [prog EXCEPT !.i = @ + 1] ELSE [prog EXCEPT !.pc = "waittx", !.i = 0]
    BY <1>8 DEF After
  <2> QED BY <1>8, <2>1 DEF Follows, Program, Fields, Places, Still, Sends, Takes, Polls, Batch
<1>9. CASE prog.pc = "waittx"
  <2>1. q = IF d[2] THEN [prog EXCEPT !.pc = "drain"] ELSE prog
    BY <1>9 DEF After
  <2> QED BY <1>9, <2>1 DEF Follows, Program, Fields, Places, Still, Sends, Takes, Polls, Batch
<1>10. CASE prog.pc = "drain"
  <2>1. q = IF prog.i < 6 THEN [prog EXCEPT !.i = @ + 1] ELSE Dummy(prog, "poll")
    BY <1>10 DEF Follows, After, Drained, Program
  <2>2. CASE prog.i < 6
    BY <1>10, <2>1, <2>2 DEF Follows, Program, Fields, Places, Still, Sends, Takes, Polls, Batch
  <2>3. CASE ~(prog.i < 6)
    BY <1>1, <1>10, <2>1, <2>3, Dummies DEF Follows, Reasons
  <2> QED BY <2>2, <2>3
<1>11. CASE prog.pc \in {"bsend", "bwait"}
  <2>1. q = IF prog.pc = "bsend"
              THEN IF prog.i + 1 < Depth THEN [prog EXCEPT !.i = @ + 1]
                   ELSE [prog EXCEPT !.pc = "bwait", !.i = 0]
              ELSE IF d[3] THEN [prog EXCEPT !.pc = "btake"] ELSE prog
    BY <1>11 DEF After
  <2> QED BY <1>11, <2>1 DEF Follows, Program, Fields, Places, Still, Sends, Takes, Polls, Batch
<1>12. CASE prog.pc = "btake"
  <2> DEFINE first == [prog EXCEPT !.i = 0]
  <2>0. Variables(first)
    BY <1>1 DEF Variables
  <2>1. q = IF Len(buf) + 1 = BlockBytes THEN Dummy(first, "crc")
            ELSE IF prog.i + 1 = Depth THEN [prog EXCEPT !.pc = "bsend", !.i = 0]
            ELSE [prog EXCEPT !.pc = "bwait", !.i = @ + 1]
    BY <1>12 DEF Follows, After
  <2>2. CASE Len(buf) + 1 = BlockBytes
    BY <1>12, <2>0, <2>1, <2>2, Dummies DEF Follows, Reasons
  <2>3. CASE Len(buf) + 1 # BlockBytes
    BY <1>12, <2>1, <2>3 DEF Follows, Program, Fields, Places, Still, Sends, Takes, Polls, Batch
  <2> QED BY <2>2, <2>3
<1>13. prog.pc \notin {"failed", "booted"}
  BY DEF Halted
<1> QED BY <1>2, <1>3, <1>4, <1>5, <1>6, <1>7, <1>8, <1>9, <1>10, <1>11, <1>12, <1>13
        DEF Program, Places, Still, Sends, Takes, Polls, Batch, Follows

\* The bus is used for what the loader is at, and by nothing else.
LEMMA BusMeans ==
  ASSUME Program(prog), OnBus
  PROVE  /\ apb.phase \in {"idle", "setup", "access", "done"}
         /\ Busy => ~Halted
         /\ Memwrite("TXDATA") <=> Phase("access") /\ prog.pc \in Sends
         /\ Selects("RXDATA") <=> Busy /\ prog.pc \in Takes
         /\ Selects("IP") <=> Busy /\ prog.pc \in Polls
<1>1. CASE apb \in {NoTransfer, Ended}
  BY <1>1 DEF NoTransfer, Ended, Phase, Busy, Memwrite, Selects
<1>2. CASE ~Halted /\ apb \in {SPI(prog), [SPI(prog) EXCEPT !.phase = "access"]}
  <2>1. prog.pc \in Places \ {"failed", "booted"}
    BY <1>2 DEF Program, Halted
  <2>2. CASE prog.pc \in {"off", "auto", "hold", "release"}
    BY <1>2, <2>2 DEF SPI, Write, Phase, Busy, Memwrite, Selects, Sends, Takes, Polls
  <2>3. CASE prog.pc \in Sends
    BY <1>2, <2>3 DEF SPI, Write, Phase, Busy, Memwrite, Selects, Sends, Takes, Polls
  <2>4. CASE prog.pc \in Takes
    BY <1>2, <2>4 DEF SPI, Read, Phase, Busy, Memwrite, Selects, Sends, Takes, Polls
  <2>5. CASE prog.pc \in Polls
    BY <1>2, <2>5 DEF SPI, Read, Phase, Busy, Memwrite, Selects, Sends, Takes, Polls
  <2> QED BY <2>1, <2>2, <2>3, <2>4, <2>5 DEF Places, Still, Sends
<1> QED BY <1>1, <1>2 DEF OnBus

\* Where a transfer goes.
BusGoes ==
  /\ Phase("idle") => Phase("idle")' \/ (Phase("setup")' /\ made < Most)
  /\ Phase("setup") => Phase("access")'
  /\ Phase("access") => Phase("done")'
  /\ Phase("done") => Phase("idle")'

\* How a transfer goes on, and the loader with it.
LEMMA BusCycle ==
  ASSUME Program(prog), OnBus, Loader
  PROVE  /\ OnBus' /\ BusGoes
         /\ Phase("access") => prog' \in After(prog, Dout)
         /\ ~Phase("access") => prog' = prog
<1>1. apb.phase \in {"idle", "setup", "access", "done"} /\ (Busy => ~Halted)
  BY BusMeans
<1>2. /\ \/ apb.phase = "idle" /\ ~Halted /\ made < Most /\ apb' = SPI(prog)
         \/ apb.phase \in {"idle", "done"} /\ apb' = NoTransfer
         \/ apb.phase = "setup" /\ apb' = [apb EXCEPT !.phase = "access"]
         \/ apb.phase = "access" /\ apb' = Ended
      /\ IF apb.phase = "access" THEN prog' \in After(prog, Dout) ELSE prog' = prog
  BY DEF Loader
<1>3. ~Halted => /\ SPI(prog).phase = "setup"
                 /\ DOMAIN SPI(prog) \in {{"phase", "reg", "write"}, {"phase", "reg", "write", "data"}}
  <2>1. ~Halted => prog.pc \in Places \ {"failed", "booted"}
    BY DEF Program, Halted
  <2> QED BY <2>1 DEF SPI, Write, Read, Places, Still, Sends, Takes, Polls
<1>4. CASE apb.phase = "idle" /\ ~Halted /\ made < Most /\ apb' = SPI(prog)
  BY <1>2, <1>3, <1>4 DEF Phase, OnBus, SPI, Halted, BusGoes
<1>5. CASE apb.phase \in {"idle", "done"} /\ apb' = NoTransfer
  BY <1>2, <1>5 DEF Phase, OnBus, NoTransfer, BusGoes
<1>6. CASE apb.phase = "setup" /\ apb' = [apb EXCEPT !.phase = "access"]
  <2>1. apb = SPI(prog) /\ ~Halted /\ prog' = prog
    BY <1>2, <1>3, <1>6 DEF OnBus, NoTransfer, Ended
  <2>2. apb' = [SPI(prog') EXCEPT !.phase = "access"] /\ ~Halted'
    BY <1>6, <2>1 DEF SPI, Halted
  <2>3. apb'.phase = "access"
    BY <1>3, <1>6, <2>1
  <2> QED BY <1>6, <2>1, <2>2, <2>3 DEF OnBus, Phase, BusGoes
<1>7. CASE apb.phase = "access" /\ apb' = Ended
  BY <1>2, <1>7 DEF Phase, OnBus, Ended, BusGoes
<1> QED BY <1>2, <1>4, <1>5, <1>6, <1>7

\* What is counted of the time: no access is set up behind the last of a half period.
Pacing ==
  /\ behind \in 0 .. Depth /\ made \in 0 .. Most
  /\ Busy => made < Most

\* The counts stay what they are.
LEMMA PacingCycle ==
  ASSUME Program(prog), OnBus, Pacing, NEW tick \in BOOLEAN, Loader, Lags(tick), Divides(tick)
  PROVE  Pacing'
<1>1. /\ made' = IF tick \/ prog.why # "token" THEN 0
                 ELSE IF Phase("access") THEN made + 1 ELSE made
      /\ behind' = IF behind = Depth THEN Depth
                   ELSE IF ~Unserved(prog) THEN 0
                   ELSE IF EndOfFrame(tick) THEN behind + 1 ELSE behind
  BY DEF Lags, Divides, Phase
<1>2. Most \in Nat \ {0} /\ Depth \in Nat \ {0}
  BY BootAssumption, SpiAssumption
<1>3. /\ Phase("idle") => Phase("idle")' \/ (Phase("setup")' /\ made < Most)
      /\ Phase("setup") => Phase("access")'
      /\ Phase("access") => Phase("done")'
      /\ Phase("done") => Phase("idle")'
      /\ Phase("idle") \/ Phase("setup") \/ Phase("access") \/ Phase("done")
  BY BusMeans, BusCycle DEF BusGoes, Phase
<1>4. /\ Busy <=> Phase("setup") \/ Phase("access")
      /\ Busy' <=> Phase("setup")' \/ Phase("access")'
      /\ Phase("done")' => ~Busy'
      /\ Phase("idle")' => ~Busy'
  BY DEF Busy, Phase
<1>5. behind' \in 0 .. Depth
  BY <1>1, <1>2 DEF Pacing
<1>6. made' \in 0 .. Most /\ (Busy' => made' < Most)
  BY <1>1, <1>2, <1>3, <1>4 DEF Pacing
<1> QED BY <1>5, <1>6 DEF Pacing

\* The last idle byte of a batch may find no room, and is not missed.
Brim == prog.pc = "bsend" /\ prog.i = Depth - 1

\* What is read now, or has been, of the flags of the FIFOs.
Answer(n) == (Phase("setup") /\ IP[n]) \/ (Phase("access") /\ Dout[n])
Latched ==
  /\ tx.winc => Phase("done")
  /\ rx.rinc => \/ Phase("access") /\ prog.pc \in Takes
                \/ Phase("done") /\ prog.pc \in {"drain", "dummy"}
  /\ prog.pc \in {"take", "btake"} => ~rx.empty /\ ~tx.winc /\ (Phase("access") => rx.rinc)
  /\ prog.pc \in {"waitrx", "bwait"} /\ Answer(3) => ~rx.empty
  /\ prog.pc = "waittx" /\ Answer(2) => Queued = 0
  /\ prog.pc \in Sends /\ Phase("access") => IF tx.full THEN Brim ELSE Queued < Depth

\* How much may be on its way where the loader is.
Bounds ==
  LET i == prog.i IN
  /\ prog.pc \in Still => Owed <= 1
  /\ prog.pc \in {"waitrx", "take"} => Owed <= 2
  /\ prog.pc = "send" => Owed <= i
  /\ prog.pc = "waittx" => Owed <= 7
  /\ prog.pc = "drain" => /\ Owed <= 7 - i \/ Owed <= 1
                          /\ Queued = 0
                          /\ rx.empty \/ (Phase("access") /\ ~rx.rinc) => Owed <= 1
  /\ prog.pc = "bsend" => Owed <= i + 1
  /\ prog.pc \in {"bwait", "btake"} => Owed <= Depth + 1 - i

\* A receive FIFO that was full at the last tick has lost to the loader's reads
\* only what it has made since, one of two accesses at most; and frames bring no
\* more than one byte each.
Taking == Bit(prog.pc \in {"bsend", "bwait"})
Crowded ==
  /\ rx.full => prog.pc \in Batch /\ 2 * Len(rx.q) + made + Taking >= 2 * Depth - 1
  /\ Unserved(prog) => Unread <= 1 + behind
Stored ==
  /\ \E S : buf \in Seq(S)
  /\ prog.pc \in Batch => /\ Len(buf) < BlockBytes
                          /\ Len(buf) % Depth = IF prog.pc = "bsend" THEN 0 ELSE prog.i

BootInv == /\ Controller /\ Roomy /\ Program(prog) /\ OnBus /\ Pacing
           /\ Latched /\ Bounds /\ Crowded /\ Stored

\* The remainder counts on, or starts again.
LEMMA ModStep ==
  ASSUME NEW n \in Nat, NEW D \in Nat, D > 1
  PROVE  (n + 1) % D = IF (n % D) + 1 = D THEN 0 ELSE (n % D) + 1
<1> DEFINE q == n \div D
           r == n % D
           k == (n + 1) \div D
           s == (n + 1) % D
<1>1. /\ q \in Int /\ r \in 0 .. D - 1 /\ n = D * q + r
      /\ k \in Int /\ s \in 0 .. D - 1 /\ n + 1 = D * k + s
  OBVIOUS
<1> HIDE DEF q, r, k, s
<1>2. D * (k - q) = r + 1 - s
  BY <1>1
<1>3. k - q \in 0 .. 1
  <2>1. k - q < 0 => D * (k - q) <= - D
    BY <1>1
  <2>2. k - q > 1 => D * (k - q) >= D + D
    BY <1>1
  <2> QED BY <1>1, <1>2, <2>1, <2>2
<1>4. s = IF r + 1 = D THEN 0 ELSE r + 1
  BY <1>1, <1>2, <1>3
<1> QED BY <1>4 DEF r, s

\* All of what a cycle does, in numbers.
LEMMA CycleCounts ==
  ASSUME BootInv, NEW tick \in BOOLEAN, Cycle(tick), OnTime'
  PROVE  /\ Controller' /\ OnBus' /\ Pacing'
         /\ Queued' = Queued + Bit(Writes) - Bit(Leaves(tick))
         /\ Line' = Line + Bit(Leaves(tick)) - Bit(EndOfFrame(tick))
         /\ Unread' = Unread + Bit(EndOfFrame(tick)) - Bit(rx.rinc)
         /\ EndOfFrame(tick) => Line = 1 /\ ~rx.winc /\ tick
         /\ behind' = IF ~Unserved(prog) THEN 0
                      ELSE IF EndOfFrame(tick) THEN behind + 1 ELSE behind
         /\ Leaves(tick) => Line = 0 /\ Len(tx.q) > 0
         /\ rx.rinc => Len(rx.q) > 0
         /\ Line \in 0 .. 1 /\ Queued \in Nat /\ Unread \in Nat
         /\ Len(tx'.q) = Len(tx.q) + Bit(tx.winc) - Bit(Leaves(tick))
         /\ tx'.winc <=> Writes
         /\ tx'.full <=> Queued = Depth
         /\ Len(rx'.q) = Len(rx.q) + Bit(tick /\ rx.winc) - Bit(rx.rinc)
         /\ rx'.winc = IF tick THEN EndOfFrame(tick) ELSE rx.winc
         /\ rx'.full = IF tick THEN Unread = Depth ELSE rx.full
         /\ rx'.empty <=> Len(rx.q) = Bit(rx.rinc)
         /\ rx'.rinc <=> ReceiveReadInc
         /\ apb.phase \in {"idle", "setup", "access", "done"}
         /\ Phase("idle") => Phase("idle")' \/ (Phase("setup")' /\ made < Most)
         /\ Phase("setup") => Phase("access")'
         /\ Phase("access") => Phase("done")' /\ prog' \in After(prog, Dout)
         /\ Phase("done") => Phase("idle")'
         /\ ~Phase("access") => prog' = prog
         /\ Dout' = ReadData
         /\ IP' = <<"ip", TransmitReadMark, ReceiveWriteMark>>
<1>1. PICK to \in NextCurr(tick) :
        /\ SpiCycle(tick, IF Selected THEN Says ELSE Ones, to)
        /\ Loader /\ Lags(tick) /\ Divides(tick)
  BY DEF Cycle
<1>2. Controller /\ Roomy /\ Program(prog) /\ OnBus /\ Pacing
  BY DEF BootInv
<1>3. Inv /\ StartD \in BOOLEAN /\ (tx.rinc => ~tx.empty)
  BY <1>2 DEF Controller, Registers, Frames, Unpopped
<1>4. Controller'
  BY <1>1, <1>2, ControllerCycle
<1>5. /\ Len(tx'.q) = Len(tx.q) + Bit(tx.winc) - Bit(Leaves(tick))
      /\ tx'.winc = Writes
      /\ tx'.full = (Queued = Depth)
      /\ Len(rx'.q) = Len(rx.q) + Bit(tick /\ rx.winc) - Bit(rx.rinc)
      /\ rx'.winc = IF tick THEN EndOfFrame(tick) ELSE rx.winc
      /\ rx'.full = IF tick THEN Unread = Depth ELSE rx.full
      /\ rx'.empty = (Len(rx.q) = Bit(rx.rinc))
      /\ rx'.rinc = ReceiveReadInc
  BY <1>1, <1>2, <1>3, FifoCycle
<1>11. /\ tx'.winc <=> Writes
       /\ tx'.full <=> Queued = Depth
       /\ rx'.empty <=> Len(rx.q) = Bit(rx.rinc)
       /\ rx'.rinc <=> ReceiveReadInc
  BY <1>5, Zenon
<1>6. /\ Queued' = Queued + Bit(Writes) - Bit(Leaves(tick))
      /\ Line' = Line + Bit(Leaves(tick)) - Bit(EndOfFrame(tick))
      /\ Unread' = Unread + Bit(EndOfFrame(tick)) - Bit(rx.rinc)
      /\ EndOfFrame(tick) => Line = 1 /\ ~rx.winc /\ tick
      /\ Leaves(tick) => Line = 0 /\ Len(tx.q) > 0
      /\ rx.rinc => Len(rx.q) > 0
      /\ Line \in 0 .. 1 /\ Queued \in Nat /\ Unread \in Nat
  BY <1>1, <1>2, Exchange
<1>7. /\ apb.phase \in {"idle", "setup", "access", "done"}
      /\ OnBus'
      /\ Phase("idle") => Phase("idle")' \/ (Phase("setup")' /\ made < Most)
      /\ Phase("setup") => Phase("access")'
      /\ Phase("access") => Phase("done")' /\ prog' \in After(prog, Dout)
      /\ Phase("done") => Phase("idle")'
      /\ ~Phase("access") => prog' = prog
  BY <1>1, <1>2, BusMeans, BusCycle DEF BusGoes
<1>8. Pacing'
  BY <1>1, <1>2, PacingCycle
<1>10. behind' = IF ~Unserved(prog) THEN 0
                 ELSE IF EndOfFrame(tick) THEN behind + 1 ELSE behind
  <2>1. behind # Depth
    BY <1>1, SpiAssumption DEF Lags, OnTime
  <2> QED BY <1>1, <2>1 DEF Lags
<1>9. /\ Dout' = ReadData
      /\ IP' = <<"ip", TransmitReadMark, ReceiveWriteMark>>
  BY <1>1 DEF SpiCycle
<1> QED BY <1>4, <1>5, <1>6, <1>7, <1>8, <1>9, <1>10, <1>11

\* There is room wherever a byte comes to.
LEMMA Room ==
  ASSUME Fits, BootInv, NEW tick \in BOOLEAN, Cycle(tick), OnTime'
  PROVE  /\ EndOfFrame(tick) => Unread < Depth
         /\ Unread = Depth => prog.pc \in Batch
         /\ prog.pc \in Sends => Queued < Depth \/ (Brim /\ Queued = Depth)
<1>1. /\ Line \in 0 .. 1 /\ Queued \in Nat /\ Unread \in Nat
      /\ Depth \in Nat /\ behind \in Nat
  BY CycleCounts, SpiAssumption DEF BootInv, Pacing
<1>2. Bounds /\ Crowded /\ prog.pc \in Places /\ Depth >= 8
  BY DEF BootInv, Program, Fits
<1>3. /\ prog.pc = "send" => prog.i \in 1 .. 6
      /\ prog.pc = "drain" => prog.i \in 0 .. 6
      /\ prog.pc \in Batch => prog.i \in 0 .. Depth - 1
  BY DEF BootInv, Program
<1>4. Owed = Queued + Line + Unread
  BY <1>1 DEF Owed, Unsent
<1>5. prog.pc \notin Batch => Owed < Depth
  BY <1>1, <1>2, <1>3, <1>4 DEF Bounds, Places, Sends, Takes, Polls, Still, Batch
<1>6. Owed <= Depth \/ Unserved(prog)
  BY <1>1, <1>2, <1>3, <1>4, <1>5 DEF Bounds, Batch, Unserved
<1>7. ASSUME EndOfFrame(tick)
      PROVE  Unread < Depth
  <2>1. Line = 1 /\ (Unserved(prog) => behind + 1 < Depth)
    <3>1. /\ Line = 1 /\ (Unserved(prog) => behind' = behind + 1)
      BY <1>7, CycleCounts
    <3> QED BY <3>1 DEF OnTime
  <2>2. CASE Owed <= Depth
    BY <1>1, <1>4, <2>1, <2>2
  <2>3. CASE Unserved(prog)
    BY <1>1, <1>2, <2>1, <2>3 DEF Crowded
  <2> QED BY <1>6, <2>2, <2>3
<1>8. ASSUME Unread = Depth
      PROVE  prog.pc \in Batch
  BY <1>1, <1>4, <1>5, <1>8
<1>9. ASSUME prog.pc \in Sends
      PROVE  Queued < Depth \/ (Brim /\ Queued = Depth)
  <2>1. CASE prog.pc \in {"dummy", "send"}
    BY <1>1, <1>4, <1>5, <2>1 DEF Batch
  <2>2. CASE prog.pc = "bsend"
    <3>1. prog.i \in 0 .. Depth - 1 /\ Owed <= prog.i + 1
      BY <1>2, <1>3, <2>2 DEF Bounds, Batch
    <3>2. Queued <= prog.i + 1
      BY <1>1, <1>4, <3>1
    <3> QED BY <1>1, <2>2, <3>1, <3>2 DEF Brim
  <2> QED BY <1>9, <2>1, <2>2 DEF Sends
<1> QED BY <1>7, <1>8, <1>9

\* So no cycle drops a byte.
LEMMA RoomyCycle ==
  ASSUME Fits, BootInv, NEW tick \in BOOLEAN, Cycle(tick), OnTime'
  PROVE  Roomy'
<1>1. /\ tx'.winc <=> Writes
      /\ tx'.full <=> Queued = Depth
      /\ rx'.winc = IF tick THEN EndOfFrame(tick) ELSE rx.winc
      /\ rx'.full = IF tick THEN Unread = Depth ELSE rx.full
      /\ rx'.empty <=> Len(rx.q) = Bit(rx.rinc)
      /\ rx'.rinc <=> ReceiveReadInc
  BY CycleCounts
<1>2. /\ EndOfFrame(tick) => Unread < Depth
      /\ Depth \in Nat /\ Unread \in Nat
  BY Room, CycleCounts, SpiAssumption
<1>3. Writes => Queued < Depth
  <2>1. Program(prog) /\ OnBus /\ Latched
    BY DEF BootInv
  <2> QED BY <2>1, BusMeans DEF Writes, Latched
<1>4. tx'.winc => ~tx'.full
  BY <1>1, <1>2, <1>3
<1>5. rx'.winc => ~rx'.full
  <2>1. CASE tick
    <3>1. (rx'.winc => EndOfFrame(tick)) /\ (rx'.full => Unread = Depth)
      BY <1>1, <2>1, Zenon
    <3> QED BY <1>2, <3>1
  <2>2. CASE ~tick
    BY <1>1, <2>2 DEF BootInv, Roomy
  <2> QED BY <2>1, <2>2
<1>6. rx'.rinc => ~rx'.empty
  <2>1. ReceiveReadInc => Len(rx.q) > 0 /\ Bit(rx.rinc) = 0
    BY Basics DEF ReceiveReadInc, BootInv, Bit
  <2> QED BY <1>1, <2>1
<1> QED BY <1>4, <1>5, <1>6 DEF Roomy

\* The marks tell whether the FIFOs are empty.
LEMMA Marks ==
  ASSUME Fits, BootInv
  PROVE  /\ TransmitReadMark => Len(tx.q) = 0
         /\ ReceiveWriteMark <=> Len(rx.q) > 0
<1>1. /\ Len(tx.q) \in Nat /\ Len(rx.q) \in Nat
      /\ Len(tx.q) <= Depth /\ (Len(tx.q) = Depth => tx.full)
      /\ Len(rx.q) <= Depth /\ (Len(rx.q) = Depth => rx.full)
      /\ Depth \in Nat \ {0}
  BY Basics, SpiAssumption DEF BootInv, Controller, Inv, FifoInv, SafeFlags
<1>2. \A n \in 0 .. Depth : n % Depth = IF n = Depth THEN 0 ELSE n
  BY <1>1
<1>3. Level(tx) = IF Len(tx.q) = Depth THEN 0 ELSE Len(tx.q)
  BY <1>1, <1>2, Len(tx.q) \in 0 .. Depth DEF Level
<1>4. Level(rx) = IF Len(rx.q) = Depth THEN 0 ELSE Len(rx.q)
  BY <1>1, <1>2, Len(rx.q) \in 0 .. Depth DEF Level
<1>5. TransmitReadMark => Len(tx.q) = 0
  BY <1>1, <1>3 DEF TransmitReadMark
<1>6. rx.full => Len(rx.q) > 0
  <2>1. /\ rx.full => 2 * Len(rx.q) + made + Taking >= 2 * Depth - 1
        /\ made \in 0 .. Most /\ Most \in Nat
        /\ Most <= 2 * Depth - 5 /\ Depth >= 8 /\ Depth \in Nat
    BY SpiAssumption, BootAssumption DEF BootInv, Crowded, Pacing, Fits
  <2>2. Taking \in 0 .. 1
    BY DEF Taking, Bit
  <2> QED BY <1>1, <2>1, <2>2
<1>7. ReceiveWriteMark <=> Len(rx.q) > 0
  BY <1>1, <1>4, <1>6 DEF ReceiveWriteMark
<1> QED BY <1>5, <1>7

\* What the loader was told by a flag stays true until it acts on it.
LEMMA LatchedCycle ==
  ASSUME Fits, BootInv, NEW tick \in BOOLEAN, Cycle(tick), OnTime'
  PROVE  Latched'
<1>1. /\ Queued' = Queued + Bit(Writes) - Bit(Leaves(tick))
      /\ Line' = Line + Bit(Leaves(tick)) - Bit(EndOfFrame(tick))
      /\ Unread' = Unread + Bit(EndOfFrame(tick)) - Bit(rx.rinc)
      /\ Leaves(tick) => Line = 0 /\ Len(tx.q) > 0
      /\ Line \in 0 .. 1 /\ Queued \in Nat /\ Unread \in Nat
  BY CycleCounts
<1>2. /\ tx'.winc <=> Writes
      /\ tx'.full <=> Queued = Depth
      /\ rx'.empty <=> Len(rx.q) = Bit(rx.rinc)
      /\ rx'.rinc <=> ReceiveReadInc
      /\ Len(tx'.q) = Len(tx.q) + Bit(tx.winc) - Bit(Leaves(tick))
      /\ Len(rx'.q) = Len(rx.q) + Bit(tick /\ rx.winc) - Bit(rx.rinc)
  BY CycleCounts
<1>3. /\ apb.phase \in {"idle", "setup", "access", "done"}
      /\ Phase("idle") => Phase("idle")' \/ Phase("setup")'
      /\ Phase("setup") => Phase("access")'
      /\ Phase("access") => Phase("done")' /\ prog' \in After(prog, Dout)
      /\ Phase("done") => Phase("idle")'
      /\ ~Phase("access") => prog' = prog
  BY CycleCounts
<1>4. /\ Latched /\ Program(prog) /\ OnBus /\ Depth >= 8 /\ Depth \in Nat
      /\ ~rx.empty => Len(rx.q) > 0
      /\ Len(tx.q) \in Nat /\ Len(rx.q) \in Nat
      /\ (tx.winc \in BOOLEAN /\ rx.winc \in BOOLEAN /\ rx.rinc \in BOOLEAN)
  BY Basics, SpiAssumption DEF BootInv, Fits
<1>5. /\ Busy => ~Halted
      /\ Writes => Phase("access") /\ prog.pc \in Sends
      /\ Selects("RXDATA") <=> Busy /\ prog.pc \in Takes
      /\ Selects("IP") <=> Busy /\ prog.pc \in Polls
  BY <1>4, BusMeans DEF Writes
<1>8. Busy <=> Phase("setup") \/ Phase("access")
  BY DEF Busy, Phase
<1>6. /\ TransmitReadMark => Len(tx.q) = 0
      /\ ReceiveWriteMark <=> Len(rx.q) > 0
      /\ IP'[2] <=> TransmitReadMark
      /\ IP'[3] <=> ReceiveWriteMark
      /\ prog.pc \in Polls /\ Busy => Dout' = IP
  <2>1. /\ Dout' = ReadData
        /\ IP' = <<"ip", TransmitReadMark, ReceiveWriteMark>>
    BY CycleCounts
  <2>2. (IP'[2] <=> TransmitReadMark) /\ (IP'[3] <=> ReceiveWriteMark)
    BY <2>1
  <2>3. prog.pc \in Polls /\ Busy => Dout' = IP
    BY <2>1, <1>5 DEF ReadData, Polls, Takes
  <2> QED BY <2>2, <2>3, Marks
<1>7. Phase("access") => /\ Program(prog') /\ Follows(prog', Dout)
                         /\ prog.pc \notin {"failed", "booted"}
  <2>1. ASSUME Phase("access")
        PROVE  ~Halted /\ prog' \in After(prog, Dout)
    BY <1>3, <1>5, <1>8, <2>1
  <2> QED BY <1>4, <2>1, AfterGoes DEF Halted
<1>9. rx.rinc \/ (rx'.empty <=> Len(rx.q) = 0)
  BY <1>2, <1>4 DEF Bit
<1>10. (tx.winc => Phase("done"))'
  BY <1>2, <1>3, <1>5
<1>11. (rx.rinc => \/ Phase("access") /\ prog.pc \in Takes
                   \/ Phase("done") /\ prog.pc \in {"drain", "dummy"})'
  <2>1. SUFFICES ASSUME rx'.rinc
                 PROVE  \/ Phase("access")' /\ prog'.pc \in Takes
                        \/ Phase("done")' /\ prog'.pc \in {"drain", "dummy"}
    OBVIOUS
  <2>2. ~rx.rinc /\ Busy /\ prog.pc \in Takes
    BY <1>2, <1>5, <2>1 DEF ReceiveReadInc
  <2>3. CASE Phase("access")
    <3>1. prog.pc = "drain"
      BY <1>4, <2>2, <2>3 DEF Latched, Takes
    <3> QED BY <1>3, <1>7, <2>3, <3>1 DEF Follows
  <2>4. CASE ~Phase("access")
    BY <1>3, <1>8, <2>2, <2>4
  <2> QED BY <2>3, <2>4
<1>12. (prog.pc \in {"take", "btake"} => ~rx.empty /\ ~tx.winc /\ (Phase("access") => rx.rinc))'
  <2>1. SUFFICES ASSUME prog'.pc \in {"take", "btake"}
                 PROVE  ~rx'.empty /\ ~tx'.winc /\ (Phase("access")' => rx'.rinc)
    OBVIOUS
  <2>2. CASE Phase("access")
    <3>1. prog.pc \in {"waitrx", "bwait"} /\ Dout[3]
      BY <1>4, <1>7, <2>1, <2>2 DEF Follows, Program, Places, Still, Sends, Takes, Polls
    <3>2. ~rx.empty /\ ~rx.rinc
      BY <1>4, <2>2, <3>1 DEF Latched, Answer, Phase, Takes
    <3> QED BY <1>2, <1>3, <1>4, <1>5, <1>9, <2>2, <3>1, <3>2 DEF Sends, Phase
  <2>3. CASE ~Phase("access")
    <3>1. ~rx.empty /\ ~rx.rinc /\ prog' = prog
      BY <1>3, <1>4, <2>1, <2>3 DEF Latched, Phase
    <3>2. Phase("access")' => Phase("setup")
      BY <1>3, <2>3 DEF Phase
    <3> QED BY <1>2, <1>4, <1>5, <1>8, <1>9, <2>1, <2>3, <3>1, <3>2 DEF ReceiveReadInc, Phase, Takes
  <2> QED BY <2>2, <2>3
<1>13. (prog.pc \in {"waitrx", "bwait"} /\ Answer(3) => ~rx.empty)'
  <2>1. SUFFICES ASSUME prog'.pc \in {"waitrx", "bwait"}, Answer(3)'
                 PROVE  ~rx'.empty
    OBVIOUS
  <2>2. ~Phase("access") /\ prog' = prog
    BY <1>3, <2>1 DEF Answer, Phase
  <2>3. ~rx.rinc
    BY <1>4, <2>1, <2>2 DEF Latched, Takes
  <2>4. Len(rx.q) > 0
    <3>1. CASE Phase("idle")
      BY <1>3, <1>6, <2>1, <3>1 DEF Answer, Phase
    <3>2. CASE Phase("setup")
      BY <1>3, <1>4, <1>6, <1>8, <2>1, <2>2, <3>2 DEF Answer, Phase, Latched, Polls
    <3> QED BY <1>3, <2>1, <2>2, <3>1, <3>2 DEF Answer, Phase
  <2> QED BY <1>4, <1>9, <2>3, <2>4
<1>15. (prog.pc = "waittx" /\ Answer(2) => Queued = 0)'
  <2>1. SUFFICES ASSUME prog'.pc = "waittx", Answer(2)'
                 PROVE  Queued' = 0
    OBVIOUS
  <2>2. ~Phase("access") /\ prog' = prog
    BY <1>3, <2>1 DEF Answer, Phase
  <2>3. Queued = 0
    <3>1. CASE Phase("idle")
      <4>1. Len(tx.q) = 0
        BY <1>3, <1>6, <2>1, <3>1 DEF Answer, Phase
      <4>2. ~tx.winc
        BY <1>4, <3>1 DEF Latched, Phase
      <4> QED BY <4>1, <4>2 DEF Queued, Bit
    <3>2. CASE Phase("setup")
      BY <1>3, <1>4, <1>6, <1>8, <2>1, <2>2, <3>2 DEF Answer, Phase, Latched, Polls
    <3> QED BY <1>3, <2>1, <2>2, <3>1, <3>2 DEF Answer, Phase
  <2>4. ~Writes /\ ~Leaves(tick)
    <3>1. Len(tx.q) = 0
      <4>1. Bit(tx.winc) \in 0 .. 1 /\ Queued = Len(tx.q) + Bit(tx.winc)
        BY DEF Queued, Bit
      <4> QED BY <1>4, <2>3, <4>1
    <3> QED BY <1>1, <1>5, <2>2, <3>1
  <2> QED BY <1>1, <2>3, <2>4 DEF Bit
<1>17. (prog.pc \in Sends /\ Phase("access") => IF tx.full THEN Brim ELSE Queued < Depth)'
  <2>1. SUFFICES ASSUME prog'.pc \in Sends, Phase("access")'
                 PROVE  IF tx'.full THEN Brim' ELSE Queued' < Depth
    OBVIOUS
  <2>2. Phase("setup") /\ prog' = prog
    BY <1>3, <2>1 DEF Phase
  <2>3. Queued < Depth \/ (Brim /\ Queued = Depth)
    BY <2>1, <2>2, Room
  <2>4. Queued' <= Queued /\ Queued' \in Int
    <3>1. ~Writes
      BY <1>5, <2>2 DEF Phase
    <3>2. Bit(Writes) = 0 /\ Bit(Leaves(tick)) \in 0 .. 1
      BY <3>1 DEF Bit
    <3> QED BY <1>1, <3>2
  <2>5. Brim' <=> Brim
    BY <2>2 DEF Brim
  <2>6. CASE Queued < Depth
    BY <1>1, <1>2, <1>4, <2>4, <2>6
  <2>7. CASE Brim /\ Queued = Depth
    BY <1>2, <2>5, <2>7
  <2> QED BY <2>3, <2>6, <2>7
<1> QED BY <1>10, <1>11, <1>12, <1>13, <1>15, <1>17 DEF Latched

\* What a cycle does where the loader is.
LEMMA CycleGoes ==
  ASSUME Fits, BootInv, NEW tick \in BOOLEAN, Cycle(tick), OnTime'
  PROVE  /\ ~Phase("access") => prog' = prog
         /\ Phase("access") => /\ Program(prog') /\ Follows(prog', Dout)
                               /\ prog.pc \notin {"failed", "booted"}
         /\ Writes => Phase("access") /\ prog.pc \in Sends
         /\ Phase("access") /\ prog.pc \in Sends => Writes \/ (Brim /\ tx.full)
         /\ rx.rinc => Phase("access") \/ prog.pc \in {"drain", "dummy"}
<1>1. Latched /\ Program(prog) /\ OnBus /\ Depth >= 8 /\ Depth \in Nat
  BY SpiAssumption DEF BootInv, Fits
<1>2. /\ Phase("access") => prog' \in After(prog, Dout)
      /\ ~Phase("access") => prog' = prog
  BY CycleCounts
<1>3. /\ Busy => ~Halted
      /\ Memwrite("TXDATA") <=> Phase("access") /\ prog.pc \in Sends
  BY <1>1, BusMeans
<1>4. Phase("access") => /\ Program(prog') /\ Follows(prog', Dout)
                         /\ prog.pc \notin {"failed", "booted"}
  <2>1. Phase("access") => ~Halted
    BY <1>3 DEF Phase, Busy
  <2> QED BY <1>1, <1>2, <2>1, AfterGoes DEF Halted
<1>5. /\ Writes => Phase("access") /\ prog.pc \in Sends
      /\ Phase("access") /\ prog.pc \in Sends => Writes \/ (Brim /\ tx.full)
  BY <1>1, <1>3 DEF Writes, Latched
<1>6. rx.rinc => Phase("access") \/ prog.pc \in {"drain", "dummy"}
  BY <1>1 DEF Latched
<1> QED BY <1>2, <1>4, <1>5, <1>6

\* The last byte of a block is the last of a batch.
LEMMA LastOfBatch ==
  ASSUME BootInv, Depth >= 8, prog.pc = "btake"
  PROVE  /\ Len(buf) \in Nat /\ Len(buf) < BlockBytes
         /\ Len(buf) + 1 = BlockBytes => prog.i + 1 = Depth
         /\ (Len(buf) + 1) % Depth = IF prog.i + 1 = Depth THEN 0 ELSE prog.i + 1
<1>1. PICK S : buf \in Seq(S)
  BY DEF BootInv, Stored
<1>2. Len(buf) \in Nat /\ Depth \in Nat /\ BlockBytes % Depth = 0 /\ prog.i \in Int
  BY <1>1, LenProperties, SpiAssumption, BootAssumption DEF BootInv, Program, Batch
<1>3. Len(buf) % Depth = prog.i /\ Len(buf) < BlockBytes
  BY DEF BootInv, Stored, Batch
<1>4. (Len(buf) + 1) % Depth = IF prog.i + 1 = Depth THEN 0 ELSE prog.i + 1
  <2>1. (Len(buf) + 1) % Depth = IF (Len(buf) % Depth) + 1 = Depth THEN 0
                                 ELSE (Len(buf) % Depth) + 1
    BY <1>2, Depth > 1, ModStep
  <2> QED BY <1>3, <2>1
<1>5. prog.i >= 0
  BY DEF BootInv, Program, Batch
<1> QED BY <1>2, <1>3, <1>4, <1>5

\* The bytes on their way stay within their bounds.
LEMMA BoundsCycle ==
  ASSUME Fits, BootInv, NEW tick \in BOOLEAN, Cycle(tick), OnTime'
  PROVE  Bounds'
<1> DEFINE E == Bit(EndOfFrame(tick))
           W == Bit(Writes)
           L == Bit(Leaves(tick))
           P == Bit(rx.rinc)
           i == prog.i
<1>1. /\ Queued' = Queued + W - L
      /\ Line' = Line + L - E
      /\ Unread' = Unread + E - P
      /\ L = 1 => Line = 0 /\ Queued > 0
      /\ E = 1 => Line = 1
      /\ Line \in 0 .. 1 /\ Queued \in Nat /\ Unread \in Nat
      /\ E \in 0 .. 1 /\ W \in 0 .. 1 /\ L \in 0 .. 1 /\ P \in 0 .. 1
  <2>1. /\ Queued' = Queued + Bit(Writes) - Bit(Leaves(tick))
        /\ Line' = Line + Bit(Leaves(tick)) - Bit(EndOfFrame(tick))
        /\ Unread' = Unread + Bit(EndOfFrame(tick)) - Bit(rx.rinc)
        /\ EndOfFrame(tick) => Line = 1
        /\ Leaves(tick) => Line = 0 /\ Len(tx.q) > 0
        /\ Line \in 0 .. 1 /\ Queued \in Nat /\ Unread \in Nat
    BY CycleCounts
  <2>2. Len(tx.q) > 0 => Queued > 0
    <3>1. Queued = Len(tx.q) + Bit(tx.winc) /\ Bit(tx.winc) \in 0 .. 1 /\ Len(tx.q) \in Nat
      BY Basics DEF BootInv, Queued, Bit
    <3> QED BY <3>1
  <2> QED BY <2>1, <2>2 DEF Bit
<1>2. /\ Owed = Queued + Line + Unread /\ Unsent = Queued + Line
      /\ Owed' = Owed + W - P /\ Unsent' = Unsent + W - E
  <2>1. Owed = Queued + Line + Unread /\ Unsent = Queued + Line
    BY <1>1 DEF Owed, Unsent
  <2>2. Owed' = Queued' + Line' + Unread' /\ Unsent' = Queued' + Line'
    BY DEF Owed, Unsent
  <2> HIDE DEF E, W, L, P
  <2> QED BY <1>1, <2>1, <2>2
<1>3. /\ ~Phase("access") => prog' = prog
      /\ Phase("access") => Program(prog') /\ Follows(prog', Dout)
      /\ W = 1 => Phase("access") /\ prog.pc \in Sends
      /\ P = 1 => Phase("access") \/ prog.pc \in {"drain", "dummy"}
  BY CycleGoes DEF Bit
<1>4. /\ Bounds /\ Program(prog) /\ Latched /\ Depth >= 8 /\ Depth \in Nat
      /\ Len(rx.q) \in Nat /\ (~rx.empty => Len(rx.q) > 0)
      /\ Unread >= Len(rx.q)
  <2>1. Len(rx.q) \in Nat /\ (~rx.empty => Len(rx.q) > 0)
    BY Basics DEF BootInv
  <2>2. Unread >= Len(rx.q)
    <3>1. Unread = Len(rx.q) + Bit(rx.winc) /\ Bit(rx.winc) \in 0 .. 1
      BY DEF Unread, Bit
    <3> QED BY <2>1, <3>1
  <2> QED BY <2>1, <2>2, SpiAssumption DEF BootInv, Fits
<1> HIDE DEF E, W, L, P
<1>14. /\ prog.pc \in {"take", "btake"} => Len(rx.q) > 0 /\ ~tx.winc /\ (Phase("access") => P = 1)
       /\ prog.pc \notin Sends => W = 0
  BY <1>1, <1>3, <1>4 DEF Latched, P, Bit
<1>15. ~Phase("access") \/ prog.pc \notin {"failed", "booted"}
  BY CycleGoes
<1>16. prog.pc \in Places
  BY <1>4 DEF Program
<1>5. (prog.pc \in Still => Owed <= 1)'
  <2>1. SUFFICES ASSUME prog'.pc \in Still
                 PROVE  Owed' <= 1
    OBVIOUS
  <2>2. CASE ~Phase("access")
    <3>1. Owed <= 1 /\ W = 0
      BY <1>1, <1>3, <1>4, <2>1, <2>2 DEF Bounds
    <3> QED BY <1>1, <1>2, <3>1
  <2>3. CASE Phase("access")
    <3>1. \/ prog.pc \in {"off", "auto", "hold", "release"}
          \/ prog.pc = "take"
          \/ prog.pc = "drain" /\ i = 6
          \/ prog.pc = "btake" /\ Len(buf) + 1 = BlockBytes
      BY <1>3, <1>4, <1>15, <1>16, <2>1, <2>3
         DEF Follows, Program, Places, Still, Sends, Takes, Polls
    <3>2. prog.pc \notin Sends
      BY <3>1 DEF Sends
    <3>3. CASE prog.pc \in {"off", "auto", "hold", "release"}
      BY <1>1, <1>2, <1>4, <1>14, <3>2, <3>3 DEF Bounds, Still
    <3>4. CASE prog.pc = "take"
      BY <1>1, <1>2, <1>4, <1>14, <2>3, <3>2, <3>4 DEF Bounds
    <3>5. CASE prog.pc = "drain" /\ i = 6
      <4>1. Owed <= 1
        BY <1>4, <3>5 DEF Bounds
      <4> QED BY <1>1, <1>2, <1>14, <3>2, <4>1
    <3>6. CASE prog.pc = "btake" /\ Len(buf) + 1 = BlockBytes
      <4>1. i + 1 = Depth /\ i \in Int
        BY <1>4, <3>6, LastOfBatch DEF Program, Batch
      <4>2. Owed <= 2
        BY <1>4, <3>6, <4>1 DEF Bounds
      <4> QED BY <1>1, <1>2, <1>14, <2>3, <3>2, <3>6, <4>2
    <3> QED BY <3>1, <3>3, <3>4, <3>5, <3>6
  <2> QED BY <2>2, <2>3
<1>6. (prog.pc \in {"waitrx", "take"} => Owed <= 2)'
  <2>1. SUFFICES ASSUME prog'.pc \in {"waitrx", "take"}
                 PROVE  Owed' <= 2
    OBVIOUS
  <2>2. prog.pc \in {"waitrx", "take"} \/ (prog.pc = "dummy" /\ Phase("access"))
    BY <1>3, <1>4, <1>15, <1>16, <2>1 DEF Follows, Program, Places, Still, Sends, Takes, Polls
  <2>3. CASE prog.pc \in {"waitrx", "take"}
    <3>1. Owed <= 2 /\ W = 0
      BY <1>4, <1>14, <2>3 DEF Bounds, Sends
    <3> QED BY <1>1, <1>2, <3>1
  <2>4. CASE prog.pc = "dummy"
    BY <1>1, <1>2, <1>4, <2>4 DEF Bounds, Still
  <2> QED BY <2>2, <2>3, <2>4
<1>8. (prog.pc = "send" => Owed <= prog.i)'
  <2>1. SUFFICES ASSUME prog'.pc = "send"
                 PROVE  Owed' <= prog'.i
    OBVIOUS
  <2>2. CASE ~Phase("access")
    <3>1. prog' = prog /\ W = 0
      BY <1>1, <1>3, <2>2
    <3>2. i \in 1 .. 6 /\ Owed <= i
      BY <1>4, <2>1, <3>1 DEF Bounds, Program
    <3> QED BY <1>1, <1>2, <3>1, <3>2
  <2>3. CASE Phase("access") /\ prog.pc = "take"
    <3>1. prog'.i = 1 /\ Owed <= 2 /\ W = 0 /\ P = 1
      BY <1>3, <1>4, <1>14, <2>1, <2>3 DEF Follows, Bounds, Sends, Still
    <3> QED BY <1>1, <1>2, <3>1
  <2>4. CASE Phase("access") /\ prog.pc = "send"
    <3>1. i \in 1 .. 6 /\ prog'.i = i + 1 /\ Owed <= i
      BY <1>3, <1>4, <2>1, <2>4 DEF Follows, Bounds, Program
    <3> QED BY <1>1, <1>2, <3>1
  <2> QED BY <1>3, <1>4, <1>15, <1>16, <2>1, <2>2, <2>3, <2>4
          DEF Follows, Program, Places, Still, Sends, Takes, Polls
<1>9. (prog.pc = "waittx" => Owed <= 7)'
  <2>1. SUFFICES ASSUME prog'.pc = "waittx"
                 PROVE  Owed' <= 7
    OBVIOUS
  <2>2. prog.pc = "waittx" \/ (prog.pc = "send" /\ i = 6)
    BY <1>3, <1>4, <1>15, <1>16, <2>1 DEF Follows, Program, Places, Still, Sends, Takes, Polls
  <2>3. (Owed <= 7 /\ W = 0) \/ Owed <= 6
    BY <1>4, <1>14, <2>2 DEF Bounds, Sends
  <2> QED BY <1>1, <1>2, <2>3
<1>19. /\ Owed \in Nat /\ Owed' = Owed + W - P /\ Unread' = Unread + E - P
       /\ Queued' = Queued + W - L
       /\ E \in 0 .. 1 /\ W \in 0 .. 1 /\ P \in 0 .. 1 /\ L \in 0 .. 1
       /\ Queued \in Nat /\ Unread \in Nat
       /\ Depth \in Nat /\ Depth >= 8
  BY <1>1, <1>2, <1>3, <1>4
<1>20. Unread' <= Owed' /\ Queued' >= 0
  <2>1. Queued' >= 0 /\ Line' >= 0 /\ Unread' \in Int
    BY <1>1
  <2>2. Owed' = Queued' + Line' + Unread'
    BY DEF Owed, Unsent
  <2> QED BY <1>1, <2>1, <2>2
<1>18. ASSUME Queued = 0, W = 0
       PROVE  Queued' = 0 /\ (rx'.empty => Owed' <= 1)
  <2>1. L = 0
    BY <1>1, <1>18
  <2>2. ASSUME rx'.empty
        PROVE  Owed' <= 1
    <3>1. Len(rx.q) = P
      BY <2>2, CycleCounts DEF P
    <3>2. Unread = Len(rx.q) + Bit(rx.winc)
      BY DEF Unread
    <3>3. Line + Bit(rx.winc) \in 0 .. 1
      BY DEF BootInv, Controller, Frames, Line, Bit
    <3>4. Owed = Line + Bit(rx.winc) + P /\ Bit(rx.winc) \in 0 .. 1
      BY <1>1, <1>2, <1>18, <3>1, <3>2 DEF Bit
    <3> QED BY <1>18, <1>19, <3>3, <3>4
  <2> QED BY <1>18, <1>19, <2>1, <2>2
<1>10. (prog.pc = "drain" => /\ Owed <= 7 - prog.i \/ Owed <= 1
                             /\ Queued = 0
                             /\ rx.empty \/ (Phase("access") /\ ~rx.rinc) => Owed <= 1)'
  <2>1. SUFFICES ASSUME prog'.pc = "drain"
                 PROVE  /\ Owed' <= 7 - prog'.i \/ Owed' <= 1
                        /\ Queued' = 0
                        /\ rx'.empty \/ (Phase("access")' /\ ~rx'.rinc) => Owed' <= 1
    OBVIOUS
  <2>2. \/ prog.pc = "drain" /\ ~Phase("access")
        \/ prog.pc = "drain" /\ Phase("access") /\ i \in 0 .. 5 /\ prog'.i = i + 1
        \/ prog.pc = "waittx" /\ Phase("access") /\ Dout[2] /\ prog'.i = 0
    BY <1>3, <1>4, <1>15, <1>16, <2>1 DEF Follows, Program, Places, Still, Sends, Takes, Polls
  <2>3. Queued = 0 /\ W = 0
    BY <1>4, <1>14, <2>2 DEF Bounds, Latched, Answer, Sends
  <2>4. Queued' = 0 /\ (rx'.empty => Owed' <= 1)
    BY <1>18, <2>3
  <2>5. CASE prog.pc = "drain" /\ ~Phase("access")
    <3>1. prog' = prog /\ i \in 0 .. 6 /\ (Owed <= 7 - i \/ Owed <= 1)
      BY <1>3, <1>4, <2>5 DEF Bounds, Program
    <3>2. Phase("access")' /\ ~rx'.rinc => Owed <= 1
      <4>1. Phase("access")' => Phase("setup")
        BY CycleCounts, <2>5 DEF Phase
      <4>2. rx'.rinc <=> Selects("RXDATA") /\ ~rx.empty /\ ~rx.rinc
        BY CycleCounts DEF ReceiveReadInc
      <4>3. Phase("setup") => Selects("RXDATA")
        BY <2>5, BusMeans DEF BootInv, Phase, Busy, Takes
      <4>4. Phase("setup") => ~rx.rinc
        BY <1>4 DEF Latched, Phase
      <4>5. rx.empty => Owed <= 1
        BY <1>4, <2>5 DEF Bounds
      <4> QED BY <4>1, <4>2, <4>3, <4>4, <4>5
    <3> QED BY <1>19, <2>3, <2>4, <3>1, <3>2
  <2>6. CASE prog.pc = "drain" /\ Phase("access") /\ i \in 0 .. 5 /\ prog'.i = i + 1
    <3>1. (Owed <= 7 - i \/ Owed <= 1) /\ (P = 1 \/ Owed <= 1)
      BY <1>1, <1>4, <2>6 DEF Bounds, P, Bit
    <3>2. ~Phase("access")'
      BY CycleCounts, <2>6 DEF Phase
    <3>3. Owed' <= 7 - prog'.i \/ Owed' <= 1
      BY <1>19, <2>3, <2>6, <3>1
    <3> QED BY <2>4, <3>2, <3>3
  <2>7. CASE prog.pc = "waittx" /\ Phase("access") /\ Dout[2] /\ prog'.i = 0
    <3>1. Owed <= 7
      BY <1>4, <2>7 DEF Bounds
    <3>2. ~Phase("access")'
      BY CycleCounts, <2>7 DEF Phase
    <3>3. Owed' <= 7 - prog'.i
      BY <1>19, <2>3, <2>7, <3>1
    <3> QED BY <2>4, <3>2, <3>3
  <2> QED BY <2>2, <2>5, <2>6, <2>7
<1> DEFINE owed == Owed'
<1>22. /\ Owed \in Nat /\ owed = Owed + W - P
       /\ W \in 0 .. 1 /\ P \in 0 .. 1 /\ Depth \in Nat /\ Depth >= 8
  BY <1>19
<1>23. prog.pc \in Batch => i \in 0 .. Depth - 1
  BY <1>4 DEF Program
<1> HIDE DEF owed
<1>11. (prog.pc = "bsend" => Owed <= prog.i + 1)'
  <2>1. SUFFICES ASSUME prog'.pc = "bsend"
                 PROVE  owed <= prog'.i + 1
    BY DEF owed
  <2>2. \/ prog.pc = "bsend" /\ ~Phase("access") /\ prog'.i = i
        \/ prog.pc = "bsend" /\ Phase("access") /\ prog'.i = i + 1
        \/ prog.pc = "take" /\ Phase("access") /\ prog'.i = 0
        \/ prog.pc = "btake" /\ Phase("access") /\ prog'.i = 0 /\ i + 1 = Depth
    BY <1>3, <1>4, <1>15, <1>16, <2>1 DEF Follows, Program, Places, Still, Sends, Takes, Polls
  <2>3. CASE prog.pc = "bsend"
    <3>1. i \in Int /\ Owed <= i + 1 /\ (W = 0 \/ Phase("access"))
      BY <1>3, <1>4, <1>22, <1>23, <2>3 DEF Bounds, Batch
    <3> QED BY <1>22, <2>2, <2>3, <3>1
  <2>4. CASE prog.pc \in {"take", "btake"}
    <3>1. prog.pc = "btake" => i + 1 = Depth /\ i \in Int
      BY <1>23, <2>2 DEF Batch
    <3>2. Owed <= 2
      BY <1>4, <1>22, <2>4, <3>1 DEF Bounds
    <3>3. prog'.i = 0 /\ W = 0 /\ P = 1
      BY <1>14, <2>2, <2>4 DEF Sends
    <3> QED BY <1>22, <3>2, <3>3
  <2> QED BY <2>2, <2>3, <2>4
<1>12. (prog.pc \in {"bwait", "btake"} => Owed <= Depth + 1 - prog.i)'
  <2>1. SUFFICES ASSUME prog'.pc \in {"bwait", "btake"}
                 PROVE  owed <= Depth + 1 - prog'.i
    BY DEF owed
  <2>2. \/ prog.pc \in {"bwait", "btake"} /\ ~Phase("access") /\ prog'.i = i
        \/ prog.pc = "bsend" /\ i + 1 = Depth /\ prog'.i = 0
        \/ prog.pc = "bwait" /\ prog'.i = i
        \/ prog.pc = "btake" /\ Phase("access") /\ prog'.i = i + 1
    <3>1. prog.pc = "bsend" /\ Phase("access") => i + 1 = Depth /\ prog'.i = 0
      BY <1>3, <1>22, <1>23, <2>1 DEF Follows, Batch
    <3> QED BY <1>3, <1>4, <1>15, <1>16, <2>1, <3>1 DEF Follows, Places, Still, Sends, Takes, Polls
  <2>3. CASE prog.pc = "bsend"
    <3>1. Owed <= i + 1 /\ i \in Int
      BY <1>4, <1>23, <2>3 DEF Bounds, Batch
    <3> QED BY <1>22, <2>2, <2>3, <3>1
  <2>4. CASE prog.pc \in {"bwait", "btake"}
    <3>1. Owed <= Depth + 1 - i /\ i \in Int /\ W = 0
      BY <1>4, <1>14, <1>23, <2>4 DEF Bounds, Batch, Sends
    <3>2. prog.pc = "btake" /\ Phase("access") => P = 1
      BY <1>14
    <3> QED BY <1>22, <2>2, <2>4, <3>1, <3>2
  <2> QED BY <2>2, <2>3, <2>4
<1> QED BY <1>5, <1>6, <1>8, <1>9, <1>10, <1>11, <1>12 DEF Bounds

\* Sums of what is left of a full FIFO.
LEMMA LeftOfFull ==
  ASSUME NEW len \in Int, NEW n \in Int, NEW t \in Int, NEW p \in Int, NEW d \in Int,
         len = d - p, t >= p, n >= 0, p <= 1
  PROVE  2 * len + n + t >= 2 * d - 1
OBVIOUS
LEMMA StillLeft ==
  ASSUME NEW len \in Int, NEW n \in Int, NEW t \in Int, NEW p \in Int, NEW d \in Int,
         NEW r \in Int, NEW a \in Int, NEW t1 \in Int,
         2 * len + n + t >= 2 * d - 1, r >= 0, t1 >= t + p + p - a
  PROVE  2 * (len + r - p) + (n + a) + t1 >= 2 * d - 1
OBVIOUS

\* A cycle of a batch takes a byte with an access or not at all, and no frame goes
\* uncounted while none is taken.
LEMMA CrowdedCycle ==
  ASSUME Fits, BootInv, NEW tick \in BOOLEAN, Cycle(tick), OnTime'
  PROVE  Crowded'
<1> DEFINE E == Bit(EndOfFrame(tick))
           P == Bit(rx.rinc)
           R == Bit(tick /\ rx.winc)
           owed == Owed'
           unread == Unread'
<1>1. /\ E \in 0 .. 1 /\ P \in 0 .. 1 /\ R \in 0 .. 1
      /\ EndOfFrame(tick) <=> E = 1
      /\ rx.rinc <=> P = 1
  BY DEF Bit
<1>2. /\ unread = Unread + E - P
      /\ Len(rx'.q) = Len(rx.q) + R - P
      /\ rx'.full = IF tick THEN Unread = Depth ELSE rx.full
      /\ Unread \in Nat /\ Queued \in Nat /\ Line \in 0 .. 1
      /\ EndOfFrame(tick) => Line = 1
  BY CycleCounts
<1>3. /\ Len(rx.q) \in Nat /\ Depth \in Nat /\ Depth >= 8
      /\ Most \in Nat \ {0} /\ Most <= 2 * Depth - 5
      /\ made \in 0 .. Most /\ (Busy => made < Most) /\ behind \in Nat
      /\ made' \in Nat /\ behind' \in Nat
  BY Basics, SpiAssumption, BootAssumption, CycleCounts DEF BootInv, Fits, Pacing
<1>4. Unread = Len(rx.q) + Bit(rx.winc) /\ Owed = Queued + Line + Unread
  BY <1>2 DEF Unread, Owed, Unsent
<1>5. /\ made' = IF tick \/ prog.why # "token" THEN 0
                 ELSE IF Phase("access") THEN made + 1 ELSE made
      /\ behind' = IF ~Unserved(prog) THEN 0
                   ELSE IF EndOfFrame(tick) THEN behind + 1 ELSE behind
  BY CycleCounts DEF Cycle, Divides, Phase
<1>6. /\ ~Phase("access") => prog' = prog
      /\ Phase("access") => Program(prog') /\ Follows(prog', Dout)
      /\ rx.rinc => Phase("access") \/ prog.pc \in {"drain", "dummy"}
      /\ ~Phase("access") \/ prog.pc \notin {"failed", "booted"}
  BY CycleGoes
<1>7. Bounds /\ Crowded /\ Latched /\ Program(prog) /\ prog.pc \in Places
  BY DEF BootInv, Program
<1>8. ASSUME prog.pc \in Batch, prog'.pc \notin Batch
      PROVE  Owed <= 2 /\ Busy /\ Taking = 0
  <2>1. Phase("access") /\ prog.pc = "btake" /\ Len(buf) + 1 = BlockBytes
    BY <1>6, <1>8 DEF Follows, Batch
  <2>2. prog.i + 1 = Depth /\ prog.i \in Int
    BY <1>3, <1>7, <2>1, LastOfBatch DEF Program, Batch
  <2>3. Taking = 0
    BY <2>1 DEF Taking, Bit
  <2> QED BY <1>3, <1>7, <2>1, <2>2, <2>3 DEF Bounds, Phase, Busy
<1> HIDE DEF E, P, R, owed, unread
<1>9. ASSUME rx'.full
      PROVE  prog'.pc \in Batch /\ 2 * Len(rx'.q) + made' + Taking' >= 2 * Depth - 1
  <2> DEFINE A == Bit(Phase("access"))
             taking == Taking'
  <2>0. A \in 0 .. 1 /\ taking \in 0 .. 1 /\ Taking \in 0 .. 1
    BY DEF Taking, Bit
  <2>6. Len(rx'.q) = Len(rx.q) + R - P
    BY <1>2
  <2>7. ASSUME prog.pc \in Batch, prog'.pc \in Batch
        PROVE  taking >= P /\ taking >= Taking + P + P - A
    <3>1. \/ ~Phase("access") /\ prog' = prog /\ P = 0
          \/ Phase("access") /\ prog.pc \in {"bsend", "bwait"} /\ P = 0
          \/ Phase("access") /\ prog.pc = "btake" /\ prog'.pc \in {"bsend", "bwait"}
      <4>1. prog.pc \in {"bsend", "bwait"} => ~rx.rinc
        BY <1>7 DEF Latched, Takes
      <4>2. ~Phase("access") => ~rx.rinc
        BY <1>6, <2>7 DEF Batch
      <4>3. ~rx.rinc => P = 0
        BY <1>1
      <4>4. prog.pc = "btake" /\ Phase("access") => prog'.pc \in {"bsend", "bwait"}
        BY <1>6, <2>7 DEF Follows, Batch
      <4> QED BY <1>6, <2>7, <4>1, <4>2, <4>3, <4>4 DEF Batch
    <3>2. CASE ~Phase("access") /\ prog' = prog /\ P = 0
      <4>1. taking = Taking
        BY <3>2 DEF Taking
      <4> QED BY <2>0, <3>2, <4>1
    <3>3. CASE Phase("access") /\ prog.pc \in {"bsend", "bwait"} /\ P = 0
      <4>1. A = 1
        BY <3>3 DEF Bit
      <4> QED BY <2>0, <3>3, <4>1
    <3>4. CASE Phase("access") /\ prog.pc = "btake" /\ prog'.pc \in {"bsend", "bwait"}
      <4>1. A = 1 /\ taking = 1 /\ Taking = 0
        BY <3>4 DEF Taking, Bit
      <4> QED BY <1>1, <4>1
    <3> QED BY <3>1, <3>2, <3>3, <3>4
  <2>8. made' \in Int /\ Len(rx'.q) \in Int
    BY <1>1, <1>3, <2>6
  <2> HIDE DEF A, taking
  <2>1. CASE tick
    <3>1. Unread = Depth
      BY <1>2, <1>9, <2>1
    <3>2. prog.pc \in Batch
      BY <3>1, Room
    <3>3. prog'.pc \in Batch
      BY <1>2, <1>3, <1>4, <1>8, <3>1, <3>2
    <3>4. Len(rx.q) + R = Depth
      BY <1>4, <2>1, <3>1 DEF R, Bit
    <3>5. Len(rx'.q) = Depth - P
      BY <1>1, <1>3, <2>6, <3>4
    <3>6. taking >= P
      BY <2>7, <3>2, <3>3
    <3>7. 2 * Len(rx'.q) + made' + taking >= 2 * Depth - 1
      <4>1. made' >= 0 /\ P <= 1 /\ P \in Int /\ taking \in Int /\ Depth \in Int
        BY <1>1, <1>3, <2>0
      <4> QED BY <2>8, <3>5, <3>6, <4>1, LeftOfFull
    <3> QED BY <3>3, <3>7 DEF taking
  <2>2. CASE ~tick
    <3>1. prog.pc \in Batch /\ 2 * Len(rx.q) + made + Taking >= 2 * Depth - 1
      BY <1>2, <1>7, <1>9, <2>2 DEF Crowded
    <3>2. prog'.pc \in Batch
      <4>1. Bit(rx.winc) \in 0 .. 1
        BY DEF Bit
      <4>2. Unread >= Len(rx.q)
        BY <1>3, <1>4, <4>1
      <4>3. ASSUME prog'.pc \notin Batch
            PROVE  FALSE
        <5>1. Owed <= 2 /\ made < Most /\ Taking = 0
          BY <1>3, <1>8, <3>1, <4>3
        <5>2. Len(rx.q) <= 2
          BY <1>2, <1>3, <1>4, <4>2, <5>1
        <5> QED BY <1>3, <2>0, <3>1, <5>1, <5>2
      <4> QED BY <4>3
    <3>3. made' = made + A
      <4>1. prog.why = "token"
        BY <1>7, <3>1 DEF Program, Batch
      <4> QED BY <1>3, <1>5, <2>2, <4>1 DEF A, Bit
    <3>4. taking >= Taking + P + P - A
      BY <2>7, <3>1, <3>2
    <3>5. 2 * Len(rx'.q) + made' + taking >= 2 * Depth - 1
      <4>1. R >= 0 /\ R \in Int /\ P \in Int /\ Len(rx.q) \in Int /\ made \in Int /\ Depth \in Int
        BY <1>1, <1>3
      <4>2. A \in Int /\ taking \in Int /\ Taking \in Int
        BY <2>0
      <4>3. 2 * (Len(rx.q) + R - P) + (made + A) + taking >= 2 * Depth - 1
        BY <3>1, <3>4, <4>1, <4>2, StillLeft
      <4> QED BY <2>6, <3>3, <4>3
    <3> QED BY <3>2, <3>5 DEF taking
  <2> QED BY <2>1, <2>2
<1>10. ASSUME Unserved(prog')
       PROVE  unread <= 1 + behind'
  <2>1. CASE Unserved(prog)
    <3>1. P = 0
      <4>1. ~rx.rinc
        <5>1. CASE prog.pc \in {"bsend", "bwait"}
          BY <1>7, <5>1 DEF Latched, Takes
        <5>2. CASE prog.pc = "btake" /\ prog.i = 0
          <6>1. ~Phase("access")
            BY <1>3, <1>6, <1>10, <5>2 DEF Follows, Unserved
          <6> QED BY <1>6, <5>2, <6>1
        <5> QED BY <2>1, <5>1, <5>2 DEF Unserved
      <4> QED BY <1>1, <4>1
    <3>2. Unread <= 1 + behind /\ behind' = behind + E
      BY <1>1, <1>3, <1>5, <1>7, <1>10, <2>1 DEF Crowded
    <3> QED BY <1>1, <1>2, <1>3, <3>1, <3>2
  <2>2. CASE ~Unserved(prog)
    <3>1. prog.pc = "bsend" /\ prog.i = 0
      BY <1>3, <1>6, <1>7, <1>10, <2>2 DEF Follows, Unserved, Program, Places, Still, Sends, Takes, Polls, Batch
    <3>2. Owed <= 1
      BY <1>7, <3>1 DEF Bounds
    <3>3. behind' = 0
      BY <1>5, <2>2
    <3> QED BY <1>1, <1>2, <1>4, <3>2, <3>3
  <2> QED BY <2>1, <2>2
<1>11. Unserved(prog)' => Unread' <= 1 + behind'
  BY <1>10 DEF Unserved, unread
<1> QED BY <1>9, <1>11 DEF Crowded

\* A batch begins where a multiple of the FIFO's depth has been stored.
LEMMA StoredCycle ==
  ASSUME Fits, BootInv, NEW tick \in BOOLEAN, Cycle(tick), OnTime'
  PROVE  Stored'
<1>1. buf' = IF prog.pc \notin Batch /\ prog.why = "token" THEN <<>>
             ELSE IF prog.pc = "btake" /\ Phase("access") THEN Append(buf, Dout) ELSE buf
  BY DEF Cycle, Loader, Phase
<1>2. PICK S : buf \in Seq(S)
  BY DEF BootInv, Stored
<1>3. \E T : buf' \in Seq(T)
  <2>1. CASE buf' = <<>>
    BY <2>1
  <2>2. CASE buf' = buf
    BY <1>2, <2>2
  <2>3. CASE buf' = Append(buf, Dout)
    <3>1. buf \in Seq(S \cup {Dout})
      BY <1>2, SeqMonotonic, S \subseteq S \cup {Dout}
    <3>2. buf' \in Seq(S \cup {Dout})
      BY <2>3, <3>1, AppendProperties
    <3> QED BY <3>2
  <2> QED BY <1>1, <2>1, <2>2, <2>3
<1>4. /\ ~Phase("access") => prog' = prog
      /\ Phase("access") => Follows(prog', Dout) /\ prog.pc \notin {"failed", "booted"}
      /\ prog.pc \in Places
      /\ prog.pc \in Batch => prog.i \in 0 .. Depth - 1
      /\ prog.pc \in Batch => /\ Len(buf) < BlockBytes
                              /\ Len(buf) % Depth = IF prog.pc = "bsend" THEN 0 ELSE prog.i
      /\ Depth \in Nat /\ Depth >= 8 /\ BlockBytes \in Nat \ {0}
  BY CycleGoes, SpiAssumption, BootAssumption DEF BootInv, Program, Stored, Fits
<1>5. ASSUME prog'.pc \in Batch
      PROVE  /\ Len(buf') < BlockBytes
             /\ Len(buf') % Depth = IF prog'.pc = "bsend" THEN 0 ELSE prog'.i
  <2>1. \/ prog.pc \in Batch /\ ~Phase("access") /\ prog' = prog
        \/ prog.pc = "take" /\ prog.why = "token" /\ prog'.pc = "bsend"
        \/ prog.pc = "bsend" /\ (prog'.pc = "bsend" \/ prog'.i = 0)
        \/ prog.pc = "bwait" /\ prog'.pc # "bsend" /\ prog'.i = prog.i
        \/ /\ prog.pc = "btake" /\ Phase("access") /\ Len(buf) + 1 # BlockBytes
           /\ IF prog.i + 1 = Depth THEN prog'.pc = "bsend"
              ELSE prog'.pc = "bwait" /\ prog'.i = prog.i + 1
    BY <1>4, <1>5 DEF Follows, Places, Still, Sends, Takes, Polls, Batch
  <2>2. CASE prog.pc \in Batch /\ ~Phase("access") /\ prog' = prog
    BY <1>1, <1>4, <2>2
  <2>3. CASE prog.pc = "take" /\ prog.why = "token" /\ prog'.pc = "bsend"
    BY <1>1, <1>4, <2>3 DEF Batch
  <2>4. CASE prog.pc = "bsend" /\ (prog'.pc = "bsend" \/ prog'.i = 0)
    BY <1>1, <1>4, <2>4 DEF Batch
  <2>5. CASE prog.pc = "bwait" /\ prog'.pc # "bsend" /\ prog'.i = prog.i
    BY <1>1, <1>4, <2>5 DEF Batch
  <2>6. CASE /\ prog.pc = "btake" /\ Phase("access") /\ Len(buf) + 1 # BlockBytes
             /\ IF prog.i + 1 = Depth THEN prog'.pc = "bsend"
                ELSE prog'.pc = "bwait" /\ prog'.i = prog.i + 1
    <3>1. Len(buf') = Len(buf) + 1
      <4>1. buf' = Append(buf, Dout)
        BY <1>1, <2>6 DEF Batch
      <4>2. buf \in Seq(S \cup {Dout})
        BY <1>2, SeqMonotonic, S \subseteq S \cup {Dout}
      <4> QED BY <4>1, <4>2, AppendProperties
    <3>2. /\ Len(buf) \in Nat /\ Len(buf) < BlockBytes
          /\ (Len(buf) + 1) % Depth = IF prog.i + 1 = Depth THEN 0 ELSE prog.i + 1
      BY <1>4, <2>6, LastOfBatch
    <3>3. Len(buf') < BlockBytes
      BY <1>4, <2>6, <3>1, <3>2
    <3> QED BY <2>6, <3>1, <3>2, <3>3
  <2> QED BY <2>1, <2>2, <2>3, <2>4, <2>5, <2>6
<1> QED BY <1>3, <1>5 DEF Stored

\* What a cycle may do to the controller and to a loader that is not late never
\* leaves BootInv.
LEMMA BootInvNext ==
  ASSUME Fits, BootInv, [Next]_vars, OnTime'
  PROVE  BootInv'
<1>1. CASE UNCHANGED vars
  <2>1. /\ UNCHANGED <<tx, rx, apb, Dout, IP, RegLoaded, start, StartD, curr, half>>
        /\ UNCHANGED <<prog, buf, behind, made>>
    BY <1>1 DEF vars, spiVars
  <2>2. Controller' /\ Roomy'
    BY <2>1 DEF BootInv, Controller, Inv, Registers, Frames, Roomy, Unpopped, Loaded, Transmitting
  <2>3. Program(prog)' /\ OnBus' /\ Pacing' /\ Stored'
    BY <2>1 DEF BootInv, Program, OnBus, Pacing, Stored, Halted, SPI, Phase, Busy, Unserved
  <2>4. /\ Queued' = Queued /\ Unread' = Unread /\ Line' = Line /\ Taking' = Taking
        /\ \A n : Answer(n)' <=> Answer(n)
    BY <2>1 DEF Queued, Unread, Line, Taking, Loaded, Transmitting, Unpopped, Phase, Answer
  <2>5. Owed' = Owed /\ Unsent' = Unsent
    BY <2>4 DEF Owed, Unsent
  <2>6. Latched'
    BY <2>1, <2>4 DEF BootInv, Latched, Phase, Brim
  <2>7. Bounds'
    BY <2>1, <2>4, <2>5 DEF BootInv, Bounds, Phase
  <2>8. Crowded'
    BY <2>1, <2>4 DEF BootInv, Crowded, Unserved
  <2> QED BY <2>2, <2>3, <2>6, <2>7, <2>8 DEF BootInv
<1>2. CASE Next
  <2>1. PICK tick \in BOOLEAN : Cycle(tick)
    BY <1>2 DEF Next
  <2>2. Controller' /\ OnBus' /\ Pacing'
    BY <2>1, CycleCounts
  <2>3. Roomy' /\ Latched' /\ Bounds' /\ Crowded' /\ Stored'
    BY <2>1, RoomyCycle, LatchedCycle, BoundsCycle, CrowdedCycle, StoredCycle
  <2>4. Program(prog)'
    BY <2>1, CycleGoes DEF BootInv
  <2> QED BY <2>2, <2>3, <2>4 DEF BootInv
<1> QED BY <1>1, <1>2

\* Nothing is on its way at the start.
LEMMA BootInvInit ==
  ASSUME Fits, Init
  PROVE  BootInv
<1>1. /\ prog.pc = "off" /\ prog.why = "warm" /\ prog.cmd = 0 /\ DOMAIN prog = Fields
      /\ buf = <<>> /\ behind = 0 /\ made = 0
  BY DEF Init, Fields
<1>2. Most \in Nat \ {0} /\ Depth \in Nat \ {0} /\ Halves \in Nat /\ Halves > 2
  BY SpiAssumption, BootAssumption
<1>3. /\ tx.q = <<>> /\ ~tx.winc /\ ~tx.rinc /\ ~tx.full /\ tx.empty
      /\ rx.q = <<>> /\ ~rx.winc /\ ~rx.rinc /\ ~rx.full /\ rx.empty
      /\ RegLoaded = FALSE /\ StartD = FALSE /\ start = "READY" /\ curr = "INACTIVE" /\ half = 0
      /\ apb = NoTransfer /\ apb.phase = "idle"
  BY DEF Init, SpiInit, EmptyFifo, NoTransfer
<1>4. Controller
  <2>1. Inv
    BY InvInit
  <2>2. Registers
    <3>1. half \in 0 .. Halves - 1
      BY <1>2, <1>3
    <3>2. RegLoaded \in BOOLEAN /\ StartD \in BOOLEAN
      BY <1>3
    <3> QED BY <1>3, <3>1, <3>2 DEF Registers
  <2>3. Frames
    BY <1>3 DEF Frames, Unpopped, Loaded, Transmitting
  <2> QED BY <2>1, <2>2, <2>3 DEF Controller
<1>5. Roomy /\ OnBus
  BY <1>3 DEF Roomy, OnBus
<1>6. Program(prog)
  BY <1>1 DEF Program, Places, Still, Sends, Takes, Polls, Batch, Reasons, Commands
<1>7. Pacing
  BY <1>1, <1>2, <1>3 DEF Pacing, Busy
<1>8. Latched
  BY <1>1, <1>3 DEF Latched, Phase, Sends
<1>9. Owed = 0
  BY <1>3 DEF Owed, Unsent, Queued, Unread, Line, Bit, Loaded, Transmitting
<1>10. Bounds
  BY <1>1, <1>9 DEF Bounds
<1>11. Stored
  BY <1>1 DEF Stored, Batch
<1>12. Crowded
  BY <1>1, <1>3 DEF Crowded, Unserved
<1> QED BY <1>4, <1>5, <1>6, <1>7, <1>8, <1>10, <1>11, <1>12 DEF BootInv

\* A loader that has come too late has done so for good.
BootInvOnTime == behind \in 0 .. Depth /\ (OnTime => BootInv)

\* So what holds of loaders that are not late needs no word on those that are.
LEMMA OnTimeNext ==
  ASSUME Fits, BootInvOnTime, [Next]_vars
  PROVE  BootInvOnTime' /\ (OnTime' => OnTime)
<1>1. Depth \in Nat \ {0} /\ behind \in 0 .. Depth
  BY SpiAssumption DEF BootInvOnTime
<1>2. \/ behind' = behind
      \/ behind' = IF behind = Depth THEN Depth
                   ELSE IF ~Unserved(prog) THEN 0
                   ELSE behind + 1
  BY DEF Next, Cycle, Lags, vars
<1>3. behind' \in 0 .. Depth /\ (behind' < Depth => behind < Depth)
  BY <1>1, <1>2
<1>4. OnTime' => OnTime
  BY <1>3 DEF OnTime
<1>5. OnTime' => BootInv'
  BY <1>4, BootInvNext DEF BootInvOnTime
<1> QED BY <1>3, <1>4, <1>5 DEF BootInvOnTime

\* No byte that matters is dropped (NothingDropped), however many blocks are read,
\* whatever the divider is set to and however the cycles fall between the accesses:
\* but in a batch, fewer bytes are on their way than a FIFO holds, and in one only
\* as many as have been written and not read, and the one left behind.
THEOREM NothingIsDropped ==
  ASSUME Fits
  PROVE  Spec => NothingDropped
<1>1. Init => BootInvOnTime
  BY BootInvInit, SpiAssumption DEF Init, BootInvOnTime
<1>2. BootInvOnTime /\ [Next]_vars => BootInvOnTime'
  BY OnTimeNext
<1>3. BootInvOnTime /\ [Next]_vars =>
        [OnTime' => /\ Memwrite("TXDATA") /\ tx.full => prog.pc = "bsend" /\ prog.i = Depth - 1
                    /\ ~(rx'.winc /\ rx'.full)]_vars
  <2> SUFFICES ASSUME BootInvOnTime, [Next]_vars, OnTime'
               PROVE  /\ Memwrite("TXDATA") /\ tx.full => prog.pc = "bsend" /\ prog.i = Depth - 1
                      /\ ~(rx'.winc /\ rx'.full)
    OBVIOUS
  <2>1. BootInv /\ BootInv'
    BY OnTimeNext DEF BootInvOnTime
  <2>2. Memwrite("TXDATA") /\ tx.full => Brim
    BY <2>1, BusMeans DEF BootInv, Latched
  <2> QED BY <2>1, <2>2 DEF BootInv, Roomy, Brim
<1> QED BY <1>1, <1>2, <1>3, PTL DEF Spec, NothingDropped
-----------------------------------------------------------------------------
(***************************************************************************)
(* What the bytes on their way are.  Outgoing is what the card has not     *)
(* heard yet, and Stream what the loader has not read, down to what the    *)
(* card is to say.                                                         *)
(***************************************************************************)
IsSeq(s) == \E S : s \in Seq(S)
Sent == IF tx.winc THEN Append(tx.q, TransmitData) ELSE tx.q
Outgoing == IF Line = 1 THEN <<TransmitReg>> \o Sent ELSE Sent
Coming == IF rx.winc THEN Append(rx.q, ReceiveReg) ELSE rx.q
Stream == Coming \o card.out

\* A byte that is nothing else than it seems, and one with bit 7 clear.
Plain(b) == b # Token /\ ~Anything(b)
Low(b) == Plain(b) /\ b # Ones
AllOnes(g) == \A x \in 1 .. Len(g) : g[x] = Ones
Junk(s, j) == \A x \in 1 .. Len(s) : x > j => Plain(s[x])
Quiet(s) == Junk(s, 0)
Mute(s, next) == Quiet(s) /\ next = <<>>

\* Block n of a read, with its token at t, or read already if t is 0 or below.
Lies(s, job, n, t) ==
  /\ t \in Int /\ t + BlockBytes + 2 <= Len(s)
  /\ t \in 1 .. Len(s) => s[t] = Token
  /\ t + BlockBytes + 1 \in 1 .. Len(s) => s[t + BlockBytes + 1] = <<"crc", job, n, 1>>

\* The blocks from n up to m, with their tokens at at[n] and so on, and nothing
\* between them that may be taken for a token.
Chain(s, job, n, m, at) ==
  /\ n \in Int /\ m \in Int /\ n <= m
  /\ \A k \in n .. m - 1 : Lies(s, job, k, at[k])
  /\ \A k, l \in n .. m - 1 : k < l => at[k] + BlockBytes + 2 < at[l]
  /\ \A x \in 1 .. Len(s) :
       Plain(s[x]) \/ \E k \in n .. m - 1 : at[k] <= x /\ x <= at[k] + BlockBytes + 2

\* Blocks from n on are to come, the first token no sooner than at least, or its
\* token is at t.
Begins(s, next, job, n, least) == \E m, at :
  next = <<job, m>> /\ Chain(s, job, n, m, at) /\ \A k \in n .. m - 1 : at[k] >= least
Reads(s, next, job, n, t) == \E m, at :
  next = <<job, m>> /\ Chain(s, job, n, m, at) /\ n < m /\ at[n] = t

\* The response to CMD18 has not been read, if there is one.
Answered(s, next, job) == \E q \in 1 .. Len(s) : Low(s[q]) /\ Begins(s, next, job, 1, q + 2)

\* The last n bytes sent are the command and what follows it, and done of them
\* have been heard.
Byte(cmd, job, y) == IF y \in 1 .. 6 THEN <<"cmd", cmd, IF cmd = 18 THEN job ELSE 0, y>> ELSE Ones
Said(g, cmd, job, n) == \A x \in 1 .. Len(g) : g[x] = Byte(cmd, job, x - Len(g) + n)
Heard(s, c, cmd, job, done, j) ==
  CASE cmd = 12 -> IF done < 6 THEN c.sends # <<>> /\ (done > 0 => c.heard = Byte(12, job, done))
                   ELSE c.sends = <<>> /\ Junk(s, j)
    [] cmd = 18 -> \/ Mute(s, c.sends)
                   \/ /\ done = 6 /\ Quiet(s) /\ c.sends = <<job, 1>>
                      /\ Len(c.out) > 0 /\ Low(c.out[Len(c.out)])
                   \/ done > 6 /\ Answered(s, c.sends, job)
    [] OTHER    -> Mute(s, c.sends)

\* The loader p has sent n bytes of its command, or all; it reads a block whose
\* token is at t; it looks for one.
Uttered(p, g, s, c, o, n) ==
  Said(g, p.cmd, p.job, n) /\ Heard(s, c, p.cmd, p.job, n - Len(g), o + 7 - n)
Over(p, g, s, c, j) == AllOnes(g) /\ Heard(s, c, p.cmd, p.job, 7, j)
Streaming(p, g, s, c, t) ==
  AllOnes(g) /\ p.cmd = 18 /\ Reads(s, c.sends, p.job, p.block, t)
Searching(p, g, s, c, least) ==
  AllOnes(g) /\ p.cmd = 18 /\ (Mute(s, c.sends) \/ Begins(s, c.sends, p.job, p.block, least))

\* What is on its way at each of the loader's accesses: o bytes are, and late
\* tells of one more that leaves.
Contents(p, g, s, c, o, late, stored) ==
  LET pc == p.pc  why == p.why IN
  /\ why = "warm" => p.cmd = 0 /\ Over(p, g, s, c, o)
  /\ why = "lead" /\ pc \in {"hold", "dummy", "waitrx", "take"} => Uttered(p, g, s, c, o, 0)
  /\ pc = "send" => Uttered(p, g, s, c, o, p.i - 1)
  /\ pc \in {"waittx", "drain"} => Uttered(p, g, s, c, o, 6)
  /\ why = "poll" /\ pc = "dummy" => (~late /\ Over(p, g, s, c, o + 1)) \/ Uttered(p, g, s, c, o, 6)
  /\ why = "poll" /\ pc = "waitrx" => Over(p, g, s, c, o) \/ Uttered(p, g, s, c, o, 7)
  /\ why = "poll" /\ pc = "take" => Over(p, g, s, c, o)
  /\ why = "rest" => p.cmd # 18
  /\ why = "rest" /\ pc = "dummy" => Over(p, g, s, c, o)
  /\ why = "rest" /\ pc \in {"waitrx", "take"} => Over(p, g, s, c, o - 1)
  /\ pc = "release" => AllOnes(g) /\ Mute(s, c.sends)
  /\ why = "tail" => Searching(p, g, s, c, 2)
  /\ why = "token" => IF pc \in Batch THEN Streaming(p, g, s, c, -stored) ELSE Searching(p, g, s, c, 1)
  /\ why = "crc" => \/ p.i = 0 /\ Streaming(p, g, s, c, -BlockBytes)
                    \/ /\ p.i = 1 /\ Streaming(p, g, s, c, -BlockBytes - 1)
                       /\ p.r = <<"crc", p.job, p.block, 1>>

\* The loader is where it can be for what it has set out to do.
Ordering(p) ==
  /\ p.block \in Int
  /\ p.cmd = 18 /\ p.why \in {"lead", "poll", "tail"} => p.block = 1
  /\ p.pc \in CASE p.why = "warm" -> {"off", "auto", "dummy", "waitrx", "take"}
                [] p.why = "lead" -> {"hold", "dummy", "waitrx", "take", "send", "waittx", "drain"}
                [] p.why \in {"poll", "rest"} -> {"dummy", "waitrx", "take", "release"}
                [] p.why \in {"tail", "crc"} -> {"dummy", "waitrx", "take"}
                [] p.why = "token" -> {"dummy", "waitrx", "take"} \cup Batch

\* The card is selected, and sends nothing while it is not; the loader reads the
\* byte that is first of the stream.
CardFields == {"heard", "out", "sends"}
Selecting ==
  /\ prog.pc # "hold" /\ prog.why # "warm" => CSMode = "HOLD"
  /\ card.sends # <<>> => CSMode = "HOLD" /\ curr \in {"TRANSMIT", "HOLD"}
  /\ DOMAIN card = CardFields /\ IsSeq(card.out)
Reading ==
  /\ Unpopped => TransmitReg = tx.q[1]
  /\ Phase("access") /\ prog.pc \in {"take", "btake"} => Dout = Stream[1]
  /\ rx.rinc /\ Phase("done") /\ prog.pc = "dummy" => prog.why = "poll"

\* The invariant of the bytes on their way, while the loader runs.
Ahead == /\ Contents(prog, Outgoing, Stream, card, Owed, rx.rinc, Len(buf))
         /\ Ordering(prog) /\ Selecting /\ Reading
IntactInv == ~Halted => Ahead
-----------------------------------------------------------------------------
(***************************************************************************)
(* Sequences.                                                              *)
(***************************************************************************)
\* A sequence has a length.
LEMMA Lengths ==
  ASSUME NEW s, IsSeq(s)
  PROVE  Len(s) \in Nat /\ (s = <<>> <=> Len(s) = 0) /\ (s # <<>> => Head(s) = s[1])
<1>1. PICK S : s \in Seq(S)
  BY DEF IsSeq
<1>2. s = <<>> <=> Len(s) = 0
  BY <1>1, EmptySeq
<1> QED BY <1>1, <1>2, LenProperties

\* Any two sequences are over one set.
LEMMA Together ==
  ASSUME NEW s, IsSeq(s), NEW t, IsSeq(t)
  PROVE  \E S : s \in Seq(S) /\ t \in Seq(S)
<1>1. PICK S : s \in Seq(S)
  BY DEF IsSeq
<1>2. PICK T : t \in Seq(T)
  BY DEF IsSeq
<1>3. s \in Seq(S \cup T)
  BY <1>1, SeqMonotonic, S \subseteq S \cup T
<1>4. t \in Seq(S \cup T)
  BY <1>2, SeqMonotonic, T \subseteq S \cup T
<1> QED BY <1>3, <1>4

\* Sequences in a row.
LEMMA Joined ==
  ASSUME NEW s, IsSeq(s), NEW t, IsSeq(t)
  PROVE  /\ IsSeq(s \o t) /\ Len(s \o t) = Len(s) + Len(t)
         /\ Len(s) \in Nat /\ Len(t) \in Nat
         /\ \A x \in 1 .. Len(s) : (s \o t)[x] = s[x]
         /\ \A x \in Len(s) + 1 .. Len(s) + Len(t) : (s \o t)[x] = t[x - Len(s)]
<1>1. PICK S : s \in Seq(S) /\ t \in Seq(S)
  BY Together
<1>2. s \o t \in Seq(S)
  BY <1>1, ConcatProperties
<1>3. Len(s) \in Nat /\ Len(t) \in Nat
  BY <1>1, LenProperties
<1>4. /\ Len(s \o t) = Len(s) + Len(t)
      /\ \A i \in 1 .. Len(s) + Len(t) : (s \o t)[i] = IF i <= Len(s) THEN s[i] ELSE t[i - Len(s)]
  BY <1>1, ConcatProperties
<1>5. \A x \in 1 .. Len(s) : (s \o t)[x] = s[x]
  BY <1>3, <1>4
<1>6. \A x \in Len(s) + 1 .. Len(s) + Len(t) : (s \o t)[x] = t[x - Len(s)]
  BY <1>3, <1>4
<1> QED BY <1>2, <1>3, <1>4, <1>5, <1>6 DEF IsSeq

\* A sequence and one more.
LEMMA Added ==
  ASSUME NEW s, IsSeq(s), NEW b
  PROVE  /\ IsSeq(Append(s, b)) /\ Len(Append(s, b)) = Len(s) + 1 /\ Len(s) \in Nat
         /\ \A x \in 1 .. Len(s) : Append(s, b)[x] = s[x]
         /\ Append(s, b)[Len(s) + 1] = b
<1>1. PICK S : s \in Seq(S)
  BY DEF IsSeq
<1>2. s \in Seq(S \cup {b})
  BY <1>1, SeqMonotonic, S \subseteq S \cup {b}
<1> QED BY <1>2, AppendProperties, LenProperties DEF IsSeq

\* A sequence but for its first.
LEMMA Tailed ==
  ASSUME NEW s, IsSeq(s), Len(s) > 0
  PROVE  /\ IsSeq(Tail(s)) /\ Len(Tail(s)) = Len(s) - 1 /\ Len(s) \in Nat
         /\ \A x \in 1 .. Len(s) - 1 : Tail(s)[x] = s[x + 1]
<1>1. PICK S : s \in Seq(S)
  BY DEF IsSeq
<1>2. s # <<>> /\ Len(s) \in Nat
  BY <1>1, EmptySeq, LenProperties
<1> QED BY <1>1, <1>2, HeadTailProperties DEF IsSeq

\* Short sequences.
LEMMA Short ==
  /\ IsSeq(<<>>) /\ Len(<<>>) = 0
  /\ \A b : IsSeq(<<b>>) /\ Len(<<b>>) = 1 /\ <<b>>[1] = b
<1>1. <<>> \in Seq({}) /\ Len(<<>>) = 0
  BY EmptySeq
<1>2. ASSUME NEW b
      PROVE  <<b>> \in Seq({b}) /\ Len(<<b>>) = 1 /\ <<b>>[1] = b
  OBVIOUS
<1> QED BY <1>1, <1>2 DEF IsSeq

\* They are the same if they say the same.
LEMMA Same ==
  ASSUME NEW s, IsSeq(s), NEW t, IsSeq(t), Len(s) = Len(t), \A x \in 1 .. Len(s) : s[x] = t[x]
  PROVE  s = t
BY Together, SeqEqual

\* What is in front leaves a row.
LEMMA TailOfJoined ==
  ASSUME NEW s, IsSeq(s), NEW t, IsSeq(t), Len(s) > 0
  PROVE  Tail(s) \o t = Tail(s \o t) /\ (s \o t)[1] = s[1]
<1>0. IsSeq(s \o t) /\ Len(s) \in Nat /\ Len(t) \in Nat /\ Len(s \o t) = Len(s) + Len(t)
  BY Joined
<1> DEFINE a == Tail(s)  z == s \o t
<1>1. IsSeq(a) /\ Len(a) = Len(s) - 1 /\ \A x \in 1 .. Len(s) - 1 : a[x] = s[x + 1]
  BY Tailed
<1>2. /\ IsSeq(z) /\ Len(z) = Len(s) + Len(t)
      /\ \A x \in 1 .. Len(s) : z[x] = s[x]
      /\ \A x \in Len(s) + 1 .. Len(s) + Len(t) : z[x] = t[x - Len(s)]
  BY Joined
<1>3. /\ IsSeq(a \o t) /\ Len(a \o t) = Len(a) + Len(t)
      /\ \A x \in 1 .. Len(a) : (a \o t)[x] = a[x]
      /\ \A x \in Len(a) + 1 .. Len(a) + Len(t) : (a \o t)[x] = t[x - Len(a)]
  BY <1>1, Joined
<1>4. /\ IsSeq(Tail(z)) /\ Len(Tail(z)) = Len(z) - 1
      /\ \A x \in 1 .. Len(z) - 1 : Tail(z)[x] = z[x + 1]
  <2>1. Len(z) > 0
    BY <1>0, <1>2
  <2> HIDE DEF z
  <2> QED BY <1>2, <2>1, Tailed
<1> HIDE DEF a, z
<1>5. \A x \in 1 .. Len(a \o t) : (a \o t)[x] = Tail(z)[x]
  <2> TAKE x \in 1 .. Len(a \o t)
  <2>1. CASE x <= Len(a)
    BY <1>0, <1>1, <1>2, <1>3, <1>4, <2>1
  <2>2. CASE x > Len(a)
    <3>1. (a \o t)[x] = t[x - Len(a)]
      BY <1>0, <1>1, <1>3, <2>2
    <3>2. Tail(z)[x] = z[x + 1]
      BY <1>0, <1>1, <1>2, <1>3, <1>4
    <3>3. z[x + 1] = t[(x + 1) - Len(s)]
      BY <1>0, <1>1, <1>2, <1>3, <2>2
    <3>4. (x + 1) - Len(s) = x - Len(a)
      BY <1>0, <1>1, <1>3
    <3> QED BY <3>1, <3>2, <3>3, <3>4
  <2>3. Len(a) \in Int /\ Len(a \o t) \in Int
    BY <1>0, <1>1, <1>3
  <2>4. x <= Len(a) \/ x > Len(a)
    BY <2>3
  <2> QED BY <2>1, <2>2, <2>4
<1>6. Len(a \o t) = Len(Tail(z))
  BY <1>0, <1>1, <1>2, <1>3, <1>4
<1>7. a \o t = Tail(z)
  BY <1>3, <1>4, <1>5, <1>6, Same
<1>8. z[1] = s[1]
  BY <1>0, <1>2
<1> QED BY <1>7, <1>8 DEF a, z

\* A row gets one more at its end.
LEMMA AppendJoined ==
  ASSUME NEW s, IsSeq(s), NEW t, IsSeq(t), NEW b
  PROVE  Append(s \o t, b) = s \o Append(t, b)
<1>1. PICK S : s \in Seq(S) /\ t \in Seq(S)
  BY Together
<1> DEFINE B == S \cup {b}
<1>2. s \in Seq(B) /\ t \in Seq(B) /\ <<b>> \in Seq(B)
  BY <1>1, SeqMonotonic, S \subseteq B
<1>3. s \o t \in Seq(B)
  BY <1>2, ConcatProperties
<1>4. Append(s \o t, b) = (s \o t) \o <<b>> /\ Append(t, b) = t \o <<b>>
  BY <1>2, <1>3, AppendIsConcat, b \in B
<1> QED BY <1>2, <1>4, ConcatAssociative

\* A row with nothing.
LEMMA JoinedEmpty ==
  ASSUME NEW s, IsSeq(s)
  PROVE  s \o <<>> = s /\ <<>> \o s = s
BY ConcatEmptySeq DEF IsSeq

\* The first of what comes behind moves up to what is in front.
LEMMA HeadMoves ==
  ASSUME NEW s, IsSeq(s), NEW t, IsSeq(t), Len(t) > 0
  PROVE  Append(s, t[1]) \o Tail(t) = s \o t
<1>1. PICK S : s \in Seq(S) /\ t \in Seq(S)
  BY Together
<1>2. t # <<>> /\ t = <<Head(t)>> \o Tail(t) /\ Head(t) = t[1] /\ t[1] \in S /\ Tail(t) \in Seq(S)
  <2>1. t # <<>> /\ Len(t) \in Nat
    BY <1>1, EmptySeq, LenProperties
  <2>2. t = SubSeq(t, 1, Len(t)) /\ Tail(t) = SubSeq(t, 2, Len(t))
    BY <1>1, <2>1, SubSeqFull, TailIsSubSeq
  <2>3. SubSeq(t, 1, Len(t)) = <<t[1]>> \o SubSeq(t, 1 + 1, Len(t))
    BY <1>1, <2>1, SubSeqRecursiveFirst
  <2>4. Head(t) = t[1] /\ Head(t) \in S /\ Tail(t) \in Seq(S)
    BY <1>1, <2>1, HeadTailProperties
  <2> QED BY <2>1, <2>2, <2>3, <2>4
<1>3. Append(s, t[1]) = s \o <<t[1]>>
  BY <1>1, <1>2, AppendIsConcat
<1>4. <<t[1]>> \in Seq(S)
  BY <1>2
<1>5. (s \o <<t[1]>>) \o Tail(t) = s \o (<<t[1]>> \o Tail(t))
  BY <1>1, <1>2, <1>4, ConcatAssociative
<1> QED BY <1>2, <1>3, <1>5
-----------------------------------------------------------------------------
(***************************************************************************)
(* What the card says.                                                     *)
(***************************************************************************)
\* What some bytes are.
LEMMA Bytes ==
  /\ Plain(Ones) /\ ~Low(Ones)
  /\ \A s : Low(R1(s))
  /\ \A k : Plain(<<"r7", k>>)
  /\ Plain(<<"busy">>)
  /\ ~Plain(Token)
<1>1. Ones[1] = "ff" /\ Token[1] = "fe" /\ \A s : R1(s)[1] = "r1"
  BY DEF Ones, Token, R1
<1>2. \A k : <<"r7", k>>[1] = "r7"
  OBVIOUS
<1>3. <<"busy">>[1] = "busy"
  OBVIOUS
<1> HIDE DEF Ones, Token, R1
<1> QED BY <1>1, <1>2, <1>3 DEF Plain, Low, Anything

\* Idle bytes.
LEMMA Gap ==
  ASSUME NEW least \in Nat, NEW gap \in Gaps(least)
  PROVE  IsSeq(gap) /\ Len(gap) \in Nat /\ Len(gap) >= least /\ AllOnes(gap)
<1>1. PICK n \in least .. MaxGap : gap = [i \in 1 .. n |-> Ones]
  BY DEF Gaps
<1>2. n \in Nat
  BY <1>1, BootAssumption
<1>3. gap \in Seq({Ones}) /\ Len(gap) = n
  BY <1>1, <1>2
<1>4. \A x \in 1 .. n : gap[x] = Ones
  BY <1>1
<1>5. n >= least
  BY <1>1, <1>2
<1> QED BY <1>2, <1>3, <1>4, <1>5 DEF IsSeq, AllOnes

\* A block is idle bytes, its token, its data and its checksum.
LEMMA BlockShape ==
  ASSUME NEW job, NEW n, NEW o \in Blocks(job, n)
  PROVE  /\ IsSeq(o)
         /\ \E u \in Nat : /\ u >= 2 /\ Len(o) = u + BlockBytes + 2 /\ o[u] = Token
                           /\ o[u + BlockBytes + 1] = <<"crc", job, n, 1>>
                           /\ \A x \in 1 .. u - 1 : Plain(o[x])
<1>0. BlockBytes \in Nat \ {0}
  BY BootAssumption
<1>1. PICK gap \in Gaps(1), data \in {Data(job, n), [Data(job, n) EXCEPT ![BlockBytes][4] = 0]} :
        o = gap \o <<Token>> \o data \o CRC(job, n)
  <2> DEFINE D == {Data(job, n), [Data(job, n) EXCEPT ![BlockBytes][4] = 0]}
             B(gap, data) == gap \o <<Token>> \o data \o CRC(job, n)
  <2>1. Blocks(job, n) = {B(gap, data) : gap \in Gaps(1), data \in D}
    BY DEF Blocks
  <2> HIDE DEF B, D
  <2>2. \E gap \in Gaps(1), data \in D : o = B(gap, data)
    BY <2>1
  <2> QED BY <2>2 DEF B, D
<1>2. IsSeq(gap) /\ Len(gap) \in Nat /\ Len(gap) >= 1 /\ AllOnes(gap)
  BY Gap
<1>3. IsSeq(data) /\ Len(data) = BlockBytes
  <2>1. Data(job, n) \in Seq({Data(job, n)[j] : j \in 1 .. BlockBytes}) /\ Len(Data(job, n)) = BlockBytes
    BY <1>0 DEF Data
  <2>2. CASE data = Data(job, n)
    BY <2>1, <2>2 DEF IsSeq
  <2>3. CASE data = [Data(job, n) EXCEPT ![BlockBytes][4] = 0]
    <3>1. data = [j \in 1 .. BlockBytes |-> data[j]]
      BY <2>3 DEF Data
    <3>2. data \in Seq({data[j] : j \in 1 .. BlockBytes}) /\ Len(data) = BlockBytes
      BY <1>0, <3>1
    <3> QED BY <3>2 DEF IsSeq
  <2> QED BY <2>2, <2>3
<1>4. IsSeq(CRC(job, n)) /\ Len(CRC(job, n)) = 2 /\ CRC(job, n)[1] = <<"crc", job, n, 1>>
  <2>1. CRC(job, n) \in Seq({<<"crc", job, n, 1>>, <<"crc", job, n, 2>>})
    BY DEF CRC
  <2> QED BY <2>1 DEF CRC, IsSeq
<1> DEFINE a == gap \o <<Token>>  d == a \o data  r == CRC(job, n)  u == Len(gap) + 1
<1>5. /\ IsSeq(a) /\ Len(a) = u /\ a[u] = Token
      /\ \A x \in 1 .. u - 1 : a[x] = Ones
  <2>1. /\ IsSeq(<<Token>>) /\ Len(<<Token>>) = 1 /\ <<Token>>[1] = Token
    BY Short
  <2> HIDE DEF Token
  <2>2. /\ IsSeq(a) /\ Len(a) = Len(gap) + 1
        /\ \A x \in 1 .. Len(gap) : a[x] = gap[x]
        /\ \A x \in Len(gap) + 1 .. Len(gap) + 1 : a[x] = <<Token>>[x - Len(gap)]
    BY <1>2, <2>1, Joined
  <2>3. a[u] = Token
    BY <1>2, <2>1, <2>2
  <2> QED BY <1>2, <2>2, <2>3 DEF AllOnes
<1> HIDE DEF a, r, u
<1>6. u \in Nat /\ u >= 2
  BY <1>2 DEF u
<1>7. /\ IsSeq(d) /\ Len(d) = u + BlockBytes
      /\ \A x \in 1 .. u : d[x] = a[x]
  <2>1. /\ IsSeq(a \o data) /\ Len(a \o data) = Len(a) + Len(data)
        /\ \A x \in 1 .. Len(a) : (a \o data)[x] = a[x]
    BY <1>3, <1>5, Joined, ZenonT(40)
  <2> QED BY <1>3, <1>5, <2>1
<1> HIDE DEF d
<1>8. /\ IsSeq(d \o r) /\ Len(d \o r) = u + BlockBytes + 2
      /\ \A x \in 1 .. u + BlockBytes : (d \o r)[x] = d[x]
      /\ \A x \in u + BlockBytes + 1 .. u + BlockBytes + 2 : (d \o r)[x] = r[x - (u + BlockBytes)]
  <2>1. IsSeq(r) /\ Len(r) = 2
    BY <1>4 DEF r
  <2>2. /\ IsSeq(d \o r) /\ Len(d \o r) = Len(d) + Len(r)
        /\ \A x \in 1 .. Len(d) : (d \o r)[x] = d[x]
        /\ \A x \in Len(d) + 1 .. Len(d) + Len(r) : (d \o r)[x] = r[x - Len(d)]
    BY <1>7, <2>1, Joined, ZenonT(40)
  <2>3. Len(d) + Len(r) = u + BlockBytes + 2
    BY <1>0, <1>6, <1>7, <2>1
  <2> QED BY <1>7, <2>2, <2>3
<1>9. o = d \o r
  BY <1>1 DEF a, d, r
<1>10. (d \o r)[u + BlockBytes + 1] = r[1]
  BY <1>0, <1>6, <1>8
<1>11. (d \o r)[u] = Token
  BY <1>0, <1>5, <1>6, <1>7, <1>8
<1>12. \A x \in 1 .. u - 1 : (d \o r)[x] = Ones
  BY <1>0, <1>5, <1>6, <1>7, <1>8
<1> QED BY <1>4, <1>6, <1>8, <1>9, <1>10, <1>11, <1>12, Bytes DEF r

\* A response is of plain bytes; that to CMD18, if it is taken, is one with
\* bit 7 clear.
LEMMA AnswerShape ==
  ASSUME NEW c \in Commands, NEW a \in Answers(c)
  PROVE  /\ IsSeq(a) /\ Len(a) > 0 /\ Quiet(a)
         /\ a = <<R1("ready")>> => Low(a[Len(a)])
<1>1. ASSUME NEW s
      PROVE  /\ IsSeq(<<R1(s)>>) /\ Len(<<R1(s)>>) = 1 /\ Quiet(<<R1(s)>>)
             /\ Low(<<R1(s)>>[1])
  <2>1. /\ IsSeq(<<R1(s)>>) /\ Len(<<R1(s)>>) = 1 /\ <<R1(s)>>[1] = R1(s)
    BY Short
  <2> HIDE DEF R1
  <2> QED BY <2>1, Bytes DEF Quiet, Junk, Low
<1>2. CASE a = <<R1("idle")>> \o [k \in 1 .. 4 |-> <<"r7", k>>]
  <2> DEFINE t == [k \in 1 .. 4 |-> <<"r7", k>>]
  <2>1. t \in Seq({<<"r7", k>> : k \in 1 .. 4}) /\ Len(t) = 4
    OBVIOUS
  <2>2. \A x \in 1 .. 4 : Plain(t[x])
    BY Bytes
  <2> HIDE DEF t, R1
  <2> DEFINE s == <<R1("idle")>>
  <2>3. IsSeq(s) /\ Len(s) = 1 /\ Low(s[1])
    BY <1>1
  <2>4. IsSeq(t)
    BY <2>1 DEF IsSeq
  <2> HIDE DEF s
  <2>5. /\ IsSeq(s \o t) /\ Len(s \o t) = 5
        /\ \A x \in 1 .. 1 : (s \o t)[x] = s[x]
        /\ \A x \in 2 .. 5 : (s \o t)[x] = t[x - 1]
    <3>1. /\ IsSeq(s \o t) /\ Len(s \o t) = Len(s) + Len(t)
          /\ \A x \in 1 .. Len(s) : (s \o t)[x] = s[x]
          /\ \A x \in Len(s) + 1 .. Len(s) + Len(t) : (s \o t)[x] = t[x - Len(s)]
      BY <2>3, <2>4, Joined
    <3> QED BY <2>1, <2>3, <3>1
  <2>6. a = s \o t
    BY <1>2 DEF s, t
  <2>7. Quiet(a)
    BY <2>2, <2>3, <2>5, <2>6 DEF Quiet, Junk, Low
  <2>8. a # <<R1("ready")>>
    BY <1>1, <2>5, <2>6
  <2> QED BY <2>5, <2>6, <2>7, <2>8
<1>3. CASE a = <<R1("ready"), <<"busy">>>>
  <2>1. a \in Seq({R1("ready"), <<"busy">>}) /\ Len(a) = 2 /\ a[1] = R1("ready") /\ a[2] = <<"busy">>
    BY <1>3
  <2>2. Quiet(a)
    <3> HIDE DEF R1
    <3> QED BY <2>1, Bytes DEF Quiet, Junk, Low
  <2>3. a # <<R1("ready")>>
    BY <1>1, <2>1
  <2> QED BY <2>1, <2>2, <2>3 DEF IsSeq
<1>4. \/ \E s : a = <<R1(s)>>
      \/ a = <<R1("idle")>> \o [k \in 1 .. 4 |-> <<"r7", k>>]
      \/ a = <<R1("ready"), <<"busy">>>>
  BY DEF Commands, Answers
<1> QED BY <1>1, <1>2, <1>3, <1>4
-----------------------------------------------------------------------------
(***************************************************************************)
(* Chains of blocks.                                                       *)
(***************************************************************************)
\* What lies in s lies in any z that begins with it.
LEMMA LiesOn ==
  ASSUME NEW s, NEW z, Len(s) \in Nat, Len(z) \in Nat, Len(s) <= Len(z),
         \A x \in 1 .. Len(s) : z[x] = s[x],
         NEW job, NEW n, NEW t, Lies(s, job, n, t)
  PROVE  Lies(z, job, n, t)
<1>1. BlockBytes \in Nat
  BY BootAssumption
<1>2. /\ t \in Int /\ t + BlockBytes + 2 <= Len(s)
      /\ t \in 1 .. Len(s) => s[t] = Token
      /\ t + BlockBytes + 1 \in 1 .. Len(s) => s[t + BlockBytes + 1] = <<"crc", job, n, 1>>
  BY DEF Lies
<1>3. /\ t \in 1 .. Len(z) => t \in 1 .. Len(s)
      /\ t + BlockBytes + 1 \in 1 .. Len(z) => t + BlockBytes + 1 \in 1 .. Len(s)
      /\ t + BlockBytes + 2 <= Len(z)
  BY <1>1, <1>2
<1> QED BY <1>2, <1>3 DEF Lies

\* A chain stays one behind which plain bytes come.
LEMMA ChainGrows ==
  ASSUME NEW s, NEW z, Len(s) \in Nat, Len(z) \in Nat, Len(s) <= Len(z),
         \A x \in 1 .. Len(s) : z[x] = s[x],
         \A x \in Len(s) + 1 .. Len(z) : Plain(z[x]),
         NEW job, NEW n, NEW m, NEW at, Chain(s, job, n, m, at)
  PROVE  Chain(z, job, n, m, at)
<1>1. /\ n \in Int /\ m \in Int /\ n <= m
      /\ \A k \in n .. m - 1 : Lies(s, job, k, at[k])
      /\ \A k, l \in n .. m - 1 : k < l => at[k] + BlockBytes + 2 < at[l]
      /\ \A x \in 1 .. Len(s) :
           Plain(s[x]) \/ \E k \in n .. m - 1 : at[k] <= x /\ x <= at[k] + BlockBytes + 2
  BY DEF Chain
<1>2. \A k \in n .. m - 1 : Lies(z, job, k, at[k])
  BY <1>1, LiesOn
<1>3. ASSUME NEW x \in 1 .. Len(z)
      PROVE  Plain(z[x]) \/ \E k \in n .. m - 1 : at[k] <= x /\ x <= at[k] + BlockBytes + 2
  <2>1. CASE x \in 1 .. Len(s)
    BY <1>1, <2>1
  <2>2. CASE x \in Len(s) + 1 .. Len(z)
    BY <2>2
  <2> QED BY <2>1, <2>2
<1> QED BY <1>1, <1>2, <1>3 DEF Chain

\* The card adds its next block to a chain.
LEMMA ChainBlock ==
  ASSUME NEW s, IsSeq(s), NEW job, NEW n, NEW m, NEW at, Chain(s, job, n, m, at),
         NEW o \in Blocks(job, m)
  PROVE  \E new : /\ Chain(s \o o, job, n, m + 1, new)
                  /\ \A k \in n .. m - 1 : new[k] = at[k]
                  /\ new[m] >= Len(s) + 2
<1>0. BlockBytes \in Nat
  BY BootAssumption
<1>1. PICK u \in Nat : /\ u >= 2 /\ Len(o) = u + BlockBytes + 2 /\ o[u] = Token
                       /\ o[u + BlockBytes + 1] = <<"crc", job, m, 1>>
                       /\ \A x \in 1 .. u - 1 : Plain(o[x])
  BY BlockShape
<1> DEFINE z == s \o o
<1>2. /\ IsSeq(z) /\ Len(z) = Len(s) + u + BlockBytes + 2 /\ Len(s) \in Nat
      /\ \A x \in 1 .. Len(s) : z[x] = s[x]
      /\ \A x \in Len(s) + 1 .. Len(z) : z[x] = o[x - Len(s)]
  <2>1. IsSeq(o)
    BY BlockShape
  <2>2. /\ IsSeq(s \o o) /\ Len(s \o o) = Len(s) + Len(o) /\ Len(s) \in Nat
        /\ \A x \in 1 .. Len(s) : (s \o o)[x] = s[x]
        /\ \A x \in Len(s) + 1 .. Len(s) + Len(o) : (s \o o)[x] = o[x - Len(s)]
    BY <2>1, Joined
  <2>3. Len(s) + Len(o) = Len(s) + u + BlockBytes + 2
    BY <1>0, <1>1, <2>2
  <2> QED BY <2>2, <2>3
<1> HIDE DEF z
<1>3. /\ n \in Int /\ m \in Int /\ n <= m
      /\ \A k \in n .. m - 1 : Lies(s, job, k, at[k])
      /\ \A k, l \in n .. m - 1 : k < l => at[k] + BlockBytes + 2 < at[l]
      /\ \A x \in 1 .. Len(s) :
           Plain(s[x]) \/ \E k \in n .. m - 1 : at[k] <= x /\ x <= at[k] + BlockBytes + 2
  BY DEF Chain
<1> DEFINE new == [k \in n .. m |-> IF k < m THEN at[k] ELSE Len(s) + u]
<1>4. new[m] = Len(s) + u /\ \A k \in n .. m - 1 : new[k] = at[k]
  BY <1>3
<1> HIDE DEF new
<1>5. \A k \in n .. m : k \in n .. m - 1 \/ k = m
  BY <1>3
<1>6. ASSUME NEW k \in n .. m
      PROVE  Lies(z, job, k, new[k])
  <2>1. CASE k \in n .. m - 1
    <3>1. Lies(s, job, k, at[k]) /\ new[k] = at[k]
      BY <1>3, <1>4, <2>1
    <3>2. Len(z) \in Nat /\ Len(s) <= Len(z)
      BY <1>0, <1>1, <1>2
    <3> QED BY <1>2, <3>1, <3>2, LiesOn
  <2>2. CASE k = m
    <3>1. z[Len(s) + u] = o[u]
      <4>1. Len(s) + u \in Len(s) + 1 .. Len(z) /\ (Len(s) + u) - Len(s) = u
        BY <1>0, <1>1, <1>2
      <4> QED BY <1>2, <4>1
    <3>2. z[Len(s) + u + BlockBytes + 1] = o[u + BlockBytes + 1]
      <4>1. Len(s) + u + BlockBytes + 1 \in Len(s) + 1 .. Len(z)
        BY <1>0, <1>1, <1>2
      <4>2. (Len(s) + u + BlockBytes + 1) - Len(s) = u + BlockBytes + 1
        BY <1>0, <1>1, <1>2
      <4> QED BY <1>2, <4>1, <4>2
    <3>3. Len(s) + u \in Int /\ Len(s) + u + BlockBytes + 2 <= Len(z)
      BY <1>0, <1>1, <1>2
    <3> QED BY <1>1, <1>4, <2>2, <3>1, <3>2, <3>3 DEF Lies
  <2> QED BY <1>5, <2>1, <2>2
<1>7. ASSUME NEW k \in n .. m, NEW l \in n .. m, k < l
      PROVE  new[k] + BlockBytes + 2 < new[l]
  <2>1. k \in n .. m - 1 /\ new[k] = at[k]
    BY <1>3, <1>4, <1>7
  <2>2. CASE l \in n .. m - 1
    BY <1>3, <1>4, <1>7, <2>1, <2>2
  <2>3. CASE l = m
    <3>1. at[k] \in Int /\ at[k] + BlockBytes + 2 <= Len(s)
      BY <1>3, <2>1 DEF Lies
    <3> QED BY <1>0, <1>1, <1>2, <1>4, <2>1, <2>3, <3>1
  <2> QED BY <1>5, <2>2, <2>3
<1>8. ASSUME NEW x \in 1 .. Len(z)
      PROVE  Plain(z[x]) \/ \E k \in n .. m : new[k] <= x /\ x <= new[k] + BlockBytes + 2
  <2>1. CASE x \in 1 .. Len(s)
    <3>1. CASE Plain(s[x])
      BY <1>2, <2>1, <3>1
    <3>2. CASE \E k \in n .. m - 1 : at[k] <= x /\ x <= at[k] + BlockBytes + 2
      <4>1. PICK k \in n .. m - 1 : at[k] <= x /\ x <= at[k] + BlockBytes + 2
        BY <3>2
      <4>2. k \in n .. m /\ new[k] = at[k]
        BY <1>3, <1>4
      <4> QED BY <4>1, <4>2
    <3> QED BY <1>3, <2>1, <3>1, <3>2
  <2>2. CASE x \in Len(s) + 1 .. Len(s) + u - 1
    <3>1. x - Len(s) \in 1 .. u - 1 /\ x \in Len(s) + 1 .. Len(z)
      BY <1>0, <1>1, <1>2, <2>2
    <3> QED BY <1>1, <1>2, <3>1
  <2>3. CASE x >= Len(s) + u
    <3>1. m \in n .. m /\ new[m] <= x /\ x <= new[m] + BlockBytes + 2
      BY <1>0, <1>1, <1>2, <1>3, <1>4, <2>3
    <3> QED BY <3>1
  <2> QED BY <1>1, <1>2, <2>1, <2>2, <2>3
<1>9. Chain(z, job, n, m + 1, new)
  <2>1. (m + 1) - 1 = m /\ n <= m + 1 /\ m + 1 \in Int
    BY <1>3
  <2>2. n .. (m + 1) - 1 = n .. m
    BY <2>1
  <2> QED BY <1>3, <1>6, <1>7, <1>8, <2>1, <2>2 DEF Chain
<1>10. new[m] >= Len(s) + 2
  BY <1>1, <1>2, <1>4
<1> QED BY <1>4, <1>9, <1>10 DEF z

\* The loader takes a byte, and the rest moves up.
LEMMA ChainTail ==
  ASSUME NEW s, IsSeq(s), Len(s) > 0, NEW job, NEW n, NEW m, NEW at, Chain(s, job, n, m, at)
  PROVE  \E new : /\ Chain(Tail(s), job, n, m, new)
                  /\ \A k \in n .. m - 1 : new[k] = at[k] - 1
<1>0. BlockBytes \in Nat
  BY BootAssumption
<1> DEFINE z == Tail(s)  new == [k \in n .. m - 1 |-> at[k] - 1]
<1>1. /\ Len(z) = Len(s) - 1 /\ Len(s) \in Nat
      /\ \A x \in 1 .. Len(s) - 1 : z[x] = s[x + 1]
  BY Tailed
<1>2. /\ n \in Int /\ m \in Int /\ n <= m
      /\ \A k \in n .. m - 1 : Lies(s, job, k, at[k])
      /\ \A k, l \in n .. m - 1 : k < l => at[k] + BlockBytes + 2 < at[l]
      /\ \A x \in 1 .. Len(s) :
           Plain(s[x]) \/ \E k \in n .. m - 1 : at[k] <= x /\ x <= at[k] + BlockBytes + 2
  BY DEF Chain
<1>3. \A k \in n .. m - 1 : new[k] = at[k] - 1 /\ at[k] \in Int
  BY <1>2 DEF Lies
<1> HIDE DEF z, new
<1>4. ASSUME NEW k \in n .. m - 1
      PROVE  Lies(z, job, k, new[k])
  <2> DEFINE t == at[k]
  <2>1. /\ t \in Int /\ t + BlockBytes + 2 <= Len(s)
        /\ t \in 1 .. Len(s) => s[t] = Token
        /\ t + BlockBytes + 1 \in 1 .. Len(s) => s[t + BlockBytes + 1] = <<"crc", job, k, 1>>
    BY <1>2 DEF Lies
  <2>2. new[k] = t - 1
    BY <1>3
  <2> HIDE DEF t
  <2>3. t - 1 \in 1 .. Len(z) => z[t - 1] = Token
    BY <1>1, <2>1
  <2>4. (t - 1) + BlockBytes + 1 \in 1 .. Len(z) => z[(t - 1) + BlockBytes + 1] = <<"crc", job, k, 1>>
    <3>1. (t - 1) + BlockBytes + 1 = t + BlockBytes /\ (t + BlockBytes) + 1 = t + BlockBytes + 1
      BY <1>0, <2>1
    <3>2. t + BlockBytes \in 1 .. Len(z) =>
            z[t + BlockBytes] = s[(t + BlockBytes) + 1] /\ t + BlockBytes + 1 \in 1 .. Len(s)
      BY <1>0, <1>1, <2>1
    <3> QED BY <2>1, <3>1, <3>2
  <2>5. t - 1 \in Int /\ (t - 1) + BlockBytes + 2 <= Len(z)
    BY <1>0, <1>1, <2>1
  <2> QED BY <2>2, <2>3, <2>4, <2>5 DEF Lies
<1>5. ASSUME NEW k \in n .. m - 1, NEW l \in n .. m - 1, k < l
      PROVE  new[k] + BlockBytes + 2 < new[l]
  <2>1. at[k] + BlockBytes + 2 < at[l]
    BY <1>2, <1>5
  <2>2. new[k] = at[k] - 1 /\ new[l] = at[l] - 1 /\ at[k] \in Int /\ at[l] \in Int
    BY <1>3
  <2> DEFINE t == at[k]  u == at[l]  size == BlockBytes
  <2>3. t \in Int /\ u \in Int /\ size \in Int /\ t + size + 2 < u
    BY <1>0, <2>1, <2>2
  <2>4. new[k] = t - 1 /\ new[l] = u - 1
    BY <2>2
  <2> HIDE DEF t, u, size
  <2>5. t - 1 + size + 2 < u - 1
    BY <2>3
  <2> QED BY <2>4, <2>5 DEF size
<1>6. ASSUME NEW x \in 1 .. Len(z)
      PROVE  Plain(z[x]) \/ \E k \in n .. m - 1 : new[k] <= x /\ x <= new[k] + BlockBytes + 2
  <2>1. z[x] = s[x + 1] /\ x + 1 \in 1 .. Len(s)
    BY <1>1
  <2>2. CASE Plain(s[x + 1])
    BY <2>1, <2>2
  <2>3. CASE \E k \in n .. m - 1 : at[k] <= x + 1 /\ x + 1 <= at[k] + BlockBytes + 2
    <3>1. PICK k \in n .. m - 1 : at[k] <= x + 1 /\ x + 1 <= at[k] + BlockBytes + 2
      BY <2>3
    <3>2. new[k] <= x /\ x <= new[k] + BlockBytes + 2
      BY <1>0, <1>3, <3>1
    <3> QED BY <3>2
  <2> QED BY <1>2, <2>1, <2>2, <2>3
<1>7. Chain(z, job, n, m, new)
  BY <1>2, <1>4, <1>5, <1>6 DEF Chain
<1> QED BY <1>3, <1>7 DEF z

\* The loader has read the first block to its end.
LEMMA ChainNext ==
  ASSUME NEW s, NEW job, NEW n, NEW m, NEW at, Chain(s, job, n, m, at),
         n < m, at[n] + BlockBytes + 2 <= 0
  PROVE  Chain(s, job, n + 1, m, at)
<1>1. /\ n \in Int /\ m \in Int /\ n <= m
      /\ \A k \in n .. m - 1 : Lies(s, job, k, at[k])
      /\ \A k, l \in n .. m - 1 : k < l => at[k] + BlockBytes + 2 < at[l]
      /\ \A x \in 1 .. Len(s) :
           Plain(s[x]) \/ \E k \in n .. m - 1 : at[k] <= x /\ x <= at[k] + BlockBytes + 2
  BY DEF Chain
<1>2. /\ \A k \in n + 1 .. m - 1 : k \in n .. m - 1
      /\ \A k \in n .. m - 1 : k = n \/ k \in n + 1 .. m - 1
      /\ n + 1 \in Int /\ n + 1 <= m /\ n \in n .. m - 1
  BY <1>1
<1>3. at[n] \in Int /\ BlockBytes \in Nat
  BY <1>1, <1>2, BootAssumption DEF Lies
<1>4. ASSUME NEW x \in 1 .. Len(s)
      PROVE  Plain(s[x]) \/ \E k \in n + 1 .. m - 1 : at[k] <= x /\ x <= at[k] + BlockBytes + 2
  <2>1. CASE Plain(s[x])
    BY <2>1
  <2>2. CASE \E k \in n .. m - 1 : at[k] <= x /\ x <= at[k] + BlockBytes + 2
    <3>1. PICK k \in n .. m - 1 : at[k] <= x /\ x <= at[k] + BlockBytes + 2
      BY <2>2
    <3>2. k # n
      BY <1>3, <3>1
    <3> QED BY <1>2, <3>1, <3>2
  <2> QED BY <1>1, <2>1, <2>2
<1> QED BY <1>1, <1>2, <1>4 DEF Chain
-----------------------------------------------------------------------------
(***************************************************************************)
(* The bytes in the controller are a queue each way.                       *)
(***************************************************************************)
\* What a FIFO that drops nothing holds after a cycle.
LEMMA ClockedHolds ==
  ASSUME NEW f, FifoInv(f), f.winc => ~f.full, f.rinc => ~f.empty,
         NEW wen \in BOOLEAN, NEW ren \in BOOLEAN, NEW wdata
  PROVE  LET old == IF ren /\ f.rinc THEN Tail(f.q) ELSE f.q IN
         Clocked(f, wen, ren, wdata).q = IF wen /\ f.winc THEN Append(old, wdata) ELSE old
<1>1. PICK S : f \in Fifo(S)
  BY DEF FifoInv
<1>2. Pushes(f) <=> f.winc
  BY <1>1 DEF Fifo, Pushes
<1>3. Pops(f) <=> f.rinc
  BY <1>1 DEF Fifo, Pops
<1> DEFINE old == IF ren /\ Pops(f) THEN Tail(f.q) ELSE f.q
           new(q) == IF wen /\ Pushes(f) THEN Append(q, wdata) ELSE q
<1>4. Clocked(f, wen, ren, wdata) = [f EXCEPT !.q = new(old),
                !.full = IF wen THEN Fills(f, new(f.q)) ELSE @,
                !.empty = IF ren THEN old = <<>> ELSE @]
  BY DEF Clocked
<1> HIDE DEF old, new
<1>5. Clocked(f, wen, ren, wdata).q = new(old)
  BY <1>1, <1>4 DEF Fifo
<1> QED BY <1>2, <1>3, <1>5 DEF old, new

\* The increments beside it do not change that.
LEMMA Beside ==
  ASSUME NEW f, FifoInv(f), NEW w, NEW r
  PROVE  [f EXCEPT !.winc = w, !.rinc = r].q = f.q
<1>1. PICK S : f \in Fifo(S)
  BY DEF FifoInv
<1> QED BY <1>1 DEF Fifo

\* What the FIFOs hold after a cycle.
LEMMA Holds ==
  ASSUME Controller, Roomy, NEW tick \in BOOLEAN, NEW in, NEW to, SpiCycle(tick, in, to)
  PROVE  /\ tx'.q = LET old == IF Leaves(tick) THEN Tail(tx.q) ELSE tx.q IN
                    IF tx.winc THEN Append(old, TransmitData) ELSE old
         /\ rx'.q = LET old == IF rx.rinc THEN Tail(rx.q) ELSE rx.q IN
                    IF tick /\ rx.winc THEN Append(old, ReceiveReg) ELSE old
         /\ tx'.winc = Writes
         /\ rx'.winc = IF tick THEN EndOfFrame(tick) ELSE rx.winc
         /\ IsSeq(tx.q) /\ IsSeq(rx.q)
<1>0. FifoInv(tx) /\ FifoInv(rx) /\ (tx.winc => ~tx.full) /\ (rx.winc => ~rx.full)
      /\ (rx.rinc => ~rx.empty) /\ (tx.rinc => ~tx.empty) /\ StartD \in BOOLEAN
  BY DEF Controller, Inv, Roomy, Frames, Unpopped, Registers
<1> DEFINE g == Clocked(tx, TRUE, tick, TransmitData)  h == Clocked(rx, tick, TRUE, ReceiveReg)
<1>1. FifoInv(g) /\ FifoInv(h)
  BY <1>0, ClockedIsSafe
<1>2. /\ g.q = LET old == IF tick /\ tx.rinc THEN Tail(tx.q) ELSE tx.q IN
               IF TRUE /\ tx.winc THEN Append(old, TransmitData) ELSE old
      /\ h.q = LET old == IF TRUE /\ rx.rinc THEN Tail(rx.q) ELSE rx.q IN
               IF tick /\ rx.winc THEN Append(old, ReceiveReg) ELSE old
  BY <1>0, ClockedHolds
<1>3. tx' = [g EXCEPT !.winc = Writes, !.rinc = IF tick THEN StartD \/ Continue(tick) ELSE @]
  BY DEF SpiCycle, Writes
<1>4. rx' = [h EXCEPT !.winc = IF tick THEN EndOfFrame(tick) ELSE @, !.rinc = ReceiveReadInc]
  BY DEF SpiCycle
<1> HIDE DEF g, h
<1>5. tx'.q = g.q
  BY <1>1, <1>3, Beside
<1>6. rx'.q = h.q
  BY <1>1, <1>4, Beside
<1>7. /\ tx'.winc = Writes
      /\ rx'.winc = IF tick THEN EndOfFrame(tick) ELSE rx.winc
  BY <1>0, FifoCycle DEF Controller
<1>8. IsSeq(tx.q) /\ IsSeq(rx.q)
  BY <1>0 DEF FifoInv, Fifo, IsSeq
<1> QED BY <1>2, <1>5, <1>6, <1>7, <1>8 DEF Leaves

\* What the shift register holds while its byte is at the head of the FIFO.
Shifting == Unpopped => TransmitReg = tx.q[1]

\* The bytes on their way are as many as they count.
LEMMA Lying ==
  ASSUME Controller, Roomy
  PROVE  /\ IsSeq(Sent) /\ IsSeq(Outgoing) /\ IsSeq(Coming)
         /\ Len(Outgoing) = Unsent /\ Len(Coming) = Unread
         /\ Unsent \in Nat /\ Unread \in Nat /\ Line \in 0 .. 1
         /\ Line = 1 => Len(Outgoing) > 0 /\ Outgoing[1] = TransmitReg /\ Tail(Outgoing) = Sent
         /\ Len(tx.q) > 0 => Len(Sent) > 0 /\ Sent[1] = tx.q[1]
         /\ Len(rx.q) > 0 => Len(Coming) > 0 /\ Coming[1] = rx.q[1] /\ Head(rx.q) = rx.q[1]
<1>1. /\ tx.winc \in BOOLEAN /\ rx.winc \in BOOLEAN
      /\ Len(tx.q) \in Nat /\ Len(rx.q) \in Nat
  BY Basics
<1>2. IsSeq(tx.q) /\ IsSeq(rx.q)
  BY DEF Controller, Inv, FifoInv, Fifo, IsSeq
<1>3. /\ IsSeq(Sent) /\ Len(Sent) = Queued /\ Queued \in Nat
      /\ Len(tx.q) > 0 => Len(Sent) > 0 /\ Sent[1] = tx.q[1]
  <2>1. CASE tx.winc
    <3>1. /\ IsSeq(Append(tx.q, TransmitData)) /\ Len(Append(tx.q, TransmitData)) = Len(tx.q) + 1
          /\ \A x \in 1 .. Len(tx.q) : Append(tx.q, TransmitData)[x] = tx.q[x]
      BY <1>2, Added
    <3> QED BY <1>1, <2>1, <3>1 DEF Sent, Queued, Bit
  <2>2. CASE ~tx.winc
    BY <1>1, <1>2, <2>2 DEF Sent, Queued, Bit
  <2> QED BY <1>1, <2>1, <2>2
<1>4. /\ IsSeq(Coming) /\ Len(Coming) = Unread /\ Unread \in Nat
      /\ Len(rx.q) > 0 => Len(Coming) > 0 /\ Coming[1] = rx.q[1]
  <2>1. CASE rx.winc
    <3>1. /\ IsSeq(Append(rx.q, ReceiveReg)) /\ Len(Append(rx.q, ReceiveReg)) = Len(rx.q) + 1
          /\ \A x \in 1 .. Len(rx.q) : Append(rx.q, ReceiveReg)[x] = rx.q[x]
      BY <1>2, Added
    <3> QED BY <1>1, <2>1, <3>1 DEF Coming, Unread, Bit
  <2>2. CASE ~rx.winc
    BY <1>1, <1>2, <2>2 DEF Coming, Unread, Bit
  <2> QED BY <1>1, <2>1, <2>2
<1>5. Line \in 0 .. 1
  BY DEF Line, Bit
<1> DEFINE t == <<TransmitReg>>
<1>6. IsSeq(t) /\ Len(t) = 1 /\ t[1] = TransmitReg /\ Tail(t) = <<>>
  BY Short
<1>7. /\ IsSeq(t \o Sent) /\ Len(t \o Sent) = 1 + Len(Sent)
      /\ (t \o Sent)[1] = TransmitReg /\ Tail(t \o Sent) = Sent
  <2> HIDE DEF t
  <2>1. IsSeq(t \o Sent) /\ Len(t \o Sent) = Len(t) + Len(Sent)
    BY <1>3, <1>6, Joined
  <2>2. Tail(t) \o Sent = Tail(t \o Sent) /\ (t \o Sent)[1] = t[1]
    <3>1. IsSeq(t) /\ Len(t) > 0 /\ IsSeq(Sent)
      BY <1>3, <1>6
    <3> QED BY <3>1, TailOfJoined
  <2>3. <<>> \o Sent = Sent
    BY <1>3, JoinedEmpty
  <2> QED BY <1>3, <1>6, <2>1, <2>2, <2>3
<1> HIDE DEF t
<1>8. /\ IsSeq(Outgoing) /\ Len(Outgoing) = Queued + Line
      /\ Line = 1 => Len(Outgoing) > 0 /\ Outgoing[1] = TransmitReg /\ Tail(Outgoing) = Sent
  <2>1. CASE Line = 1
    <3>1. Outgoing = t \o Sent
      BY <2>1 DEF Outgoing, t
    <3> QED BY <1>3, <1>7, <2>1, <3>1
  <2>2. CASE Line = 0
    BY <1>3, <2>2 DEF Outgoing
  <2> QED BY <1>5, <2>1, <2>2
<1>9. Head(rx.q) = rx.q[1]
  OBVIOUS
<1> QED BY <1>3, <1>4, <1>5, <1>8, <1>9 DEF Unsent

\* A frame ends, and the card has a byte less to hear; the loader writes, and it
\* has one more.
LEMMA OutgoingFlows ==
  ASSUME Controller, Roomy, Shifting, NEW tick \in BOOLEAN, NEW in, NEW to \in NextCurr(tick),
         SpiCycle(tick, in, to)
  PROVE  /\ Outgoing' = LET g == IF EndOfFrame(tick) THEN Tail(Outgoing) ELSE Outgoing IN
                        IF Writes THEN Append(g, apb.data) ELSE g
         /\ Shifting'
<1>1. /\ tx'.q = LET old == IF Leaves(tick) THEN Tail(tx.q) ELSE tx.q IN
                 IF tx.winc THEN Append(old, TransmitData) ELSE old
      /\ tx'.winc = Writes /\ IsSeq(tx.q)
  BY Holds
<1>2. /\ Line' = Line + Bit(Leaves(tick)) - Bit(EndOfFrame(tick))
      /\ EndOfFrame(tick) => Line = 1
      /\ Leaves(tick) => Line = 0 /\ Len(tx.q) > 0
      /\ Line \in 0 .. 1
  BY Exchange
<1>3. /\ IsSeq(Sent) /\ IsSeq(Outgoing)
      /\ Line = 1 => Len(Outgoing) > 0 /\ Outgoing[1] = TransmitReg /\ Tail(Outgoing) = Sent
      /\ Len(tx.q) > 0 => Len(Sent) > 0 /\ Sent[1] = tx.q[1]
  BY Lying
<1>4. /\ TransmitData' = IF Writes THEN apb.data ELSE TransmitData
      /\ TransmitReg' = IF TransmitLoad(tick) THEN rdata(tx) ELSE TransmitReg
      /\ StartD' = (TransmitStart \/ (StartD /\ ~tick))
  BY DEF SpiCycle, Writes
<1>5. tx'.q = IF Leaves(tick) THEN Tail(Sent) ELSE Sent
  <2>1. CASE Leaves(tick) /\ tx.winc
    <3>1. Tail(Append(tx.q, TransmitData)) = Append(Tail(tx.q), TransmitData)
      <4>1. PICK S : tx.q \in Seq(S)
        BY <1>1 DEF IsSeq
      <4>2. tx.q # <<>>
        BY <1>2, <2>1, <4>1, EmptySeq
      <4> QED BY <4>1, <4>2, HeadTailAppend
    <3> QED BY <1>1, <2>1, <3>1 DEF Sent
  <2>2. CASE ~(Leaves(tick) /\ tx.winc)
    BY <1>1, <2>2 DEF Sent
  <2> QED BY <2>1, <2>2
<1>6. Sent' = IF Writes THEN Append(tx'.q, apb.data) ELSE tx'.q
  BY <1>1, <1>4 DEF Sent
<1>7. /\ tx.rinc \in BOOLEAN /\ tx.empty \in BOOLEAN /\ StartD \in BOOLEAN /\ RegLoaded \in BOOLEAN
      /\ ~tx.empty => Len(tx.q) > 0
      /\ Frames
      /\ Halves \in Nat /\ Halves > 2
  BY Basics DEF Controller, Registers
<1>8. Leaves(tick) => ~TransmitLoad(tick) /\ tx.rinc /\ ~StartD
  BY <1>7 DEF Leaves, TransmitLoad, TransmitStart, Continue, EndOfFrame, Frames, Loaded, Unpopped
<1>9. Line = 1 /\ ~EndOfFrame(tick) => ~TransmitLoad(tick)
  BY <1>7 DEF Line, Bit, TransmitLoad, TransmitStart, Continue, Frames
<1>10. CASE Leaves(tick)
  <2>1. Line = 0 /\ Line' = 1 /\ ~EndOfFrame(tick)
    BY <1>2, <1>10 DEF Bit
  <2>2. TransmitReg' = Sent[1] /\ Len(Sent) > 0
    BY <1>2, <1>3, <1>4, <1>8, <1>10 DEF Shifting, Unpopped
  <2>3. Outgoing = Sent /\ Outgoing' = <<Sent[1]>> \o Sent'
    BY <2>1, <2>2 DEF Outgoing
  <2>4. <<Sent[1]>> \o Tail(Sent) = Sent
    <3>1. Append(<<>>, Sent[1]) \o Tail(Sent) = <<>> \o Sent
      BY <1>3, <2>2, Short, HeadMoves
    <3>2. <<>> \o Sent = Sent
      BY <1>3, JoinedEmpty
    <3>3. Append(<<>>, Sent[1]) = <<Sent[1]>>
      OBVIOUS
    <3> QED BY <3>1, <3>2, <3>3
  <2>5. IsSeq(Tail(Sent)) /\ IsSeq(<<Sent[1]>>)
    BY <1>3, <2>2, Tailed, Short
  <2>6. Append(<<Sent[1]>> \o Tail(Sent), apb.data) = <<Sent[1]>> \o Append(Tail(Sent), apb.data)
    BY <2>5, AppendJoined
  <2>7. ~Unpopped'
    <3>1. tx'.rinc = IF tick THEN StartD \/ Continue(tick) ELSE tx.rinc
      BY <1>7, FifoCycle DEF Controller, Frames, Unpopped
    <3> QED BY <1>4, <1>8, <1>10, <3>1, <2>1 DEF Unpopped, Continue, Leaves, TransmitLoad
  <2> QED BY <1>5, <1>6, <1>10, <2>1, <2>3, <2>4, <2>6, <2>7 DEF Shifting
<1>11. CASE ~Leaves(tick)
  <2>1. tx'.q = Sent
    BY <1>5, <1>11
  <2>2. Outgoing' = LET g == IF EndOfFrame(tick) THEN Tail(Outgoing) ELSE Outgoing IN
                    IF Writes THEN Append(g, apb.data) ELSE g
    <3>1. CASE EndOfFrame(tick)
      <4>1. Line = 1 /\ Line' = 0
        BY <1>2, <1>11, <3>1 DEF Bit
      <4>2. Outgoing' = Sent'
        BY <4>1 DEF Outgoing
      <4>3. Tail(Outgoing) = Sent
        BY <1>3, <4>1
      <4> QED BY <1>6, <2>1, <3>1, <4>2, <4>3
    <3>2. CASE ~EndOfFrame(tick) /\ Line = 0
      <4>1. Line' = 0
        BY <1>2, <1>11, <3>2 DEF Bit
      <4> QED BY <1>6, <2>1, <3>2, <4>1 DEF Outgoing
    <3>3. CASE ~EndOfFrame(tick) /\ Line = 1
      <4>1. Line' = 1
        BY <1>2, <1>11, <3>3 DEF Bit
      <4>2. TransmitReg' = TransmitReg
        BY <1>4, <1>9, <3>3
      <4>3. Append(<<TransmitReg>> \o Sent, apb.data) = <<TransmitReg>> \o Append(Sent, apb.data)
        BY <1>3, Short, AppendJoined
      <4> QED BY <1>6, <2>1, <3>3, <4>1, <4>2, <4>3 DEF Outgoing
    <3> QED BY <1>2, <3>1, <3>2, <3>3
  <2>3. ASSUME Unpopped'
        PROVE  TransmitReg' = tx'.q[1]
    <3>1. tx'.rinc = IF tick THEN StartD \/ Continue(tick) ELSE tx.rinc
      BY <1>7, FifoCycle DEF Controller, Frames, Unpopped
    <3>2. TransmitLoad(tick) \/ Unpopped
      BY <1>4, <2>3, <3>1 DEF Unpopped, TransmitLoad
    <3>3. Len(tx.q) > 0
      BY <1>7, <3>2 DEF TransmitLoad, TransmitStart, Continue, Frames, Unpopped
    <3>4. rdata(tx) = tx.q[1]
      BY <1>1, <3>3, Lengths DEF rdata
    <3>5. TransmitReg' = tx.q[1]
      BY <1>4, <3>2, <3>4 DEF Shifting
    <3> QED BY <1>3, <2>1, <3>3, <3>5
  <2> QED BY <2>2, <2>3 DEF Shifting
<1> QED BY <1>10, <1>11

\* The loader takes a byte, and a frame brings another.
LEMMA ComingFlows ==
  ASSUME Controller, Roomy, NEW tick \in BOOLEAN, NEW in, NEW to \in NextCurr(tick),
         SpiCycle(tick, in, to)
  PROVE  Coming' = LET k == IF rx.rinc THEN Tail(Coming) ELSE Coming IN
                   IF EndOfFrame(tick) THEN Append(k, in) ELSE k
<1>1. /\ rx'.q = LET old == IF rx.rinc THEN Tail(rx.q) ELSE rx.q IN
                 IF tick /\ rx.winc THEN Append(old, ReceiveReg) ELSE old
      /\ rx'.winc = IF tick THEN EndOfFrame(tick) ELSE rx.winc
      /\ IsSeq(rx.q)
  BY Holds
<1>2. /\ EndOfFrame(tick) => ~rx.winc /\ tick
      /\ rx.rinc => Len(rx.q) > 0
  BY Exchange
<1>3. ReceiveReg' = IF EndOfFrame(tick) THEN in ELSE IF tick /\ rx.winc THEN Stale ELSE ReceiveReg
  BY DEF SpiCycle
<1>4. rx.rinc => Tail(Append(rx.q, ReceiveReg)) = Append(Tail(rx.q), ReceiveReg)
  <2> SUFFICES ASSUME rx.rinc
               PROVE  Tail(Append(rx.q, ReceiveReg)) = Append(Tail(rx.q), ReceiveReg)
    OBVIOUS
  <2>1. PICK S : rx.q \in Seq(S)
    BY <1>1 DEF IsSeq
  <2>2. rx.q # <<>>
    BY <1>2, <2>1, EmptySeq
  <2> QED BY <2>1, <2>2, HeadTailAppend
<1>5. CASE tick
  BY <1>1, <1>2, <1>3, <1>4, <1>5 DEF Coming
<1>6. CASE ~tick
  BY <1>1, <1>2, <1>3, <1>4, <1>6 DEF Coming
<1> QED BY <1>5, <1>6
-----------------------------------------------------------------------------
(***************************************************************************)
(* What a cycle of the card makes of the stream.                           *)
(***************************************************************************)
\* What a cycle makes of the card c, with the stream s: it is cut off; it goes on;
\* it begins a block.
Cut(s, c, z, d) ==
  /\ c.sends = <<>> /\ d.sends = <<>> /\ IsSeq(z)
  /\ \A x \in 1 .. Len(z) : z[x] = Ones \/ (x \in 1 .. Len(s) /\ z[x] = s[x])
Slid(s, c, z, d) == z \in {s, Append(s, Ones)} /\ d.sends = c.sends
Filled(s, c, z, d) ==
  /\ c.sends # <<>> /\ d.sends = [c.sends EXCEPT ![2] = @ + 1]
  /\ \E t \in {s, Append(s, Ones)}, o \in Blocks(c.sends[1], c.sends[2]) : z = t \o o
GoesOn(s, c, z, d) == Slid(s, c, z, d) \/ Filled(s, c, z, d)
Turned(s, c, z, d) == Cut(s, c, z, d) \/ GoesOn(s, c, z, d)

\* Its answer to a command comes behind all it has said.
Reply(c, job, gap, a) ==
  [heard |-> Ones, out |-> Stuff(c) \o gap \o a,
   sends |-> IF a = <<R1("ready")>> /\ c = 18 THEN <<job, 1>> ELSE <<>>]
Replied(k, says, b, z, d) == \E gap \in Gaps(0), a \in Answers(b[2]) :
  d = Reply(b[2], b[3], gap, a) /\ z = Append(k, says) \o (Stuff(b[2]) \o gap \o a)

\* The sixth byte of a command is answered.
LEMMA CardAnswers ==
  ASSUME NEW b, Hears(b) /\ b[4] = 6, NEW d \in CardHears(b)
  PROVE  \E gap \in Gaps(0), a \in Answers(b[2]) : d = Reply(b[2], b[3], gap, a)
BY SMT DEF CardHears, Reply

\* An answer is plain, but for the byte behind CMD12.
LEMMA ReplyShape ==
  ASSUME NEW c \in Commands, NEW gap \in Gaps(0), NEW a \in Answers(c)
  PROVE  LET o == Stuff(c) \o gap \o a IN
         /\ IsSeq(o) /\ Len(o) > 0
         /\ Junk(o, IF c = 12 THEN 1 ELSE 0)
         /\ a = <<R1("ready")>> => Low(o[Len(o)])
<1> DEFINE t == Stuff(c)  u == t \o gap  o == u \o a
<1>1. IsSeq(t) /\ Len(t) = IF c = 12 THEN 1 ELSE 0
  BY Short DEF Stuff
<1>2. IsSeq(gap) /\ AllOnes(gap) /\ Len(gap) \in Nat
  BY Gap
<1>3. /\ IsSeq(a) /\ Len(a) > 0 /\ Quiet(a) /\ Len(a) \in Nat
      /\ a = <<R1("ready")>> => Low(a[Len(a)])
  BY AnswerShape, Lengths
<1> HIDE DEF t
<1>4. /\ IsSeq(u) /\ Len(u) = Len(t) + Len(gap)
      /\ \A x \in Len(t) + 1 .. Len(t) + Len(gap) : u[x] = gap[x - Len(t)]
  BY <1>1, <1>2, Joined
<1> HIDE DEF u
<1>5. /\ IsSeq(o) /\ Len(o) = Len(u) + Len(a)
      /\ \A x \in 1 .. Len(u) : o[x] = u[x]
      /\ \A x \in Len(u) + 1 .. Len(u) + Len(a) : o[x] = a[x - Len(u)]
  BY <1>3, <1>4, Joined
<1> HIDE DEF o
<1>6. Len(u) \in Nat /\ Len(t) \in Nat /\ Len(o) \in Nat
  BY <1>1, <1>2, <1>3, <1>4, <1>5
<1>7. ASSUME NEW x \in 1 .. Len(o), x > Len(t)
      PROVE  Plain(o[x])
  <2>1. CASE x <= Len(u)
    <3>1. o[x] = gap[x - Len(t)] /\ x - Len(t) \in 1 .. Len(gap)
      BY <1>2, <1>4, <1>5, <1>6, <1>7, <2>1
    <3> QED BY <1>2, <3>1, Bytes DEF AllOnes
  <2>2. CASE x > Len(u)
    <3>1. o[x] = a[x - Len(u)] /\ x - Len(u) \in 1 .. Len(a)
      BY <1>3, <1>5, <1>6, <2>2
    <3> QED BY <1>3, <3>1 DEF Quiet, Junk
  <2> QED BY <1>6, <2>1, <2>2
<1>8. o[Len(o)] = a[Len(a)]
  <2>1. Len(o) \in Len(u) + 1 .. Len(u) + Len(a) /\ Len(o) - Len(u) = Len(a)
    BY <1>3, <1>5, <1>6
  <2> QED BY <1>5, <2>1
<1>9. Len(o) > 0
  BY <1>3, <1>5, <1>6
<1>10. Junk(o, IF c = 12 THEN 1 ELSE 0)
  BY <1>1, <1>6, <1>7 DEF Junk
<1> QED BY <1>3, <1>5, <1>8, <1>9, <1>10 DEF o, u, t

\* What the card does in a cycle, while the loader has k of its bytes before it.
LEMMA CardTurns ==
  ASSUME card.sends # <<>> => Selected, IsSeq(card.out), DOMAIN card = CardFields,
         NEW tick \in BOOLEAN, Card(tick), NEW k, IsSeq(k), NEW z,
         z = (IF EndOfFrame(tick) THEN Append(k, IF Selected THEN Says ELSE Ones) ELSE k) \o card'.out,
         EndOfFrame(tick) /\ Hears(TransmitReg) => TransmitReg[2] \in Commands
  PROVE  /\ IsSeq(card'.out) /\ DOMAIN card' = CardFields
         /\ LET s == k \o card.out  b == TransmitReg IN
            \/ ~EndOfFrame(tick) /\ z = s /\ card' = card
            \/ Cut(s, card, z, card')
            \/ /\ EndOfFrame(tick) /\ GoesOn(s, card, z, card')
               /\ Hears(b) => b[4] # 6 /\ card'.heard = b
            \/ EndOfFrame(tick) /\ Hears(b) /\ b[4] = 6 /\ Replied(k, Says, b, z, card')
<1> DEFINE s == k \o card.out  b == TransmitReg
<1>0. /\ IsSeq(s) /\ Len(k) \in Nat /\ Len(s) = Len(k) + Len(card.out) /\ Len(card.out) \in Nat
      /\ \A x \in 1 .. Len(k) : s[x] = k[x]
  BY Joined
<1>1. CASE ~Selected
  <2>1. card' = Silent /\ card.sends = <<>>
    BY <1>1 DEF Card
  <2>2. card'.out = <<>> /\ card'.sends = <<>>
    BY <2>1 DEF Silent
  <2>6. DOMAIN card' = CardFields
    BY <2>1 DEF Silent, CardFields
  <2>3. IsSeq(Append(k, Ones)) /\ Len(Append(k, Ones)) = Len(k) + 1
        /\ (\A x \in 1 .. Len(k) : Append(k, Ones)[x] = k[x]) /\ Append(k, Ones)[Len(k) + 1] = Ones
    BY Added
  <2>4. z = Append(k, Ones) \/ z = k
    BY <1>1, <2>2, <2>3, JoinedEmpty
  <2>5. Cut(s, card, z, card')
    <3> HIDE DEF s
    <3>1. CASE z = k
      BY <1>0, <2>1, <2>2, <3>1 DEF Cut
    <3>2. CASE z = Append(k, Ones)
      BY <1>0, <2>1, <2>2, <2>3, <3>2 DEF Cut
    <3> QED BY <2>4, <3>1, <3>2
  <2> QED BY <2>2, <2>5, <2>6, Short
<1>2. CASE Selected /\ ~EndOfFrame(tick)
  <2>1. card' = card
    BY <1>2 DEF Card
  <2> QED BY <1>2, <2>1
<1>3. CASE Selected /\ EndOfFrame(tick)
  <2>1. card' \in CardHears(b) /\ z = Append(k, Says) \o card'.out
    BY <1>3 DEF Card
  <2>2. CASE Hears(b) /\ b[4] = 6
    <3>1. PICK gap \in Gaps(0), a \in Answers(b[2]) : card' = Reply(b[2], b[3], gap, a)
      BY <2>1, <2>2, CardAnswers
    <3>2. card'.out = Stuff(b[2]) \o gap \o a
      BY <3>1 DEF Reply
    <3>3. IsSeq(card'.out)
      BY <1>3, <2>2, <3>2, ReplyShape
    <3>5. DOMAIN card' = CardFields
      BY <3>1 DEF Reply, CardFields
    <3>4. Replied(k, Says, b, z, card')
      BY <2>1, <3>1, <3>2 DEF Replied
    <3> QED BY <1>3, <2>2, <3>3, <3>4, <3>5
  <2>3. CASE ~(Hears(b) /\ b[4] = 6)
    <3> DEFINE heard == IF Hears(b) THEN b ELSE Ones
    <3>1. card' \in IF Rest = <<>> /\ card.sends # <<>>
                    THEN {[heard |-> heard, out |-> o, sends |-> [card.sends EXCEPT ![2] = @ + 1]] :
                            o \in Blocks(card.sends[1], card.sends[2])}
                    ELSE {[card EXCEPT !.heard = heard, !.out = Rest]}
      BY <2>1, <2>3 DEF CardHears
    <3>2. IsSeq(Rest) /\ Append(k, Says) \o Rest \in {s, Append(s, Ones)}
      <4>1. CASE card.out = <<>>
        <5>1. Says = Ones /\ Rest = <<>> /\ s = k
          BY <4>1, JoinedEmpty DEF Says, Rest
        <5>2. Append(k, Ones) \o <<>> = Append(k, Ones)
          BY Added, JoinedEmpty
        <5> QED BY <5>1, <5>2, Short
      <4>2. CASE card.out # <<>>
        <5>1. Len(card.out) > 0 /\ Says = card.out[1] /\ Rest = Tail(card.out)
          BY <1>0, <4>2, Lengths DEF Says, Rest
        <5> QED BY <5>1, HeadMoves, Tailed
      <4> QED BY <4>1, <4>2
    <3>3. CASE Rest = <<>> /\ card.sends # <<>>
      <4>1. PICK o \in Blocks(card.sends[1], card.sends[2]) :
              card' = [heard |-> heard, out |-> o, sends |-> [card.sends EXCEPT ![2] = @ + 1]]
        BY <3>1, <3>3
      <4>2. card'.heard = heard /\ card'.out = o /\ card'.sends = [card.sends EXCEPT ![2] = @ + 1]
            /\ DOMAIN card' = CardFields
        BY <4>1 DEF CardFields
      <4>3. Append(k, Says) \in {s, Append(s, Ones)}
        <5>1. Append(k, Says) \o <<>> = Append(k, Says)
          BY Added, JoinedEmpty
        <5> QED BY <3>2, <3>3, <5>1
      <4>4. Filled(s, card, z, card')
        <5> HIDE DEF s
        <5> QED BY <2>1, <3>3, <4>2, <4>3 DEF Filled
      <4>5. IsSeq(o)
        BY BlockShape
      <4> QED BY <1>3, <2>3, <4>2, <4>4, <4>5 DEF GoesOn
    <3>4. CASE ~(Rest = <<>> /\ card.sends # <<>>)
      <4>1. card' = [card EXCEPT !.heard = heard, !.out = Rest]
        BY <3>1, <3>4
      <4>2. card'.heard = heard /\ card'.out = Rest /\ card'.sends = card.sends /\ DOMAIN card' = CardFields
        BY <4>1
      <4>3. Slid(s, card, z, card')
        <5> HIDE DEF s
        <5> QED BY <2>1, <3>2, <4>2 DEF Slid
      <4> QED BY <1>3, <2>3, <3>2, <4>2, <4>3 DEF GoesOn
    <3> QED BY <3>3, <3>4
  <2> QED BY <2>2, <2>3
<1> QED BY <1>1, <1>2, <1>3
-----------------------------------------------------------------------------
(***************************************************************************)
(* What it makes of a command that is heard.                               *)
(***************************************************************************)
\* What is plain stays so.
LEMMA JunkTurns ==
  ASSUME NEW s, IsSeq(s), NEW c, NEW z, NEW d, Cut(s, c, z, d) \/ Slid(s, c, z, d),
         NEW j \in Int, Junk(s, j)
  PROVE  Junk(z, j)
<1>1. CASE Cut(s, c, z, d)
  BY <1>1, Bytes DEF Cut, Junk
<1>2. CASE z = s
  BY <1>2
<1>3. CASE z = Append(s, Ones)
  <2>1. /\ Len(z) = Len(s) + 1 /\ Len(s) \in Nat /\ z[Len(s) + 1] = Ones
        /\ \A x \in 1 .. Len(s) : z[x] = s[x]
    BY <1>3, Added
  <2>2. ASSUME NEW x \in 1 .. Len(z), x > j
        PROVE  Plain(z[x])
    <3>1. x \in 1 .. Len(s) \/ x = Len(s) + 1
      BY <2>1
    <3> QED BY <2>1, <2>2, <3>1, Bytes DEF Junk
  <2> QED BY <2>2 DEF Junk
<1> QED BY <1>1, <1>2, <1>3 DEF Slid

\* A card that sends nothing, or not any more, is mute.
LEMMA MuteTurns ==
  ASSUME NEW s, IsSeq(s), NEW c, NEW z, NEW d, Turned(s, c, z, d),
         Mute(s, c.sends)
  PROVE  Mute(z, d.sends)
<1>1. Cut(s, c, z, d) \/ Slid(s, c, z, d)
  BY DEF Mute, Turned, GoesOn, Filled
<1>2. Quiet(z)
  BY <1>1, JunkTurns DEF Mute, Quiet
<1>3. d.sends = <<>>
  BY <1>1 DEF Mute, Cut, Slid
<1> QED BY <1>2, <1>3 DEF Mute

\* z is s and more; it is the chain at and maybe more blocks behind.
Longer(s, z) == /\ Len(s) \in Nat /\ Len(z) \in Nat /\ Len(s) <= Len(z)
                /\ \A x \in 1 .. Len(s) : z[x] = s[x]
Lengthens(s, z, next, job, n, m, at) == \E l, new :
  /\ next = <<job, l>> /\ Chain(z, job, n, l, new) /\ m <= l
  /\ \A k \in n .. m - 1 : new[k] = at[k]
  /\ \A k \in m .. l - 1 : new[k] >= Len(s) + 2

\* A card that sends blocks goes on.
LEMMA ChainTurns ==
  ASSUME NEW s, IsSeq(s), NEW c, NEW z, NEW d, Turned(s, c, z, d),
         NEW job, NEW n, NEW m, NEW at, Chain(s, job, n, m, at), c.sends = <<job, m>>
  PROVE  Longer(s, z) /\ Lengthens(s, z, d.sends, job, n, m, at)
<1>1. c.sends # <<>> /\ GoesOn(s, c, z, d) /\ m \in Int /\ n \in Int /\ n <= m
  BY DEF Turned, Cut, Chain
<1>2. Len(s) \in Nat
  BY Lengths
<1>3. ASSUME NEW t \in {s, Append(s, Ones)}
      PROVE  /\ IsSeq(t) /\ Len(t) \in Nat /\ Len(s) <= Len(t)
             /\ \A x \in 1 .. Len(s) : t[x] = s[x]
             /\ Chain(t, job, n, m, at)
  <2>1. CASE t = s
    BY <1>2, <2>1
  <2>2. CASE t = Append(s, Ones)
    <3>1. /\ IsSeq(t) /\ Len(t) = Len(s) + 1 /\ t[Len(s) + 1] = Ones
          /\ \A x \in 1 .. Len(s) : t[x] = s[x]
      BY <2>2, Added
    <3>2. \A x \in Len(s) + 1 .. Len(t) : Plain(t[x])
      BY <1>2, <3>1, Bytes
    <3>3. Len(t) \in Nat /\ Len(s) <= Len(t)
      BY <1>2, <3>1
    <3> QED BY <1>2, <3>1, <3>2, <3>3, ChainGrows
  <2> QED BY <2>1, <2>2
<1>4. CASE Slid(s, c, z, d)
  <2>1. z \in {s, Append(s, Ones)} /\ d.sends = <<job, m>>
    BY <1>4 DEF Slid
  <2>2. \A k \in m .. m - 1 : at[k] >= Len(s) + 2
    BY <1>1
  <2>3. Len(z) \in Nat /\ Len(s) <= Len(z) /\ (\A x \in 1 .. Len(s) : z[x] = s[x])
        /\ Chain(z, job, n, m, at)
    BY <1>3, <2>1
  <2>4. m <= m
    BY <1>1
  <2>5. Longer(s, z)
    BY <1>2, <2>3 DEF Longer
  <2>6. Lengthens(s, z, d.sends, job, n, m, at)
    BY <2>1, <2>2, <2>3, <2>4 DEF Lengthens
  <2> QED BY <2>5, <2>6
<1>5. CASE Filled(s, c, z, d)
  <2>1. c.sends[1] = job /\ c.sends[2] = m /\ [c.sends EXCEPT ![2] = @ + 1] = <<job, m + 1>>
    OBVIOUS
  <2>2. PICK t \in {s, Append(s, Ones)}, o \in Blocks(job, m) : z = t \o o
    BY <1>5, <2>1 DEF Filled
  <2>3. d.sends = <<job, m + 1>>
    BY <1>5, <2>1 DEF Filled
  <2>4. /\ IsSeq(t) /\ Len(t) \in Nat /\ Len(s) <= Len(t) /\ Chain(t, job, n, m, at)
        /\ \A x \in 1 .. Len(s) : t[x] = s[x]
    BY <1>3
  <2>5. PICK new : /\ Chain(t \o o, job, n, m + 1, new)
                   /\ \A k \in n .. m - 1 : new[k] = at[k]
                   /\ new[m] >= Len(t) + 2
    BY <2>4, ChainBlock
  <2>6. IsSeq(o)
    BY BlockShape
  <2>7. /\ Len(z) = Len(t) + Len(o) /\ Len(o) \in Nat
        /\ \A x \in 1 .. Len(t) : z[x] = t[x]
    BY <2>2, <2>4, <2>6, Joined
  <2>8. new[m] \in Int
    <3>1. m \in n .. (m + 1) - 1
      BY <1>1
    <3> QED BY <2>5, <3>1 DEF Chain, Lies
  <2>9. \A k \in m .. (m + 1) - 1 : new[k] >= Len(s) + 2
    <3>1. \A k \in m .. (m + 1) - 1 : k = m
      BY <1>1
    <3> QED BY <1>2, <2>4, <2>5, <2>8, <3>1
  <2>10. Len(z) \in Nat /\ Len(s) <= Len(z) /\ \A x \in 1 .. Len(s) : z[x] = s[x]
    BY <1>2, <2>4, <2>7
  <2>11. Chain(z, job, n, m + 1, new) /\ m <= m + 1
    BY <1>1, <2>2, <2>5
  <2>12. Longer(s, z)
    BY <1>2, <2>10 DEF Longer
  <2>13. Lengthens(s, z, d.sends, job, n, m, at)
    BY <2>3, <2>5, <2>9, <2>11 DEF Lengthens
  <2> QED BY <2>12, <2>13
<1> QED BY <1>1, <1>4, <1>5 DEF GoesOn

\* So it does while the loader looks for a block,
LEMMA BeginsTurns ==
  ASSUME NEW s, IsSeq(s), NEW c, NEW z, NEW d, Turned(s, c, z, d),
         NEW job, NEW n, NEW least \in Int, least <= Len(s) + 2, Begins(s, c.sends, job, n, least)
  PROVE  Begins(z, d.sends, job, n, least)
<1>1. PICK m, at : c.sends = <<job, m>> /\ Chain(s, job, n, m, at) /\ \A k \in n .. m - 1 : at[k] >= least
  BY DEF Begins
<1>2. Len(s) \in Nat
  BY Lengths
<1>3. PICK l, new : /\ d.sends = <<job, l>> /\ Chain(z, job, n, l, new) /\ m <= l
                    /\ \A k \in n .. m - 1 : new[k] = at[k]
                    /\ \A k \in m .. l - 1 : new[k] >= Len(s) + 2
  <2>1. Lengthens(s, z, d.sends, job, n, m, at)
    BY <1>1, ChainTurns
  <2> QED BY <2>1 DEF Lengthens
<1>4. n \in Int /\ m \in Int /\ l \in Int
  BY <1>1, <1>3 DEF Chain
<1>5. ASSUME NEW k \in n .. l - 1
      PROVE  new[k] >= least
  <2>1. CASE k \in n .. m - 1
    BY <1>1, <1>3, <2>1
  <2>2. CASE k \in m .. l - 1
    <3>1. new[k] \in Int
      BY <1>3 DEF Chain, Lies
    <3> QED BY <1>2, <1>3, <2>2, <3>1
  <2> QED BY <1>4, <2>1, <2>2
<1> QED BY <1>3, <1>5 DEF Begins

\* and while it reads one,
LEMMA ReadsTurns ==
  ASSUME NEW s, IsSeq(s), NEW c, NEW z, NEW d, Turned(s, c, z, d),
         NEW job, NEW n, NEW t, Reads(s, c.sends, job, n, t)
  PROVE  Reads(z, d.sends, job, n, t)
<1>1. PICK m, at : c.sends = <<job, m>> /\ Chain(s, job, n, m, at) /\ n < m /\ at[n] = t
  BY DEF Reads
<1>2. PICK l, new : /\ d.sends = <<job, l>> /\ Chain(z, job, n, l, new) /\ m <= l
                    /\ \A k \in n .. m - 1 : new[k] = at[k]
  <2>1. Lengthens(s, z, d.sends, job, n, m, at)
    BY <1>1, ChainTurns
  <2> QED BY <2>1 DEF Lengthens
<1>3. n \in Int /\ m \in Int /\ l \in Int
  BY <1>1, <1>2 DEF Chain
<1>4. n \in n .. m - 1 /\ n < l
  BY <1>1, <1>2, <1>3
<1> QED BY <1>1, <1>2, <1>4 DEF Reads

\* and while it has not read the response.
LEMMA AnsweredTurns ==
  ASSUME NEW s, IsSeq(s), NEW c, NEW z, NEW d, Turned(s, c, z, d),
         NEW job, Answered(s, c.sends, job)
  PROVE  Answered(z, d.sends, job)
<1>1. PICK q \in 1 .. Len(s) : Low(s[q]) /\ Begins(s, c.sends, job, 1, q + 2)
  BY DEF Answered
<1>2. PICK m, at : c.sends = <<job, m>> /\ Chain(s, job, 1, m, at)
  BY <1>1 DEF Begins
<1>3. Len(s) \in Nat /\ Len(z) \in Nat /\ Len(s) <= Len(z) /\ z[q] = s[q]
  <2>1. Longer(s, z)
    BY <1>2, ChainTurns
  <2> QED BY <2>1 DEF Longer
<1>4. Begins(z, d.sends, job, 1, q + 2)
  <2>1. q + 2 \in Int /\ q + 2 <= Len(s) + 2
    BY <1>3
  <2> QED BY <1>1, <2>1, BeginsTurns
<1> QED BY <1>1, <1>3, <1>4 DEF Answered

\* Where a response with bit 7 clear is the last of what is to be read, the first
\* block comes two bytes behind it.
LEMMA AnswersFirst ==
  ASSUME NEW s, IsSeq(s), NEW job, Len(s) > 0, Quiet(s), Low(s[Len(s)])
  PROVE  Answered(s, <<job, 1>>, job)
<1>1. Chain(s, job, 1, 1, <<>>)
  BY DEF Chain, Quiet, Junk
<1>2. Begins(s, <<job, 1>>, job, 1, Len(s) + 2)
  <2>1. \A k \in 1 .. 1 - 1 : <<>>[k] >= Len(s) + 2
    OBVIOUS
  <2> QED BY <1>1, <2>1 DEF Begins
<1>3. Len(s) \in 1 .. Len(s)
  BY Lengths
<1> QED BY <1>2, <1>3 DEF Answered

\* The card that is cut off was not sending.
LEMMA HeardCut ==
  ASSUME NEW s, IsSeq(s), NEW c, NEW z, NEW d, Cut(s, c, z, d),
         NEW cmd, NEW job, NEW done \in Int, NEW more \in Int, done <= more,
         NEW j \in Int, Heard(s, c, cmd, job, done, j)
  PROVE  Heard(z, d, cmd, job, more, j)
<1>1. c.sends = <<>> /\ d.sends = <<>> /\ Turned(s, c, z, d)
  BY DEF Cut, Turned
<1>2. ~Answered(s, c.sends, job) /\ c.sends # <<job, 1>>
  BY <1>1 DEF Answered, Begins
<1>3. CASE cmd = 12
  <2>1. done >= 6 /\ Junk(s, j)
    BY <1>1, <1>3 DEF Heard
  <2>2. Junk(z, j)
    BY <2>1, JunkTurns
  <2> QED BY <1>1, <1>3, <2>1, <2>2 DEF Heard
<1>4. CASE cmd # 12
  <2>1. Mute(s, c.sends)
    BY <1>2, <1>4 DEF Heard
  <2>2. Mute(z, d.sends)
    BY <1>1, <2>1, MuteTurns
  <2> QED BY <1>4, <2>2 DEF Heard
<1> QED BY <1>3, <1>4

\* Bytes that are no command change nothing of what has been heard.
LEMMA HeardIdle ==
  ASSUME NEW s, IsSeq(s), NEW c, NEW z, NEW d, GoesOn(s, c, z, d),
         NEW cmd, NEW job, NEW done \in Int, done \in {6, 7},
         cmd = 18 /\ done = 6 => IsSeq(c.out) /\ \E k : IsSeq(k) /\ s = k \o c.out,
         NEW j \in Int, Heard(s, c, cmd, job, done, j)
  PROVE  Heard(z, d, cmd, job, 7, j)
<1>1. Turned(s, c, z, d)
  BY DEF Turned
<1>2. CASE cmd = 12
  <2>1. c.sends = <<>> /\ Junk(s, j)
    BY <1>2 DEF Heard
  <2>2. Slid(s, c, z, d)
    BY <2>1 DEF GoesOn, Filled
  <2>3. Junk(z, j) /\ d.sends = <<>>
    BY <2>1, <2>2, JunkTurns DEF Slid
  <2> QED BY <1>2, <2>3 DEF Heard
<1>3. CASE Mute(s, c.sends) /\ cmd # 12
  <2>1. Mute(z, d.sends)
    BY <1>1, <1>3, MuteTurns
  <2> QED BY <1>3, <2>1 DEF Heard
<1>4. CASE Answered(s, c.sends, job) /\ cmd = 18
  <2>1. Answered(z, d.sends, job)
    BY <1>1, <1>4, AnsweredTurns
  <2> QED BY <1>4, <2>1 DEF Heard
<1>5. CASE cmd = 18 /\ done = 6 /\ Quiet(s) /\ c.sends = <<job, 1>> /\ Len(c.out) > 0 /\ Low(c.out[Len(c.out)])
  <2>1. PICK k : IsSeq(k) /\ s = k \o c.out
    BY <1>5
  <2>2. Len(s) > 0 /\ s[Len(s)] = c.out[Len(c.out)]
    <3>1. /\ Len(s) = Len(k) + Len(c.out) /\ Len(k) \in Nat /\ Len(c.out) \in Nat
          /\ \A x \in Len(k) + 1 .. Len(k) + Len(c.out) : s[x] = c.out[x - Len(k)]
      BY <1>5, <2>1, Joined
    <3>2. Len(s) \in Len(k) + 1 .. Len(k) + Len(c.out) /\ Len(s) - Len(k) = Len(c.out) /\ Len(s) > 0
      BY <1>5, <3>1
    <3> QED BY <3>1, <3>2
  <2>3. Answered(s, c.sends, job)
    BY <1>5, <2>2, AnswersFirst
  <2>4. Answered(z, d.sends, job)
    BY <1>1, <2>3, AnsweredTurns
  <2> QED BY <1>5, <2>4 DEF Heard
<1>6. \/ cmd = 12
      \/ Mute(s, c.sends) /\ cmd # 12
      \/ Answered(s, c.sends, job) /\ cmd = 18
      \/ cmd = 18 /\ done = 6 /\ Quiet(s) /\ c.sends = <<job, 1>> /\ Len(c.out) > 0 /\ Low(c.out[Len(c.out)])
  BY DEF Heard
<1> QED BY <1>2, <1>3, <1>4, <1>5, <1>6

\* A byte of the command is heard that is not the last of it.
LEMMA HeardByte ==
  ASSUME NEW s, IsSeq(s), NEW z, GoesOn(s, card, z, card'),
         NEW cmd, NEW job, NEW done \in Int, done < 6, NEW j,
         NEW b, b = Byte(cmd, job, done + 1),
         Hears(b) => b[4] # 6 /\ card'.heard = b,
         Heard(s, card, cmd, job, done, j)
  PROVE  Heard(z, card', cmd, job, done + 1, j)
<1>1. Turned(s, card, z, card')
  BY DEF Turned
<1>2. CASE cmd = 12
  <2>1. card.sends # <<>> /\ (done > 0 => card.heard = Byte(12, job, done))
    BY <1>2 DEF Heard
  <2>2. card'.sends # <<>>
    <3>1. CASE Slid(s, card, z, card')
      BY <2>1, <3>1 DEF Slid
    <3>2. CASE Filled(s, card, z, card')
      <4>1. card'.sends = [card.sends EXCEPT ![2] = @ + 1]
        BY <3>2 DEF Filled
      <4> QED BY <2>1, <4>1
    <3> QED BY <3>1, <3>2 DEF GoesOn
  <2>3. CASE done + 1 > 0
    <3>1. b = <<"cmd", 12, 0, done + 1>>
      BY <1>2, <2>3 DEF Byte
    <3>2. done > 0 => [b EXCEPT ![4] = @ - 1] = <<"cmd", 12, 0, done>> /\ Byte(12, job, done) = <<"cmd", 12, 0, done>>
      BY <3>1 DEF Byte
    <3>3. Hears(b)
      <4>1. b[1] = "cmd" /\ b[4] = done + 1
        BY <3>1
      <4>2. CASE done = 0
        BY <4>1, <4>2 DEF Hears
      <4>3. CASE done > 0
        BY <2>1, <3>2, <4>1, <4>3 DEF Hears
      <4> QED BY <2>3, <4>2, <4>3
    <3>4. done + 1 # 6 /\ card'.heard = Byte(12, job, done + 1)
      BY <1>2, <3>1, <3>3
    <3> QED BY <1>2, <2>2, <3>4 DEF Heard
  <2>4. CASE ~(done + 1 > 0)
    BY <1>2, <2>2, <2>4 DEF Heard
  <2> QED BY <2>3, <2>4
<1>3. CASE cmd # 12
  <2>1. Mute(s, card.sends)
    BY <1>3 DEF Heard
  <2>2. Mute(z, card'.sends)
    BY <1>1, <2>1, MuteTurns
  <2> QED BY <1>3, <2>2 DEF Heard
<1> QED BY <1>2, <1>3

\* The last byte of the command is heard and answered.
LEMMA HeardReply ==
  ASSUME NEW k, IsSeq(k), IsSeq(card.out), NEW z, NEW says, says = Says,
         NEW cmd \in Commands, NEW job, NEW done \in Int, done <= 6, NEW j,
         done = 5 => j = Len(k) + 2,
         NEW b, b = Byte(cmd, job, done + 1), Hears(b), b[4] = 6,
         NEW d, Replied(k, says, b, z, d),
         Heard(k \o card.out, card, cmd, job, done, j)
  PROVE  Heard(z, d, cmd, job, done + 1, j)
<1>1. done = 5 /\ b[2] = cmd /\ (cmd = 18 => b[3] = job)
  <2>1. done + 1 \in 1 .. 6
    <3>1. Ones[1] = "ff"
      BY DEF Ones
    <3>2. b[1] = "cmd"
      BY DEF Hears
    <3> QED BY <3>1, <3>2 DEF Byte
  <2>2. b = <<"cmd", cmd, IF cmd = 18 THEN job ELSE 0, done + 1>>
    BY <2>1 DEF Byte
  <2> QED BY <2>2
<1>2. PICK gap \in Gaps(0), a \in Answers(cmd) :
        d = Reply(cmd, b[3], gap, a) /\ z = Append(k, says) \o (Stuff(cmd) \o gap \o a)
  BY <1>1 DEF Replied
<1> DEFINE o == Stuff(cmd) \o gap \o a  t == Append(k, says)  s == k \o card.out
<1>3. /\ IsSeq(o) /\ Len(o) > 0 /\ Junk(o, IF cmd = 12 THEN 1 ELSE 0) /\ Len(o) \in Nat
      /\ a = <<R1("ready")>> => Low(o[Len(o)])
  BY ReplyShape, Lengths
<1>4. /\ d.out = o
      /\ d.sends = IF a = <<R1("ready")>> /\ cmd = 18 THEN <<b[3], 1>> ELSE <<>>
  BY <1>2 DEF Reply
<1>5. /\ IsSeq(t) /\ Len(t) = Len(k) + 1 /\ t[Len(k) + 1] = says
      /\ \A x \in 1 .. Len(k) : t[x] = k[x]
  BY Added
<1> HIDE DEF o, t
<1>6. /\ Len(z) = Len(t) + Len(o)
      /\ \A x \in 1 .. Len(t) : z[x] = t[x]
      /\ \A x \in Len(t) + 1 .. Len(t) + Len(o) : z[x] = o[x - Len(t)]
  <2>1. z = t \o o
    BY <1>2 DEF t, o
  <2> QED BY <1>3, <1>5, <2>1, Joined, ZenonT(40)
<1>7. Len(k) \in Nat
  BY Lengths
<1>8. ASSUME NEW x \in 1 .. Len(z), x > Len(k) + 1, cmd = 12 => x > Len(k) + 2
      PROVE  Plain(z[x])
  <2>1. z[x] = o[x - Len(t)] /\ x - Len(t) \in 1 .. Len(o) /\ (cmd = 12 => x - Len(t) > 1)
    BY <1>3, <1>5, <1>6, <1>7, <1>8
  <2> QED BY <1>3, <2>1 DEF Junk
<1>9. CASE cmd = 12
  <2>1. Junk(z, j)
    BY <1>1, <1>7, <1>8, <1>9 DEF Junk
  <2> QED BY <1>1, <1>4, <1>9, <2>1 DEF Heard
<1>10. CASE cmd # 12
  <2>1. Mute(s, card.sends)
    BY <1>1, <1>10 DEF Heard
  <2>2. /\ Len(s) = Len(k) + Len(card.out) /\ Len(card.out) \in Nat
        /\ \A x \in 1 .. Len(k) : s[x] = k[x]
        /\ \A x \in Len(k) + 1 .. Len(k) + Len(card.out) : s[x] = card.out[x - Len(k)]
    BY Joined
  <2> HIDE DEF s
  <2>3. \A x \in 1 .. Len(s) : Plain(s[x])
    BY <2>1 DEF Mute, Quiet, Junk
  <2>4. Plain(says)
    <3>1. CASE card.out = <<>>
      BY <3>1, Bytes DEF Says
    <3>2. CASE card.out # <<>>
      <4>1. says = card.out[1] /\ Len(card.out) > 0
        BY <2>2, <3>2, Lengths DEF Says
      <4>2. s[Len(k) + 1] = card.out[1] /\ Len(k) + 1 \in 1 .. Len(s)
        <5>1. Len(k) + 1 \in Len(k) + 1 .. Len(k) + Len(card.out) /\ (Len(k) + 1) - Len(k) = 1
          BY <1>7, <2>2, <4>1
        <5>2. Len(k) + 1 \in 1 .. Len(s)
          BY <1>7, <2>2, <4>1
        <5> QED BY <2>2, <5>1, <5>2
      <4> QED BY <2>3, <4>1, <4>2
    <3> QED BY <3>1, <3>2
  <2>5. ASSUME NEW x \in 1 .. Len(z)
        PROVE  Plain(z[x])
    <3>1. CASE x <= Len(k)
      <4>1. z[x] = s[x] /\ x \in 1 .. Len(s)
        BY <1>5, <1>6, <1>7, <2>2, <3>1
      <4> QED BY <2>3, <4>1
    <3>2. CASE x = Len(k) + 1
      BY <1>5, <1>6, <1>7, <2>4, <3>2
    <3>3. CASE x > Len(k) + 1
      BY <1>8, <1>10, <3>3
    <3> QED BY <1>7, <3>1, <3>2, <3>3
  <2>6. Quiet(z)
    BY <2>5 DEF Quiet, Junk
  <2>7. CASE a = <<R1("ready")>> /\ cmd = 18
    <3>1. d.sends = <<job, 1>> /\ Low(d.out[Len(d.out)]) /\ Len(d.out) > 0
      BY <1>1, <1>3, <1>4, <2>7
    <3> QED BY <1>1, <2>6, <2>7, <3>1 DEF Heard
  <2>8. CASE ~(a = <<R1("ready")>> /\ cmd = 18)
    <3>1. Mute(z, d.sends)
      BY <1>4, <2>6, <2>8 DEF Mute
    <3> QED BY <1>10, <3>1 DEF Heard
  <2> QED BY <2>7, <2>8
<1> QED BY <1>9, <1>10
-----------------------------------------------------------------------------
(***************************************************************************)
(* What a frame makes of the bytes both ways, for each thing the loader may*)
(* be doing.                                                               *)
(***************************************************************************)
\* What a frame, if it ends, makes of the bytes the card has not heard, g, and of
\* those behind the k the loader has not read.
Framed(g, k, tick, h, z) ==
  /\ IsSeq(g) /\ IsSeq(k) /\ IsSeq(card.out)
  /\ EndOfFrame(tick) => Len(g) > 0 /\ g[1] = TransmitReg
  /\ h = IF EndOfFrame(tick) THEN Tail(g) ELSE g
  /\ LET s == k \o card.out  b == TransmitReg IN
     \/ ~EndOfFrame(tick) /\ z = s /\ card' = card
     \/ Cut(s, card, z, card')
     \/ /\ EndOfFrame(tick) /\ GoesOn(s, card, z, card')
        /\ Hears(b) => b[4] # 6 /\ card'.heard = b
     \/ EndOfFrame(tick) /\ Hears(b) /\ b[4] = 6 /\ Replied(k, Says, b, z, card')

\* An idle byte is no command.
LEMMA OnesAreIdle == ~Hears(Ones)
<1>1. Ones[1] = "ff"
  BY DEF Ones
<1> QED BY <1>1 DEF Hears

\* Idle bytes leave the card to itself.
LEMMA FrameIdles ==
  ASSUME NEW g, NEW k, NEW tick, NEW h, NEW z, Framed(g, k, tick, h, z), AllOnes(g)
  PROVE  /\ AllOnes(h) /\ IsSeq(k \o card.out)
         /\ \/ z = k \o card.out /\ card' = card
            \/ Cut(k \o card.out, card, z, card')
            \/ GoesOn(k \o card.out, card, z, card')
<1>1. EndOfFrame(tick) => ~Hears(TransmitReg)
  <2>1. EndOfFrame(tick) => 1 \in 1 .. Len(g)
    BY Lengths DEF Framed
  <2> QED BY <2>1, OnesAreIdle DEF Framed, AllOnes
<1>2. AllOnes(h)
  <2>1. CASE EndOfFrame(tick)
    <3>1. /\ Len(h) = Len(g) - 1 /\ Len(g) \in Nat
          /\ \A x \in 1 .. Len(g) - 1 : h[x] = g[x + 1]
      BY <2>1, Tailed DEF Framed
    <3>2. \A x \in 1 .. Len(h) : x + 1 \in 1 .. Len(g)
      BY <3>1
    <3> QED BY <3>1, <3>2 DEF AllOnes
  <2>2. CASE ~EndOfFrame(tick)
    BY <2>2 DEF Framed
  <2> QED BY <2>1, <2>2
<1>3. IsSeq(k \o card.out)
  BY Joined DEF Framed
<1> QED BY <1>1, <1>2, <1>3 DEF Framed

\* While the loader sends a command, byte by byte.
LEMMA FrameUttered ==
  ASSUME NEW g, NEW k, NEW tick, NEW h, NEW z, Framed(g, k, tick, h, z),
         NEW p, p.cmd \in Commands, NEW n \in Int, n <= 7, NEW o, o = Len(g) + Len(k),
         Uttered(p, g, k \o card.out, card, o, n)
  PROVE  Uttered(p, h, z, card', o, n)
<1> DEFINE s == k \o card.out  b == TransmitReg  done == n - Len(g)  j == o + 7 - n
<1>1. /\ Said(g, p.cmd, p.job, n) /\ Heard(s, card, p.cmd, p.job, done, j)
      /\ IsSeq(g) /\ IsSeq(k) /\ IsSeq(card.out) /\ IsSeq(s)
      /\ Len(g) \in Nat /\ Len(k) \in Nat /\ done \in Int /\ j \in Int
  <2>1. Len(g) \in Nat /\ Len(k) \in Nat
    BY Lengths DEF Framed
  <2> QED BY <2>1, Joined DEF Framed, Uttered
<1>2. CASE ~EndOfFrame(tick)
  <2>1. h = g
    BY <1>2 DEF Framed
  <2>2. CASE z = s /\ card' = card
    BY <2>1, <2>2
  <2>3. CASE Cut(s, card, z, card')
    <3>1. Heard(z, card', p.cmd, p.job, done, j)
      <4> HIDE DEF s, done, j
      <4> QED BY <1>1, <2>3, HeardCut
    <3> QED BY <1>1, <2>1, <3>1 DEF Uttered
  <2> QED BY <1>2, <2>2, <2>3 DEF Framed
<1>3. CASE EndOfFrame(tick)
  <2>1. /\ Len(h) = Len(g) - 1 /\ g[1] = b /\ Len(g) > 0
        /\ \A x \in 1 .. Len(g) - 1 : h[x] = g[x + 1]
    BY <1>3, Tailed DEF Framed
  <2>2. n - Len(h) = done + 1 /\ done <= 6
    BY <1>1, <2>1
  <2>3. Said(h, p.cmd, p.job, n)
    <3>1. ASSUME NEW x \in 1 .. Len(h)
          PROVE  h[x] = Byte(p.cmd, p.job, x - Len(h) + n)
      <4> DEFINE y == x + 1  m == y - Len(g) + n
      <4>1. y \in 1 .. Len(g) /\ m = x - Len(h) + n /\ h[x] = g[y]
        BY <1>1, <2>1
      <4>2. \A w \in 1 .. Len(g) : g[w] = Byte(p.cmd, p.job, w - Len(g) + n)
        BY <1>1 DEF Uttered, Said
      <4>3. g[y] = Byte(p.cmd, p.job, m)
        BY <4>1, <4>2
      <4> QED BY <4>1, <4>3
    <3> QED BY <3>1 DEF Said
  <2>4. b = Byte(p.cmd, p.job, done + 1)
    <3>1. 1 \in 1 .. Len(g) /\ 1 - Len(g) + n = done + 1
      BY <1>1, <2>1
    <3> QED BY <1>1, <2>1, <3>1 DEF Said
  <2>5. done = 5 => j = Len(k) + 2
    BY <1>1
  <2>6. Heard(z, card', p.cmd, p.job, done + 1, j)
    <3>1. \/ Cut(s, card, z, card')
          \/ GoesOn(s, card, z, card') /\ (Hears(b) => b[4] # 6 /\ card'.heard = b)
          \/ Hears(b) /\ b[4] = 6 /\ Replied(k, Says, b, z, card')
      BY <1>3 DEF Framed
    <3> HIDE DEF b, done, j
    <3>2. CASE Cut(s, card, z, card')
      <4> HIDE DEF s
      <4> QED BY <1>1, <3>2, HeardCut
    <3>3. CASE GoesOn(s, card, z, card') /\ (Hears(b) => b[4] # 6 /\ card'.heard = b)
      <4>1. CASE done < 6
        <5> HIDE DEF s
        <5> QED BY <1>1, <2>4, <3>3, <4>1, HeardByte
      <4>2. CASE done = 6
        <5>1. IsSeq(card.out) /\ \E k1 : IsSeq(k1) /\ s = k1 \o card.out
          BY <1>1
        <5>2. Heard(z, card', p.cmd, p.job, 7, j)
          <6> HIDE DEF s
          <6> QED BY <1>1, <3>3, <4>2, <5>1, HeardIdle, ZenonT(40)
        <5> QED BY <4>2, <5>2
      <4> QED BY <1>1, <2>2, <4>1, <4>2
    <3>4. CASE Hears(b) /\ b[4] = 6 /\ Replied(k, Says, b, z, card')
      BY <1>1, <2>2, <2>4, <2>5, <3>4, HeardReply
    <3> QED BY <3>1, <3>2, <3>3, <3>4
  <2> QED BY <2>2, <2>3, <2>6 DEF Uttered
<1> QED BY <1>2, <1>3

\* While it waits for the response,
LEMMA FrameOver ==
  ASSUME NEW g, NEW k, NEW tick, NEW h, NEW z, Framed(g, k, tick, h, z),
         NEW p, NEW j \in Int, Over(p, g, k \o card.out, card, j)
  PROVE  Over(p, h, z, card', j)
<1> DEFINE s == k \o card.out
<1>1. AllOnes(g) /\ Heard(s, card, p.cmd, p.job, 7, j)
  BY DEF Over
<1>2. /\ AllOnes(h) /\ IsSeq(s)
      /\ \/ z = s /\ card' = card
         \/ Cut(s, card, z, card')
         \/ GoesOn(s, card, z, card')
  BY <1>1, FrameIdles
<1> HIDE DEF s
<1>3. Heard(z, card', p.cmd, p.job, 7, j)
  <2>1. CASE z = s /\ card' = card
    BY <1>1, <2>1
  <2>2. CASE Cut(s, card, z, card')
    BY <1>1, <1>2, <2>2, HeardCut
  <2>3. CASE GoesOn(s, card, z, card')
    BY <1>1, <1>2, <2>3, HeardIdle
  <2> QED BY <1>2, <2>1, <2>2, <2>3
<1> QED BY <1>2, <1>3 DEF Over

\* while it looks for a block,
LEMMA FrameSearching ==
  ASSUME NEW g, NEW k, NEW tick, NEW h, NEW z, Framed(g, k, tick, h, z),
         NEW p, NEW least \in 1 .. 2, Searching(p, g, k \o card.out, card, least)
  PROVE  Searching(p, h, z, card', least)
<1> DEFINE s == k \o card.out
<1>1. AllOnes(g) /\ p.cmd = 18
      /\ (Mute(s, card.sends) \/ Begins(s, card.sends, p.job, p.block, least))
  BY DEF Searching
<1>2. /\ AllOnes(h) /\ IsSeq(s)
      /\ (z = s /\ card' = card) \/ Turned(s, card, z, card')
  BY <1>1, FrameIdles DEF Turned
<1> HIDE DEF s
<1>3. least <= Len(s) + 2
  BY <1>2, Lengths
<1>4. CASE z = s /\ card' = card
  BY <1>1, <1>2, <1>4 DEF Searching
<1>5. CASE Turned(s, card, z, card')
  <2>1. Mute(s, card.sends) => Mute(z, card'.sends)
    BY <1>2, <1>5, MuteTurns
  <2>2. Begins(s, card.sends, p.job, p.block, least) => Begins(z, card'.sends, p.job, p.block, least)
    BY <1>2, <1>3, <1>5, BeginsTurns
  <2> QED BY <1>1, <1>2, <2>1, <2>2 DEF Searching
<1> QED BY <1>2, <1>4, <1>5

\* while it reads one,
LEMMA FrameStreaming ==
  ASSUME NEW g, NEW k, NEW tick, NEW h, NEW z, Framed(g, k, tick, h, z),
         NEW p, NEW t, Streaming(p, g, k \o card.out, card, t)
  PROVE  Streaming(p, h, z, card', t)
<1> DEFINE s == k \o card.out
<1>1. AllOnes(g) /\ p.cmd = 18 /\ Reads(s, card.sends, p.job, p.block, t)
  BY DEF Streaming
<1>2. /\ AllOnes(h) /\ IsSeq(s)
      /\ (z = s /\ card' = card) \/ Turned(s, card, z, card')
  BY <1>1, FrameIdles DEF Turned
<1> HIDE DEF s
<1>3. Turned(s, card, z, card') => Reads(z, card'.sends, p.job, p.block, t)
  BY <1>1, <1>2, ReadsTurns
<1> QED BY <1>1, <1>2, <1>3 DEF Streaming

\* and when all has been said.
LEMMA FrameMute ==
  ASSUME NEW g, NEW k, NEW tick, NEW h, NEW z, Framed(g, k, tick, h, z),
         AllOnes(g), Mute(k \o card.out, card.sends)
  PROVE  AllOnes(h) /\ Mute(z, card'.sends)
<1> DEFINE s == k \o card.out
<1>1. /\ AllOnes(h) /\ IsSeq(s)
      /\ (z = s /\ card' = card) \/ Turned(s, card, z, card')
  BY FrameIdles DEF Turned
<1> HIDE DEF s
<1>2. Turned(s, card, z, card') => Mute(z, card'.sends)
  BY <1>1, MuteTurns DEF s
<1> QED BY <1>1, <1>2 DEF s
-----------------------------------------------------------------------------
(***************************************************************************)
(* The same for Contents.                                                  *)
(***************************************************************************)
\* No byte is taken for a command but one of the commands.
Fit(g) == \A x \in 1 .. Len(g) : Hears(g[x]) => g[x][2] \in Commands

\* A frame leaves what is on its way what it is for the loader.
LEMMA FrameContents ==
  ASSUME NEW g, NEW k, NEW tick, NEW h, NEW z, Framed(g, k, tick, h, z),
         NEW p, Program(p), NEW o, o = Len(g) + Len(k), NEW late, NEW stored,
         Contents(p, g, k \o card.out, card, o, late, stored)
  PROVE  Contents(p, h, z, card', o, late, stored)
<1> DEFINE s == k \o card.out
<1>1. o \in Int
  BY Lengths DEF Framed
<1>2. \A n \in Int : n <= 7 /\ Uttered(p, g, s, card, o, n) => Uttered(p, h, z, card', o, n)
  BY FrameUttered DEF Program
<1>3. \A j \in Int : Over(p, g, s, card, j) => Over(p, h, z, card', j)
  BY FrameOver
<1>4. \A least \in 1 .. 2 : Searching(p, g, s, card, least) => Searching(p, h, z, card', least)
  BY FrameSearching
<1>5. \A t : Streaming(p, g, s, card, t) => Streaming(p, h, z, card', t)
  BY FrameStreaming
<1>6. AllOnes(g) /\ Mute(s, card.sends) => AllOnes(h) /\ Mute(z, card'.sends)
  BY FrameMute
<1> HIDE DEF s
<1>7. p.pc = "send" => p.i - 1 \in Int /\ p.i - 1 <= 7
  BY DEF Program
<1>8. /\ Over(p, g, s, card, o) => Over(p, h, z, card', o)
      /\ Over(p, g, s, card, o + 1) => Over(p, h, z, card', o + 1)
      /\ Over(p, g, s, card, o - 1) => Over(p, h, z, card', o - 1)
  BY <1>1, <1>3
<1>9. /\ Uttered(p, g, s, card, o, 0) => Uttered(p, h, z, card', o, 0)
      /\ Uttered(p, g, s, card, o, 6) => Uttered(p, h, z, card', o, 6)
      /\ Uttered(p, g, s, card, o, 7) => Uttered(p, h, z, card', o, 7)
      /\ p.pc = "send" /\ Uttered(p, g, s, card, o, p.i - 1) => Uttered(p, h, z, card', o, p.i - 1)
  BY <1>2, <1>7
<1>10. /\ Searching(p, g, s, card, 1) => Searching(p, h, z, card', 1)
       /\ Searching(p, g, s, card, 2) => Searching(p, h, z, card', 2)
  BY <1>4
<1>11. Contents(p, g, s, card, o, late, stored)
  BY DEF s
<1> QED BY <1>5, <1>6, <1>8, <1>9, <1>10, <1>11 DEF Contents

\* What the loader sends is fit.
LEMMA SaysFit ==
  ASSUME NEW g, IsSeq(g), NEW cmd \in Commands, NEW job, NEW n \in Int,
         Said(g, cmd, job, n) \/ AllOnes(g)
  PROVE  Fit(g)
<1>1. ASSUME NEW x \in 1 .. Len(g), g[x] # Ones
      PROVE  g[x][2] \in Commands
  <2>1. g[x] = Byte(cmd, job, x - Len(g) + n)
    BY <1>1 DEF Said, AllOnes
  <2> QED BY <1>1, <2>1 DEF Byte
<1> QED BY <1>1, OnesAreIdle DEF Fit

\* and so is all that is on its way.
LEMMA ContentsFit ==
  ASSUME NEW g, IsSeq(g), NEW p, Program(p), Ordering(p), NEW s, NEW c, NEW o, NEW late,
         NEW stored, Contents(p, g, s, c, o, late, stored), p.pc \notin {"failed", "booted"}
  PROVE  Fit(g)
<1>1. p.cmd \in Commands /\ (p.pc = "send" => p.i - 1 \in Int) /\ p.why \in Reasons
  BY DEF Program
<1>2. AllOnes(g) => Fit(g)
  BY <1>1, SaysFit, 0 \in Int
<1>3. \A n \in Int : Uttered(p, g, s, c, o, n) => Fit(g)
  BY <1>1, SaysFit DEF Uttered
<1>4. \A j : Over(p, g, s, c, j) => AllOnes(g)
  BY DEF Over
<1>5. \A t : Streaming(p, g, s, c, t) => AllOnes(g)
  BY DEF Streaming
<1>6. \A t : Searching(p, g, s, c, t) => AllOnes(g)
  BY DEF Searching
<1>7. \/ AllOnes(g)
      \/ Uttered(p, g, s, c, o, 0) \/ Uttered(p, g, s, c, o, 6) \/ Uttered(p, g, s, c, o, 7)
      \/ p.pc = "send" /\ Uttered(p, g, s, c, o, p.i - 1)
  <2>1. CASE p.why \in {"warm", "rest"}
    BY <1>4, <2>1 DEF Contents, Ordering
  <2>2. CASE p.why = "lead"
    BY <2>2 DEF Contents, Ordering
  <2>3. CASE p.why = "poll"
    BY <1>4, <2>3 DEF Contents, Ordering
  <2>4. CASE p.why \in {"tail", "token", "crc"}
    BY <1>5, <1>6, <2>4 DEF Contents, Ordering
  <2> QED BY <1>1, <2>1, <2>2, <2>3, <2>4 DEF Reasons
<1> QED BY <1>1, <1>2, <1>3, <1>7

\* So the card does in a cycle what a frame makes it do.
LEMMA FramedBy ==
  ASSUME card.sends # <<>> => Selected, IsSeq(card.out), DOMAIN card = CardFields,
         NEW tick \in BOOLEAN, Card(tick), NEW g, IsSeq(g), NEW k, IsSeq(k), NEW h, NEW z, Fit(g),
         EndOfFrame(tick) => Len(g) > 0 /\ g[1] = TransmitReg,
         h = IF EndOfFrame(tick) THEN Tail(g) ELSE g,
         z = (IF EndOfFrame(tick) THEN Append(k, IF Selected THEN Says ELSE Ones) ELSE k) \o card'.out
  PROVE  Framed(g, k, tick, h, z) /\ IsSeq(card'.out) /\ DOMAIN card' = CardFields
<1>1. EndOfFrame(tick) /\ Hears(TransmitReg) => TransmitReg[2] \in Commands
  <2>1. EndOfFrame(tick) => 1 \in 1 .. Len(g)
    BY Lengths
  <2> QED BY <2>1 DEF Fit
<1> QED BY <1>1, CardTurns DEF Framed
-----------------------------------------------------------------------------
(***************************************************************************)
(* The loader sends a command and takes the bytes that come for it.        *)
(***************************************************************************)
\* A command begins where nothing is on its way but idle bytes.
LEMMA UtteredStarts ==
  ASSUME NEW g, IsSeq(g), AllOnes(g), NEW p, NEW s, NEW c, NEW o,
         IF p.cmd = 12 THEN c.sends # <<>> ELSE Mute(s, c.sends)
  PROVE  Uttered(p, g, s, c, o, 0)
<1>1. Len(g) \in Nat
  BY Lengths
<1>2. \A x \in 1 .. Len(g) : x - Len(g) + 0 \in Int /\ x - Len(g) + 0 <= 0
  BY <1>1
<1>3. Said(g, p.cmd, p.job, 0)
  BY <1>2 DEF Said, Byte, AllOnes
<1>4. 0 - Len(g) < 6 /\ ~(0 - Len(g) > 0)
  BY <1>1
<1>5. Heard(s, c, p.cmd, p.job, 0 - Len(g), o + 7 - 0)
  BY <1>4 DEF Heard
<1> QED BY <1>3, <1>5 DEF Uttered

\* The next byte of it is written.
LEMMA UtteredWrites ==
  ASSUME NEW g, IsSeq(g), NEW p, NEW s, NEW c, NEW o \in Int, NEW n \in Int,
         Uttered(p, g, s, c, o, n)
  PROVE  Uttered(p, Append(g, Byte(p.cmd, p.job, n + 1)), s, c, o + 1, n + 1)
<1> DEFINE b == Byte(p.cmd, p.job, n + 1)  h == Append(g, b)
<1>1. /\ Len(h) = Len(g) + 1 /\ Len(g) \in Nat
      /\ \A x \in 1 .. Len(g) : h[x] = g[x]
      /\ h[Len(g) + 1] = b
  BY Added
<1>2. Said(g, p.cmd, p.job, n) /\ Heard(s, c, p.cmd, p.job, n - Len(g), o + 7 - n)
  BY DEF Uttered
<1> HIDE DEF h
<1>3. ASSUME NEW x \in 1 .. Len(h)
      PROVE  h[x] = Byte(p.cmd, p.job, x - Len(h) + (n + 1))
  <2>1. CASE x \in 1 .. Len(g)
    <3>1. x - Len(h) + (n + 1) = x - Len(g) + n
      BY <1>1, <2>1
    <3> QED BY <1>1, <1>2, <2>1, <3>1 DEF Said
  <2>2. CASE x = Len(g) + 1
    <3>1. x - Len(h) + (n + 1) = n + 1
      BY <1>1, <2>2
    <3> QED BY <1>1, <2>2, <3>1
  <2> QED BY <1>1, <2>1, <2>2
<1>4. (n + 1) - Len(h) = n - Len(g) /\ (o + 1) + 7 - (n + 1) = o + 7 - n
  BY <1>1
<1>5. Uttered(p, h, s, c, o + 1, n + 1)
  BY <1>2, <1>3, <1>4 DEF Uttered, Said
<1> QED BY <1>5 DEF h

\* Behind idle bytes, one more.
LEMMA MoreOnes ==
  ASSUME NEW g, IsSeq(g), AllOnes(g)
  PROVE  AllOnes(Append(g, Ones))
<1>1. /\ Len(Append(g, Ones)) = Len(g) + 1 /\ Len(g) \in Nat
      /\ \A x \in 1 .. Len(g) : Append(g, Ones)[x] = g[x]
      /\ Append(g, Ones)[Len(g) + 1] = Ones
  BY Added
<1>2. \A x \in 1 .. Len(Append(g, Ones)) : x \in 1 .. Len(g) \/ x = Len(g) + 1
  BY <1>1
<1> QED BY <1>1, <1>2 DEF AllOnes

\* Nothing of a command has been sent, and it waits for its first byte to go.
LEMMA UtteredNothing ==
  ASSUME NEW g, IsSeq(g), NEW p, NEW s, NEW c, NEW o, NEW more, Uttered(p, g, s, c, o, 0)
  PROVE  Uttered(p, Append(g, Ones), s, c, more, 0)
<1>1. Len(g) \in Nat
  BY Lengths
<1>2. AllOnes(g)
  <2>1. ASSUME NEW x \in 1 .. Len(g)
        PROVE  g[x] = Ones
    <3>1. x - Len(g) + 0 \notin 1 .. 6 /\ g[x] = Byte(p.cmd, p.job, x - Len(g) + 0)
      BY <1>1 DEF Uttered, Said
    <3> QED BY <3>1 DEF Byte
  <2> QED BY <2>1 DEF AllOnes
<1>3. IF p.cmd = 12 THEN c.sends # <<>> ELSE Mute(s, c.sends)
  <2>1. 0 - Len(g) < 6
    BY <1>1
  <2> QED BY <2>1 DEF Uttered, Heard
<1>4. IsSeq(Append(g, Ones))
  BY Added
<1> QED BY <1>2, <1>3, <1>4, MoreOnes, UtteredStarts

\* A byte that was on its way is taken.
LEMMA MutePops ==
  ASSUME NEW s, IsSeq(s), Len(s) > 0
  PROVE  /\ \A j \in Int : Junk(s, j) => Junk(Tail(s), j - 1) /\ Junk(Tail(s), j)
         /\ \A next : Mute(s, next) => Mute(Tail(s), next)
<1>1. /\ Len(Tail(s)) = Len(s) - 1 /\ Len(s) \in Nat
      /\ \A x \in 1 .. Len(s) - 1 : Tail(s)[x] = s[x + 1]
  BY Tailed
<1>2. ASSUME NEW j \in Int, Junk(s, j)
      PROVE  Junk(Tail(s), j - 1)
  <2>1. ASSUME NEW x \in 1 .. Len(Tail(s)), x > j - 1
        PROVE  Plain(Tail(s)[x])
    <3>1. x + 1 \in 1 .. Len(s) /\ x + 1 > j /\ Tail(s)[x] = s[x + 1]
      BY <1>1, <2>1
    <3> QED BY <1>2, <3>1 DEF Junk
  <2> QED BY <2>1 DEF Junk
<1>3. \A j \in Int : Junk(Tail(s), j - 1) => Junk(Tail(s), j)
  BY <1>1 DEF Junk
<1>4. Quiet(s) => Quiet(Tail(s))
  <2>1. \A x \in 1 .. Len(Tail(s)) : x + 1 \in 1 .. Len(s) /\ x + 1 > 0 /\ Tail(s)[x] = s[x + 1]
    BY <1>1
  <2> QED BY <2>1 DEF Quiet, Junk
<1> QED BY <1>2, <1>3, <1>4 DEF Mute

\* It leaves what the card has heard and says as it was for the loader,
LEMMA HeardPops ==
  ASSUME NEW s, IsSeq(s), Len(s) > 0, NEW c, NEW cmd, NEW job, NEW done \in Int,
         cmd = 18 => done <= 6, NEW j \in Int, Heard(s, c, cmd, job, done, j)
  PROVE  Heard(Tail(s), c, cmd, job, done, j - 1) /\ Heard(Tail(s), c, cmd, job, done, j)
<1>1. /\ Junk(s, j) => Junk(Tail(s), j - 1) /\ Junk(Tail(s), j)
      /\ \A next : Mute(s, next) => Mute(Tail(s), next)
  BY MutePops
<1>2. Quiet(s) => Quiet(Tail(s))
  BY <1>1 DEF Mute
<1> QED BY <1>1, <1>2 DEF Heard

\* while the loader sends a command,
LEMMA UtteredPops ==
  ASSUME NEW s, IsSeq(s), Len(s) > 0, NEW g, IsSeq(g), NEW p, NEW c, NEW o \in Int,
         NEW n \in Int, n <= 6, Uttered(p, g, s, c, o, n)
  PROVE  Uttered(p, g, Tail(s), c, o - 1, n)
<1>1. n - Len(g) \in Int /\ n - Len(g) <= 6 /\ o + 7 - n \in Int /\ (o - 1) + 7 - n = (o + 7 - n) - 1
  BY Lengths
<1> QED BY <1>1, HeardPops DEF Uttered

\* and when it has sent one that begins no read.
LEMMA OverPops ==
  ASSUME NEW s, IsSeq(s), Len(s) > 0, NEW g, NEW p, p.cmd # 18, NEW c, NEW j \in Int,
         Over(p, g, s, c, j)
  PROVE  Over(p, g, Tail(s), c, j - 1) /\ Over(p, g, Tail(s), c, j)
BY HeardPops DEF Over

\* What follows the seventh byte has been read but for the last, and the command is over.
LEMMA UtteredIsOver ==
  ASSUME NEW s, NEW k, IsSeq(k), NEW c, IsSeq(c.out), s = k \o c.out, NEW g, IsSeq(g), Len(g) \in {0, 1},
         NEW p, NEW o \in Int, Uttered(p, g, s, c, o, 7)
  PROVE  Over(p, g, s, c, o)
<1> DEFINE m == Len(g)
<1>0. m \in {0, 1}
  OBVIOUS
<1> HIDE DEF m
<1>1. m \in 0 .. 1 /\ (7 - m = 6 \/ 7 - m = 7) /\ o + 7 - 7 = o
  BY <1>0
<1>2. AllOnes(g)
  <2>1. ASSUME NEW x \in 1 .. m
        PROVE  g[x] = Ones
    <3>1. x - m + 7 \notin 1 .. 6 /\ g[x] = Byte(p.cmd, p.job, x - m + 7)
      BY <1>1 DEF Uttered, Said, m
    <3> QED BY <3>1 DEF Byte
  <2> QED BY <2>1 DEF AllOnes, m
<1>3. Heard(s, c, p.cmd, p.job, 7 - m, o)
  BY <1>1 DEF Uttered, m
<1>4. CASE p.cmd = 18 /\ 7 - m = 6 /\ Quiet(s) /\ c.sends = <<p.job, 1>> /\ Len(c.out) > 0 /\ Low(c.out[Len(c.out)])
  <2>1. IsSeq(s) /\ Len(s) > 0 /\ s[Len(s)] = c.out[Len(c.out)]
    <3>1. /\ IsSeq(s) /\ Len(s) = Len(k) + Len(c.out) /\ Len(k) \in Nat /\ Len(c.out) \in Nat
          /\ \A x \in Len(k) + 1 .. Len(k) + Len(c.out) : s[x] = c.out[x - Len(k)]
      BY Joined
    <3>2. Len(s) \in Len(k) + 1 .. Len(k) + Len(c.out) /\ Len(s) - Len(k) = Len(c.out) /\ Len(s) > 0
      BY <1>4, <3>1
    <3> QED BY <3>1, <3>2
  <2>2. Answered(s, c.sends, p.job)
    BY <1>4, <2>1, AnswersFirst
  <2> QED BY <1>2, <1>4, <2>2 DEF Over, Heard
<1>5. Heard(s, c, p.cmd, p.job, 7, o)
      \/ (p.cmd = 18 /\ 7 - m = 6 /\ Quiet(s) /\ c.sends = <<p.job, 1>> /\ Len(c.out) > 0 /\ Low(c.out[Len(c.out)]))
  <2>1. 7 - m = 6 \/ 7 - m = 7
    BY <1>1
  <2> QED BY <1>3, <2>1 DEF Heard
<1> QED BY <1>2, <1>4, <1>5 DEF Over
-----------------------------------------------------------------------------
(***************************************************************************)
(* The loader takes the bytes of blocks.                                   *)
(***************************************************************************)
\* A byte is taken of the blocks to come.
LEMMA BeginsPops ==
  ASSUME NEW s, IsSeq(s), Len(s) > 0, NEW next, NEW job, NEW n, NEW least \in Int,
         Begins(s, next, job, n, least)
  PROVE  Begins(Tail(s), next, job, n, least - 1)
<1>1. PICK m, at : next = <<job, m>> /\ Chain(s, job, n, m, at) /\ \A k \in n .. m - 1 : at[k] >= least
  BY DEF Begins
<1>2. PICK new : Chain(Tail(s), job, n, m, new) /\ \A k \in n .. m - 1 : new[k] = at[k] - 1
  BY <1>1, ChainTail
<1>3. \A k \in n .. m - 1 : at[k] \in Int
  BY <1>1 DEF Chain, Lies
<1>4. \A k \in n .. m - 1 : new[k] >= least - 1
  BY <1>1, <1>2, <1>3
<1> QED BY <1>1, <1>2, <1>4 DEF Begins

\* A byte is taken of the block that is read.
LEMMA ReadsPops ==
  ASSUME NEW s, IsSeq(s), Len(s) > 0, NEW next, NEW job, NEW n, NEW t, Reads(s, next, job, n, t)
  PROVE  Reads(Tail(s), next, job, n, t - 1)
<1>1. PICK m, at : next = <<job, m>> /\ Chain(s, job, n, m, at) /\ n < m /\ at[n] = t
  BY DEF Reads
<1>2. PICK new : Chain(Tail(s), job, n, m, new) /\ \A k \in n .. m - 1 : new[k] = at[k] - 1
  BY <1>1, ChainTail
<1>3. n \in n .. m - 1
  BY <1>1 DEF Chain
<1> QED BY <1>1, <1>2, <1>3 DEF Reads

\* The byte with bit 7 set is not the response.
LEMMA HighPassed ==
  ASSUME NEW s, IsSeq(s), Len(s) > 0, NEW g, NEW p, NEW c, NEW j \in Int,
         ~Low(s[1]), Over(p, g, s, c, j)
  PROVE  Over(p, g, Tail(s), c, j)
<1>1. CASE p.cmd # 18
  BY <1>1, OverPops
<1>2. CASE p.cmd = 18 /\ Mute(s, c.sends)
  <2>1. Mute(Tail(s), c.sends)
    BY <1>2, MutePops
  <2> QED BY <1>2, <2>1 DEF Over, Heard
<1>3. CASE p.cmd = 18 /\ Answered(s, c.sends, p.job)
  <2>1. PICK q \in 1 .. Len(s) : Low(s[q]) /\ Begins(s, c.sends, p.job, 1, q + 2)
    BY <1>3 DEF Answered
  <2>2. /\ Len(Tail(s)) = Len(s) - 1 /\ Len(s) \in Nat
        /\ \A x \in 1 .. Len(s) - 1 : Tail(s)[x] = s[x + 1]
    BY Tailed
  <2>3. q - 1 \in 1 .. Len(Tail(s)) /\ Tail(s)[q - 1] = s[q]
    <3>1. q # 1
      BY <2>1
    <3>2. q - 1 \in 1 .. Len(s) - 1 /\ (q - 1) + 1 = q
      BY <2>2, <3>1
    <3> QED BY <2>2, <3>2
  <2>4. Begins(Tail(s), c.sends, p.job, 1, (q + 2) - 1)
    BY <2>1, BeginsPops
  <2>5. (q + 2) - 1 = (q - 1) + 2
    OBVIOUS
  <2>6. Answered(Tail(s), c.sends, p.job)
    BY <2>1, <2>3, <2>4, <2>5 DEF Answered
  <2> QED BY <1>3, <2>6 DEF Over, Heard
<1>4. p.cmd = 18 => Mute(s, c.sends) \/ Answered(s, c.sends, p.job)
  BY DEF Over, Heard
<1> QED BY <1>1, <1>2, <1>3, <1>4

\* The response to CMD18 is read, and the first block comes no sooner than two
\* bytes behind it.
LEMMA LowTaken ==
  ASSUME NEW s, IsSeq(s), Len(s) > 0, NEW g, NEW p, p.cmd = 18, p.block = 1, NEW c, NEW j,
         Over(p, g, s, c, j)
  PROVE  Searching(p, g, Tail(s), c, 2)
<1>1. AllOnes(g) /\ (Mute(s, c.sends) \/ Answered(s, c.sends, p.job))
  BY DEF Over, Heard
<1>2. CASE Mute(s, c.sends)
  BY <1>1, <1>2, MutePops DEF Searching
<1>3. CASE Answered(s, c.sends, p.job)
  <2>1. PICK q \in 1 .. Len(s) : Begins(s, c.sends, p.job, 1, q + 2)
    BY <1>3 DEF Answered
  <2>2. PICK m, at : c.sends = <<p.job, m>> /\ Chain(s, p.job, 1, m, at) /\ \A k \in 1 .. m - 1 : at[k] >= q + 2
    BY <2>1 DEF Begins
  <2>3. \A k \in 1 .. m - 1 : at[k] >= 3
    <3>1. \A k \in 1 .. m - 1 : at[k] \in Int
      BY <2>2 DEF Chain, Lies
    <3> QED BY <2>2, <3>1
  <2>4. Begins(s, c.sends, p.job, 1, 3)
    BY <2>2, <2>3 DEF Begins
  <2>5. Begins(Tail(s), c.sends, p.job, 1, 3 - 1)
    BY <2>4, BeginsPops
  <2> QED BY <1>1, <2>5 DEF Searching
<1> QED BY <1>1, <1>2, <1>3

\* A byte is passed that cannot be a token,
LEMMA TailPassed ==
  ASSUME NEW s, IsSeq(s), Len(s) > 0, NEW g, NEW p, NEW c, Searching(p, g, s, c, 2)
  PROVE  Searching(p, g, Tail(s), c, 1)
<1>1. Begins(s, c.sends, p.job, p.block, 2) => Begins(Tail(s), c.sends, p.job, p.block, 2 - 1)
  BY BeginsPops
<1> QED BY <1>1, MutePops DEF Searching

\* or is none,
LEMMA TokenPassed ==
  ASSUME NEW s, IsSeq(s), Len(s) > 0, NEW g, NEW p, NEW c, Searching(p, g, s, c, 1), s[1] # Token
  PROVE  Searching(p, g, Tail(s), c, 1)
<1>1. CASE Begins(s, c.sends, p.job, p.block, 1)
  <2>1. PICK m, at : c.sends = <<p.job, m>> /\ Chain(s, p.job, p.block, m, at) /\ \A k \in p.block .. m - 1 : at[k] >= 1
    BY <1>1 DEF Begins
  <2>2. 1 \in 1 .. Len(s)
    BY Lengths
  <2>3. \A k \in p.block .. m - 1 : at[k] \in Int /\ at[k] # 1
    BY <2>1, <2>2 DEF Chain, Lies
  <2>4. \A k \in p.block .. m - 1 : at[k] >= 2
    BY <2>1, <2>3
  <2>5. Begins(s, c.sends, p.job, p.block, 2)
    BY <2>1, <2>4 DEF Begins
  <2> QED BY <2>5, TailPassed DEF Searching
<1> QED BY <1>1, MutePops DEF Searching

\* or is the token of the block that comes.
LEMMA TokenTaken ==
  ASSUME NEW s, IsSeq(s), Len(s) > 0, NEW g, NEW p, NEW c, Searching(p, g, s, c, 1), ~Plain(s[1])
  PROVE  Streaming(p, g, Tail(s), c, 0)
<1>1. 1 \in 1 .. Len(s) /\ BlockBytes \in Nat
  BY Lengths, BootAssumption
<1>2. ~Mute(s, c.sends)
  BY <1>1 DEF Mute, Quiet, Junk
<1>3. PICK m, at : c.sends = <<p.job, m>> /\ Chain(s, p.job, p.block, m, at) /\ \A k \in p.block .. m - 1 : at[k] >= 1
  BY <1>2 DEF Searching, Begins
<1>4. PICK k \in p.block .. m - 1 : at[k] <= 1
  BY <1>1, <1>3 DEF Chain
<1>5. /\ p.block \in Int /\ m \in Int
      /\ \A l \in p.block .. m - 1 : at[l] \in Int /\ at[l] >= 1
      /\ \A i, l \in p.block .. m - 1 : i < l => at[i] + BlockBytes + 2 < at[l]
  BY <1>3 DEF Chain, Lies
<1>6. p.block \in p.block .. m - 1 /\ p.block < m
  BY <1>4, <1>5
<1>7. k = p.block
  <2>1. CASE p.block < k
    <3>1. at[p.block] + BlockBytes + 2 < at[k] /\ at[p.block] >= 1 /\ at[p.block] \in Int /\ at[k] \in Int
      BY <1>4, <1>5, <1>6, <2>1
    <3> QED BY <1>1, <1>4, <3>1
  <2> QED BY <1>4, <1>5, <2>1
<1>8. at[p.block] = 1
  BY <1>4, <1>5, <1>6, <1>7
<1>9. Reads(s, c.sends, p.job, p.block, 1)
  BY <1>3, <1>6, <1>8 DEF Reads
<1>10. Reads(Tail(s), c.sends, p.job, p.block, 1 - 1)
  BY <1>9, ReadsPops
<1> QED BY <1>2, <1>10 DEF Streaming, Searching

\* A byte of the block is read.
LEMMA StreamingPops ==
  ASSUME NEW s, IsSeq(s), Len(s) > 0, NEW g, NEW p, NEW c, NEW t, Streaming(p, g, s, c, t)
  PROVE  Streaming(p, g, Tail(s), c, t - 1)
BY ReadsPops DEF Streaming

\* Behind its data is its checksum.
LEMMA CRCRead ==
  ASSUME NEW s, IsSeq(s), Len(s) > 0, NEW g, NEW p, NEW c, Streaming(p, g, s, c, -BlockBytes)
  PROVE  s[1] = <<"crc", p.job, p.block, 1>>
<1>1. PICK m, at : Chain(s, p.job, p.block, m, at) /\ p.block < m /\ at[p.block] = -BlockBytes
  BY DEF Streaming, Reads
<1>2. p.block \in p.block .. m - 1
  BY <1>1 DEF Chain
<1>3. Lies(s, p.job, p.block, -BlockBytes)
  BY <1>1, <1>2 DEF Chain
<1>4. -BlockBytes + BlockBytes + 1 = 1 /\ 1 \in 1 .. Len(s)
  BY Lengths, BootAssumption
<1> QED BY <1>3, <1>4 DEF Lies

\* Behind the block comes the next.
LEMMA NextBlock ==
  ASSUME NEW s, NEW g, NEW p, NEW q, q.cmd = p.cmd, q.job = p.job, q.block = p.block + 1, NEW c,
         Streaming(p, g, s, c, -BlockBytes - 2)
  PROVE  Searching(q, g, s, c, 1)
<1>1. PICK m, at : /\ c.sends = <<p.job, m>> /\ Chain(s, p.job, p.block, m, at)
                   /\ p.block < m /\ at[p.block] = -BlockBytes - 2
  BY DEF Streaming, Reads
<1>2. BlockBytes \in Nat /\ p.block \in Int /\ m \in Int
  BY <1>1, BootAssumption DEF Chain
<1>3. Chain(s, p.job, p.block + 1, m, at)
  <2>1. at[p.block] + BlockBytes + 2 <= 0
    BY <1>1, <1>2
  <2> QED BY <1>1, <2>1, ChainNext
<1>4. \A k \in p.block + 1 .. m - 1 : at[k] >= 1
  <2>1. \A k \in p.block + 1 .. m - 1 : at[k] \in Int /\ at[p.block] + BlockBytes + 2 < at[k]
    <3>1. \A k \in p.block + 1 .. m - 1 : k \in p.block .. m - 1 /\ p.block \in p.block .. m - 1 /\ p.block < k
      BY <1>1, <1>2
    <3> QED BY <1>1, <3>1 DEF Chain, Lies
  <2> QED BY <1>1, <1>2, <2>1
<1>5. Begins(s, c.sends, q.job, q.block, 1)
  BY <1>1, <1>3, <1>4 DEF Begins
<1> QED BY <1>5 DEF Streaming, Searching
-----------------------------------------------------------------------------
(***************************************************************************)
(* Accesses that set up, write, poll or release.                           *)
(***************************************************************************)
\* The variables of a loader that sends an idle byte.
LEMMA DummyIs ==
  ASSUME NEW p, DOMAIN p = Fields, NEW why
  PROVE  /\ Dummy(p, why).pc = "dummy" /\ Dummy(p, why).why = why /\ Dummy(p, why).cmd = p.cmd
         /\ Dummy(p, why).i = p.i /\ Dummy(p, why).r = p.r
         /\ Dummy(p, why).job = p.job /\ Dummy(p, why).block = p.block
BY DEF Dummy, Fields

\* The variables of a loader that begins a command.
LEMMA CommandIs ==
  ASSUME NEW p, DOMAIN p = Fields, NEW cmd
  PROVE  /\ Command(p, cmd).pc = (IF cmd = 12 THEN "dummy" ELSE "hold")
         /\ Command(p, cmd).why = "lead" /\ Command(p, cmd).cmd = cmd
         /\ Command(p, cmd).i = 1
         /\ Command(p, cmd).job = p.job /\ Command(p, cmd).block = p.block
BY DEF Command, Fields

\* A command begins.
LEMMA CommandBegins ==
  ASSUME NEW p, DOMAIN p = Fields, p.block \in Int, NEW cmd \in Commands, cmd = 18 => p.block = 1,
         NEW g, IsSeq(g), AllOnes(g), NEW s, NEW c, NEW o, NEW late, NEW stored,
         IF cmd = 12 THEN c.sends # <<>> ELSE Mute(s, c.sends)
  PROVE  Contents(Command(p, cmd), g, s, c, o, late, stored) /\ Ordering(Command(p, cmd))
<1> DEFINE q == Command(p, cmd)
<1>1. q.pc \in {"dummy", "hold"} /\ q.why = "lead" /\ q.cmd = cmd /\ q.block = p.block
  BY CommandIs
<1> HIDE DEF q
<1>2. Uttered(q, g, s, c, o, 0)
  BY <1>1, UtteredStarts
<1>3. Contents(q, g, s, c, o, late, stored) /\ Ordering(q)
  BY <1>1, <1>2 DEF Contents, Ordering, Batch
<1> QED BY <1>3 DEF q

\* The loader sets the chip select, or begins a command.
LEMMA SetUp ==
  ASSUME NEW p, Program(p), Ordering(p), NEW g, IsSeq(g), NEW s, NEW c, NEW o, NEW late,
         NEW stored, Contents(p, g, s, c, o, late, stored),
         p.pc \in {"off", "auto", "hold"}, NEW d, NEW q \in After(p, d)
  PROVE  Contents(q, g, s, c, o, late, stored) /\ Ordering(q)
<1>0. DOMAIN p = Fields /\ p.block \in Int
  BY DEF Program, Ordering
<1>1. CASE p.pc \in {"off", "auto"}
  <2>1. p.why = "warm"
    BY <1>1 DEF Ordering, Batch, Program, Reasons
  <2>2. p.cmd = 0 /\ Over(p, g, s, c, o)
    BY <2>1 DEF Contents
  <2>3. CASE p.pc = "off"
    <3>1. q.pc = "dummy" /\ q.why = "warm" /\ q.cmd = p.cmd /\ q.job = p.job /\ q.block = p.block
      BY <1>0, <2>3, DummyIs DEF After
    <3>2. Over(q, g, s, c, o)
      BY <2>2, <3>1 DEF Over
    <3> QED BY <1>0, <2>2, <3>1, <3>2 DEF Contents, Ordering, Batch
  <2>4. CASE p.pc = "auto"
    <3>1. q = Command(p, 0)
      BY <2>4 DEF After
    <3>2. AllOnes(g) /\ Mute(s, c.sends)
      BY <2>2 DEF Over, Heard
    <3> QED BY <1>0, <3>1, <3>2, CommandBegins DEF Commands
  <2> QED BY <1>1, <2>3, <2>4
<1>2. CASE p.pc = "hold"
  <2>1. p.why = "lead"
    BY <1>2 DEF Program
  <2>2. Uttered(p, g, s, c, o, 0)
    BY <1>2, <2>1 DEF Contents
  <2>3. q.pc = "dummy" /\ q.why = "lead" /\ q.cmd = p.cmd /\ q.job = p.job /\ q.block = p.block
    BY <1>0, <1>2, DummyIs DEF After
  <2>4. Uttered(q, g, s, c, o, 0)
    BY <2>2, <2>3 DEF Uttered
  <2> QED BY <1>0, <2>1, <2>3, <2>4 DEF Contents, Ordering, Batch
<1> QED BY <1>1, <1>2

\* The loader sends an idle byte.
LEMMA DummyMoves ==
  ASSUME NEW p, Program(p), Ordering(p), NEW g, IsSeq(g), NEW s, NEW c, NEW o \in Int, NEW late,
         NEW stored, Contents(p, g, s, c, o, late, stored),
         p.pc = "dummy", NEW d, NEW q \in After(p, d), NEW next
  PROVE  Contents(q, Append(g, Ones), s, c, o + 1, next, stored) /\ Ordering(q)
<1> DEFINE h == Append(g, Ones)
<1>0. DOMAIN p = Fields
  BY DEF Program
<1>1. q.pc = "waitrx" /\ q.why = p.why /\ q.cmd = p.cmd /\ q.i = p.i /\ q.r = p.r /\ q.job = p.job /\ q.block = p.block
  BY <1>0 DEF After, Fields
<1>2. AllOnes(g) => AllOnes(h)
  BY MoreOnes
<1>3. /\ \A j : Over(p, g, s, c, j) => Over(q, h, s, c, j)
      /\ \A t : Streaming(p, g, s, c, t) => Streaming(q, h, s, c, t)
      /\ \A t : Searching(p, g, s, c, t) => Searching(q, h, s, c, t)
  BY <1>1, <1>2 DEF Over, Streaming, Searching
<1>4. Uttered(p, g, s, c, o, 0) => Uttered(q, h, s, c, o + 1, 0)
  <2>1. Uttered(p, g, s, c, o, 0) => Uttered(p, h, s, c, o + 1, 0)
    BY UtteredNothing
  <2> QED BY <1>1, <2>1 DEF Uttered
<1>5. Uttered(p, g, s, c, o, 6) => Uttered(q, h, s, c, o + 1, 7)
  <2>1. Byte(p.cmd, p.job, 6 + 1) = Ones
    BY DEF Byte
  <2>2. Uttered(p, g, s, c, o, 6) => Uttered(p, h, s, c, o + 1, 6 + 1)
    BY <2>1, UtteredWrites
  <2> QED BY <1>1, <2>2 DEF Uttered
<1> HIDE DEF h
<1>6. o + 1 - 1 = o
  OBVIOUS
<1>7. p.why \in Reasons /\ p.pc \notin Batch /\ q.pc \notin Batch
  BY <1>1 DEF Program, Batch
<1>8. Ordering(q)
  BY <1>1, <1>7 DEF Ordering, Reasons
<1>9. Contents(q, h, s, c, o + 1, next, stored)
  <2>0. CASE p.why = "warm"
    <3>1. p.cmd = 0 /\ Over(p, g, s, c, o)
      BY <2>0 DEF Contents
    <3>2. Over(q, h, s, c, o + 1)
      BY <1>1, <1>3, <3>1 DEF Over, Heard
    <3> QED BY <1>1, <1>7, <2>0, <3>1, <3>2 DEF Contents
  <2>1. CASE p.why = "lead"
    BY <1>1, <1>4, <1>7, <2>1 DEF Contents
  <2>2. CASE p.why = "poll"
    BY <1>1, <1>3, <1>5, <1>7, <2>2 DEF Contents
  <2>3. CASE p.why = "rest"
    BY <1>1, <1>3, <1>6, <1>7, <2>3 DEF Contents
  <2>4. CASE p.why \in {"tail", "token", "crc"}
    BY <1>1, <1>3, <1>7, <2>4 DEF Contents
  <2> QED BY <1>7, <2>0, <2>1, <2>2, <2>3, <2>4 DEF Reasons
<1> QED BY <1>8, <1>9 DEF h

\* The loader sends a byte of a command.
LEMMA SendMoves ==
  ASSUME NEW p, Program(p), Ordering(p), NEW g, IsSeq(g), NEW s, NEW c, NEW o \in Int, NEW late,
         NEW stored, Contents(p, g, s, c, o, late, stored),
         p.pc = "send", NEW d, NEW q \in After(p, d), NEW next
  PROVE  Contents(q, Append(g, Byte(p.cmd, p.job, p.i)), s, c, o + 1, next, stored) /\ Ordering(q)
<1> DEFINE h == Append(g, Byte(p.cmd, p.job, p.i))
<1>0. DOMAIN p = Fields /\ p.i \in 1 .. 6 /\ p.why = "lead" /\ p.i - 1 \in Int /\ (p.i - 1) + 1 = p.i
  BY DEF Program
<1>1. q.why = "lead" /\ q.cmd = p.cmd /\ q.job = p.job /\ q.block = p.block
      /\ IF p.i < 6 THEN q.pc = "send" /\ q.i - 1 = p.i ELSE q.pc = "waittx"
  <2>1. q = IF p.i < 6 THEN [p EXCEPT !.i = @ + 1] ELSE [p EXCEPT !.pc = "waittx", !.i = 0]
    BY DEF After
  <2>2. CASE p.i < 6
    BY <1>0, <2>1, <2>2 DEF Fields
  <2>3. CASE ~(p.i < 6)
    BY <1>0, <2>1, <2>3 DEF Fields
  <2> QED BY <2>2, <2>3
<1>2. Uttered(p, h, s, c, o + 1, p.i)
  <2>1. Uttered(p, g, s, c, o, p.i - 1)
    BY DEF Contents
  <2> QED BY <1>0, <2>1, UtteredWrites
<1> HIDE DEF h
<1>3. Uttered(q, h, s, c, o + 1, p.i)
  BY <1>1, <1>2 DEF Uttered
<1>4. Ordering(q)
  BY <1>0, <1>1 DEF Ordering
<1>5. Contents(q, h, s, c, o + 1, next, stored)
  <2>1. CASE p.i < 6
    BY <1>1, <1>3, <2>1 DEF Contents
  <2>2. CASE p.i = 6
    BY <1>1, <1>3, <2>2 DEF Contents
  <2> QED BY <1>0, <2>1, <2>2
<1> QED BY <1>4, <1>5 DEF h

\* The loader reads the interrupt flags until a burst has gone, or until a byte has come.
LEMMA PollMoves ==
  ASSUME NEW p, Program(p), Ordering(p), NEW g, IsSeq(g), NEW k, IsSeq(k), NEW c, IsSeq(c.out),
         NEW s, s = k \o c.out, NEW o \in Int, NEW late,
         NEW stored, Contents(p, g, s, c, o, late, stored),
         p.pc \in Polls, NEW d, NEW q \in After(p, d), p.pc = "waitrx" /\ d[3] => Len(g) \in {0, 1},
         NEW next
  PROVE  Contents(q, g, s, c, o, next, stored) /\ Ordering(q)
<1>0. DOMAIN p = Fields /\ p.why \in Reasons
  BY DEF Program
<1>1. /\ q.why = p.why /\ q.cmd = p.cmd /\ q.i = p.i /\ q.r = p.r /\ q.job = p.job /\ q.block = p.block
      /\ q = p \/ \/ p.pc = "waittx" /\ q.pc = "drain"
                  \/ p.pc = "waitrx" /\ q.pc = "take" /\ d[3]
                  \/ p.pc = "bwait" /\ q.pc = "btake"
  BY <1>0 DEF After, Fields, Polls
<1>2. /\ \A n : Uttered(p, g, s, c, o, n) => Uttered(q, g, s, c, o, n)
      /\ \A j : Over(p, g, s, c, j) => Over(q, g, s, c, j)
      /\ \A t : Streaming(p, g, s, c, t) => Streaming(q, g, s, c, t)
      /\ \A t : Searching(p, g, s, c, t) => Searching(q, g, s, c, t)
  BY <1>1 DEF Uttered, Over, Streaming, Searching
<1>3. CASE q = p
  BY <1>3, ZenonT(40) DEF Contents, Ordering, Polls
<1>4. CASE p.pc = "waittx" /\ q.pc = "drain"
  <2>1. p.why = "lead"
    BY <1>4 DEF Program
  <2> QED BY <1>1, <1>2, <1>4, <2>1 DEF Contents, Ordering, Batch
<1>5. CASE p.pc = "bwait" /\ q.pc = "btake"
  <2>1. p.why = "token"
    BY <1>5 DEF Program, Batch
  <2> QED BY <1>1, <1>2, <1>5, <2>1 DEF Contents, Ordering, Batch
<1>6. CASE p.pc = "waitrx" /\ q.pc = "take" /\ d[3]
  <2>1. Uttered(p, g, s, c, o, 7) => Over(p, g, s, c, o)
    BY <1>6, UtteredIsOver
  <2>2. q.pc \notin Batch /\ p.pc \notin Batch
    BY <1>6 DEF Batch
  <2>3. Ordering(q)
    BY <1>0, <1>1, <1>6 DEF Ordering, Reasons, Batch
  <2>4. Contents(q, g, s, c, o, next, stored)
    <3>1. CASE p.why \in {"warm", "lead"}
      BY <1>1, <1>2, <1>6, <2>2, <3>1 DEF Contents
    <3>2. CASE p.why = "poll"
      BY <1>1, <1>2, <1>6, <2>1, <2>2, <3>2 DEF Contents
    <3>3. CASE p.why = "rest"
      BY <1>1, <1>2, <1>6, <2>2, <3>3 DEF Contents
    <3>4. CASE p.why \in {"tail", "token", "crc"}
      BY <1>1, <1>2, <1>6, <2>2, <3>4 DEF Contents
    <3> QED BY <1>0, <3>1, <3>2, <3>3, <3>4 DEF Reasons
  <2> QED BY <2>3, <2>4
<1> QED BY <1>1, <1>3, <1>4, <1>5, <1>6
-----------------------------------------------------------------------------
(***************************************************************************)
(* Accesses that throw away what came with a command, and those of a batch.*)
(***************************************************************************)
\* Between its accesses a byte may be taken for the loader, from behind a command.
LEMMA Passes ==
  ASSUME NEW p, Program(p), NEW g, IsSeq(g), NEW s, IsSeq(s), NEW c, NEW o \in Int, NEW late,
         NEW stored, NEW more, Contents(p, g, s, c, o, late, stored),
         p.pc \in Batch => more = stored
  PROVE  /\ p.pc = "dummy" /\ ~late => Contents(p, g, s, c, o, FALSE, more)
         /\ p.pc # "dummy" => \A next : Contents(p, g, s, c, o, next, more)
         /\ Len(s) > 0 /\ (p.pc = "drain" \/ (p.pc = "dummy" /\ p.why = "poll" /\ late)) =>
              \A next : Contents(p, g, Tail(s), c, o - 1, next, more)
<1>1. p.pc = "dummy" /\ ~late => Contents(p, g, s, c, o, FALSE, more)
  BY DEF Contents
<1>2. ASSUME p.pc # "dummy", NEW next
      PROVE  Contents(p, g, s, c, o, next, more)
  BY <1>2 DEF Contents
<1>3. ASSUME Len(s) > 0, p.pc = "drain" \/ (p.pc = "dummy" /\ p.why = "poll" /\ late), NEW next
      PROVE  Contents(p, g, Tail(s), c, o - 1, next, more)
  <2>1. Uttered(p, g, s, c, o, 6)
    BY <1>3 DEF Contents
  <2>2. Uttered(p, g, Tail(s), c, o - 1, 6)
    BY <1>3, <2>1, UtteredPops
  <2>3. p.pc = "drain" => p.why = "lead"
    BY DEF Program
  <2> QED BY <1>3, <2>2, <2>3 DEF Contents, Batch
<1> QED BY <1>1, <1>2, <1>3

\* The loader throws away what it has read behind a command, if it was there.
LEMMA DrainMoves ==
  ASSUME NEW p, Program(p), Ordering(p), NEW g, IsSeq(g), NEW s, NEW c, NEW o, NEW late,
         NEW stored, NEW z, NEW r, Contents(p, g, s, c, o, late, stored),
         Uttered(p, g, s, c, o, 6) => Uttered(p, g, z, c, r, 6),
         p.pc = "drain", NEW d, NEW q \in After(p, d), NEW next
  PROVE  Contents(q, g, z, c, r, next, stored) /\ Ordering(q)
<1>0. DOMAIN p = Fields /\ p.why = "lead"
  BY DEF Program
<1>1. /\ q.cmd = p.cmd /\ q.job = p.job /\ q.block = p.block
      /\ (q.pc = "drain" /\ q.why = "lead") \/ (q.pc = "dummy" /\ q.why = "poll")
  <2>1. q = IF p.i + 1 < Drained THEN [p EXCEPT !.i = @ + 1] ELSE Dummy(p, "poll")
    BY DEF After
  <2>2. CASE p.i + 1 < Drained
    BY <1>0, <2>1, <2>2 DEF Fields
  <2>3. CASE ~(p.i + 1 < Drained)
    BY <1>0, <2>1, <2>3, DummyIs
  <2> QED BY <2>2, <2>3
<1>2. Uttered(q, g, z, c, r, 6)
  <2>1. Uttered(p, g, z, c, r, 6)
    BY DEF Contents
  <2> QED BY <1>1, <2>1 DEF Uttered
<1> QED BY <1>0, <1>1, <1>2 DEF Contents, Ordering, Batch

\* The loader sends the idle bytes of a batch, of which the last may be dropped,
LEMMA BatchSends ==
  ASSUME NEW p, Program(p), Ordering(p), NEW g, IsSeq(g), NEW s, NEW c, NEW o, NEW late,
         NEW stored, Contents(p, g, s, c, o, late, stored), NEW h \in {g, Append(g, Ones)},
         p.pc = "bsend", NEW d, NEW q \in After(p, d), NEW next, NEW r
  PROVE  Contents(q, h, s, c, r, next, stored) /\ Ordering(q)
<1>0. DOMAIN p = Fields /\ p.why = "token"
  BY DEF Program, Batch
<1>1. q.cmd = p.cmd /\ q.job = p.job /\ q.block = p.block /\ q.why = "token" /\ q.pc \in {"bsend", "bwait"}
  <2>1. q = IF p.i + 1 < Depth THEN [p EXCEPT !.i = @ + 1] ELSE [p EXCEPT !.pc = "bwait", !.i = 0]
    BY DEF After
  <2>2. CASE p.i + 1 < Depth
    BY <1>0, <2>1, <2>2 DEF Fields
  <2>3. CASE ~(p.i + 1 < Depth)
    BY <1>0, <2>1, <2>3 DEF Fields
  <2> QED BY <2>2, <2>3
<1>2. Streaming(q, h, s, c, -stored)
  <2>1. Streaming(p, g, s, c, -stored)
    BY <1>0 DEF Contents, Batch
  <2> QED BY <1>1, <2>1, MoreOnes DEF Streaming
<1> QED BY <1>0, <1>1, <1>2 DEF Contents, Ordering, Batch

\* and takes the bytes that come for them.
LEMMA BatchTakes ==
  ASSUME NEW p, Program(p), Ordering(p), NEW g, IsSeq(g), NEW s, IsSeq(s), Len(s) > 0, NEW c, NEW o,
         NEW late, Len(buf) \in Int, Contents(p, g, s, c, o, late, Len(buf)),
         p.pc = "btake", NEW d, NEW q \in After(p, d), NEW next, NEW r
  PROVE  Contents(q, g, Tail(s), c, r, next, Len(buf) + 1) /\ Ordering(q)
<1>0. DOMAIN p = Fields /\ p.why = "token" /\ p.block \in Int
  BY DEF Program, Batch, Ordering
<1>1. Streaming(p, g, Tail(s), c, -(Len(buf) + 1))
  <2>1. Streaming(p, g, s, c, -Len(buf))
    BY <1>0 DEF Contents, Batch
  <2>2. Streaming(p, g, Tail(s), c, -Len(buf) - 1)
    BY <2>1, StreamingPops
  <2>3. -Len(buf) - 1 = -(Len(buf) + 1)
    OBVIOUS
  <2> QED BY <2>2, <2>3
<1>2. /\ q.cmd = p.cmd /\ q.job = p.job /\ q.block = p.block
      /\ IF Len(buf) + 1 = BlockBytes THEN q.pc = "dummy" /\ q.why = "crc" /\ q.i = 0
         ELSE q.why = "token" /\ q.pc \in {"bsend", "bwait"}
  <2>1. q = IF Len(buf) + 1 = BlockBytes THEN Dummy([p EXCEPT !.i = 0], "crc")
            ELSE IF p.i + 1 = Depth THEN [p EXCEPT !.pc = "bsend", !.i = 0]
            ELSE [p EXCEPT !.pc = "bwait", !.i = @ + 1]
    BY DEF After
  <2>2. CASE Len(buf) + 1 = BlockBytes
    BY <1>0, <2>1, <2>2, DummyIs DEF Fields
  <2>3. CASE Len(buf) + 1 # BlockBytes
    BY <1>0, <2>1, <2>3 DEF Fields
  <2> QED BY <2>2, <2>3
<1>3. Streaming(q, g, Tail(s), c, -(Len(buf) + 1))
  BY <1>1, <1>2 DEF Streaming
<1>4. CASE Len(buf) + 1 = BlockBytes
  BY <1>0, <1>2, <1>3, <1>4 DEF Contents, Ordering, Batch
<1>5. CASE Len(buf) + 1 # BlockBytes
  BY <1>0, <1>2, <1>3, <1>5 DEF Contents, Ordering, Batch
<1> QED BY <1>4, <1>5

\* A command is over, and the next begins.
LEMMA ReleaseMoves ==
  ASSUME NEW p, Program(p), Ordering(p), NEW g, IsSeq(g), NEW s, NEW c, NEW o, NEW late,
         NEW stored, Contents(p, g, s, c, o, late, stored),
         p.pc = "release", NEW d, NEW q \in After(p, d), q.pc \notin {"failed", "booted"}
  PROVE  Contents(q, g, s, c, o, late, stored) /\ Ordering(q)
<1>0. DOMAIN p = Fields /\ p.cmd \in Commands \ {18} /\ p.block \in Int
  BY DEF Program, Ordering
<1>1. AllOnes(g) /\ Mute(s, c.sends)
  BY DEF Contents
<1> DEFINE Goes(n) == Contents(n, g, s, c, o, late, stored) /\ Ordering(n)
           tried == [p EXCEPT !.tries = @ + 1]
           warmed == [p EXCEPT !.tries = 0]
           read(k) == [p EXCEPT !.tries = 0, !.job = k, !.block = 1]
<1>2. ASSUME NEW n, DOMAIN n = Fields, n.block \in Int, NEW cmd \in Commands \ {12, 18}
      PROVE  Goes(Command(n, cmd))
  BY <1>1, <1>2, CommandBegins
<1>3. ASSUME NEW k
      PROVE  Goes(DiskRead(p, k))
  <2>1. DOMAIN read(k) = Fields /\ read(k).block = 1
    BY <1>0 DEF Fields
  <2>2. DiskRead(p, k) = Command(read(k), 18)
    BY DEF DiskRead
  <2> HIDE DEF read
  <2>3. 18 \in Commands /\ 1 \in Int
    BY DEF Commands
  <2> QED BY <1>1, <2>1, <2>2, <2>3, CommandBegins
<1>4. /\ DOMAIN tried = Fields /\ tried.block = p.block
      /\ DOMAIN warmed = Fields /\ warmed.block = p.block
  BY <1>0 DEF Fields
<1>5. q = Returned(p)
  BY DEF After
<1>6. q.pc \in {"failed", "booted"} \/ Goes(q)
  <2>1. /\ Goes(Command(p, 8)) /\ Goes(Command(tried, 0)) /\ Goes(Command(warmed, 55))
        /\ Goes(Command(p, 41)) /\ Goes(Command(tried, 55))
    <3> HIDE DEF Goes, tried, warmed
    <3> QED BY <1>0, <1>2, <1>4 DEF Commands
  <2>2. Fail(p).pc = "failed" /\ [p EXCEPT !.pc = "booted"].pc = "booted"
    BY <1>0 DEF Fail, Fields
  <2> DEFINE booted == [p EXCEPT !.pc = "booted"]
  <2> HIDE DEF Goes
  <2>3. CASE p.cmd = 0
    BY <1>5, <2>1, <2>2, <2>3 DEF Returned
  <2>4. CASE p.cmd = 8
    BY <1>5, <2>1, <2>2, <2>4 DEF Returned
  <2>5. CASE p.cmd = 55
    BY <1>5, <2>1, <2>2, <2>5 DEF Returned
  <2>6. CASE p.cmd = 41
    BY <1>3, <1>5, <2>1, <2>2, <2>6 DEF Returned
  <2>7. CASE p.cmd = 12
    BY <1>3, <1>5, <2>2, <2>7 DEF Returned
  <2> QED BY <1>0, <2>3, <2>4, <2>5, <2>6, <2>7 DEF Commands
<1> QED BY <1>6
-----------------------------------------------------------------------------
(***************************************************************************)
(* Bytes of a response.                                                    *)
(***************************************************************************)
\* Where the loader is when it has read a byte of a response.
LEMMA RespondedMoves ==
  ASSUME NEW n, DOMAIN n = Fields, n.cmd \in Commands, n.block \in Int,
         NEW g, NEW z, NEW c, NEW o, NEW next, NEW stored,
         IF n.i < Length(n.cmd) THEN n.cmd # 18 /\ Over(n, g, z, c, o)
         ELSE IF n.cmd # 18 THEN AllOnes(g) /\ Mute(z, c.sends)
         ELSE n.block = 1 /\ Searching(n, g, z, c, 2),
         n.why \in {"poll", "rest"}
  PROVE  Contents(Responded(n), g, z, c, o, next, stored) /\ Ordering(Responded(n))
<1> DEFINE q == Responded(n)
<1>1. CASE n.i < Length(n.cmd)
  <2>1. q.pc = "dummy" /\ q.why = "rest" /\ q.cmd = n.cmd /\ q.job = n.job /\ q.block = n.block
    BY <1>1, DummyIs DEF Responded
  <2>2. Over(q, g, z, c, o)
    BY <1>1, <2>1 DEF Over
  <2> HIDE DEF q
  <2>3. Contents(q, g, z, c, o, next, stored) /\ Ordering(q)
    BY <1>1, <2>1, <2>2 DEF Contents, Ordering, Batch
  <2> QED BY <2>3 DEF q
<1>2. CASE ~(n.i < Length(n.cmd)) /\ n.cmd # 18
  <2>1. q.pc = "release" /\ q.why = n.why /\ q.cmd = n.cmd /\ q.block = n.block
    BY <1>2 DEF Responded, Fields
  <2> HIDE DEF q
  <2>2. Contents(q, g, z, c, o, next, stored) /\ Ordering(q)
    BY <1>2, <2>1 DEF Contents, Ordering, Batch
  <2> QED BY <2>2 DEF q
<1>3. CASE ~(n.i < Length(n.cmd)) /\ n.cmd = 18
  <2>1. q.pc = "dummy" /\ q.why = "tail" /\ q.cmd = n.cmd /\ q.job = n.job /\ q.block = n.block
    BY <1>3, DummyIs DEF Responded
  <2>2. Searching(q, g, z, c, 2)
    BY <1>3, <2>1 DEF Searching
  <2> HIDE DEF q
  <2>3. Contents(q, g, z, c, o, next, stored) /\ Ordering(q)
    BY <1>3, <2>1, <2>2 DEF Contents, Ordering, Batch
  <2> QED BY <2>3 DEF q
<1> QED BY <1>1, <1>2, <1>3

\* Taking a byte.
Takable(p, g, s, c, o, late, stored, q) ==
  /\ Program(p) /\ Ordering(p) /\ p.pc = "take"
  /\ IsSeq(g) /\ IsSeq(s) /\ Len(s) > 0 /\ o \in Int
  /\ Contents(p, g, s, c, o, late, stored)
  /\ q \in Taken(p, s[1])
  /\ q.pc = "release" => o <= 2

\* It was to wake the card, or to go before a command.
LEMMA LeadTaken ==
  ASSUME NEW p, NEW g, NEW s, NEW c, NEW o, NEW late, NEW stored, NEW q,
         Takable(p, g, s, c, o, late, stored, q), p.why \in {"warm", "lead"}, NEW next, NEW more
  PROVE  Contents(q, g, Tail(s), c, o - 1, next, more) /\ Ordering(q)
<1>0. /\ DOMAIN p = Fields /\ p.block \in Int /\ p.pc = "take"
      /\ IsSeq(g) /\ IsSeq(s) /\ Len(s) > 0 /\ o \in Int
      /\ Contents(p, g, s, c, o, late, stored)
      /\ q \in Taken(p, s[1]) /\ Ordering(p) /\ Program(p)
  BY DEF Takable, Program, Ordering
<1>1. CASE p.why = "warm"
  <2>1. p.cmd = 0 /\ Over(p, g, s, c, o)
    BY <1>0, <1>1 DEF Contents
  <2>2. Over(p, g, Tail(s), c, o - 1)
    BY <1>0, <2>1, OverPops
  <2>3. q = IF p.i + 1 < Warm THEN Dummy([p EXCEPT !.i = @ + 1], "warm") ELSE [p EXCEPT !.pc = "auto"]
    BY <1>0, <1>1 DEF Taken
  <2>4. q.pc \in {"dummy", "auto"} /\ q.why = "warm" /\ q.cmd = p.cmd /\ q.job = p.job /\ q.block = p.block
    <3>1. CASE p.i + 1 < Warm
      BY <1>0, <2>3, <3>1, DummyIs DEF Fields
    <3>2. CASE ~(p.i + 1 < Warm)
      BY <1>0, <1>1, <2>3, <3>2 DEF Fields
    <3> QED BY <3>1, <3>2
  <2>5. Over(q, g, Tail(s), c, o - 1)
    BY <2>2, <2>4 DEF Over
  <2> QED BY <1>0, <2>1, <2>4, <2>5 DEF Contents, Ordering, Batch
<1>2. CASE p.why = "lead"
  <2>1. Uttered(p, g, s, c, o, 0) /\ p.i = 1
    BY <1>0, <1>2 DEF Contents, Program
  <2>2. Uttered(p, g, Tail(s), c, o - 1, 0)
    BY <1>0, <2>1, UtteredPops
  <2>3. q.pc = "send" /\ q.why = "lead" /\ q.i - 1 = 0 /\ q.cmd = p.cmd /\ q.job = p.job /\ q.block = p.block
    BY <1>0, <1>2, <2>1 DEF Taken, Fields
  <2>4. Uttered(q, g, Tail(s), c, o - 1, q.i - 1)
    BY <2>2, <2>3 DEF Uttered
  <2> QED BY <1>0, <1>2, <2>3, <2>4 DEF Contents, Ordering, Batch
<1> QED BY <1>1, <1>2

\* The byte may be the response.
LEMMA PollTaken ==
  ASSUME NEW p, NEW g, NEW s, NEW c, NEW o, NEW late, NEW stored, NEW q,
         Takable(p, g, s, c, o, late, stored, q), p.why = "poll", NEW more
  PROVE  Contents(q, g, Tail(s), c, o - 1, FALSE, more) /\ Ordering(q)
<1>0. /\ DOMAIN p = Fields /\ p.cmd \in Commands /\ p.block \in Int /\ p.pc = "take"
      /\ IsSeq(g) /\ IsSeq(s) /\ Len(s) > 0 /\ o \in Int
      /\ Contents(p, g, s, c, o, late, stored)
      /\ q \in Taken(p, s[1]) /\ Ordering(p) /\ Program(p)
      /\ (q.pc = "release" => o <= 2)
  BY DEF Takable, Program, Ordering
<1>1. Over(p, g, s, c, o) /\ (p.cmd = 18 => p.block = 1)
  BY <1>0 DEF Contents, Ordering
<1> DEFINE b == s[1]  n == [p EXCEPT !.r = b, !.i = 1, !.ok = TRUE]
<1>2. PICK high \in Bit7(b) : q = IF high THEN Dummy(p, "poll") ELSE Responded(n)
  BY <1>0 DEF Taken
<1>3. CASE high
  <2>1. ~Low(b)
    <3>1. Low(b) => Bit7(b) = {FALSE}
      BY DEF Low, Plain, Bit7
    <3> QED BY <1>2, <1>3, <3>1
  <2>2. Over(p, g, Tail(s), c, o)
    BY <1>0, <1>1, <2>1, HighPassed
  <2>3. q.pc = "dummy" /\ q.why = "poll" /\ q.cmd = p.cmd /\ q.job = p.job /\ q.block = p.block
    BY <1>0, <1>2, <1>3, DummyIs
  <2>4. Over(q, g, Tail(s), c, (o - 1) + 1)
    <3>1. (o - 1) + 1 = o
      BY <1>0
    <3> QED BY <2>2, <2>3, <3>1 DEF Over
  <2> HIDE DEF b, n
  <2> QED BY <1>0, <1>1, <2>3, <2>4 DEF Contents, Ordering, Batch
<1>4. CASE ~high
  <2>1. DOMAIN n = Fields /\ n.why = "poll" /\ n.i = 1 /\ n.cmd = p.cmd /\ n.job = p.job /\ n.block = p.block
    BY <1>0 DEF Fields
  <2>2. q = Responded(n)
    BY <1>2, <1>4
  <2> HIDE DEF b, n
  <2>3. CASE p.cmd = 18
    <3>1. Searching(p, g, Tail(s), c, 2)
      BY <1>0, <1>1, <2>3, LowTaken
    <3>2. Searching(n, g, Tail(s), c, 2) /\ ~(n.i < Length(n.cmd)) /\ n.block = 1
      BY <1>1, <2>1, <2>3, <3>1 DEF Searching, Length
    <3> QED BY <1>0, <2>1, <2>2, <2>3, <3>2, RespondedMoves
  <2>4. CASE p.cmd \in {8, 12}
    <3>1. Over(p, g, Tail(s), c, o - 1)
      BY <1>0, <1>1, <2>4, OverPops
    <3>2. Over(n, g, Tail(s), c, o - 1) /\ n.i < Length(n.cmd) /\ n.cmd # 18
      BY <2>1, <2>4, <3>1 DEF Over, Length
    <3> QED BY <1>0, <2>1, <2>2, <3>2, RespondedMoves
  <2>5. CASE p.cmd \notin {8, 12, 18}
    <3>1. AllOnes(g) /\ Mute(s, c.sends)
      BY <1>1, <2>5 DEF Over, Heard
    <3>2. Mute(Tail(s), c.sends)
      BY <1>0, <3>1, MutePops
    <3>3. ~(n.i < Length(n.cmd)) /\ n.cmd # 18
      BY <2>1, <2>5 DEF Length
    <3> QED BY <1>0, <2>1, <2>2, <3>1, <3>2, <3>3, RespondedMoves
  <2> QED BY <2>3, <2>4, <2>5
<1> QED BY <1>3, <1>4

\* It follows the first byte of the response.
LEMMA RestTaken ==
  ASSUME NEW p, NEW g, NEW s, NEW c, NEW o, NEW late, NEW stored, NEW q,
         Takable(p, g, s, c, o, late, stored, q), p.why = "rest", NEW next, NEW more
  PROVE  Contents(q, g, Tail(s), c, o - 1, next, more) /\ Ordering(q)
<1>0. /\ DOMAIN p = Fields /\ p.cmd \in Commands /\ p.block \in Int /\ p.pc = "take"
      /\ IsSeq(g) /\ IsSeq(s) /\ Len(s) > 0 /\ o \in Int /\ o - 1 \in Int
      /\ Contents(p, g, s, c, o, late, stored)
      /\ q \in Taken(p, s[1]) /\ Ordering(p) /\ Program(p)
      /\ (q.pc = "release" => o <= 2)
  BY DEF Takable, Program, Ordering
<1>1. Over(p, g, s, c, o - 1) /\ p.cmd # 18
  BY <1>0 DEF Contents
<1> DEFINE n == [p EXCEPT !.i = @ + 1, !.ok = @ /\ s[1] = <<"r7", p.i>>]
<1>2. q = Responded(n)
  BY <1>0 DEF Taken
<1>3. DOMAIN n = Fields /\ n.why = "rest" /\ n.cmd = p.cmd /\ n.job = p.job /\ n.block = p.block
  BY <1>0 DEF Fields
<1> HIDE DEF n
<1>4. CASE n.i < Length(n.cmd)
  <2>1. Over(p, g, Tail(s), c, o - 1)
    BY <1>0, <1>1, OverPops
  <2>2. Over(n, g, Tail(s), c, o - 1)
    BY <1>3, <2>1 DEF Over
  <2> QED BY <1>0, <1>1, <1>2, <1>3, <1>4, <2>2, RespondedMoves
<1>5. CASE ~(n.i < Length(n.cmd))
  <2>1. q.pc = "release"
    BY <1>1, <1>2, <1>3, <1>5 DEF Responded, Fields
  <2>2. Mute(Tail(s), c.sends)
    <3>1. CASE p.cmd = 12
      <4>1. c.sends = <<>> /\ Junk(s, o - 1)
        BY <1>1, <3>1 DEF Over, Heard
      <4>2. Junk(Tail(s), (o - 1) - 1)
        BY <1>0, <4>1, MutePops
      <4>3. (o - 1) - 1 <= 0
        BY <1>0, <2>1
      <4>4. Quiet(Tail(s))
        <5>1. \A x \in 1 .. Len(Tail(s)) : x > (o - 1) - 1
          <6>1. Len(Tail(s)) \in Int
            BY <1>0, Tailed
          <6> QED BY <1>0, <4>3, <6>1
        <5> QED BY <4>2, <5>1 DEF Junk, Quiet
      <4> QED BY <4>1, <4>4 DEF Mute
    <3>2. CASE p.cmd # 12
      BY <1>0, <1>1, <3>2, MutePops DEF Over, Heard
    <3> QED BY <3>1, <3>2
  <2>3. AllOnes(g)
    BY <1>1 DEF Over
  <2> QED BY <1>0, <1>1, <1>2, <1>3, <1>5, <2>2, <2>3, RespondedMoves
<1> QED BY <1>4, <1>5
-----------------------------------------------------------------------------
(***************************************************************************)
(* Bytes of a block, its token and its checksum.                           *)
(***************************************************************************)
\* Nothing, counted backwards.
LEMMA Zero == \A x \in Int : x = 0 => -x = 0
<1>1. ASSUME NEW x \in Int, x <= 0, x >= 0
      PROVE  -x = 0
  BY <1>1
<1>2. ASSUME NEW x \in Int, x = 0
      PROVE  -x = 0
  <2>1. x <= 0 /\ x >= 0
    BY <1>2
  <2> HIDE <1>2
  <2> QED BY <1>1, <2>1
<1> QED BY <1>2

\* A byte before the block, or the token.
LEMMA TokenByte ==
  ASSUME NEW p, NEW g, NEW s, NEW c, NEW o, NEW late, NEW stored, NEW q,
         Takable(p, g, s, c, o, late, stored, q), p.why \in {"tail", "token"},
         q.pc # "failed", NEW r, NEW next, NEW more, p.why = "token" => more = 0
  PROVE  Contents(q, g, Tail(s), c, r, next, more) /\ Ordering(q)
<1>0. /\ DOMAIN p = Fields /\ p.block \in Int /\ p.pc = "take"
      /\ IsSeq(g) /\ IsSeq(s) /\ Len(s) > 0
      /\ Contents(p, g, s, c, o, late, stored)
      /\ q \in Taken(p, s[1])
  BY DEF Takable, Program, Ordering
<1>1. CASE p.why = "tail"
  <2>1. Searching(p, g, s, c, 2)
    BY <1>0, <1>1 DEF Contents
  <2>2. Searching(p, g, Tail(s), c, 1)
    BY <1>0, <2>1, TailPassed
  <2>3. q.pc = "dummy" /\ q.why = "token" /\ q.cmd = p.cmd /\ q.job = p.job /\ q.block = p.block
    <3>1. q = IF p.r = R1("ready") THEN Dummy(p, "token") ELSE Fail(p)
      BY <1>0, <1>1 DEF Taken
    <3>2. Fail(p).pc = "failed"
      BY <1>0 DEF Fail, Fields
    <3> QED BY <1>0, <3>1, <3>2, DummyIs
  <2>4. Searching(q, g, Tail(s), c, 1)
    BY <2>2, <2>3 DEF Searching
  <2> QED BY <1>0, <2>3, <2>4 DEF Contents, Ordering, Batch
<1>2. CASE p.why = "token"
  <2>1. Searching(p, g, s, c, 1)
    BY <1>0, <1>2 DEF Contents, Batch
  <2>2. PICK token \in IsToken(s[1]) : q = IF token THEN [p EXCEPT !.pc = "bsend", !.i = 0] ELSE Dummy(p, "token")
    BY <1>0, <1>2 DEF Taken
  <2>3. CASE token
    <3>1. ~Plain(s[1])
      <4>1. Anything(s[1]) \/ s[1] = Token
        BY <2>2, <2>3 DEF IsToken
      <4> QED BY <4>1 DEF Plain
    <3>2. Streaming(p, g, Tail(s), c, 0)
      BY <1>0, <2>1, <3>1, TokenTaken
    <3>3. q.pc = "bsend" /\ q.why = "token" /\ q.cmd = p.cmd /\ q.job = p.job /\ q.block = p.block
      BY <1>0, <1>2, <2>2, <2>3 DEF Fields
    <3>4. Streaming(q, g, Tail(s), c, -more)
      <4>0. more = 0
        BY <1>2
      <4>1. -more = 0
        BY <4>0, Zero, 0 \in Int
      <4> QED BY <3>2, <3>3, <4>1 DEF Streaming
    <3> QED BY <1>0, <3>3, <3>4 DEF Contents, Ordering, Batch
  <2>4. CASE ~token
    <3>1. s[1] # Token
      <4>1. Anything(s[1]) \/ s[1] # Token
        BY <2>2, <2>4 DEF IsToken
      <4>2. ~Anything(Token)
        <5>1. Token[1] = "fe"
          BY DEF Token
        <5> QED BY <5>1 DEF Anything
      <4> QED BY <4>1, <4>2
    <3>2. Searching(p, g, Tail(s), c, 1)
      BY <1>0, <2>1, <3>1, TokenPassed
    <3>3. q.pc = "dummy" /\ q.why = "token" /\ q.cmd = p.cmd /\ q.job = p.job /\ q.block = p.block
      BY <1>0, <2>2, <2>4, DummyIs
    <3>4. Searching(q, g, Tail(s), c, 1)
      BY <3>2, <3>3 DEF Searching
    <3> QED BY <1>0, <3>3, <3>4 DEF Contents, Ordering, Batch
  <2> QED BY <2>3, <2>4
<1> QED BY <1>1, <1>2

\* A byte of the checksum.
LEMMA CRCByte ==
  ASSUME NEW p, NEW g, NEW s, NEW c, NEW o, NEW late, NEW stored, NEW q,
         Takable(p, g, s, c, o, late, stored, q), p.why = "crc",
         q.pc # "failed"
  PROVE  \A r, next, more : Contents(q, g, Tail(s), c, r, next, more) /\ Ordering(q)
<1> TAKE r, next, more
<1>0. /\ DOMAIN p = Fields /\ p.block \in Int /\ p.pc = "take"
      /\ IsSeq(g) /\ IsSeq(s) /\ Len(s) > 0
      /\ Contents(p, g, s, c, o, late, stored)
      /\ q \in Taken(p, s[1])
  BY DEF Takable, Program, Ordering
<1>1. CASE p.i = 0 /\ Streaming(p, g, s, c, -BlockBytes)
  <2> DEFINE b == s[1]  n == [p EXCEPT !.i = 1, !.r = b]
  <2>1. b = <<"crc", p.job, p.block, 1>>
    BY <1>0, <1>1, CRCRead
  <2>2. Streaming(p, g, Tail(s), c, -BlockBytes - 1)
    BY <1>0, <1>1, StreamingPops
  <2>3. q = Dummy(n, "crc")
    BY <1>0, <1>1 DEF Taken
  <2>4. DOMAIN n = Fields /\ n.i = 1 /\ n.r = b /\ n.cmd = p.cmd /\ n.job = p.job /\ n.block = p.block
    BY <1>0 DEF Fields
  <2> HIDE DEF b, n
  <2>5. /\ q.pc = "dummy" /\ q.why = "crc" /\ q.cmd = p.cmd /\ q.job = p.job /\ q.block = p.block
        /\ q.i = 1 /\ q.r = b
    BY <2>3, <2>4, DummyIs
  <2>6. Streaming(q, g, Tail(s), c, -BlockBytes - 1)
    BY <2>2, <2>5 DEF Streaming
  <2> QED BY <1>0, <2>1, <2>5, <2>6 DEF Contents, Ordering, Batch
<1>2. CASE p.i = 1 /\ Streaming(p, g, s, c, -BlockBytes - 1)
  <2> DEFINE n == [p EXCEPT !.block = @ + 1]
  <2>1. Streaming(p, g, Tail(s), c, -BlockBytes - 2)
    <3>1. Streaming(p, g, Tail(s), c, -BlockBytes - 1 - 1)
      BY <1>0, <1>2, StreamingPops
    <3>2. -BlockBytes - 1 - 1 = -BlockBytes - 2
      BY BootAssumption
    <3> QED BY <3>1, <3>2
  <2>2. q = IF p.block < Counts[p.job] THEN Dummy(n, "token") ELSE Command(p, 12)
    <3>1. q = Checked(p, s[1])
      BY <1>0, <1>2 DEF Taken
    <3>2. Fail(p).pc = "failed"
      BY <1>0 DEF Fail, Fields
    <3> QED BY <3>1, <3>2 DEF Checked
  <2>3. CASE p.block < Counts[p.job]
    <3>1. DOMAIN n = Fields /\ n.cmd = p.cmd /\ n.job = p.job /\ n.block = p.block + 1
      BY <1>0 DEF Fields
    <3> HIDE DEF n
    <3>2. q.pc = "dummy" /\ q.why = "token" /\ q.cmd = p.cmd /\ q.job = p.job /\ q.block = p.block + 1
      BY <2>2, <2>3, <3>1, DummyIs
    <3>3. Searching(q, g, Tail(s), c, 1)
      BY <2>1, <3>2, NextBlock
    <3> QED BY <1>0, <3>2, <3>3 DEF Contents, Ordering, Batch
  <2>4. CASE ~(p.block < Counts[p.job])
    <3>1. AllOnes(g) /\ c.sends # <<>>
      <4>1. PICK m : c.sends = <<p.job, m>>
        BY <2>1 DEF Streaming, Reads
      <4>2. <<p.job, m>> # <<>>
        OBVIOUS
      <4> QED BY <2>1, <4>1, <4>2 DEF Streaming
    <3>2. q = Command(p, 12) /\ 12 \in Commands
      BY <2>2, <2>4 DEF Commands
    <3> DEFINE z == Tail(s)
    <3> HIDE DEF z
    <3>3. Contents(Command(p, 12), g, z, c, r, next, more) /\ Ordering(Command(p, 12))
      <4>1. /\ DOMAIN p = Fields /\ p.block \in Int /\ 12 \in Commands /\ (12 = 18 => p.block = 1)
            /\ IsSeq(g) /\ AllOnes(g) /\ IF 12 = 12 THEN c.sends # <<>> ELSE Mute(z, c.sends)
        BY <1>0, <3>1, <3>2
      <4> QED BY <4>1, CommandBegins
    <3> QED BY <3>2, <3>3 DEF z
  <2> QED BY <2>3, <2>4
<1>3. (p.i = 0 /\ Streaming(p, g, s, c, -BlockBytes)) \/ (p.i = 1 /\ Streaming(p, g, s, c, -BlockBytes - 1))
  BY <1>0 DEF Contents
<1> QED BY <1>1, <1>2, <1>3

\* Whatever byte the loader takes, what is left is what the loader goes on with.
LEMMA TakeMoves ==
  ASSUME NEW p, NEW g, NEW s, NEW c, NEW o, NEW late, NEW stored, NEW q,
         Takable(p, g, s, c, o, late, stored, q), q.pc # "failed", NEW more, p.why = "token" => more = 0
  PROVE  Contents(q, g, Tail(s), c, o - 1, FALSE, more) /\ Ordering(q)
<1>1. p.why \in Reasons
  BY DEF Takable, Program
<1>2. CASE p.why \in {"warm", "lead"}
  BY <1>2, LeadTaken
<1>3. CASE p.why = "poll"
  BY <1>3, PollTaken
<1>4. CASE p.why = "rest"
  BY <1>4, RestTaken
<1>5. CASE p.why \in {"tail", "token"}
  BY <1>5, TokenByte
<1>6. CASE p.why = "crc"
  <2>1. \A r, next, more1 : Contents(q, g, Tail(s), c, r, next, more1) /\ Ordering(q)
    BY <1>6, CRCByte
  <2> QED BY <2>1
<1> QED BY <1>1, <1>2, <1>3, <1>4, <1>5, <1>6 DEF Reasons
-----------------------------------------------------------------------------
(***************************************************************************)
(* The loader's part of a cycle.                                           *)
(***************************************************************************)
\* What does not matter where the loader is.
LEMMA Matters ==
  ASSUME NEW q, NEW g, NEW s, NEW c, NEW o, NEW late, NEW stored, NEW next, NEW more,
         Contents(q, g, s, c, o, late, stored),
         q.pc = "dummy" /\ ~late => ~next, q.pc \in Batch => more = stored
  PROVE  Contents(q, g, s, c, o, next, more)
<1>1. CASE q.pc \in Batch
  <2>1. more = stored /\ q.pc # "dummy"
    BY <1>1 DEF Batch
  <2> QED BY <2>1 DEF Contents
<1>2. CASE q.pc \notin Batch
  BY <1>2 DEF Contents
<1> QED BY <1>1, <1>2

\* What the loader takes of the stream, and what it adds to what it sends.
LEMMA LoaderFacts ==
  ASSUME Fits, BootInv, NEW tick \in BOOLEAN, Cycle(tick), OnTime'
  PROVE  /\ Owed \in Int
         /\ Owed' = IF Writes THEN Owed + 1 ELSE IF rx.rinc THEN Owed - 1 ELSE Owed
         /\ Writes => Phase("access") /\ prog.pc \in Sends
         /\ Phase("access") /\ prog.pc \in Sends => Writes \/ prog.pc = "bsend"
         /\ rx.rinc => \/ Phase("access") /\ prog.pc \in Takes
                       \/ Phase("done") /\ prog.pc \in {"drain", "dummy"}
         /\ rx'.rinc => Busy /\ prog.pc \in Takes /\ ~rx.rinc
         /\ Phase("access") /\ prog.pc \in {"take", "btake"} => rx.rinc
         /\ Phase("access") => prog' \in After(prog, Dout) /\ Follows(prog', Dout)
         /\ ~Phase("access") => prog' = prog
         /\ Phase("access") => apb = [SPI(prog) EXCEPT !.phase = "access"]
         /\ IsSeq(buf)
         /\ buf' = IF prog.pc \notin Batch /\ prog.why = "token" THEN <<>>
                   ELSE IF prog.pc = "btake" /\ Phase("access") THEN Append(buf, Dout) ELSE buf
<1>1. /\ Program(prog) /\ OnBus /\ Latched /\ IsSeq(buf)
  BY DEF BootInv, Stored, IsSeq
<1>2. /\ Writes => Phase("access") /\ prog.pc \in Sends
      /\ Phase("access") /\ prog.pc \in Sends => Writes \/ prog.pc = "bsend"
  BY CycleGoes DEF Brim
<1>3. rx.rinc => \/ Phase("access") /\ prog.pc \in Takes
                 \/ Phase("done") /\ prog.pc \in {"drain", "dummy"}
  BY <1>1 DEF Latched
<1>4. ~(Writes /\ rx.rinc)
  BY <1>2, <1>3 DEF Phase, Sends, Takes
<1>5. Owed' = Owed + Bit(Writes) - Bit(rx.rinc) /\ Owed \in Int
  <2>1. /\ Queued' = Queued + Bit(Writes) - Bit(Leaves(tick))
        /\ Line' = Line + Bit(Leaves(tick)) - Bit(EndOfFrame(tick))
        /\ Unread' = Unread + Bit(EndOfFrame(tick)) - Bit(rx.rinc)
        /\ Line \in 0 .. 1 /\ Queued \in Nat /\ Unread \in Nat
    BY CycleCounts
  <2>2. Owed = Queued + Line + Unread /\ Owed' = Queued' + Line' + Unread'
    BY DEF Owed, Unsent
  <2> DEFINE W == Bit(Writes)  L == Bit(Leaves(tick))  E == Bit(EndOfFrame(tick))  P == Bit(rx.rinc)
  <2>3. W \in Int /\ L \in Int /\ E \in Int /\ P \in Int
    BY DEF Bit
  <2> HIDE DEF W, L, E, P
  <2>4. /\ Queued' = Queued + W - L /\ Line' = Line + L - E /\ Unread' = Unread + E - P
    BY <2>1 DEF W, L, E, P
  <2>5. Owed' = Owed + W - P /\ Owed \in Int
    BY <2>1, <2>2, <2>3, <2>4
  <2> QED BY <2>5 DEF W, P
<1>6. Owed' = IF Writes THEN Owed + 1 ELSE IF rx.rinc THEN Owed - 1 ELSE Owed
  BY <1>4, <1>5 DEF Bit
<1>7. rx'.rinc => Busy /\ prog.pc \in Takes /\ ~rx.rinc
  BY <1>1, CycleCounts, BusMeans DEF ReceiveReadInc
<1>8. Phase("access") /\ prog.pc \in {"take", "btake"} => rx.rinc
  BY <1>1 DEF Latched
<1>9. /\ Phase("access") => prog' \in After(prog, Dout) /\ Follows(prog', Dout)
      /\ ~Phase("access") => prog' = prog
  BY CycleCounts, CycleGoes
<1>10. Phase("access") => apb = [SPI(prog) EXCEPT !.phase = "access"]
  <2> SUFFICES ASSUME Phase("access")
               PROVE  apb = [SPI(prog) EXCEPT !.phase = "access"]
    OBVIOUS
  <2>1. apb \notin {NoTransfer, Ended}
    BY DEF NoTransfer, Ended, Phase
  <2>2. apb # SPI(prog)
    <3>1. ~Halted => SPI(prog).phase = "setup"
      <4>1. ~Halted => prog.pc \in Places \ {"failed", "booted"}
        BY <1>1 DEF Program, Halted
      <4> QED BY <4>1 DEF SPI, Write, Read, Places, Still, Sends, Takes, Polls
    <3> QED BY <1>1, <2>1, <3>1 DEF OnBus, Phase
  <2> QED BY <1>1, <2>1, <2>2 DEF OnBus
<1>11. buf' = IF prog.pc \notin Batch /\ prog.why = "token" THEN <<>>
              ELSE IF prog.pc = "btake" /\ Phase("access") THEN Append(buf, Dout) ELSE buf
  BY DEF Cycle, Loader, Phase
<1> QED BY <1>1, <1>2, <1>3, <1>5, <1>6, <1>7, <1>8, <1>9, <1>10, <1>11

\* The bytes after the loader's part of a cycle.
Sending == IF Writes THEN Append(Outgoing, apb.data) ELSE Outgoing
Pending == IF rx.rinc THEN Tail(Coming) ELSE Coming

\* They are sequences, of as many bytes as are on their way.
LEMMA Moved ==
  ASSUME Fits, BootInv, Selecting, NEW tick \in BOOLEAN, Cycle(tick), OnTime'
  PROVE  /\ IsSeq(Outgoing) /\ IsSeq(Coming) /\ IsSeq(Stream) /\ IsSeq(Sending) /\ IsSeq(Pending)
         /\ Len(Outgoing) = Unsent /\ Len(Coming) = Unread /\ Unsent \in Nat /\ Unread \in Nat
         /\ Pending \o card.out = IF rx.rinc THEN Tail(Stream) ELSE Stream
         /\ rx.rinc => Len(Stream) > 0
         /\ Owed' = Len(Sending) + Len(Pending)
<1>0. Controller /\ Roomy
  BY DEF BootInv
<1>1. /\ IsSeq(Outgoing) /\ IsSeq(Coming)
      /\ Len(Outgoing) = Unsent /\ Len(Coming) = Unread /\ Unsent \in Nat /\ Unread \in Nat
      /\ Len(rx.q) > 0 => Len(Coming) > 0
  BY <1>0, Lying
<1>2. rx.rinc => Len(Coming) > 0
  BY <1>1, CycleCounts
<1>3. IsSeq(card.out)
  BY DEF Selecting
<1>4. /\ IsSeq(Stream) /\ Len(Stream) = Len(Coming) + Len(card.out) /\ Len(card.out) \in Nat
  BY <1>1, <1>3, Joined DEF Stream
<1>5. rx.rinc => /\ IsSeq(Tail(Coming)) /\ Len(Tail(Coming)) = Len(Coming) - 1
                 /\ Tail(Coming) \o card.out = Tail(Stream)
  BY <1>1, <1>2, <1>3, Tailed, TailOfJoined DEF Stream
<1>6. IsSeq(Append(Outgoing, apb.data)) /\ Len(Append(Outgoing, apb.data)) = Len(Outgoing) + 1
  BY <1>1, Added
<1>7. IsSeq(Sending) /\ Len(Sending) = IF Writes THEN Unsent + 1 ELSE Unsent
  BY <1>1, <1>6 DEF Sending
<1>8. /\ IsSeq(Pending) /\ Len(Pending) = IF rx.rinc THEN Unread - 1 ELSE Unread
      /\ Pending \o card.out = IF rx.rinc THEN Tail(Stream) ELSE Stream
  BY <1>1, <1>5 DEF Pending, Stream
<1>9. rx.rinc => Len(Stream) > 0
  BY <1>1, <1>2, <1>4
<1>10. Owed' = Len(Sending) + Len(Pending)
  <2>1. /\ Owed' = IF Writes THEN Owed + 1 ELSE IF rx.rinc THEN Owed - 1 ELSE Owed
        /\ Writes => ~rx.rinc
    BY LoaderFacts DEF Phase, Sends, Takes
  <2>2. Owed = Unsent + Unread
    BY DEF Owed
  <2> QED BY <1>1, <1>7, <1>8, <2>1, <2>2
<1> QED BY <1>1, <1>4, <1>7, <1>8, <1>9, <1>10
-----------------------------------------------------------------------------
(***************************************************************************)
(* Its cases.                                                              *)
(***************************************************************************)
\* What the loader's part of a cycle leaves to the frame.
Reached == /\ Contents(prog', Sending, Pending \o card.out, card, Owed', rx'.rinc, Len(buf'))
           /\ Ordering(prog')

\* A cycle without an access.
LEMMA LoaderWaits ==
  ASSUME Fits, BootInv, Ahead, NEW tick \in BOOLEAN, Cycle(tick), OnTime', ~Phase("access")
  PROVE  Reached
<1>1. /\ Owed \in Int /\ prog' = prog /\ ~Writes
      /\ Owed' = IF rx.rinc THEN Owed - 1 ELSE Owed
      /\ rx.rinc => Phase("done") /\ prog.pc \in {"drain", "dummy"}
      /\ rx'.rinc => prog.pc \in Takes /\ ~rx.rinc
      /\ prog.pc \in Batch => Len(buf') = Len(buf)
  BY LoaderFacts
<1>2. /\ Contents(prog, Outgoing, Stream, card, Owed, rx.rinc, Len(buf)) /\ Ordering(prog)
      /\ Selecting /\ Reading /\ Program(prog)
  BY DEF Ahead, BootInv
<1>3. /\ IsSeq(Outgoing) /\ IsSeq(Stream)
      /\ Pending \o card.out = IF rx.rinc THEN Tail(Stream) ELSE Stream
      /\ rx.rinc => Len(Stream) > 0
  BY <1>2, Moved
<1>4. Sending = Outgoing
  BY <1>1 DEF Sending
<1>5. CASE rx.rinc
  <2>1. prog.pc = "drain" \/ (prog.pc = "dummy" /\ prog.why = "poll" /\ rx.rinc)
    BY <1>1, <1>2, <1>5 DEF Reading
  <2>2. \A next : Contents(prog, Outgoing, Tail(Stream), card, Owed - 1, next, Len(buf'))
    BY <1>1, <1>2, <1>3, <1>5, <2>1, Passes
  <2>3. Owed' = Owed - 1
    BY <1>1, <1>5
  <2> QED BY <1>1, <1>2, <1>3, <1>4, <1>5, <2>2, <2>3 DEF Reached
<1>6. CASE ~rx.rinc
  <2>1. prog.pc = "dummy" => ~rx'.rinc
    BY <1>1 DEF Takes
  <2>2. Contents(prog, Outgoing, Stream, card, Owed, rx'.rinc, Len(buf'))
    BY <1>1, <1>2, <2>1, Matters
  <2>3. Owed' = Owed
    BY <1>1, <1>6
  <2> QED BY <1>1, <1>2, <1>3, <1>4, <1>6, <2>2, <2>3 DEF Reached
<1> QED BY <1>5, <1>6

\* What the loader writes.
LEMMA Written ==
  ASSUME Program(prog), apb = [SPI(prog) EXCEPT !.phase = "access"]
  PROVE  /\ prog.pc \in {"dummy", "bsend"} => apb.data = Ones
         /\ prog.pc = "send" => apb.data = Byte(prog.cmd, prog.job, prog.i)
<1>0. ASSUME NEW v, SPI(prog) = Write("TXDATA", v)
      PROVE  apb.data = v
  BY <1>0 DEF Write
<1>1. CASE prog.pc \in {"dummy", "bsend"}
  <2>1. SPI(prog) = Write("TXDATA", Ones)
    BY <1>1 DEF SPI, Polls
  <2> QED BY <1>0, <1>1, <2>1
<1>2. CASE prog.pc = "send"
  <2>1. SPI(prog) = Write("TXDATA", <<"cmd", prog.cmd, IF prog.cmd = 18 THEN prog.job ELSE 0, prog.i>>)
    BY <1>2 DEF SPI, Polls
  <2>2. prog.i \in 1 .. 6
    BY <1>2 DEF Program
  <2> QED BY <1>0, <1>2, <2>1, <2>2 DEF Byte
<1> QED BY <1>1, <1>2

\* An access that takes no byte.
LEMMA LoaderGoesOn ==
  ASSUME Fits, BootInv, Ahead, NEW tick \in BOOLEAN, Cycle(tick), OnTime', Phase("access"), ~rx.rinc,
         prog'.pc \notin {"failed", "booted"}
  PROVE  Reached
<1> DEFINE s == Pending \o card.out
<1>1. /\ Owed \in Int
      /\ Owed' = IF Writes THEN Owed + 1 ELSE Owed
      /\ Writes => prog.pc \in Sends
      /\ prog.pc \in {"dummy", "send"} => Writes
      /\ rx'.rinc => prog.pc \in Takes
      /\ prog.pc \notin {"take", "btake"}
      /\ prog' \in After(prog, Dout) /\ Follows(prog', Dout)
      /\ apb = [SPI(prog) EXCEPT !.phase = "access"]
      /\ prog.pc \in Batch => Len(buf') = Len(buf)
  BY LoaderFacts DEF Phase, Sends
<1>2. /\ Contents(prog, Outgoing, s, card, Owed, rx.rinc, Len(buf)) /\ Ordering(prog)
      /\ Selecting /\ Reading /\ Program(prog)
      /\ IsSeq(Outgoing) /\ IsSeq(Pending) /\ IsSeq(card.out) /\ IsSeq(s)
  <2>1. /\ Contents(prog, Outgoing, Stream, card, Owed, rx.rinc, Len(buf)) /\ Ordering(prog)
        /\ Selecting /\ Reading /\ Program(prog)
    BY DEF Ahead, BootInv
  <2>2. s = Stream /\ IsSeq(Outgoing) /\ IsSeq(Pending) /\ IsSeq(Stream)
    BY <2>1, Moved
  <2> QED BY <2>1, <2>2 DEF Selecting
<1> HIDE DEF s
<1>3. Sending = IF Writes THEN Append(Outgoing, apb.data) ELSE Outgoing
  BY <1>1 DEF Sending
<1>4. prog'.pc \in Batch => Len(buf') = Len(buf)
  <2>1. prog.pc \in Places \ {"take", "btake", "failed", "booted"}
    BY <1>1, <1>2, CycleGoes DEF Program
  <2>2. prog'.pc \in Batch => prog.pc \in Batch
    BY <1>1, <2>1 DEF Follows, Places, Still, Sends, Takes, Polls, Batch
  <2> QED BY <1>1, <2>2
<1>5. SUFFICES \E late : /\ Contents(prog', Sending, s, card, Owed', late, Len(buf)) /\ Ordering(prog')
                         /\ prog'.pc = "dummy" /\ ~late => ~rx'.rinc
  <2>1. PICK late : /\ Contents(prog', Sending, s, card, Owed', late, Len(buf)) /\ Ordering(prog')
                    /\ prog'.pc = "dummy" /\ ~late => ~rx'.rinc
    BY <1>5
  <2>2. Contents(prog', Sending, s, card, Owed', rx'.rinc, Len(buf'))
    BY <1>4, <2>1, Matters
  <2> QED BY <2>1, <2>2 DEF Reached, s
<1>6. CASE prog.pc \in {"off", "auto", "hold"}
  <2>1. Contents(prog', Outgoing, s, card, Owed, rx.rinc, Len(buf)) /\ Ordering(prog')
    BY <1>1, <1>2, <1>6, SetUp
  <2>2. Sending = Outgoing /\ Owed' = Owed /\ ~rx'.rinc
    BY <1>1, <1>3, <1>6 DEF Sends, Takes
  <2> QED BY <2>1, <2>2
<1>7. CASE prog.pc = "dummy"
  <2>1. Sending = Append(Outgoing, Ones) /\ Owed' = Owed + 1
    BY <1>1, <1>2, <1>3, <1>7, Written DEF Sends
  <2>2. Contents(prog', Append(Outgoing, Ones), s, card, Owed + 1, TRUE, Len(buf)) /\ Ordering(prog')
    BY <1>1, <1>2, <1>7, DummyMoves
  <2> QED BY <2>1, <2>2
<1>8. CASE prog.pc = "send"
  <2>1. Sending = Append(Outgoing, Byte(prog.cmd, prog.job, prog.i)) /\ Owed' = Owed + 1
    BY <1>1, <1>2, <1>3, <1>8, Written DEF Sends
  <2>2. Contents(prog', Append(Outgoing, Byte(prog.cmd, prog.job, prog.i)), s, card, Owed + 1, TRUE, Len(buf))
        /\ Ordering(prog')
    BY <1>1, <1>2, <1>8, SendMoves
  <2> QED BY <2>1, <2>2
<1>9. CASE prog.pc = "bsend"
  <2>1. Sending \in {Outgoing, Append(Outgoing, Ones)}
    BY <1>1, <1>2, <1>3, <1>9, Written
  <2>2. Contents(prog', Sending, s, card, Owed', TRUE, Len(buf)) /\ Ordering(prog')
    <3> DEFINE h == Sending  q == prog'  o == Owed'
    <3>1. h \in {Outgoing, Append(Outgoing, Ones)} /\ q \in After(prog, Dout)
      BY <1>1, <2>1
    <3> HIDE DEF h, q, o
    <3>2. Contents(q, h, s, card, o, TRUE, Len(buf)) /\ Ordering(q)
      BY <1>2, <1>9, <3>1, BatchSends
    <3> QED BY <3>2 DEF h, q, o
  <2> QED BY <2>2
<1>10. CASE prog.pc \in Polls
  <2>1. Sending = Outgoing /\ Owed' = Owed
    BY <1>1, <1>3, <1>10 DEF Sends, Polls
  <2>2. prog.pc = "waitrx" /\ Dout[3] => Len(Outgoing) \in {0, 1}
    <3> SUFFICES ASSUME prog.pc = "waitrx", Dout[3]
                 PROVE  Len(Outgoing) \in {0, 1}
      OBVIOUS
    <3>1. ~rx.empty /\ Owed <= 2
      BY DEF BootInv, Latched, Bounds, Answer
    <3>2. Len(rx.q) > 0 /\ Unread = Len(rx.q) + Bit(rx.winc) /\ Len(rx.q) \in Nat
      BY <3>1, Basics DEF BootInv, Unread
    <3>3. Unread >= 1
      <4>1. Bit(rx.winc) \in 0 .. 1
        BY DEF Bit
      <4> QED BY <3>2, <4>1
    <3>4. Len(Outgoing) = Unsent /\ Unsent \in Nat /\ Unread \in Nat /\ Owed = Unsent + Unread
      BY <1>2, Moved DEF Owed
    <3> QED BY <3>1, <3>3, <3>4
  <2>3. Contents(prog', Outgoing, s, card, Owed, TRUE, Len(buf)) /\ Ordering(prog')
    BY <1>1, <1>2, <1>10, <2>2, PollMoves, ZenonT(40) DEF s
  <2> QED BY <2>1, <2>3
<1>11. CASE prog.pc = "drain"
  <2>1. Sending = Outgoing /\ Owed' = Owed
    BY <1>1, <1>3, <1>11 DEF Sends
  <2>2. Contents(prog', Outgoing, s, card, Owed, TRUE, Len(buf)) /\ Ordering(prog')
    BY <1>1, <1>2, <1>11, DrainMoves
  <2> QED BY <2>1, <2>2
<1>12. CASE prog.pc = "release"
  <2>1. Contents(prog', Outgoing, s, card, Owed, rx.rinc, Len(buf)) /\ Ordering(prog')
    BY <1>1, <1>2, <1>12, ReleaseMoves
  <2>2. Sending = Outgoing /\ Owed' = Owed /\ ~rx'.rinc
    BY <1>1, <1>3, <1>12 DEF Sends, Takes
  <2> QED BY <2>1, <2>2
<1>13. prog.pc \notin {"failed", "booted"}
  BY CycleGoes
<1> QED BY <1>1, <1>2, <1>6, <1>7, <1>8, <1>9, <1>10, <1>11, <1>12, <1>13
        DEF Program, Places, Still, Sends, Takes, Polls

\* An access that takes a byte.
LEMMA LoaderTakes ==
  ASSUME Fits, BootInv, Ahead, NEW tick \in BOOLEAN, Cycle(tick), OnTime', Phase("access"), rx.rinc,
         prog'.pc \notin {"failed", "booted"}
  PROVE  Reached
<1>1. /\ Owed \in Int
      /\ Owed' = Owed - 1 /\ ~Writes
      /\ prog.pc \in Takes
      /\ ~rx'.rinc
      /\ prog' \in After(prog, Dout)
      /\ IsSeq(buf)
      /\ buf' = IF prog.pc \notin Batch /\ prog.why = "token" THEN <<>>
                ELSE IF prog.pc = "btake" THEN Append(buf, Dout) ELSE buf
  <2>1. prog.pc \in Takes /\ prog.pc \notin Sends
    BY LoaderFacts DEF Phase, Sends, Takes
  <2> QED BY <2>1, LoaderFacts
<1>2. /\ Contents(prog, Outgoing, Stream, card, Owed, rx.rinc, Len(buf)) /\ Ordering(prog)
      /\ Selecting /\ Reading /\ Program(prog)
  BY DEF Ahead, BootInv
<1>3. /\ IsSeq(Outgoing) /\ IsSeq(Stream) /\ Len(Stream) > 0
      /\ Pending \o card.out = Tail(Stream)
  BY <1>2, Moved
<1>4. Sending = Outgoing
  BY <1>1 DEF Sending
<1>5. SUFFICES Contents(prog', Outgoing, Tail(Stream), card, Owed - 1, rx'.rinc, Len(buf')) /\ Ordering(prog')
  <2>1. Owed' = Owed - 1
    BY <1>1
  <2> QED BY <1>3, <1>4, <1>5, <2>1 DEF Reached
<1>6. CASE prog.pc = "drain"
  <2>1. Uttered(prog, Outgoing, Stream, card, Owed, 6) => Uttered(prog, Outgoing, Tail(Stream), card, Owed - 1, 6)
    BY <1>1, <1>3, UtteredPops
  <2>2. Contents(prog', Outgoing, Tail(Stream), card, Owed - 1, TRUE, Len(buf)) /\ Ordering(prog')
    <3> DEFINE z == Tail(Stream)  r == Owed - 1  p == prog'
    <3>1. /\ Uttered(prog, Outgoing, Stream, card, Owed, 6) => Uttered(prog, Outgoing, z, card, r, 6)
          /\ p \in After(prog, Dout)
      BY <1>1, <2>1
    <3> HIDE DEF z, r, p
    <3>2. Contents(p, Outgoing, z, card, r, TRUE, Len(buf)) /\ Ordering(p)
      BY <1>2, <1>3, <1>6, <3>1, DrainMoves
    <3> QED BY <3>2 DEF z, r, p
  <2>3. prog'.pc \notin Batch
    BY <1>6, LoaderFacts DEF Follows, Batch
  <2> QED BY <1>1, <2>2, <2>3, Matters
<1>7. CASE prog.pc = "take"
  <2>1. Dout = Stream[1]
    BY <1>2, <1>7 DEF Reading
  <2>2. prog' \in Taken(prog, Stream[1])
    BY <1>1, <1>7, <2>1 DEF After
  <2>3. prog'.pc = "release" => Owed <= 2
    <3> SUFFICES ASSUME prog'.pc = "release"
                 PROVE  Owed <= 2
      OBVIOUS
    <3>1. Owed' <= 1
      BY BoundsCycle DEF Bounds, Still
    <3> QED BY <1>1, <3>1
  <2>4. Takable(prog, Outgoing, Stream, card, Owed, rx.rinc, Len(buf), prog')
    BY <1>1, <1>2, <1>3, <1>7, <2>2, <2>3 DEF Takable
  <2>5. prog.why = "token" => Len(buf') = 0
    BY <1>1, <1>7 DEF Batch
  <2>6. Contents(prog', Outgoing, Tail(Stream), card, Owed - 1, FALSE, Len(buf')) /\ Ordering(prog')
    BY <2>4, <2>5, TakeMoves
  <2> QED BY <1>1, <2>6, Matters
<1>8. CASE prog.pc = "btake"
  <2>1. Len(buf') = Len(buf) + 1 /\ Len(buf) \in Int
    BY <1>1, <1>8, Added DEF Batch
  <2>2. Contents(prog', Outgoing, Tail(Stream), card, Owed - 1, rx'.rinc, Len(buf) + 1) /\ Ordering(prog')
    BY <1>1, <1>2, <1>3, <1>8, <2>1, BatchTakes
  <2> QED BY <2>1, <2>2
<1> QED BY <1>1, <1>6, <1>7, <1>8 DEF Takes
-----------------------------------------------------------------------------
(***************************************************************************)
(* A cycle.  The loader's part and the frame's keep the invariant.         *)
(***************************************************************************)
\* A cycle of the loader is one of these.
LEMMA LoaderMoves ==
  ASSUME Fits, BootInv, Ahead, NEW tick \in BOOLEAN, Cycle(tick), OnTime',
         prog'.pc \notin {"failed", "booted"}
  PROVE  Reached
BY LoaderWaits, LoaderGoesOn, LoaderTakes

\* What the frame of a cycle makes of it.
LEMMA CycleFrames ==
  ASSUME Fits, BootInv, Ahead, NEW tick \in BOOLEAN, Cycle(tick), OnTime',
         prog'.pc \notin {"failed", "booted"}
  PROVE  /\ Framed(Sending, Pending, tick, Outgoing', Stream')
         /\ IsSeq(card'.out) /\ DOMAIN card' = CardFields
         /\ Shifting'
         /\ Coming' = IF EndOfFrame(tick) THEN Append(Pending, IF Selected THEN Says ELSE Ones) ELSE Pending
<1> DEFINE in == IF Selected THEN Says ELSE Ones
<1>1. PICK to \in NextCurr(tick) : SpiCycle(tick, in, to) /\ Card(tick)
  BY DEF Cycle
<1>2. /\ Controller /\ Roomy /\ Program(prog) /\ Selecting /\ Reading /\ Shifting
      /\ Contents(prog, Outgoing, Stream, card, Owed, rx.rinc, Len(buf)) /\ Ordering(prog)
  BY DEF BootInv, Ahead, Reading, Shifting
<1> HIDE DEF in
<1>3. /\ Outgoing' = LET g == IF EndOfFrame(tick) THEN Tail(Outgoing) ELSE Outgoing IN
                     IF Writes THEN Append(g, apb.data) ELSE g
      /\ Shifting'
  BY <1>1, <1>2, OutgoingFlows
<1>4. Coming' = IF EndOfFrame(tick) THEN Append(Pending, in) ELSE Pending
  BY <1>1, <1>2, ComingFlows DEF Pending
<1>5. Reached
  BY LoaderMoves
<1>6. /\ IsSeq(Outgoing) /\ IsSeq(Sending) /\ IsSeq(Pending)
  BY <1>2, Moved
<1>7. EndOfFrame(tick) => Len(Outgoing) > 0 /\ Outgoing[1] = TransmitReg
  BY <1>1, <1>2, Exchange, Lying
<1>8. Outgoing' = IF EndOfFrame(tick) THEN Tail(Sending) ELSE Sending
  <2>1. EndOfFrame(tick) => Tail(Append(Outgoing, apb.data)) = Append(Tail(Outgoing), apb.data)
    <3> SUFFICES ASSUME EndOfFrame(tick)
                 PROVE  Tail(Append(Outgoing, apb.data)) = Append(Tail(Outgoing), apb.data)
      OBVIOUS
    <3>1. PICK S : Outgoing \in Seq(S)
      BY <1>6 DEF IsSeq
    <3>2. Outgoing # <<>>
      BY <1>7, <3>1, EmptySeq
    <3> QED BY <3>1, <3>2, HeadTailAppend
  <2> QED BY <1>3, <2>1 DEF Sending
<1>9. EndOfFrame(tick) => Len(Sending) > 0 /\ Sending[1] = TransmitReg
  <2>1. /\ Len(Append(Outgoing, apb.data)) = Len(Outgoing) + 1 /\ Len(Outgoing) \in Nat
        /\ \A x \in 1 .. Len(Outgoing) : Append(Outgoing, apb.data)[x] = Outgoing[x]
    BY <1>6, Added
  <2> QED BY <1>7, <2>1 DEF Sending
<1>10. Stream' = (IF EndOfFrame(tick) THEN Append(Pending, IF Selected THEN Says ELSE Ones) ELSE Pending) \o card'.out
  BY <1>4 DEF Stream, in
<1>11. Fit(Sending)
  <2> DEFINE p == prog'  s == Pending \o card.out  o == Owed'  l == rx'.rinc  n == Len(buf')
  <2>1. Contents(p, Sending, s, card, o, l, n) /\ Ordering(p)
    BY <1>5 DEF Reached
  <2>2. Program(p) /\ p.pc \notin {"failed", "booted"}
    BY <1>2, CycleGoes
  <2> HIDE DEF p, s, o, l, n
  <2> QED BY <1>6, <2>1, <2>2, ContentsFit
<1>12. /\ card.sends # <<>> => Selected
       /\ IsSeq(card.out) /\ DOMAIN card = CardFields
  BY <1>2 DEF Selecting, Selected, InactiveState
<1>13. Framed(Sending, Pending, tick, Outgoing', Stream') /\ IsSeq(card'.out) /\ DOMAIN card' = CardFields
  <2> DEFINE h == Outgoing'  z == Stream'
  <2>1. /\ h = IF EndOfFrame(tick) THEN Tail(Sending) ELSE Sending
        /\ z = (IF EndOfFrame(tick) THEN Append(Pending, IF Selected THEN Says ELSE Ones) ELSE Pending) \o card'.out
    BY <1>8, <1>10
  <2> HIDE DEF h, z
  <2>2. Framed(Sending, Pending, tick, h, z) /\ IsSeq(card'.out) /\ DOMAIN card' = CardFields
    BY <1>1, <1>6, <1>9, <1>11, <1>12, <2>1, FramedBy
  <2> QED BY <2>2 DEF h, z
<1> QED BY <1>3, <1>4, <1>13 DEF in

\* What is on its way is, after a cycle, what the loader expects.
LEMMA ContentsCycle ==
  ASSUME Fits, BootInv, Ahead, NEW tick \in BOOLEAN, Cycle(tick), OnTime',
         prog'.pc \notin {"failed", "booted"}
  PROVE  /\ Contents(prog', Outgoing', Stream', card', Owed', rx'.rinc, Len(buf'))
         /\ Ordering(prog')
<1>1. Reached /\ Framed(Sending, Pending, tick, Outgoing', Stream')
  BY LoaderMoves, CycleFrames
<1>2. Owed' = Len(Sending) + Len(Pending)
  BY Moved DEF Ahead
<1> DEFINE p == prog'  h == Outgoing'  z == Stream'  o == Owed'  l == rx'.rinc  n == Len(buf')
<1>3. /\ Contents(p, Sending, Pending \o card.out, card, o, l, n) /\ Ordering(p)
      /\ Framed(Sending, Pending, tick, h, z)
      /\ o = Len(Sending) + Len(Pending)
  BY <1>1, <1>2 DEF Reached
<1>4. Program(p)
  BY CycleGoes DEF BootInv
<1> HIDE DEF p, h, z, o, l, n
<1>5. Contents(p, h, z, card', o, l, n)
  BY <1>3, <1>4, FrameContents
<1> QED BY <1>3, <1>5 DEF p, h, z, o, l, n

\* Where the loader has selected the card, it had before, or does so now.
LEMMA SelectStays ==
  ASSUME NEW p, Program(p), Ordering(p), NEW d, NEW q \in After(p, d),
         q.pc \notin {"failed", "booted"}, q.pc # "hold", q.why # "warm"
  PROVE  p.pc = "hold" \/ (p.pc \notin {"off", "auto", "release"} /\ p.why # "warm")
<1>1. DOMAIN p = Fields /\ p.pc \in Places /\ p.cmd \in Commands
  BY DEF Program
<1>2. CASE p.pc = "off"
  <2>1. q = Dummy(p, "warm")
    BY <1>2 DEF After
  <2> QED BY <1>1, <2>1, DummyIs
<1>3. CASE p.pc = "auto"
  <2>1. q = Command(p, 0)
    BY <1>3 DEF After
  <2>2. q.pc = IF 0 = 12 THEN "dummy" ELSE "hold"
    BY <1>1, <2>1, CommandIs
  <2> QED BY <2>2
<1>4. CASE p.pc = "release"
  <2>1. q = Returned(p) /\ p.cmd # 18
    BY <1>4 DEF After, Program
  <2>2. \A r, c : DOMAIN r = Fields /\ c # 12 => Command(r, c).pc = "hold"
    BY CommandIs
  <2>3. /\ DOMAIN [p EXCEPT !.tries = @ + 1] = Fields /\ DOMAIN [p EXCEPT !.tries = 0] = Fields
        /\ \A k : DOMAIN [p EXCEPT !.tries = 0, !.job = k, !.block = 1] = Fields
    BY <1>1
  <2>4. \A k : DiskRead(p, k).pc = "hold"
    <3> TAKE k
    <3> DEFINE r == [p EXCEPT !.tries = 0, !.job = k, !.block = 1]
    <3>1. DOMAIN r = Fields /\ DiskRead(p, k) = Command(r, 18)
      BY <2>3 DEF DiskRead
    <3> HIDE DEF r
    <3> QED BY <2>2, <3>1
  <2>5. Fail(p).pc = "failed" /\ [p EXCEPT !.pc = "booted"].pc = "booted"
    BY <1>1 DEF Fail, Fields
  <2>6. q.pc \in {"hold", "failed", "booted"}
    <3> DEFINE tried == [p EXCEPT !.tries = @ + 1]  warmed == [p EXCEPT !.tries = 0]
               booted == [p EXCEPT !.pc = "booted"]
    <3>1. /\ p.cmd = 0 => q \in {Fail(p), Command(p, 8), Command(tried, 0)}
          /\ p.cmd = 8 => q \in {Fail(p), Command(warmed, 55)}
          /\ p.cmd = 55 => q = Command(p, 41)
          /\ p.cmd = 41 => q \in {Fail(p), Command(tried, 55), DiskRead(p, 1)}
          /\ p.cmd = 12 => q \in {DiskRead(p, p.job + 1), booted}
      BY <2>1 DEF Returned
    <3>2. DOMAIN tried = Fields /\ DOMAIN warmed = Fields /\ booted.pc = "booted"
      BY <2>3, <2>5
    <3> HIDE DEF tried, warmed, booted
    <3>3. /\ Command(p, 8).pc = "hold" /\ Command(tried, 0).pc = "hold" /\ Command(warmed, 55).pc = "hold"
          /\ Command(p, 41).pc = "hold" /\ Command(tried, 55).pc = "hold"
      BY <1>1, <2>2, <3>2
    <3> QED BY <1>1, <2>1, <2>4, <2>5, <3>1, <3>2, <3>3 DEF Commands
  <2> QED BY <2>6
<1>5. CASE p.why = "warm" /\ p.pc \notin {"off", "auto", "release"}
  <2>1. p.pc \in {"dummy", "waitrx", "take"}
    BY <1>5 DEF Ordering
  <2>2. p.pc \in {"dummy", "waitrx"} => q.why = "warm"
    BY <1>1, <1>5 DEF After, Fields
  <2>3. p.pc = "take" => q.why = "warm"
    <3> SUFFICES ASSUME p.pc = "take"
                 PROVE  q.why = "warm"
      OBVIOUS
    <3>1. q = Dummy([p EXCEPT !.i = @ + 1], "warm") \/ q = [p EXCEPT !.pc = "auto"]
      BY <1>5 DEF After, Taken
    <3>2. DOMAIN [p EXCEPT !.i = @ + 1] = Fields
      BY <1>1
    <3>3. Dummy([p EXCEPT !.i = @ + 1], "warm").why = "warm"
      BY <3>2, DummyIs
    <3> QED BY <1>1, <1>5, <3>1, <3>3 DEF Fields
  <2> QED BY <2>1, <2>2, <2>3
<1> QED BY <1>2, <1>3, <1>4, <1>5

\* A card that has nothing to send is idle, unless it hears the command to read.
LEMMA CardStaysIdle ==
  ASSUME NEW tick \in BOOLEAN, Card(tick), DOMAIN card = CardFields, card.sends = <<>>,
         EndOfFrame(tick) => ~Hears(TransmitReg)
  PROVE  card'.sends = <<>>
<1>1. Silent.sends = <<>>
  BY DEF Silent
<1>2. CASE Selected /\ EndOfFrame(tick)
  <2>1. card' \in CardHears(TransmitReg)
    BY <1>2 DEF Card
  <2>2. card' = [card EXCEPT !.heard = Ones, !.out = Rest]
    BY <1>2, <2>1 DEF CardHears
  <2> QED BY <2>2 DEF CardFields
<1> QED BY <1>1, <1>2 DEF Card

\* The card is selected while the loader needs it, and while it sends blocks.
LEMMA SelectingCycle ==
  ASSUME Fits, BootInv, Ahead, NEW tick \in BOOLEAN, Cycle(tick), OnTime',
         prog'.pc \notin {"failed", "booted"}
  PROVE  Selecting'
<1>1. PICK to \in NextCurr(tick) :
        /\ CSMode' = IF Memwrite("CSMODE") THEN apb.data ELSE CSMode
        /\ curr' = IF tick THEN to ELSE curr
        /\ Card(tick)
  BY DEF Cycle, SpiCycle
<1>2. /\ Program(prog) /\ Selecting /\ OnBus /\ Ordering(prog)
      /\ Contents(prog, Outgoing, Stream, card, Owed, rx.rinc, Len(buf))
      /\ Controller /\ Roomy
  BY DEF BootInv, Ahead
<1>3. /\ Phase("access") => prog' \in After(prog, Dout)
      /\ ~Phase("access") => prog' = prog
      /\ Phase("access") => apb = [SPI(prog) EXCEPT !.phase = "access"]
  BY LoaderFacts
<1>4. Phase("access") => prog.pc \notin {"failed", "booted"}
  BY CycleGoes
<1>5. /\ Memwrite("CSMODE") <=> Phase("access") /\ prog.pc \in {"off", "auto", "hold", "release"}
      /\ Memwrite("CSMODE") /\ prog.pc = "hold" => apb.data = "HOLD"
  <2>1. ~Phase("access") => ~Memwrite("CSMODE")
    BY DEF Phase, Memwrite
  <2> SUFFICES ASSUME Phase("access")
               PROVE  /\ Memwrite("CSMODE") <=> prog.pc \in {"off", "auto", "hold", "release"}
                      /\ prog.pc = "hold" => apb.data = "HOLD"
    BY <2>1
  <2>2. prog.pc \in Places \ {"failed", "booted"} /\ apb = [SPI(prog) EXCEPT !.phase = "access"]
    BY <1>2, <1>3, <1>4 DEF Program
  <2>3. CASE prog.pc \in {"off", "auto", "hold", "release"}
    BY <2>2, <2>3 DEF SPI, Write, Memwrite, Polls
  <2>4. CASE prog.pc \in Sends
    BY <2>2, <2>4 DEF SPI, Write, Memwrite, Sends, Polls
  <2>5. CASE prog.pc \in Takes
    BY <2>2, <2>5 DEF SPI, Read, Memwrite, Takes, Polls
  <2>6. CASE prog.pc \in Polls
    BY <2>2, <2>6 DEF SPI, Read, Memwrite, Polls
  <2> QED BY <2>2, <2>3, <2>4, <2>5, <2>6 DEF Places, Still, Sends
<1>6. prog'.pc # "hold" /\ prog'.why # "warm" => CSMode' = "HOLD"
  <2> SUFFICES ASSUME prog'.pc # "hold", prog'.why # "warm"
               PROVE  CSMode' = "HOLD"
    OBVIOUS
  <2>1. CASE ~Phase("access")
    BY <1>1, <1>2, <1>3, <1>5, <2>1 DEF Selecting
  <2>2. CASE Phase("access")
    <3>1. prog.pc = "hold" \/ (prog.pc \notin {"off", "auto", "release"} /\ prog.why # "warm")
      <4> DEFINE q == prog'
      <4>1. q \in After(prog, Dout) /\ q.pc \notin {"failed", "booted"} /\ q.pc # "hold" /\ q.why # "warm"
        BY <1>3, <2>2
      <4> HIDE DEF q
      <4> QED BY <1>2, <4>1, SelectStays
    <3> QED BY <1>1, <1>2, <1>5, <2>2, <3>1 DEF Selecting
  <2> QED BY <2>1, <2>2
<1>7. AllOnes(Outgoing) /\ card.sends = <<>> => card'.sends = <<>>
  <2>1. EndOfFrame(tick) => Len(Outgoing) > 0 /\ Outgoing[1] = TransmitReg
    <3>1. EndOfFrame(tick) => Line = 1
      BY CycleCounts
    <3> QED BY <1>2, <3>1, Lying
  <2>2. Len(Outgoing) \in Nat
    BY <1>2, Moved, Lengths
  <2>3. AllOnes(Outgoing) /\ EndOfFrame(tick) => ~Hears(TransmitReg)
    BY <2>1, <2>2, OnesAreIdle DEF AllOnes
  <2> QED BY <1>1, <1>2, <2>3, CardStaysIdle DEF Selecting
<1>8. prog.why = "warm" \/ prog.pc \in {"off", "auto", "release"} => card'.sends = <<>>
  <2>1. prog.why = "warm" => AllOnes(Outgoing) /\ card.sends = <<>>
    BY <1>2 DEF Contents, Over, Heard, Mute
  <2>2. prog.pc = "release" => AllOnes(Outgoing) /\ card.sends = <<>>
    BY <1>2 DEF Contents, Mute
  <2>3. prog.pc \in {"off", "auto"} => prog.why = "warm"
    BY <1>2 DEF Ordering, Program, Reasons, Batch
  <2> QED BY <1>7, <2>1, <2>2, <2>3
<1>9. prog.pc = "hold" => (card'.sends = <<>> \/ card.sends # <<>>)
  <2> SUFFICES ASSUME prog.pc = "hold", card.sends = <<>>
               PROVE  card'.sends = <<>>
    OBVIOUS
  <2>1. prog.why = "lead"
    BY <1>2 DEF Program
  <2>2. Said(Outgoing, prog.cmd, prog.job, 0)
    BY <1>2, <2>1 DEF Contents, Uttered
  <2>3. AllOnes(Outgoing)
    <3>1. Len(Outgoing) \in Nat
      BY <1>2, Moved, Lengths
    <3>2. \A x \in 1 .. Len(Outgoing) : x - Len(Outgoing) + 0 \notin 1 .. 6
      BY <3>1
    <3> QED BY <2>2, <3>2 DEF Said, AllOnes, Byte
  <2> QED BY <1>7, <2>3
<1>10. ASSUME card'.sends # <<>>
       PROVE  CSMode' = "HOLD" /\ curr' \in {"TRANSMIT", "HOLD"}
  <2>1. /\ prog.why # "warm" /\ prog.pc \notin {"off", "auto", "release"}
        /\ prog.pc = "hold" => card.sends # <<>>
    BY <1>8, <1>9, <1>10
  <2>2. CSMode = "HOLD"
    BY <1>2, <2>1 DEF Selecting
  <2>3. curr \in {"TRANSMIT", "HOLD"}
    <3>1. CASE card.sends # <<>>
      BY <1>2, <3>1 DEF Selecting
    <3>2. CASE card.sends = <<>>
      <4>1. EndOfFrame(tick)
        BY <1>1, <1>2, <1>10, <3>2, CardStaysIdle DEF Selecting
      <4> QED BY <4>1 DEF EndOfFrame, Transmitting
    <3> QED BY <3>1, <3>2
  <2>4. CSMode' = "HOLD"
    BY <1>1, <1>5, <2>1, <2>2
  <2>5. to \in {"TRANSMIT", "HOLD"}
    BY <2>2, <2>3 DEF NextCurr, AfterFrame
  <2> QED BY <1>1, <2>3, <2>4, <2>5
<1>11. DOMAIN card' = CardFields /\ IsSeq(card'.out)
  BY CycleFrames
<1>12. DOMAIN card' = CardFields' /\ IsSeq(card.out)'
  BY <1>11 DEF CardFields, IsSeq
<1> QED BY <1>6, <1>10, <1>11, <1>12 DEF Selecting

\* What the loader reads is the first byte of the stream.
LEMMA ReadingCycle ==
  ASSUME Fits, BootInv, Ahead, NEW tick \in BOOLEAN, Cycle(tick), OnTime',
         prog'.pc \notin {"failed", "booted"}
  PROVE  Reading'
<1>1. /\ Controller /\ Roomy /\ Latched /\ Program(prog) /\ OnBus
      /\ IsSeq(card'.out) /\ Shifting'
      /\ Coming' = IF EndOfFrame(tick) THEN Append(Pending, IF Selected THEN Says ELSE Ones) ELSE Pending
  BY CycleFrames DEF BootInv
<1>2. /\ apb.phase \in {"idle", "setup", "access", "done"}
      /\ Phase("idle") => (Phase("idle")' \/ Phase("setup")')
      /\ Phase("setup") => Phase("access")'
      /\ Phase("access") => Phase("done")'
      /\ Phase("done") => Phase("idle")'
      /\ Dout' = ReadData
  BY CycleCounts
<1>3. /\ rx.rinc => Phase("access") \/ Phase("done")
      /\ rx'.rinc => Busy /\ prog.pc \in Takes /\ ~rx.rinc
      /\ Phase("access") /\ prog.pc \in {"take", "btake"} => rx.rinc
      /\ Phase("access") => prog' \in After(prog, Dout)
      /\ ~Phase("access") => prog' = prog
  BY LoaderFacts
<1>4. ASSUME Phase("access")', prog'.pc \in {"take", "btake"}
      PROVE  Dout' = Stream'[1]
  <2>1. Phase("setup") /\ ~Phase("access") /\ ~Phase("done") /\ Busy
    BY <1>2, <1>4 DEF Phase, Busy
  <2>2. prog.pc \in {"take", "btake"} /\ ~rx.rinc
    BY <1>3, <1>4, <2>1
  <2>3. Selects("RXDATA")
    BY <1>1, <2>1, <2>2, BusMeans DEF Takes
  <2>4. Len(rx.q) > 0
    BY <1>1, <2>2, Basics DEF Latched
  <2>5. Len(Coming) > 0 /\ Coming[1] = rx.q[1] /\ Head(rx.q) = rx.q[1] /\ IsSeq(Coming) /\ IsSeq(rx.q)
    <3>1. IsSeq(rx.q)
      BY <1>1 DEF Controller, Inv, FifoInv, Fifo, IsSeq
    <3> QED BY <1>1, <2>4, <3>1, Lying
  <2>6. rx.q # <<>>
    BY <2>4, <2>5, Lengths
  <2>7. Dout' = Coming[1]
    BY <1>2, <2>3, <2>5, <2>6 DEF ReadData, rdata
  <2>8. Pending = Coming
    BY <2>2 DEF Pending
  <2>9. IsSeq(Coming') /\ Len(Coming') > 0 /\ Coming'[1] = Coming[1]
    <3> DEFINE b == IF Selected THEN Says ELSE Ones
    <3>1. Coming' = IF EndOfFrame(tick) THEN Append(Coming, b) ELSE Coming
      BY <1>1, <2>8
    <3> HIDE DEF b
    <3>2. /\ IsSeq(Append(Coming, b)) /\ Len(Append(Coming, b)) = Len(Coming) + 1 /\ Len(Coming) \in Nat
          /\ \A x \in 1 .. Len(Coming) : Append(Coming, b)[x] = Coming[x]
      BY <2>5, Added
    <3> QED BY <2>5, <3>1, <3>2
  <2>10. Stream'[1] = Coming'[1]
    <3> DEFINE k == Coming'  u == card'.out
    <3>1. IsSeq(k) /\ IsSeq(u) /\ Len(k) > 0 /\ Stream' = k \o u
      BY <1>1, <2>9 DEF Stream
    <3> HIDE DEF k, u
    <3>2. Stream'[1] = k[1]
      BY <3>1, TailOfJoined
    <3> QED BY <3>2 DEF k
  <2> QED BY <2>7, <2>9, <2>10
<1>5. ASSUME rx'.rinc, Phase("done")', prog'.pc = "dummy"
      PROVE  prog'.why = "poll"
  <2>1. Phase("access") /\ prog.pc = "drain"
    BY <1>2, <1>3, <1>5 DEF Phase, Busy, Takes
  <2>2. prog' \in {[prog EXCEPT !.i = @ + 1], Dummy(prog, "poll")}
    BY <1>3, <2>1 DEF After
  <2>3. Dummy(prog, "poll").why = "poll" /\ [prog EXCEPT !.i = @ + 1].pc = "drain"
    BY <1>1, <2>1, DummyIs DEF Program, Fields
  <2> QED BY <1>5, <2>2, <2>3
<1> QED BY <1>1, <1>4, <1>5 DEF Reading, Shifting

\* The invariant holds at the start,
LEMMA IntactInvInit ==
  ASSUME Init
  PROVE  IntactInv
<1>1. /\ prog.pc = "off" /\ prog.why = "warm" /\ prog.cmd = 0 /\ prog.block = 1
      /\ card.out = <<>> /\ card.sends = <<>> /\ DOMAIN card = CardFields
  BY DEF Init, Silent, CardFields
<1>2. /\ tx.q = <<>> /\ ~tx.winc /\ ~tx.rinc /\ rx.q = <<>> /\ ~rx.winc /\ ~rx.rinc
      /\ RegLoaded = FALSE /\ StartD = FALSE /\ curr = "INACTIVE" /\ apb.phase = "idle"
  BY DEF Init, SpiInit, EmptyFifo, NoTransfer
<1>3. IsSeq(card.out) /\ Len(<<>>) = 0
  BY <1>1, Short
<1>4. Outgoing = <<>>
  BY <1>2 DEF Outgoing, Sent, Line, Bit, Loaded, Transmitting
<1>5. Stream = <<>>
  <2>1. Stream = <<>> \o <<>>
    BY <1>1, <1>2 DEF Stream, Coming
  <2> QED BY <2>1, Short, JoinedEmpty
<1>6. Over(prog, Outgoing, Stream, card, Owed)
  BY <1>1, <1>3, <1>4, <1>5 DEF Over, Heard, AllOnes, Mute, Quiet, Junk
<1>7. Contents(prog, Outgoing, Stream, card, Owed, rx.rinc, Len(buf))
  BY <1>1, <1>6 DEF Contents
<1>8. Ordering(prog)
  BY <1>1 DEF Ordering
<1>9. Selecting
  BY <1>1, <1>3 DEF Selecting
<1>10. Reading
  BY <1>1, <1>2 DEF Reading, Unpopped, Phase
<1> QED BY <1>7, <1>8, <1>9, <1>10 DEF IntactInv, Ahead

\* and every step keeps it.
LEMMA IntactInvNext ==
  ASSUME Fits, BootInv, IntactInv, [Next]_vars, OnTime'
  PROVE  IntactInv'
<1>1. CASE UNCHANGED vars
  <2>1. /\ UNCHANGED <<tx, rx, apb, Dout, CSMode, TransmitData, TransmitReg, RegLoaded, ReceiveReg, StartD, curr>>
        /\ UNCHANGED <<prog, buf, card>>
    BY <1>1 DEF vars, spiVars
  <2>2. Outgoing' = Outgoing /\ Stream' = Stream /\ Owed' = Owed /\ (Unpopped' <=> Unpopped)
    BY <2>1 DEF Outgoing, Sent, Stream, Coming, Owed, Unsent, Unread, Queued, Line, Bit, Loaded, Transmitting, Unpopped
  <2>3. Halted' <=> Halted
    BY <2>1 DEF Halted
  <2>4. Selecting => Selecting'
    BY <2>1 DEF Selecting, CardFields, IsSeq
  <2>5. Reading => Reading'
    BY <2>1, <2>2 DEF Reading, Phase
  <2>6. /\ Contents(prog, Outgoing, Stream, card, Owed, rx.rinc, Len(buf)) =>
             Contents(prog', Outgoing', Stream', card', Owed', rx'.rinc, Len(buf'))
        /\ Ordering(prog) => Ordering(prog')
    BY <2>1, <2>2
  <2> QED BY <2>3, <2>4, <2>5, <2>6 DEF IntactInv, Ahead
<1>2. CASE Next
  <2>1. PICK tick \in BOOLEAN : Cycle(tick)
    BY <1>2 DEF Next
  <2> SUFFICES ASSUME ~Halted'
               PROVE  /\ Contents(prog, Outgoing, Stream, card, Owed, rx.rinc, Len(buf))'
                      /\ Ordering(prog)' /\ Selecting' /\ Reading'
    BY DEF IntactInv, Ahead
  <2>2. ~Halted /\ prog'.pc \notin {"failed", "booted"}
    BY <2>1, CycleGoes DEF Halted
  <2>3. Ahead
    BY <2>2 DEF IntactInv
  <2>4. /\ Contents(prog', Outgoing', Stream', card', Owed', rx'.rinc, Len(buf'))
        /\ Ordering(prog')
    BY <2>1, <2>2, <2>3, ContentsCycle
  <2>5. Selecting' /\ Reading'
    BY <2>1, <2>2, <2>3, SelectingCycle, ReadingCycle
  <2> QED BY <2>4, <2>5
<1> QED BY <1>1, <1>2

\* Every block the loader accepts is the one it asked for (Intact), as long as
\* it is on time: what runs ahead of it are whole blocks in a row, and the bytes
\* left over from a command or a block are none that it could take for a token.
THEOREM BlocksAreIntact ==
  ASSUME Fits
  PROVE  Spec /\ []OnTime => Intact
<1>1. Init => BootInv /\ IntactInv
  BY BootInvInit, IntactInvInit
<1>2. BootInv /\ IntactInv /\ OnTime' /\ [Next]_vars => BootInv' /\ IntactInv'
  BY BootInvNext, IntactInvNext
<1>3. BootInv /\ IntactInv /\ OnTime' /\ [Next]_vars => [Accepts => buf = Data(prog.job, prog.block)]_vars
  <2> SUFFICES ASSUME BootInv, IntactInv, OnTime', Next, Accepts
               PROVE  buf = Data(prog.job, prog.block)
    OBVIOUS
  <2>1. PICK tick \in BOOLEAN : Cycle(tick)
    BY DEF Next
  <2>2. /\ prog.pc = "take" /\ prog.why = "crc" /\ prog.i = 1
        /\ prog'.pc \notin {"take", "failed"}
    BY DEF Accepts
  <2>3. Phase("access") /\ prog' \in After(prog, Dout)
    BY <2>1, <2>2, CycleCounts
  <2>4. prog' = Checked(prog, Dout)
    BY <2>2, <2>3 DEF After, Taken
  <2>5. CRCMatches(<<prog.r, Dout>>)
    <3>1. Fail(prog).pc = "failed"
      BY DEF BootInv, Program, Fail, Fields
    <3> QED BY <2>2, <2>4, <3>1 DEF Checked
  <2>6. prog.r = <<"crc", prog.job, prog.block, 1>>
    <3>1. Contents(prog, Outgoing, Stream, card, Owed, rx.rinc, Len(buf))
      BY <2>2 DEF IntactInv, Ahead, Halted
    <3> QED BY <2>2, <3>1 DEF Contents
  <2>7. PICK k \in DOMAIN Counts : \E n \in 1 .. Counts[k] + 1 :
          buf = Data(k, n) /\ <<prog.r, Dout>> = CRC(k, n)
    BY <2>5 DEF CRCMatches
  <2>8. PICK n \in 1 .. Counts[k] + 1 : buf = Data(k, n) /\ <<prog.r, Dout>> = CRC(k, n)
    BY <2>7
  <2>9. prog.r = <<"crc", k, n, 1>>
    BY <2>8 DEF CRC
  <2>10. k = prog.job /\ n = prog.block
    BY <2>6, <2>9
  <2> QED BY <2>8, <2>10
<1> QED BY <1>1, <1>2, <1>3, PTL DEF Spec, Intact
=============================================================================
