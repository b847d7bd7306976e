-------------------------------- MODULE Boot --------------------------------
(***************************************************************************)
(* The first-stage boot loader (fpga/zsbl): it brings an SD card up through*)
(* the SPI controller (sd.c, spi.c), reads the partition table and copies  *)
(* the partitions to memory, block by block (gpt.c, boot.c).  The card is  *)
(* what the loader talks to and answers as the loader expects, or with an  *)
(* error.                                                                  *)
(*                                                                         *)
(* The loader makes one access of the controller after the other, with any *)
(* number of cycles in between, but those of the bus at least; the serial  *)
(* clock does not wait for it.  A byte is a tuple that says what it is.    *)
(***************************************************************************)
EXTENDS Spi

CONSTANTS Counts,      \* blocks of each disk_read
          BlockBytes,  \* bytes in a block
          Warm,        \* bytes that wake the card up
          MaxTries,    \* commands before init_sd gives up
          MaxGap,      \* idle bytes before the card answers
          Most         \* accesses there is time for between two ticks of the divider

ASSUME BootAssumption ==
  /\ Counts \in Seq(Nat \ {0}) /\ Counts # <<>>
  /\ BlockBytes \in Nat \ {0} /\ BlockBytes % Depth = 0
  /\ {Warm, MaxTries} \subseteq Nat \ {0} /\ MaxGap \in Nat \ {0}
  /\ Most \in Nat \ {0}

VARIABLES
  prog,     \* where the loader is, and its variables
  buf,      \* what it has stored of the block it reads
  card,     \* command bytes the card has heard, what it is to say, the block it sends
  behind,   \* frames that have ended in a batch of which nothing was read, if not too many
  made      \* accesses since the last tick

vars == <<spiVars, prog, buf, card, behind, made>>

Ones == <<"ff">>
Token == <<"fe">>
R1(s) == <<"r1", s>>
Data(job, block) == [j \in 1 .. BlockBytes |-> <<"data", job, block, j>>]
CRC(job, block) == <<<<"crc", job, block, 1>>, <<"crc", job, block, 2>>>>
-----------------------------------------------------------------------------
(***************************************************************************)
(* The card.                                                               *)
(***************************************************************************)
Silent == [heard |-> Ones, out |-> <<>>, sends |-> <<>>]
Gaps(least) == {[i \in 1 .. n |-> Ones] : n \in least .. MaxGap}

\* The next block of a read, after an idle byte, and it may have been damaged.
Blocks(job, block) ==
  {gap \o <<Token>> \o data \o CRC(job, block) :
     gap \in Gaps(1), data \in {Data(job, block), [Data(job, block) EXCEPT ![BlockBytes][4] = 0]}}

Answers(c) ==
  CASE c = 0  -> {<<R1("idle")>>, <<R1("error")>>}
    [] c = 8  -> {<<R1("idle")>> \o [k \in 1 .. 4 |-> <<"r7", k>>], <<R1("error")>>}
    [] c = 55 -> {<<R1("idle")>>, <<R1("error")>>}
    [] c = 41 -> {<<R1("idle")>>, <<R1("ready")>>, <<R1("error")>>}
    [] c = 18 -> {<<R1("ready")>>, <<R1("error")>>}
    [] c = 12 -> {<<R1("ready")>>, <<R1("ready"), <<"busy">>>>}

\* A command is six bytes in a row.  Behind the one that stops a read comes a
\* byte of no meaning.
Hears(b) == b[1] = "cmd" /\ (b[4] = 1 \/ card.heard = [b EXCEPT ![4] = @ - 1])
Stuff(c) == IF c = 12 THEN <<<<"any">>>> ELSE <<>>

Says == IF card.out = <<>> THEN Ones ELSE Head(card.out)
Rest == IF card.out = <<>> THEN <<>> ELSE Tail(card.out)
CardHears(b) ==
  IF Hears(b) /\ b[4] = 6
    THEN {[heard |-> Ones, out |-> Stuff(b[2]) \o gap \o a,
           sends |-> IF a = <<R1("ready")>> /\ b[2] = 18 THEN <<b[3], 1>> ELSE <<>>] :
            gap \in Gaps(0), a \in Answers(b[2])}
  ELSE LET heard == IF Hears(b) THEN b ELSE Ones IN
       IF Rest = <<>> /\ card.sends # <<>>
         THEN {[heard |-> heard, out |-> o, sends |-> [card.sends EXCEPT ![2] = @ + 1]] :
                 o \in Blocks(card.sends[1], card.sends[2])}
         ELSE {[card EXCEPT !.heard = heard, !.out = Rest]}

Card(tick) ==
  card' \in IF ~Selected THEN {Silent}
            ELSE IF EndOfFrame(tick) THEN CardHears(TransmitReg) ELSE {card}
-----------------------------------------------------------------------------
(***************************************************************************)
(* The loader.  pc is the access it makes next; why is what the byte of a  *)
(* spi_txrx is for.                                                        *)
(***************************************************************************)
Dummy(p, why) == [p EXCEPT !.pc = "dummy", !.why = why]
Command(p, c) == [p EXCEPT !.pc = IF c = 12 THEN "dummy" ELSE "hold", !.why = "lead",
                            !.cmd = c, !.i = 1]
Fail(p) == [p EXCEPT !.pc = "failed"]
DiskRead(p, k) == Command([p EXCEPT !.tries = 0, !.job = k, !.block = 1], 18)

Polls == {"waittx", "waitrx", "bwait"}
Batch == {"bsend", "bwait", "btake"}
Halted == prog.pc \in {"failed", "booted"}

SPI(p) ==
  CASE p.pc = "off"              -> Write("CSMODE", "OFF")
    [] p.pc \in {"auto", "release"} -> Write("CSMODE", "AUTO")
    [] p.pc = "hold"             -> Write("CSMODE", "HOLD")
    [] p.pc \in {"dummy", "bsend"} -> Write("TXDATA", Ones)
    [] p.pc = "send"             ->
         Write("TXDATA", <<"cmd", p.cmd, IF p.cmd = 18 THEN p.job ELSE 0, p.i>>)
    [] p.pc \in Polls            -> Read("IP")
    [] p.pc \in {"drain", "take", "btake"} -> Read("RXDATA")

\* rbyte & 0x80, and r != SD_DATA_TOKEN, of bytes that may be anything.
Anything(b) == b[1] \in {"data", "crc", "any", "stale"}
Bit7(b) == IF Anything(b) THEN BOOLEAN ELSE {b \in {Ones, Token}}
IsToken(b) == IF Anything(b) THEN BOOLEAN ELSE {b = Token}

\* sd_cmd has its response: one byte, five for command 8, two for command 12.
Length(c) == IF c = 8 THEN 5 ELSE IF c = 12 THEN 2 ELSE 1
Responded(p) ==
  IF p.i < Length(p.cmd) THEN Dummy(p, "rest")
  ELSE IF p.cmd # 18 THEN [p EXCEPT !.pc = "release"] ELSE Dummy(p, "tail")

\* sd_cmd has returned to init_sd or disk_read.
Returned(p) ==
  LET tried == [p EXCEPT !.tries = @ + 1] IN
  CASE p.cmd = 0  -> IF tried.tries = MaxTries THEN Fail(p)
                     ELSE IF p.r = R1("idle") THEN Command(p, 8) ELSE Command(tried, 0)
    [] p.cmd = 8  -> IF p.r = R1("idle") /\ p.ok THEN Command([p EXCEPT !.tries = 0], 55)
                     ELSE Fail(p)
    [] p.cmd = 55 -> Command(p, 41)
    [] p.cmd = 41 -> IF tried.tries = MaxTries THEN Fail(p)
                     ELSE IF p.r = R1("idle") THEN Command(tried, 55) ELSE DiskRead(p, 1)
    [] p.cmd = 12 -> IF p.job < Len(Counts) THEN DiskRead(p, p.job + 1)
                     ELSE [p EXCEPT !.pc = "booted"]

ChecksNothing(expected) == TRUE                           \* mutant of CRCMatches
\* The checksum tells blocks apart, and a block from a damaged one.
CRCMatches(expected) ==
  \E k \in DOMAIN Counts : \E n \in 1 .. Counts[k] + 1 : buf = Data(k, n) /\ expected = CRC(k, n)

Checked(p, b) ==
  IF ~CRCMatches(<<p.r, b>>) THEN Fail(p)
  ELSE IF p.block < Counts[p.job] THEN Dummy([p EXCEPT !.block = @ + 1], "token")
  ELSE Command(p, 12)

\* What is done with the byte a spi_txrx returns.
Taken(p, b) ==
  CASE p.why = "warm" -> {IF p.i + 1 < Warm THEN Dummy([p EXCEPT !.i = @ + 1], "warm")
                          ELSE [p EXCEPT !.pc = "auto"]}
    [] p.why = "lead" -> {[p EXCEPT !.pc = "send"]}
    [] p.why = "poll" -> {IF high THEN Dummy(p, "poll")
                          ELSE Responded([p EXCEPT !.r = b, !.i = 1, !.ok = TRUE]) : high \in Bit7(b)}
    [] p.why = "rest" -> {Responded([p EXCEPT !.i = @ + 1, !.ok = @ /\ b = <<"r7", p.i>>])}
    [] p.why = "tail" -> {IF p.r = R1("ready") THEN Dummy(p, "token") ELSE Fail(p)}
    [] p.why = "token" -> {IF token THEN [p EXCEPT !.pc = "bsend", !.i = 0] ELSE Dummy(p, "token") :
                             token \in IsToken(b)}
    [] p.why = "crc"  -> {IF p.i = 0 THEN Dummy([p EXCEPT !.i = 1, !.r = b], "crc") ELSE Checked(p, b)}

\* What sd_cmd reads and throws away when the transmit FIFO has run empty: seven
\* bytes, although only six were sent behind the one it has read and the last
\* of them is still on the line.
DrainsArrived == 5                                        \* mutant of Drained
Drained == 7

\* The loader after an access that returned d.
After(p, d) ==
  CASE p.pc = "off"    -> {Dummy(p, "warm")}
    [] p.pc = "auto"   -> {Command(p, 0)}
    [] p.pc = "hold"   -> {Dummy(p, "lead")}
    [] p.pc = "send"   -> {IF p.i < 6 THEN [p EXCEPT !.i = @ + 1] ELSE [p EXCEPT !.pc = "waittx", !.i = 0]}
    [] p.pc = "waittx" -> {IF d[2] THEN [p EXCEPT !.pc = "drain"] ELSE p}
    [] p.pc = "drain"  -> {IF p.i + 1 < Drained THEN [p EXCEPT !.i = @ + 1] ELSE Dummy(p, "poll")}
    [] p.pc = "dummy"  -> {[p EXCEPT !.pc = "waitrx"]}
    [] p.pc = "waitrx" -> {IF d[3] THEN [p EXCEPT !.pc = "take"] ELSE p}
    [] p.pc = "take"   -> Taken(p, d)
    [] p.pc = "bsend"  -> {IF p.i + 1 < Depth THEN [p EXCEPT !.i = @ + 1]
                           ELSE [p EXCEPT !.pc = "bwait", !.i = 0]}
    [] p.pc = "bwait"  -> {IF d[3] THEN [p EXCEPT !.pc = "btake"] ELSE p}
    [] p.pc = "btake"  -> {IF Len(buf) + 1 = BlockBytes THEN Dummy([p EXCEPT !.i = 0], "crc")
                           ELSE IF p.i + 1 = Depth THEN [p EXCEPT !.pc = "bsend", !.i = 0]
                           ELSE [p EXCEPT !.pc = "bwait", !.i = @ + 1]}
    [] p.pc = "release" -> {Returned(p)}

Loader ==
  /\ \/ apb.phase = "idle" /\ ~Halted /\ made < Most /\ apb' = SPI(prog)
     \/ apb.phase \in {"idle", "done"} /\ apb' = NoTransfer
     \/ apb.phase = "setup" /\ apb' = [apb EXCEPT !.phase = "access"]
     \/ apb.phase = "access" /\ apb' = Ended
  /\ IF apb.phase = "access" THEN prog' \in After(prog, Dout) ELSE prog' = prog
  /\ buf' = IF prog.pc \notin Batch /\ prog.why = "token" THEN <<>>
            ELSE IF prog.pc = "btake" /\ apb.phase = "access" THEN Append(buf, Dout) ELSE buf

\* The loader has written bytes of a batch and read none.
Unserved(p) ==
  \/ p.pc = "bsend" /\ p.i > 0
  \/ p.pc \in {"bwait", "btake"} /\ p.i = 0

\* Frames go on ending meanwhile.  Once as many have as the FIFO has entries, the
\* loader has come too late, and that is not forgotten.
Lags(tick) ==
  behind' = IF behind = Depth THEN Depth
            ELSE IF ~Unserved(prog) THEN 0
            ELSE IF EndOfFrame(tick) THEN behind + 1 ELSE behind
OnTime == behind < Depth

\* The divider does not wait for the loader either: while it makes Most accesses,
\* of four cycles or more, half a period has gone, even one that a start has begun
\* anew.  It matters, and is counted, only where blocks are read.
Divides(tick) ==
  made' = IF tick \/ prog.why # "token" THEN 0
          ELSE IF apb.phase = "access" THEN made + 1 ELSE made
-----------------------------------------------------------------------------
Init ==
  /\ SpiInit
  /\ prog = [pc |-> "off", why |-> "warm", cmd |-> 0, i |-> 0, tries |-> 0,
             r |-> Stale, ok |-> TRUE, job |-> 1, block |-> 1]
  /\ buf = <<>> /\ card = Silent /\ behind = 0 /\ made = 0

Cycle(tick) ==
  \E to \in NextCurr(tick) :
    /\ SpiCycle(tick, IF Selected THEN Says ELSE Ones, to)
    /\ Card(tick)
    /\ Loader
    /\ Lags(tick)
    /\ Divides(tick)

Next == \E tick \in BOOLEAN : Cycle(tick)
Spec == Init /\ [][Next]_vars

\* The serial clock runs, delays end, and the loader goes on.
FairSpec ==
  /\ Spec
  /\ WF_vars(Cycle(TRUE) /\ (curr \in {"CSSCK", "SCKCS", "INTERCS"} => curr' # curr))
  /\ WF_apb(Loader)
-----------------------------------------------------------------------------
(***************************************************************************)
(* Properties.                                                             *)
(***************************************************************************)
\* No byte that matters is dropped, although the loader leaves the answer of its
\* last byte behind after every command (sd.c:118-140, boot.c:138-153), unless it
\* has come too late: none is written to a full transmit FIFO but the last idle
\* byte of a batch, for which the one left behind stands in, and no frame ends
\* with the receive FIFO full.
NothingDropped ==
  [][OnTime' => /\ Memwrite("TXDATA") /\ tx.full => prog.pc = "bsend" /\ prog.i = Depth - 1
                /\ ~(rx'.winc /\ rx'.full)]_vars

\* Every block the loader accepts is the one it asked for, from the first byte
\* to the last, however the bytes it has not read run ahead of it
\* (boot.c:128-188).
Accepts == /\ prog.pc = "take" /\ prog.why = "crc" /\ prog.i = 1
           /\ prog'.pc \notin {"take", "failed"}
Intact == [][Accepts => buf = Data(prog.job, prog.block)]_vars

\* The loader boots, or reports that it cannot (sd.c:188-254, gpt.c:37-89).
Boots == <>Halted
=============================================================================
