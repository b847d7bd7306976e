------------------------------ MODULE Pipeline ------------------------------
(***************************************************************************)
(* The pipeline as a whole: fetch with the spill state machine (ifu/ifu.sv,*)
(* spill.sv), the stall and flush network (hazard/hazard.sv), traps        *)
(* (privileged/trap.sv), the memory stage (lsu/lsu.sv) with its cache or   *)
(* bus access, and the page-table walker (mmu/hptw.sv) that borrows that   *)
(* access for either side.                                                 *)
(*                                                                         *)
(* A step is a clock cycle.  An instruction is its position in the program *)
(* and a kind; positions are counted from the instruction that is to retire*)
(* next, so every retirement moves all of them.  A kind is chosen in the   *)
(* stage that first depends on it.                                         *)
(***************************************************************************)
EXTENDS Integers

CONSTANTS Kinds,        \* what an instruction can be in the memory stage
          Classes,      \* what it can be in the execute stage
          Coincidences  \* rare events that are not kept apart

ASSUME PipelineAssumption ==
  /\ Kinds \subseteq {"alu", "mem", "io", "memFault", "bad", "fence", "ret", "wfi"}
  /\ Classes \subseteq {"other", "jump", "div"}
  /\ Coincidences \subseteq {"WalkFault", "SplitMiss", "LateFault", "WfiTwice", "DivideRestart"}

VARIABLES
  F,         \* fetch: position, and what its address meets in ITLB and cache
  ifu,       \* state of the instruction cache, or of the bus behind it
  spill,     \* CurrState of spill.sv
  half,      \* position whose first half is in InstrFirstHalfF
  D, E, M,   \* the instruction in each stage
  BPWrongM, wfiW,
  div,       \* state of the divider
  lsu,       \* state of the data cache, or of the bus behind it
  way,       \* the access under way hits the data cache
  dmiss,     \* the operation in the memory stage misses the DTLB
  done,      \* times the operation in the memory stage was performed
  walker, DTLBWalk,
  irq        \* "none" pending, one "masked" in mstatus, or one "enabled"

front == <<F, ifu, spill, half>>
back  == <<lsu, way, dmiss, done, walker, DTLBWalk>>
vars  == <<front, D, E, M, BPWrongM, wfiW, div, back, irq>>

Nowhere == 99
Bubble  == [at |-> Nowhere, kind |-> "nop"]
Length(i)  == IF i.kind = "jump" THEN 2 ELSE 1
Correct(i) == i.at + Length(i)            \* PCCorrectE

Counted == {"mem", "io", "memFault"}      \* operations that must happen once
UsesLSU == Counted \cup {"fence"}         \* fence.i flushes the data cache
-----------------------------------------------------------------------------
(***************************************************************************)
(* Requests and stalls.                                                    *)
(***************************************************************************)
DTLBMiss == M.kind \in Counted /\ dmiss
TLBMiss  == DTLBMiss \/ F.miss
SelHPTW  == walker # "IDLE"
ITLBWriteF == walker = "LEAF" /\ ~DTLBWalk
StallsInFault == SelHPTW \/ TLBMiss                             \* mutant of HPTWStall
HPTWStall == \/ SelHPTW /\ walker # "FAULT"
             \/ ~SelHPTW /\ TLBMiss
Reading  == walker \in {"L1_RD", "L0_RD"}

\* Idle stands for ACCESS and ADR_PHASE, busy for FETCH, WRITEBACK, FLUSH and
\* DATA_PHASE, write for WRITE_LINE, hold for ADDRESS_SETUP and MEM3.
LSUAsks == IF SelHPTW THEN Reading ELSE M.kind \in UsesLSU
DCacheBusStallM == \/ lsu \in {"busy", "write"}
                   \/ lsu = "idle" /\ LSUAsks /\ ~way
LSUStallM  == DCacheBusStallM \/ HPTWStall
CommittedM == SelHPTW \/ lsu # "idle"

IFUCacheBusStallF == \/ ifu \in {"busy", "write"}
                     \/ ifu = "idle" /\ ~F.miss /\ F.from # "hit"
TakeSpillF    == spill = "READY" /\ F.spills /\ ~IFUCacheBusStallF /\ ~F.miss
SelSpillNextF == TakeSpillF \/ (spill = "SPILL" /\ IFUCacheBusStallF)
IFUStallF     == IFUCacheBusStallF \/ SelSpillNextF
CommittedF    == ifu \in {"busy", "write"}
-----------------------------------------------------------------------------
(***************************************************************************)
(* Traps.                                                                  *)
(***************************************************************************)
wfiM       == M.kind = "wfi"
ExceptionM == \/ M.kind = "bad"
              \/ M.kind = "memFault" /\ ~SelHPTW /\ ~dmiss
              \/ walker = "FAULT" /\ DTLBWalk
EagerInterrupt == irq = "enabled" /\ ~CommittedF /\ M.kind # "nop" /\ (~wfiM \/ wfiW)  \* mutant of InterruptM
InterruptM == /\ irq = "enabled" /\ ~CommittedM /\ ~CommittedF
              /\ M.kind # "nop" /\ (~wfiM \/ wfiW)
TrapM      == (ExceptionM /\ ~CommittedF) \/ InterruptM
RetM       == M.kind = "ret"
CSRWriteFenceM == M.kind = "fence"
BPWrongE   == E.kind # "nop" /\ D.kind # "nop" /\ Correct(E) # D.at

WFIStallM       == wfiM /\ irq = "none"
WFIInterruptedM == wfiM /\ irq # "none"
-----------------------------------------------------------------------------
(***************************************************************************)
(* The stall and flush network.  StallDCause is a dependence on the        *)
(* instruction in the execute stage; h stands for the stalls and flushes of*)
(* a cycle.                                                                *)
(***************************************************************************)
FlushMCause == TrapM \/ RetM \/ CSRWriteFenceM
FlushDCause == FlushMCause \/ BPWrongE
FlushWCause == TrapM /\ ~WFIInterruptedM

StallsFetchOnly == LSUStallM /\ ~FlushWCause                    \* mutant of StallW
StallW == (IFUStallF /\ ~FlushDCause) \/ (LSUStallM /\ ~FlushWCause)
StallM == StallW \/ (WFIStallM /\ ~FlushMCause)
DivBusyE == E.kind = "div" /\ (div = "BUSY" \/ (div = "IDLE" /\ ~StallM))
FlushECause == FlushMCause \/ (BPWrongE /\ ~DivBusyE)
StallE == StallM \/ (DivBusyE /\ ~FlushECause)
FlushW == FlushWCause \/ (StallM /\ ~StallW)

Hazard(StallDCause) ==
  LET StallD == StallE \/ (StallDCause /\ ~FlushDCause)
  IN  [StallD |-> StallD, StallE |-> StallE, StallM |-> StallM, StallW |-> StallW,
       FlushD |-> FlushDCause,
       FlushE |-> FlushECause \/ (StallD /\ ~StallE),
       FlushM |-> FlushMCause \/ (StallE /\ ~StallM),
       FlushW |-> FlushW]

\* The instruction in the memory stage leaves it for good.
Retires == M.kind # "nop" /\ ~StallW /\ ~FlushW

\* How far the program moves on.  A trap starts another one; what lies behind
\* is nowhere.
Moved == IF Retires /\ ~TrapM THEN Length(M) ELSE 0
After(at) ==
  IF at = Nowhere \/ at < Moved \/ (TrapM /\ ~StallW) THEN Nowhere ELSE at - Moved
-----------------------------------------------------------------------------
(***************************************************************************)
(* Fetch.                                                                  *)
(***************************************************************************)
AlwaysPCE == E.at                                          \* mutant of NextValidPCE
NextValidPCE == IF BPWrongM THEN F.at ELSE E.at

\* Where fetch may go next; a prediction is one of two.  A trap goes to the
\* first instruction of its handler, a return to where the program was left.
PCNextF ==
  IF TrapM THEN {0}
  ELSE IF RetM THEN {Correct(M) - Moved}
  ELSE IF CSRWriteFenceM THEN {NextValidPCE - Moved}
  ELSE IF BPWrongE THEN {Correct(E) - Moved}
  ELSE {F.at + 1 - Moved, F.at + 2 - Moved}

\* Where the instruction comes from matters once it is translated.
Sources == {"hit", "miss", "bus"}
Addresses(ats, spills) ==
  [at : ats, spills : spills, miss : {FALSE}, from : Sources] \cup
  [at : ats, spills : spills, miss : {TRUE}, from : {"hit"}]

\* The address fetch has in the next cycle.  A spill adds the second half, a
\* flush goes back to the first.
NextF(h) ==
  IF ~h.StallD THEN Addresses(PCNextF, BOOLEAN)
  ELSE IF TakeSpillF /\ ~h.FlushD THEN Addresses({After(F.at)}, {TRUE})
  ELSE IF ITLBWriteF \/ (spill = "SPILL" /\ h.FlushD)
    THEN {[F EXCEPT !.at = After(@), !.miss = FALSE, !.from = s] : s \in Sources}
  ELSE {[F EXCEPT !.at = After(@)]}

GatedStallD(h) == h.StallD /\ ~SelSpillNextF

NextIfu(h) ==
  CASE h.FlushD -> {"idle"}
    [] ~h.FlushD /\ ifu = "idle" ->
         IF F.miss \/ F.from = "hit" THEN {"idle"}
         ELSE IF F.from = "miss" THEN {"busy"} ELSE {"idle", "busy"}
    [] ~h.FlushD /\ ifu = "busy" ->
         {"busy", IF F.from = "miss" THEN "write" ELSE "hold"}
    [] ~h.FlushD /\ ifu = "write" -> {"hold"}
    [] OTHER -> {IF GatedStallD(h) THEN "hold" ELSE "idle"}

KeepsSpill(h) ==                                           \* mutant of NextSpill
  IF TrapM \/ (spill = "SPILL" /\ ~h.StallD) THEN "READY"
  ELSE IF TakeSpillF THEN "SPILL" ELSE spill
NextSpill(h) ==
  IF h.FlushD THEN "READY"
  ELSE IF TakeSpillF THEN "SPILL"
  ELSE IF spill = "SPILL" /\ ~h.StallD THEN "READY" ELSE spill

Fetch(h) ==
  /\ F' \in NextF(h)
  /\ ifu' \in NextIfu(h)
  /\ spill' = NextSpill(h)
  /\ half' = IF spill' = "READY" THEN Nowhere ELSE After(IF TakeSpillF THEN F.at ELSE half)

\* An ITLB walk that faults marks the instruction it was for.
Fetched == [at |-> F.at, kind |-> IF walker = "FAULT" /\ ~DTLBWalk THEN "bad" ELSE "good"]
-----------------------------------------------------------------------------
(***************************************************************************)
(* The stages.  A flush overrides the enable of the instruction register of*)
(* the decode stage and of no other register.                              *)
(***************************************************************************)
Becomes(i, good) ==
  IF i.kind = "good" THEN {[i EXCEPT !.kind = k] : k \in good} ELSE {i}
InMemory(i) ==
  IF i.kind = "other" THEN {[i EXCEPT !.kind = k] : k \in Kinds}
  ELSE IF i.kind = "div" THEN {[i EXCEPT !.kind = "alu"]}
  ELSE IF i.kind = "nop" THEN {Bubble} ELSE {i}
Move(i) == [i EXCEPT !.at = After(@)]

NextD(h) ==
  IF h.FlushD /\ ~h.StallD THEN Bubble
  ELSE IF h.FlushD THEN IF D.kind = "nop" THEN D ELSE [D EXCEPT !.kind = "void"]
  ELSE IF h.StallD THEN D ELSE Fetched
NeverCleared(h) == IF h.StallE THEN {E} ELSE IF h.FlushE THEN {D} ELSE Becomes(D, Classes)  \* mutant of NextE
NextE(h) ==
  IF h.StallE THEN {E}
  ELSE IF h.FlushE THEN {[D EXCEPT !.kind = "nop"]}
  ELSE Becomes(D, Classes)
NextM(h) ==
  IF h.StallM THEN {M}
  ELSE IF h.FlushM THEN {Bubble} ELSE InMemory(E)

NextDiv(h) ==
  CASE h.FlushE -> {"IDLE"}
    [] ~h.FlushE /\ div = "IDLE" -> IF DivBusyE THEN {"BUSY", "DONE"} ELSE {"IDLE"}
    [] ~h.FlushE /\ div = "BUSY" -> {"BUSY", "DONE"}
    [] OTHER -> {IF h.StallM THEN "DONE" ELSE "IDLE"}

Stages(h) ==
  /\ D' = Move(NextD(h))
  /\ \E i \in NextE(h) : E' = Move(i)
  /\ \E i \in NextM(h) : M' = Move(i)
  /\ BPWrongM' = IF h.StallM THEN BPWrongM ELSE ~h.FlushM /\ BPWrongE
  /\ wfiW' = IF h.StallW THEN wfiW ELSE ~h.FlushW /\ wfiM
  /\ div' \in NextDiv(h)
-----------------------------------------------------------------------------
(***************************************************************************)
(* The memory stage and the walker, which is that of Sv32: two levels.  A  *)
(* walk that sets an accessed bit makes one more access of the same form   *)
(* and is left to Mmu.                                                     *)
(***************************************************************************)
\* HPTWFaultM: protection denies the first cycle of a read, or an entry has
\* reserved bits.
MayFault == (Reading /\ lsu = "idle") \/ walker = "L0_ADR"

NextWalker(h, fault) ==
  IF h.FlushW THEN {"IDLE"}
  ELSE IF fault THEN {"FAULT"}
  ELSE CASE walker = "IDLE"   -> {IF TLBMiss THEN "L1_ADR" ELSE "IDLE"}
         [] walker = "L1_ADR" -> {"L1_RD"}
         [] walker = "L1_RD"  -> {IF DCacheBusStallM THEN "L1_RD" ELSE "L0_ADR"}
         [] walker = "L0_ADR" -> {"L0_RD", "LEAF"}
         [] walker = "L0_RD"  -> {IF DCacheBusStallM THEN "L0_RD" ELSE "LEAF"}
         [] OTHER             -> {"IDLE"}

HPTWFlushW(fault) == (~SelHPTW /\ TLBMiss) \/ fault
LSUFlushW(h, fault) == HPTWFlushW(fault) \/ h.FlushW
GatedStallW(h) == h.StallW /\ ~SelHPTW

IO == ~SelHPTW /\ M.kind = "io"
NextLsu(h, fault) ==
  CASE LSUFlushW(h, fault) -> {"idle"}
    [] ~LSUFlushW(h, fault) /\ lsu = "idle" ->
         IF ~LSUAsks \/ way THEN {"idle"} ELSE {"busy"} \cup (IF IO THEN {"idle"} ELSE {})
    [] ~LSUFlushW(h, fault) /\ lsu = "busy" ->
         {"busy", IF IO \/ CSRWriteFenceM THEN "hold" ELSE "write"}
    [] ~LSUFlushW(h, fault) /\ lsu = "write" -> {"hold"}
    [] OTHER -> {IF GatedStallW(h) THEN "hold" ELSE "idle"}

\* A hit is written in the cycle in which the instruction leaves, a missing
\* line when it is filled.  On the bus, the address phase is the point of no
\* return.
Performed(h, fault) ==
  /\ ~SelHPTW /\ M.kind \in Counted /\ ~LSUFlushW(h, fault)
  /\ IF IO THEN lsu = "idle" /\ lsu' = "busy"
     ELSE lsu = "write" \/ (lsu = "idle" /\ way /\ ~h.StallW)

\* A lookup is new when an operation arrives, when the walker moves to a read
\* and when it gives the cache back.
NewLookup(h) == ~h.StallM \/ walker' # walker
Ways == IF walker' \in {"L1_RD", "L0_RD"} \/ (~dmiss' /\ M'.kind \in {"mem", "memFault", "fence"})
        THEN BOOLEAN ELSE {M'.kind # "io"}

Memory(h, fault) ==
  /\ walker' \in NextWalker(h, fault)
  /\ DTLBWalk' = (walker' # "IDLE" /\ IF walker = "IDLE" THEN DTLBMiss ELSE DTLBWalk)
  /\ lsu' \in NextLsu(h, fault)
  /\ IF ~h.StallM THEN dmiss' \in IF M'.kind \in Counted THEN BOOLEAN ELSE {FALSE}
     ELSE dmiss' = (dmiss /\ ~(walker = "LEAF" /\ DTLBWalk))
  /\ IF NewLookup(h) THEN way' \in Ways ELSE way' = way
  /\ done' = IF ~h.StallM THEN 0
             ELSE IF Performed(h, fault) /\ done < 2 THEN done + 1 ELSE done
-----------------------------------------------------------------------------
\* What the quiet runs keep apart.
\* A walk for fetch fails while a memory operation waits for it.
WalkFault(fault) == fault /\ ~DTLBWalk /\ M.kind \in Counted
\* The second half of an instruction misses the ITLB while a memory operation
\* is under way.
SplitMiss == TakeSpillF /\ F'.miss /\ lsu' # "idle"
\* A walk may find that the operation is not permitted while a fetch is under
\* way.
LateFault(h) == ~h.StallM /\ M'.kind = "memFault" /\ dmiss' /\ (F'.spills \/ F'.from # "hit")
\* One WFI follows another directly.
WfiTwice  == wfiW' /\ M'.kind = "wfi"

\* A divide was predicted to be a taken branch, and fetch misses the ITLB there.
DivideRestart == E'.kind = "div" /\ D'.kind # "nop" /\ Correct(E') # D'.at /\ F'.miss

Apart(h, fault) ==
  /\ WalkFault(fault) => "WalkFault" \in Coincidences
  /\ SplitMiss        => "SplitMiss" \in Coincidences
  /\ LateFault(h)     => "LateFault" \in Coincidences
  /\ WfiTwice         => "WfiTwice" \in Coincidences
  /\ DivideRestart    => "DivideRestart" \in Coincidences
-----------------------------------------------------------------------------
Init ==
  /\ F \in Addresses({0}, BOOLEAN)
  /\ ifu = "idle" /\ spill = "READY" /\ half = Nowhere
  /\ D = Bubble /\ E = Bubble /\ M = Bubble
  /\ BPWrongM = FALSE /\ wfiW = FALSE /\ div = "IDLE"
  /\ lsu = "idle" /\ way = TRUE /\ dmiss = FALSE /\ done = 0
  /\ walker = "IDLE" /\ DTLBWalk = FALSE
  /\ irq = "none"

Cycle ==
  \E StallDCause \in {FALSE, E.kind # "nop" /\ D.kind # "nop"}, fault \in {FALSE, MayFault} :
  \E h \in {Hazard(StallDCause)} :
    /\ Fetch(h)
    /\ Stages(h)
    /\ Memory(h, fault)
    /\ Apart(h, fault)
    /\ irq' \in {"none", "masked", "enabled"}

Spec == Init /\ [][Cycle]_vars

\* The clock runs, and what is waited for answers: the bus with a grant and with
\* data, the divider with its result.
FetchWaits == ifu = "busy" \/ (ifu = "idle" /\ F.from = "bus" /\ ~FlushDCause)
DataWaits  == lsu = "busy" \/ (lsu = "idle" /\ IO /\ ~FlushWCause /\ ~TLBMiss)
FairSpec ==
  /\ Spec
  /\ []<><<TRUE>>_vars
  /\ WF_ifu(FetchWaits /\ ifu' \in {"busy", "write", "hold"})
  /\ WF_lsu(DataWaits /\ lsu' \in {"busy", "write", "hold"})
  /\ WF_div(div = "BUSY" /\ div' = "DONE")
-----------------------------------------------------------------------------
(***************************************************************************)
(* Properties.                                                             *)
(***************************************************************************)
Position == 0 .. 12 \cup {Nowhere}

\* Every register has a value of its type.
TypeOK ==
  /\ F \in [at : Position, spills : BOOLEAN, miss : BOOLEAN, from : Sources]
  /\ ifu \in {"idle", "busy", "write", "hold"} /\ lsu \in {"idle", "busy", "write", "hold"}
  /\ spill \in {"READY", "SPILL"} /\ half \in Position
  /\ D \in [at : Position, kind : {"nop", "good", "bad", "void"}]
  /\ E \in [at : Position, kind : {"nop", "bad", "void"} \cup Classes]
  /\ M \in [at : Position, kind : {"nop", "alu", "jump", "bad", "void"} \cup Kinds]
  /\ div \in {"IDLE", "BUSY", "DONE"} /\ done \in 0 .. 2
  /\ walker \in {"IDLE", "L1_ADR", "L1_RD", "L0_ADR", "L0_RD", "LEAF", "FAULT"}
  /\ {BPWrongM, wfiW, way, dmiss, DTLBWalk} \subseteq BOOLEAN
  /\ irq \in {"none", "masked", "enabled"}

\* Instructions retire in program order, none skipped and none twice, whatever
\* was predicted, flushed or stalled, and a trap saves the address of the one
\* that comes next (hazard.sv:76-109, bpred.sv:177-193, csr.sv:203).
InOrder == Retires \/ TrapM => M.at = 0 /\ M.kind # "void"

\* A memory operation that retires has been performed exactly once, whatever
\* walks, fetches and stalls came between, and one that traps not at all: an
\* interrupt does not cut it in two, and a fault is taken before the access
\* (lsu.sv:318-320, trap.sv:69-91, hazard.sv:81).
Finishing == lsu = "idle" /\ way /\ ~SelHPTW
ExactlyOnce ==
  M.kind \in Counted =>
    /\ Retires => done + (IF Finishing THEN 1 ELSE 0) = 1
    /\ TrapM => done = 0

\* An instruction that must trap does not retire instead, though its trap is
\* held back while a fetch is under way (trap.sv:91).
FaultTraps == M.kind \in {"bad", "memFault"} => ~Retires

\* An instruction in two halves is put together from its own halves
\* (spill.sv:97-128).
OwnHalves == spill = "SPILL" => half = F.at

\* The pipeline never comes to a standstill: something retires or traps again
\* and again, or a WFI waits for its interrupt.
Progress == []<>(Retires \/ TrapM \/ WFIStallM)
=============================================================================
