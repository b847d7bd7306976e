-------------------------------- MODULE Ebu ---------------------------------
(***************************************************************************)
(* The external bus unit: the instruction and the data side, each with its *)
(* bus state machine (ebu/buscachefsm.sv, ahbcacheinterface.sv), and the   *)
(* arbiter between them and the AHB (ebu/ebu.sv, ebufsmarb.sv,             *)
(* controllerinput.sv).                                                    *)
(*                                                                         *)
(* A step is a clock cycle.  The AHB overlaps the address phase of a beat  *)
(* with the data phase of the one before; both end when HREADY is high.    *)
(* When both sides start in one cycle the data side goes first and the     *)
(* instruction side, which believes its address phase was taken, has it    *)
(* saved and put on the bus afterwards.                                    *)
(***************************************************************************)
EXTENDS Naturals, Sequences

CONSTANTS Beats,      \* beats of a cache line
          BURST_EN,   \* lines are transferred as bursts
          LSUKinds,   \* operations of the data side
          MaxWalk,    \* data accesses a walk makes while the fetch waits
          Cuts        \* an exception held back by a fetch may cut a data access

Masters   == {"IFU", "LSU"}
Uncached  == {"word", "load", "store", "amo"}
IFUKinds  == {"line", "word"}
Kinds(m)  == IF m = "IFU" THEN IFUKinds ELSE LSUKinds

ASSUME EbuAssumption ==
  /\ Beats \in {4, 8, 16} /\ BURST_EN \in BOOLEAN /\ MaxWalk \in Nat /\ Cuts \in BOOLEAN
  /\ LSUKinds \subseteq {"line", "evict", "clean", "load", "store", "amo"}

VARIABLES
  busState, BeatCount, BeatCountDelayed,   \* of buscachefsm, per master
  req,             \* the operation a master has for its bus state machine
  flush,           \* TrapM: FlushD and FlushW are high in this cycle
  HWDATA,          \* beat the write data register holds, or Stale
  arb, IFUReqDelay, ebuCount, FinalBeatD,  \* of ebufsmarb
  saved,           \* the saved address phase of controllerinput
  dphase, HREADY,  \* the slave: transfer in its data phase, and its answer
  walk,            \* data accesses the walker may still start
  todo,            \* transfers each operation has yet to make, in order
  orphan           \* the data phase is of an operation that was flushed

fsm  == <<busState, BeatCount, BeatCountDelayed>>
arbiter == <<arb, IFUReqDelay, ebuCount, FinalBeatD, saved>>
vars == <<fsm, req, flush, HWDATA, arbiter, dphase, HREADY, walk, todo, orphan>>

Stale == Beats
-----------------------------------------------------------------------------
(***************************************************************************)
(* The bus state machine of a master.                                      *)
(***************************************************************************)
LSUEnabled(m) == m = "IFU" /\ arb = "ARBITRATE"            \* mutant of Disabled

\* IFUDisable, LSUDisable: the master does not see HREADY.
Disabled(m) == IF m = "IFU" THEN arb = "ARBITRATE"
                            ELSE arb = "IDLE" /\ IFUReqDelay
Ready(m) == HREADY /\ ~Disabled(m)

CacheAccess(m)    == busState[m] \in {"CACHE_FETCH", "CACHE_WRITEBACK"}
FinalBeatCount(m) == BeatCountDelayed[m] = Beats - 1
CacheBusAck(m)    == CacheAccess(m) /\ Ready(m) /\ FinalBeatCount(m)

\* BusRW and CacheBusRW.  A miss with a dirty victim asks for the line in the
\* cycle in which its writeback is acknowledged.
BusRW(m)    == req[m] \in Uncached
Writing(m)  == req[m] \in {"evict", "clean"} /\ ~CacheBusAck(m)
Fetching(m) == \/ req[m] = "line" /\ ~CacheBusAck(m)
               \/ req[m] = "evict" /\ CacheBusAck(m)
CacheBusRW(m) == Writing(m) \/ Fetching(m)

Asks(m) == BusRW(m) \/ CacheBusRW(m)
\* The address phase of a new operation, and of the fetch behind a writeback.
\* A flush keeps both off the bus; it does not stop the beats in between.
Starts(m)  == busState[m] = "ADR_PHASE" /\ Ready(m) /\ Asks(m) /\ ~flush
Chained(m) == CacheBusAck(m) /\ CacheBusRW(m) /\ ~flush

HTRANS(m) ==
  IF \/ Starts(m)
     \/ busState[m] = "ATOMIC_READ_DATA_PHASE"
     \/ Chained(m)
  THEN "NONSEQ"
  ELSE IF CacheAccess(m) /\ BeatCount[m] # 0
       THEN IF BURST_EN THEN "SEQ" ELSE "NONSEQ"
       ELSE "IDLE"

HWRITE(m) ==
  \/ req[m] = "store" \/ (Writing(m) /\ ~flush)
  \/ busState[m] = "ATOMIC_READ_DATA_PHASE"
  \/ busState[m] = "CACHE_WRITEBACK" /\ BeatCount[m] # 0

HBURST(m) == BURST_EN /\ ((CacheBusRW(m) /\ ~flush) \/ (CacheAccess(m) /\ BeatCount[m] # 0))

\* What a master drives in the address phase; the beat stands for the address.
AddressPhase(m) == [master |-> m, trans |-> HTRANS(m), write |-> HWRITE(m),
                    burst |-> HBURST(m), beat |-> BeatCount[m]]
Quiet == [master |-> "LSU", trans |-> "IDLE", write |-> FALSE,
          burst |-> FALSE, beat |-> 0]

NextState(m, Stall) ==
  CASE busState[m] = "ADR_PHASE" ->
         IF ~Ready(m)        THEN "ADR_PHASE"
         ELSE IF BusRW(m)    THEN "DATA_PHASE"
         ELSE IF Writing(m)  THEN "CACHE_WRITEBACK"
         ELSE IF Fetching(m) THEN "CACHE_FETCH" ELSE "ADR_PHASE"
    [] busState[m] = "DATA_PHASE" /\ Ready(m) ->
         IF req[m] = "amo" THEN "ATOMIC_READ_DATA_PHASE" ELSE "MEM3"
    [] busState[m] = "ATOMIC_READ_DATA_PHASE" /\ Ready(m) -> "ATOMIC_PHASE"
    [] busState[m] = "ATOMIC_PHASE" /\ Ready(m) -> "MEM3"
    [] busState[m] = "MEM3" /\ ~Stall -> "ADR_PHASE"
    [] CacheBusAck(m) -> IF Fetching(m) THEN "CACHE_FETCH" ELSE "ADR_PHASE"
    [] OTHER -> busState[m]
-----------------------------------------------------------------------------
(***************************************************************************)
(* The arbiter.                                                            *)
(***************************************************************************)
\* The output of controllerinput for the instruction side.
IFUOut == IF arb = "ARBITRATE" THEN saved ELSE AddressPhase("IFU")
IFUReq == IFUOut.trans # "IDLE"
LSUReq == HTRANS("LSU") # "IDLE"
both   == LSUReq /\ IFUReq

KeepsOnRequest ==                                          \* mutant of ArbNext
  IF arb = "IDLE" THEN IF both THEN "ARBITRATE" ELSE "IDLE"
  ELSE IF HREADY /\ FinalBeatD /\ ~IFUReq THEN "IDLE" ELSE "ARBITRATE"

ArbNext ==
  IF arb = "IDLE" THEN IF both THEN "ARBITRATE" ELSE "IDLE"
  ELSE IF HREADY /\ FinalBeatD /\ ~both THEN "IDLE" ELSE "ARBITRATE"

LSUSelect == ArbNext = "ARBITRATE" \/ LSUReq
Out == IF LSUSelect THEN AddressPhase("LSU") ELSE IF IFUReq THEN IFUOut ELSE Quiet

Threshold == IF Out.burst THEN Beats - 1 ELSE 0
FinalBeat == ebuCount = Threshold

NoSave == saved                                            \* mutant of NextSaved
NextSaved == IF arb = "IDLE" /\ both THEN AddressPhase("IFU") ELSE saved

Arbitrate ==
  /\ arb' = ArbNext
  /\ IFUReqDelay' = IFUReq
  /\ saved' = NextSaved
  /\ ebuCount' = IF ArbNext = "IDLE" \/ FinalBeat THEN 0
                 ELSE IF HREADY THEN (ebuCount + 1) % 16 ELSE ebuCount
  /\ FinalBeatD' = IF ArbNext = "IDLE" THEN FALSE
                   ELSE IF HREADY THEN FinalBeat ELSE FinalBeatD
-----------------------------------------------------------------------------
(***************************************************************************)
(* The operations.  todo is what an operation asks of the bus.             *)
(***************************************************************************)
Line(write) == [i \in 1 .. Beats |-> [beat |-> i - 1, write |-> write]]
Transfers(kind) ==
  CASE kind = "line"  -> Line(FALSE)
    [] kind = "clean" -> Line(TRUE)
    [] kind = "evict" -> Line(TRUE) \o Line(FALSE)
    [] kind = "store" -> <<[beat |-> 0, write |-> TRUE]>>
    [] kind = "amo"   -> <<[beat |-> 0, write |-> FALSE], [beat |-> 0, write |-> TRUE]>>
    [] kind = "none"  -> <<>>
    [] OTHER          -> <<[beat |-> 0, write |-> FALSE]>>

\* An operation waits in ADR_PHASE or is under way, until its last acknowledge
\* or MEM3.
Busy(m) == req[m] # "none" /\ busState[m] # "MEM3"

\* The master can have another operation in the next cycle.
Free(m, Stall) == flush \/ req[m] = "none" \/ (busState[m] = "MEM3" /\ ~Stall)

\* What a master may have for its state machine after this cycle.  A trap
\* leaves a bubble in the memory stage and a new fetch at its vector.
NextReq(m, Stall) ==
  IF Free(m, Stall) THEN {"none"} \cup (IF flush /\ m = "LSU" THEN {} ELSE Kinds(m))
  ELSE IF ~CacheBusAck(m) THEN {req[m]}
  ELSE IF Fetching(m) THEN {"line"} ELSE {"none"}

NewOperation(m, Stall) == Free(m, Stall) /\ req'[m] # "none"

\* While a fetch is under way the pipeline stands still, and the data side
\* starts an operation only for the page-table walker and the access it delays.
Walking(Stall) ==
  IF ~Busy("IFU") THEN walk' = MaxWalk
  ELSE IF NewOperation("LSU", Stall) THEN walk > 0 /\ walk' = walk - 1
  ELSE walk' = walk

Accepted == HREADY /\ Out.trans # "IDLE"

Remaining(m, Stall) ==
  LET rest == IF Accepted /\ Out.master = m /\ todo[m] # <<>> THEN Tail(todo[m]) ELSE todo[m]
  IN  IF NewOperation(m, Stall) THEN Transfers(req'[m])
      ELSE IF req'[m] = "none" THEN <<>> ELSE rest
-----------------------------------------------------------------------------
(***************************************************************************)
(* A clock cycle.                                                          *)
(***************************************************************************)
Unwrapped(m) == BeatCount[m] + 1                           \* mutant of NextBeatCount
NextBeatCount(m) == (BeatCount[m] + 1) % Beats

BeatCntEn(m, Stall) ==
  Ready(m) /\ ~flush /\ NextState(m, Stall) \in {"CACHE_FETCH", "CACHE_WRITEBACK"}

\* One bit per master says whether the pipeline holds it in MEM3.  A flush
\* overrides the next state and not the reset of the counters.
BusFSMs(Stall) ==
  /\ busState' = [m \in Masters |-> IF flush THEN "ADR_PHASE" ELSE NextState(m, Stall[m])]
  /\ BeatCount' = [m \in Masters |->
       IF NextState(m, Stall[m]) = "ADR_PHASE" THEN 0
       ELSE IF BeatCntEn(m, Stall[m]) THEN NextBeatCount(m) ELSE BeatCount[m]]
  /\ BeatCountDelayed' = [m \in Masters |->
       IF NextState(m, Stall[m]) = "ADR_PHASE" THEN 0
       ELSE IF BeatCntEn(m, Stall[m]) THEN BeatCount[m] ELSE BeatCountDelayed[m]]

\* The write data a cycle ahead of the register.  An atomic has its result
\* when what it read has been captured.
PreHWDATA ==
  CASE req["LSU"] \in {"evict", "clean"} -> BeatCount["LSU"]
    [] req["LSU"] = "store" -> 0
    [] req["LSU"] = "amo" /\ busState["LSU"] \in {"ATOMIC_READ_DATA_PHASE", "ATOMIC_PHASE"} -> 0
    [] OTHER -> Stale

LatchAlways == PreHWDATA                                   \* mutant of NextHWDATA
NextHWDATA == IF Ready("LSU") THEN PreHWDATA ELSE HWDATA

\* A slave ends a data phase when it likes; without one the bus is ready.
Slave ==
  /\ dphase' = IF ~HREADY THEN dphase
               ELSE IF Out.trans = "IDLE" THEN Quiet ELSE Out
  /\ HREADY' \in BOOLEAN
  /\ dphase'.trans = "IDLE" => HREADY'
  /\ orphan' = (dphase'.trans # "IDLE" /\ (flush \/ (orphan /\ ~HREADY)))

\* TrapM of the next cycle.  Every trap waits for the fetch (CommittedF), an
\* interrupt for the data side too (CommittedM); a cache is committed from the
\* second cycle in which it asks for a line.
Committed(m, states, Stall) ==
  \/ busState'[m] \notin states
  \/ req'[m] \in {"line", "evict", "clean"} /\ ~NewOperation(m, Stall)
Trap(Stall) ==
  /\ flush' \in BOOLEAN
  /\ flush' => /\ ~Committed("IFU", {"ADR_PHASE", "MEM3"}, Stall["IFU"])
               /\ Cuts \/ ~Committed("LSU", {"ADR_PHASE"}, Stall["LSU"])

Operations(Stall) ==
  /\ \E i \in NextReq("IFU", Stall["IFU"]), d \in NextReq("LSU", Stall["LSU"]) :
       req' = [m \in Masters |-> IF m = "IFU" THEN i ELSE d]
  /\ todo' = [m \in Masters |-> Remaining(m, Stall[m])]
  /\ Walking(Stall["LSU"])

Init ==
  /\ busState = [m \in Masters |-> "ADR_PHASE"]
  /\ BeatCount = [m \in Masters |-> 0] /\ BeatCountDelayed = [m \in Masters |-> 0]
  /\ req = [m \in Masters |-> "none"] /\ todo = [m \in Masters |-> <<>>]
  /\ HWDATA = Stale /\ saved = Quiet /\ dphase = Quiet /\ HREADY = TRUE
  /\ arb = "IDLE" /\ IFUReqDelay = FALSE /\ ebuCount = 0 /\ FinalBeatD = FALSE
  /\ walk = MaxWalk /\ flush = FALSE /\ orphan = FALSE

Cycle ==
  /\ \E Stall \in [Masters -> BOOLEAN] : BusFSMs(Stall) /\ Operations(Stall) /\ Trap(Stall)
  /\ Arbitrate
  /\ Slave
  /\ HWDATA' = NextHWDATA

Spec == Init /\ [][Cycle]_vars

\* The clock runs and every slave answers.
FairSpec == Spec /\ WF_vars(Cycle) /\ WF_vars(Cycle /\ HREADY')
-----------------------------------------------------------------------------
(***************************************************************************)
(* Properties.                                                             *)
(***************************************************************************)
Phases == [master : Masters, trans : {"IDLE", "NONSEQ", "SEQ"}, write : BOOLEAN,
           burst : BOOLEAN, beat : 0 .. Beats - 1]
BusStates == {"ADR_PHASE", "DATA_PHASE", "ATOMIC_READ_DATA_PHASE", "ATOMIC_PHASE",
              "MEM3", "CACHE_FETCH", "CACHE_WRITEBACK"}

\* Every register has a value of its type (the declarations of ebufsmarb.sv and
\* buscachefsm.sv).
TypeOK ==
  /\ busState \in [Masters -> BusStates]
  /\ BeatCount \in [Masters -> 0 .. Beats - 1]
  /\ BeatCountDelayed \in [Masters -> 0 .. Beats - 1]
  /\ req \in [Masters -> {"none", "line", "evict", "clean"} \cup Uncached]
  /\ HWDATA \in 0 .. Stale
  /\ arb \in {"IDLE", "ARBITRATE"} /\ IFUReqDelay \in BOOLEAN
  /\ ebuCount \in 0 .. 15 /\ FinalBeatD \in BOOLEAN
  /\ saved \in Phases /\ dphase \in Phases /\ HREADY \in BOOLEAN
  /\ walk \in 0 .. MaxWalk /\ flush \in BOOLEAN /\ orphan \in BOOLEAN
  /\ todo \in [Masters -> Seq([beat : 0 .. Beats - 1, write : BOOLEAN])]

\* A slave sees each transfer of an operation once and in order, whichever side
\* was saved, restored or disabled in between, and an operation ends only when
\* all were seen (ebufsmarb.sv:86-92, controllerinput.sv:67-84).
Ended(m) == busState[m] = "MEM3" \/ (CacheBusAck(m) /\ ~Fetching(m))
InOrder ==
  /\ Accepted => /\ todo[Out.master] # <<>>
                 /\ Head(todo[Out.master]) = [beat |-> Out.beat, write |-> Out.write]
  /\ \A m \in Masters : Ended(m) => todo[m] = <<>>

\* The end of a data phase is seen by the master it belongs to and by no other,
\* in the beat it counts and in the direction it is in, and what is written is
\* that beat's data.  What a trap cut off is seen by nobody
\* (ebufsmarb.sv:80-93, ahbcacheinterface.sv:87-123).
Takes(m) == Ready(m) /\ busState[m] \in {"DATA_PHASE", "ATOMIC_PHASE", "CACHE_FETCH", "CACHE_WRITEBACK"}
DataReaches ==
  /\ \A m \in Masters :
       /\ Takes(m) <=> /\ HREADY /\ dphase.trans # "IDLE"
                     /\ dphase.master = m /\ ~orphan
       /\ Takes(m) => /\ dphase.beat = BeatCountDelayed[m]
                      /\ CacheAccess(m) => dphase.write = (busState[m] = "CACHE_WRITEBACK")
  /\ HREADY /\ dphase.write => HWDATA = dphase.beat

\* What a slave may rely on: while it is not ready, the transfer in the address
\* phase stays what it is, unless a trap takes it away, and a beat announced as the
\* continuation of a burst follows the beat before it directly: nothing of the
\* other side comes between (ebufsmarb.sv:58-61, ebu.sv:116-122,
\* buscachefsm.sv:140-147).
Held == ~HREADY /\ ~flush /\ Out.trans # "IDLE" => Out' = Out
Contiguous ==
  Accepted /\ Out.trans = "SEQ" =>
    /\ dphase.master = Out.master /\ dphase.write = Out.write
    /\ dphase.burst /\ Out.beat = dphase.beat + 1
BusRules == [][Held /\ Contiguous]_vars

\* Every operation is served or trapped: the side that was saved gets the bus,
\* the side that is disabled too (ebufsmarb.sv:66-70, 91-93).
Served == \A m \in Masters : Busy(m) ~> ~Busy(m) \/ flush
=============================================================================
