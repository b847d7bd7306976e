------------------------------- MODULE DCache -------------------------------
(***************************************************************************)
(* The level-1 data cache: the controller (cache/cachefsm.sv), its arrays  *)
(* and their registered read ports (cache/cache.sv, cache/cacheway.sv,     *)
(* cache/cacheLRU.sv), the bus state machine that moves lines beat by beat *)
(* (ebu/buscachefsm.sv, ebu/ahbcacheinterface.sv), and the part of the     *)
(* pipeline that feeds it (ieu/controller.sv, hazard/hazard.sv).           *)
(*                                                                         *)
(* A step is a clock cycle.  A cycle that changes no register is left out: *)
(* it is a stuttering step.  The arrays answer one cycle after they are    *)
(* addressed, so the state holds what the read ports hold (rd) as well as  *)
(* the arrays; a port that was addressed with the wrong set is the hazard  *)
(* this module is about.                                                   *)
(***************************************************************************)
EXTENDS Naturals, FiniteSets

CONSTANTS NumSets, NumWays, NumWords,
          Tags,       \* the part of an address above the set index
          Values,     \* what a word can hold
          Zero,       \* the word cbo.zero writes
          CMOs,       \* the cache-management operations the program uses
          CMOSpaced,  \* the program puts another instruction after each of them
          LateTraps   \* the states in which a trap may flush the memory stage

MissStates == {"FETCH", "WRITEBACK", "WRITE_LINE", "ADDRESS_SETUP"}

ASSUME SizeAssumption ==
  NumSets \in Nat \ {0} /\ NumWays \in Nat \ {0} /\ NumWords \in Nat \ {0, 1}
ASSUME DataAssumption == Tags # {} /\ Zero \in Values
ASSUME ModeAssumption ==
  /\ CMOs \subseteq {"inval", "flush", "clean", "zero"}
  /\ CMOSpaced \in BOOLEAN
  /\ LateTraps \subseteq MissStates

VARIABLES
  curr,                        \* state of cachefsm
  tag, valid, dirty, data,     \* the arrays: set, then way
  lru,                         \* LRUMemory: the way the bits of a set point at
  rd,                          \* what the read ports of the arrays hold
  flushAdr, flushWay,          \* the counters of a whole-cache flush
  req,                         \* the request in the memory stage
  bus, beat, buf,              \* buscachefsm and the fetch buffer
  mem                          \* memory behind the bus

arrays  == <<tag, valid, dirty, data, lru>>
counters == <<flushAdr, flushWay>>
busVars == <<bus, beat, buf, mem>>
vars    == <<curr, arrays, rd, counters, req, busVars>>

SetIdx    == 0 .. NumSets - 1
Ways      == 0 .. NumWays - 1
Words     == 0 .. NumWords - 1
Line      == [Words -> Values]
Locations == Tags \X SetIdx
BlankLine == [w \in Words |-> Zero]

(***************************************************************************)
(* Requests of the memory stage.  "none" is a bubble, "fence" is fence.i   *)
(* (FlushCache); the cbo names are those of CMOpM in cachefsm.sv.          *)
(***************************************************************************)
Bubble   == [op |-> "none"]
Requests ==
  [op : {"none", "fence"}]
    \cup [op : {"load"}, tag : Tags, set : SetIdx, word : Words]
    \cup [op : {"store", "amo"}, tag : Tags, set : SetIdx, word : Words, val : Values]
    \cup [op : CMOs, tag : Tags, set : SetIdx]

Reads     == req.op \in {"load", "amo"}     \* CacheRW[1]
Writes    == req.op \in {"store", "amo"}    \* CacheRW[0]
IsFence   == req.op = "fence"
IsCMO     == req.op \in CMOs
SomeClean == req.op \in {"flush", "clean"}  \* CMOpM[1] | CMOpM[2]
Here      == <<req.tag, req.set>>

\* Mutant: nothing is held back behind a store or a cache-management operation.
MayFollowAtOnce(r) == IsFence => r = Bubble

\* The request that may enter the memory stage behind req: a load or an atomic
\* is held back one cycle behind a store or an atomic (StoreStallD), and fence.i
\* empties the stages behind it (CSRWriteFenceM).
MayFollow(r) ==
  /\ Writes => r.op \notin {"load", "amo"}
  /\ IsFence => r = Bubble
  /\ CMOSpaced /\ IsCMO => r = Bubble

NextSet(r) == IF r.op \in {"none", "fence"} THEN 0 ELSE r.set

-----------------------------------------------------------------------------
(***************************************************************************)
(* Combinational signals, from the read ports and the request.             *)
(***************************************************************************)
HitWays == {w \in Ways : rd.valid[w] /\ tag[rd.tag][w] = req.tag}
Hit     == HitWays # {}

\* An invalid way if there is one, else the way the replacement bits point at.
\* The code takes the lowest invalid way; nothing here depends on which.
VictimWay ==
  IF \A w \in Ways : rd.valid[w] THEN rd.lru ELSE CHOOSE w \in Ways : ~rd.valid[w]

\* Mutant: a flush looks at the victim way and not at the way it visits.
LineDirtyOfVictim == rd.dirty[VictimWay] /\ rd.valid[VictimWay]

LineDirty ==
  LET w == IF IsFence THEN flushWay ELSE VictimWay IN rd.dirty[w] /\ rd.valid[w]
HitLineDirty == \E w \in Ways : rd.dirty[w] /\ rd.valid[w]

AnyMiss           == (Reads \/ Writes) /\ ~Hit
CMOZeroNoEviction == req.op = "zero" /\ ~LineDirty
WritebackForZero  == req.op = "zero" /\ LineDirty    \* mutant of CMOWriteback
CMOWriteback      == \/ SomeClean /\ Hit /\ HitLineDirty
                     \/ req.op = "zero" /\ LineDirty
StallConditions   == IsFence \/ AnyMiss \/ CMOWriteback

\* What the read multiplexer returns when the ways of W are selected: zeroes
\* when none is.
ReadLine(W) == IF W = {} THEN BlankLine ELSE data[rd.data][CHOOSE w \in W : TRUE]
ReadTag(W)  == IF W = {} THEN CHOOSE t \in Tags : TRUE
                         ELSE tag[rd.tag][CHOOSE w \in W : TRUE]

\* Mutants: the write enables of the ways, or of the bytes, are ignored.
SetEveryWay(f, s, W, v) == [f EXCEPT ![s] = [w \in Ways |-> v]]
MergeEveryWord(l)       == [w \in Words |-> req.val]

SetWays(f, s, W, v) == [f EXCEPT ![s] = [w \in Ways |-> IF w \in W THEN v ELSE f[s][w]]]
Merge(l)            == [l EXCEPT ![req.word] = req.val]

\* The ports after this cycle, when the tag port is addressed with ts and the
\* data port with ds.  The data port reads through its address register; the
\* valid port returns the old bit, the dirty and replacement ports forward.
Read(ts, ds) ==
  rd' = [tag |-> ts, data |-> ds, valid |-> valid[ts], dirty |-> dirty'[ts], lru |-> lru'[ts]]

\* The replacement bits of the set of req turn away from way w.
TurnFrom(w) == IF NumWays = 1 THEN Ways ELSE Ways \ {w}
Touch(w)    == \E v \in TurnFrom(w) : lru' = [lru EXCEPT ![req.set] = v]

\* The set addressed in ACCESS: the next request's, unless req still needs its own.
AccessTagSet(r)  == IF AnyMiss \/ IsCMO THEN req.set ELSE NextSet(r)
AccessDataSet(r) == IF Writes \/ AnyMiss \/ IsCMO THEN req.set ELSE NextSet(r)

Enter(r)     == MayFollow(r) /\ req' = r
-----------------------------------------------------------------------------
(***************************************************************************)
(* The bus.  A beat reaches memory in its address phase: a write is there  *)
(* for every later transfer.  A wait state (HREADY low) is a stutter.      *)
(***************************************************************************)
LastBeat == beat = NumWords - 1

BusIdle == bus = "ADR_PHASE" /\ UNCHANGED busVars

\* The address phase of the first beat of a write or a fetch.
StartWrite(a, l) ==
  /\ bus' = "CACHE_WRITEBACK" /\ beat' = 0
  /\ mem' = [mem EXCEPT ![a][0] = l[0]]
  /\ UNCHANGED buf
StartRead == bus' = "CACHE_FETCH" /\ beat' = 0 /\ UNCHANGED <<buf, mem>>

NextWriteBeat(a, l) ==
  /\ bus = "CACHE_WRITEBACK" /\ ~LastBeat
  /\ beat' = beat + 1
  /\ mem' = [mem EXCEPT ![a][beat + 1] = l[beat + 1]]
  /\ UNCHANGED <<bus, buf>>
\* Mutant: the fetch uses the address of the victim.
CaptureVictim ==
  buf' = [buf EXCEPT ![beat] = mem[<<ReadTag({VictimWay}), req.set>>][beat]]

Capture == buf' = [buf EXCEPT ![beat] = mem[Here][beat]]

BusKeeps   == bus' = bus /\ beat' = 0      \* mutant of BusRelease
BusRelease == bus' = "ADR_PHASE" /\ beat' = 0
WriteAck   == bus = "CACHE_WRITEBACK" /\ LastBeat
-----------------------------------------------------------------------------
(***************************************************************************)
(* ACCESS: a hit or an operation that needs no bus completes, and the next *)
(* request enters.                                                         *)
(***************************************************************************)
Completes(r) ==
  /\ curr = "ACCESS" /\ ~StallConditions
  /\ Enter(r)
  /\ Read(AccessTagSet(r), AccessDataSet(r))
  /\ UNCHANGED <<curr, counters, busVars>>

LoadHit(r) ==
  /\ req.op = "load"
  /\ \E w \in HitWays : Touch(w)
  /\ UNCHANGED <<tag, valid, dirty, data>>
  /\ Completes(r)

StoreHit(r) ==
  /\ Writes
  /\ data' = [data EXCEPT ![req.set] =
                [w \in Ways |-> IF w \in HitWays THEN Merge(data[req.set][w])
                                                 ELSE data[req.set][w]]]
  /\ dirty' = SetWays(dirty, req.set, HitWays, TRUE)
  /\ \E w \in HitWays : Touch(w)
  /\ UNCHANGED <<tag, valid>>
  /\ Completes(r)

\* Mutant: the zeroed line is not marked dirty.
InstallZeroClean(W) ==
  /\ tag' = SetWays(tag, req.set, W, req.tag)
  /\ valid' = SetWays(valid, req.set, W, TRUE)
  /\ dirty' = SetWays(dirty, req.set, W, FALSE)
  /\ data' = SetWays(data, req.set, W, BlankLine)
  /\ Touch(VictimWay)

\* cbo.zero writes the line that hits, else takes over the clean victim.
InstallZero(W) ==
  /\ tag' = SetWays(tag, req.set, W, req.tag)
  /\ valid' = SetWays(valid, req.set, W, TRUE)
  /\ dirty' = SetWays(dirty, req.set, W, TRUE)
  /\ data' = SetWays(data, req.set, W, BlankLine)
  /\ Touch(VictimWay)

ZeroInPlace(r) ==
  /\ CMOZeroNoEviction
  /\ InstallZero(IF Hit THEN HitWays ELSE {VictimWay})
  /\ Completes(r)

\* CMOpM[0], and CMOpM[2] with nothing dirty in the set, invalidate at once.
DropHit(r) ==
  /\ req.op \in {"inval", "clean"}
  /\ valid' = SetWays(valid, req.set, HitWays, FALSE)
  /\ UNCHANGED <<tag, dirty, data, lru>>
  /\ Completes(r)

PassThrough(r) ==
  /\ req.op \in {"none", "flush"}
  /\ UNCHANGED arrays
  /\ Completes(r)

\* Another unit stalls the pipeline: the arrays are disabled, and only the
\* replacement port follows the bits a hit would have written.
Hold ==
  /\ curr = "ACCESS" /\ ~StallConditions
  /\ \/ (Reads \/ Writes) /\ \E w \in HitWays, v \in Ways :
          v \in TurnFrom(w) /\ rd' = [rd EXCEPT !.lru = v]
     \/ CMOZeroNoEviction /\ \E v \in TurnFrom(VictimWay) : rd' = [rd EXCEPT !.lru = v]
  /\ UNCHANGED <<curr, arrays, counters, req, busVars>>

\* A trap or the page-table walker cancels the request: nothing is written.
Squash ==
  /\ curr = "ACCESS"
  /\ UNCHANGED <<curr, arrays, counters, busVars>>
  /\ IF IsFence THEN Read(flushAdr, flushAdr) ELSE Read(AccessTagSet(Bubble), AccessDataSet(Bubble))
  /\ req' = Bubble
-----------------------------------------------------------------------------
(***************************************************************************)
(* ACCESS: the operations that need the bus.                               *)
(***************************************************************************)
StartFetch ==
  /\ curr = "ACCESS" /\ AnyMiss /\ ~LineDirty
  /\ curr' = "FETCH"
  /\ (StartRead \/ UNCHANGED busVars)
  /\ UNCHANGED <<arrays, counters, req>>
  /\ Read(req.set, req.set)

\* Only a load or an atomic requests the bus in the cycle of the miss.
StartWriteback ==
  /\ curr = "ACCESS"
  /\ ((AnyMiss /\ LineDirty) \/ CMOWriteback)
  /\ curr' = "WRITEBACK"
  /\ \/ Reads /\ StartWrite(<<ReadTag({VictimWay}), req.set>>, ReadLine({VictimWay}))
     \/ UNCHANGED busVars
  /\ UNCHANGED <<arrays, counters, req>>
  /\ Read(req.set, req.set)

StartFlush ==
  /\ curr = "ACCESS" /\ IsFence
  /\ curr' = "FLUSH"
  /\ UNCHANGED <<arrays, counters, req, busVars>>
  /\ Read(flushAdr, flushAdr)
-----------------------------------------------------------------------------
(***************************************************************************)
(* A miss: write the victim back, fetch the line, write it to the arrays.  *)
(***************************************************************************)
WritebackVictim == {VictimWay}             \* mutant of WritebackWays
WritebackWays == IF SomeClean THEN HitWays ELSE {VictimWay}

WritebackBeat ==
  /\ curr = "WRITEBACK"
  /\ LET a == <<ReadTag(WritebackWays), req.set>>
         l == ReadLine(WritebackWays)
     IN  \/ bus = "ADR_PHASE" /\ StartWrite(a, l)
         \/ NextWriteBeat(a, l)
  /\ UNCHANGED <<curr, arrays, counters, req>>
  /\ Read(req.set, req.set)

\* The fetch follows the eviction without an idle cycle on the bus.
EvictionDone ==
  /\ curr = "WRITEBACK" /\ WriteAck /\ (Reads \/ Writes)
  /\ curr' = "FETCH"
  /\ StartRead
  /\ UNCHANGED <<arrays, counters, req>>
  /\ Read(req.set, req.set)

CMOWritebackDone ==
  /\ curr = "WRITEBACK" /\ WriteAck /\ IsCMO
  /\ curr' = "ADDRESS_SETUP"
  /\ BusRelease /\ UNCHANGED <<buf, mem>>
  /\ \/ req.op = "zero" /\ InstallZero({VictimWay})
     \/ /\ SomeClean
        /\ dirty' = SetWays(dirty, req.set, HitWays, FALSE)
        /\ valid' = IF req.op = "clean" THEN SetWays(valid, req.set, HitWays, FALSE) ELSE valid
        /\ UNCHANGED <<tag, data, lru>>
  /\ UNCHANGED <<counters, req>>
  /\ Read(req.set, req.set)

FetchBeat ==
  /\ curr = "FETCH"
  /\ \/ bus = "ADR_PHASE" /\ StartRead
     \/ /\ bus = "CACHE_FETCH" /\ ~LastBeat
        /\ Capture /\ beat' = beat + 1
        /\ UNCHANGED <<bus, mem>>
  /\ UNCHANGED <<curr, arrays, counters, req>>
  /\ Read(req.set, req.set)

FetchDone ==
  /\ curr = "FETCH" /\ bus = "CACHE_FETCH" /\ LastBeat
  /\ curr' = "WRITE_LINE"
  /\ Capture /\ BusRelease /\ UNCHANGED mem
  /\ UNCHANGED <<arrays, counters, req>>
  /\ Read(req.set, req.set)

WriteLine ==
  /\ curr = "WRITE_LINE"
  /\ curr' = "ADDRESS_SETUP"
  /\ tag' = SetWays(tag, req.set, {VictimWay}, req.tag)
  /\ valid' = SetWays(valid, req.set, {VictimWay}, TRUE)
  /\ dirty' = SetWays(dirty, req.set, {VictimWay}, Writes)
  /\ data' = SetWays(data, req.set, {VictimWay}, IF Writes THEN Merge(buf) ELSE buf)
  /\ Touch(VictimWay)
  /\ UNCHANGED <<counters, req>> /\ BusIdle
  /\ Read(req.set, req.set)

\* The arrays are addressed for the next request while req leaves.  (They are
\* addressed again in every cycle this state is held, so holding is a stutter.)
AddressSetup(r) ==
  /\ curr = "ADDRESS_SETUP"
  /\ curr' = "ACCESS"
  /\ Enter(r)
  /\ UNCHANGED <<arrays, counters>> /\ BusIdle
  /\ LET s == IF IsFence THEN flushAdr ELSE NextSet(r) IN Read(s, s)

\* A trap that had to wait for the instruction fetch cuts a miss short.  A beat
\* already in the address phase is still written or captured; of the array writes
\* only that of the replacement bits by an acknowledged cbo.zero is not gated.
LateTrap ==
  /\ curr \in LateTraps
  /\ curr' = "ACCESS" /\ req' = Bubble
  /\ BusRelease
  /\ IF bus = "CACHE_FETCH" THEN Capture \/ UNCHANGED buf ELSE UNCHANGED buf
  /\ \/ mem' = mem
     \/ /\ bus = "CACHE_WRITEBACK" /\ ~LastBeat
        /\ mem' = [mem EXCEPT ![<<ReadTag(WritebackWays), req.set>>][beat + 1]
                                = ReadLine(WritebackWays)[beat + 1]]
  /\ IF curr = "WRITEBACK" /\ WriteAck /\ req.op = "zero"
       THEN Touch(VictimWay) ELSE lru' = lru
  /\ UNCHANGED <<tag, valid, dirty, data, counters>>
  /\ LET s == IF curr = "ADDRESS_SETUP" THEN 0 ELSE req.set IN Read(s, s)
-----------------------------------------------------------------------------
(***************************************************************************)
(* fence.i: visit every way of every set and write the dirty lines back.   *)
(***************************************************************************)
OneWayMore == flushWay = NumWays           \* mutant of LastWay
LastWay    == flushWay = NumWays - 1

\* Mutants of FlushFlag: the flush stops after one set, or never.
AfterOneSet == LastWay
PastLastSet == LastWay /\ flushAdr = NumSets
FlushFlag == LastWay /\ flushAdr = NumSets - 1

AdvanceFlush ==
  /\ flushWay' = IF LastWay THEN 0 ELSE flushWay + 1
  /\ flushAdr' = IF LastWay THEN (flushAdr + 1) % NumSets ELSE flushAdr
  /\ curr' = IF FlushFlag THEN "ADDRESS_SETUP" ELSE "FLUSH"
  /\ Read(flushAdr', flushAdr')

FlushClean ==
  /\ curr = "FLUSH" /\ ~LineDirty
  /\ UNCHANGED <<arrays, req, busVars>>
  /\ AdvanceFlush

\* The dirty bit is cleared before the line is written.
FlushDirty ==
  /\ curr = "FLUSH" /\ LineDirty
  /\ curr' = "FLUSH_WRITEBACK"
  /\ dirty' = SetWays(dirty, flushAdr, {flushWay}, FALSE)
  /\ UNCHANGED <<tag, valid, data, lru, counters, req, busVars>>
  /\ Read(flushAdr, flushAdr)

FlushBeat ==
  /\ curr = "FLUSH_WRITEBACK"
  /\ LET a == <<ReadTag({flushWay}), flushAdr>>
         l == ReadLine({flushWay})
     IN  \/ bus = "ADR_PHASE" /\ StartWrite(a, l)
         \/ NextWriteBeat(a, l)
  /\ UNCHANGED <<curr, arrays, counters, req>>
  /\ Read(flushAdr, flushAdr)

FlushWritten ==
  /\ curr = "FLUSH_WRITEBACK" /\ WriteAck
  /\ BusRelease /\ UNCHANGED <<buf, mem>>
  /\ UNCHANGED <<arrays, req>>
  /\ AdvanceFlush
-----------------------------------------------------------------------------
\* Reset clears the valid bits and the replacement bits and nothing else.
Init ==
  /\ curr = "ACCESS" /\ req = Bubble
  /\ valid = [s \in SetIdx |-> [w \in Ways |-> FALSE]]
  /\ lru = [s \in SetIdx |-> 0]
  /\ tag \in [SetIdx -> [Ways -> Tags]]
  /\ dirty \in [SetIdx -> [Ways -> BOOLEAN]]
  /\ data \in [SetIdx -> [Ways -> Line]]
  /\ rd = [tag |-> 0, data |-> 0, valid |-> valid[0], dirty |-> dirty[0], lru |-> 0]
  /\ flushAdr = 0 /\ flushWay = 0
  /\ bus = "ADR_PHASE" /\ beat = 0 /\ buf = BlankLine
  /\ mem \in [Locations -> Line]

\* The cycles that take the request in flight further.
Advance ==
  \/ \E r \in Requests :
       \/ LoadHit(r) \/ StoreHit(r) \/ ZeroInPlace(r) \/ DropHit(r) \/ PassThrough(r)
       \/ AddressSetup(r)
  \/ StartFetch \/ StartWriteback \/ StartFlush
  \/ WritebackBeat \/ EvictionDone \/ CMOWritebackDone
  \/ FetchBeat \/ FetchDone \/ WriteLine
  \/ FlushClean \/ FlushDirty \/ FlushBeat \/ FlushWritten

Next == Advance \/ Hold \/ Squash \/ LateTrap

Fairness == WF_vars(Advance)

Spec     == Init /\ [][Next]_vars
FairSpec == Spec /\ Fairness
-----------------------------------------------------------------------------
CacheStates == {"ACCESS", "FLUSH", "FLUSH_WRITEBACK"} \cup MissStates
WayBits     == [Ways -> BOOLEAN]

\* Types of the registers and the arrays.
TypeOK ==
  /\ curr \in CacheStates
  /\ tag \in [SetIdx -> [Ways -> Tags]]
  /\ valid \in [SetIdx -> WayBits]
  /\ dirty \in [SetIdx -> WayBits]
  /\ data \in [SetIdx -> [Ways -> Line]]
  /\ lru \in [SetIdx -> Ways]
  /\ rd \in [tag : SetIdx, data : SetIdx, valid : WayBits, dirty : WayBits, lru : Ways]
  /\ flushAdr \in SetIdx /\ flushWay \in Ways
  /\ req \in Requests
  /\ bus \in {"ADR_PHASE", "CACHE_FETCH", "CACHE_WRITEBACK"}
  /\ beat \in Words /\ buf \in Line
  /\ mem \in [Locations -> Line]

Holders(a) == {w \in Ways : valid[a[2]][w] /\ tag[a[2]][w] = a[1]}

\* "Exactly 1 way hits" (cachefsm.sv): no line is ever held by two ways, so the
\* OR of the ways' read data is the line.  Fills and cbo.zero could break it.
NoAlias ==
  \A a \in Locations : \A v, w \in Holders(a) : v = w

\* The strengthening of NoAlias that every step preserves.  A miss state belongs
\* to a request that can miss and the bus is busy only in a state that waits for
\* it; in ACCESS the tag port shows the set of the request as it is in the
\* arrays; and a line being fetched, or about to be, is in no way.
InFlight ==
  /\ curr \in {"FETCH", "WRITE_LINE"} => Reads \/ Writes
  /\ curr = "WRITEBACK" => Reads \/ Writes \/ SomeClean \/ req.op = "zero"
  /\ bus # "ADR_PHASE" => curr \in {"FETCH", "WRITEBACK", "FLUSH_WRITEBACK"}
PortFresh ==
  curr = "ACCESS" /\ req.op \notin {"none", "fence"} =>
    rd.tag = req.set /\ rd.valid = valid[req.set]
MissAbsent ==
  curr \in {"FETCH", "WRITEBACK", "WRITE_LINE"} /\ (Reads \/ Writes) => Holders(Here) = {}

Placement == InFlight /\ PortFresh /\ MissAbsent /\ NoAlias

\* What a load of each word returns once the request in flight is done.
Visible == [a \in Locations |->
              IF Holders(a) = {} THEN mem[a]
              ELSE data[a[2]][CHOOSE w \in Holders(a) : TRUE]]

\* A line that is not dirty can be dropped without loss: memory has it, but for
\* the one line whose dirty bit a flush has cleared ahead of writing it.
CleanMatchesMemory ==
  \A s \in SetIdx, w \in Ways :
    \/ ~valid[s][w] \/ dirty[s][w]
    \/ data[s][w] = mem[<<tag[s][w], s>>]
    \/ curr = "FLUSH_WRITEBACK" /\ s = flushAdr /\ w = flushWay

\* The word handed to the pipeline is the one last stored there, whether it is
\* read from the arrays on a hit or from the fetch buffer after a miss.
LoadValue ==
  /\ curr = "ACCESS" /\ Reads =>
       \A w \in HitWays : data[rd.data][w][req.word] = Visible[Here][req.word]
  /\ curr = "WRITE_LINE" /\ Reads => buf = Visible[Here]
  /\ curr = "ADDRESS_SETUP" /\ req.op = "load" => buf[req.word] = Visible[Here][req.word]

\* When fence.i leaves, memory holds everything that was stored: the instruction
\* fetch behind it reads memory and not this cache.
FenceWritesAll ==
  curr = "ADDRESS_SETUP" /\ IsFence => mem = Visible

\* A cache-management operation leaves memory with the value of its line, also
\* when it completes at once, and CMOpM[2] leaves the line out of the cache.
CMOReachesMemory ==
  SomeClean /\ (curr = "ADDRESS_SETUP" \/ (curr = "ACCESS" /\ ~StallConditions)) =>
    /\ mem[Here] = Visible[Here]
    /\ curr = "ADDRESS_SETUP" /\ req.op = "clean" => Holders(Here) = {}

\* A burst on the bus writes only a line this cache holds, and is only in flight
\* while the cache reports CacheCommitted, so that no interrupt can cut it.
BurstIsCommitted ==
  bus # "ADR_PHASE" =>
    /\ curr # "ACCESS"
    /\ bus = "CACHE_WRITEBACK" =>
         /\ curr \in {"WRITEBACK", "FLUSH_WRITEBACK"}
         /\ LET w == CHOOSE w \in IF IsFence THEN {flushWay} ELSE WritebackWays : TRUE
                s == IF IsFence THEN flushAdr ELSE req.set
            IN  valid[s][w] /\ rd.tag = s /\ rd.data = s

\* The cache is invisible: it implements the memory of module Memory.
Memory == INSTANCE Memory WITH visible <- Visible
Transparent == Memory!Spec

\* A request that needs the bus is served, or cancelled by a trap.
Served ==
  (curr = "ACCESS" /\ StallConditions) ~> (curr = "ADDRESS_SETUP" \/ req = Bubble)
=============================================================================
