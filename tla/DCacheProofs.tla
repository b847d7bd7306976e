---------------------------- MODULE DCacheProofs ----------------------------
(***************************************************************************)
(* Theorems about the data cache, for every number of sets, ways, words    *)
(* and tags.                                                               *)
(***************************************************************************)
EXTENDS DCache, TLAPS

LEMMA SetsAndWays ==
  0 \in SetIdx /\ 0 \in Ways /\ 0 \in Words /\ BlankLine \in Line
BY SizeAssumption, DataAssumption DEF SetIdx, Ways, Words, BlankLine, Line

\* The addressed requests carry a tag and a set.
LEMMA Addressed ==
  ASSUME NEW r \in Requests, r.op \notin {"none", "fence"}
  PROVE  r.tag \in Tags /\ r.set \in SetIdx
BY ModeAssumption DEF Requests

LEMMA LoadStore ==
  ASSUME NEW r \in Requests, r.op \in {"load", "store", "amo"}
  PROVE  r.word \in Words
BY ModeAssumption DEF Requests

LEMMA StoreValue ==
  ASSUME NEW r \in Requests, r.op \in {"store", "amo"}
  PROVE  r.val \in Values
BY ModeAssumption DEF Requests

LEMMA NextSetType ==
  ASSUME NEW r \in Requests PROVE NextSet(r) \in SetIdx
BY SetsAndWays, Addressed DEF NextSet

LEMMA BubbleType == Bubble \in Requests
BY DEF Bubble, Requests

LEMMA VictimType == ASSUME TypeOK PROVE VictimWay \in Ways
<1>1. CASE \A w \in Ways : rd.valid[w]
  BY <1>1 DEF VictimWay, TypeOK
<1>2. CASE \E w \in Ways : ~rd.valid[w]
  <2>1. (CHOOSE w \in Ways : ~rd.valid[w]) \in Ways
    BY <1>2
  <2> QED BY <1>2, <2>1 DEF VictimWay
<1> QED BY <1>1, <1>2

\* An update of chosen ways of one set keeps the shape of an array.
LEMMA SetWaysType ==
  ASSUME NEW D, NEW f \in [SetIdx -> [Ways -> D]], NEW s \in SetIdx, NEW W, NEW v \in D
  PROVE  SetWays(f, s, W, v) \in [SetIdx -> [Ways -> D]]
BY DEF SetWays

LEMMA ReadTypes ==
  ASSUME TypeOK, NEW W \in SUBSET Ways
  PROVE  ReadLine(W) \in Line /\ ReadTag(W) \in Tags
<1>1. CASE W = {}
  <2>1. (CHOOSE t \in Tags : TRUE) \in Tags BY DataAssumption
  <2> QED BY <1>1, <2>1, SetsAndWays DEF ReadLine, ReadTag
<1>2. CASE W # {}
  <2>1. (CHOOSE w \in W : TRUE) \in Ways BY <1>2
  <2> QED BY <1>2, <2>1 DEF ReadLine, ReadTag, TypeOK
<1> QED BY <1>1, <1>2
-----------------------------------------------------------------------------
(***************************************************************************)
(* Types.                                                                  *)
(***************************************************************************)
Ports == [tag : SetIdx, data : SetIdx, valid : WayBits, dirty : WayBits, lru : Ways]
Shape(D) == [SetIdx -> [Ways -> D]]

LEMMA ReadType ==
  ASSUME TypeOK, dirty' \in [SetIdx -> WayBits], lru' \in [SetIdx -> Ways],
         NEW ts \in SetIdx, NEW ds \in SetIdx, Read(ts, ds)
  PROVE  rd' \in Ports
BY DEF Read, TypeOK, Ports, WayBits

\* The sets the read ports are addressed with while req is in ACCESS.
LEMMA AccessSetType ==
  ASSUME TypeOK, NEW r \in Requests
  PROVE  AccessTagSet(r) \in SetIdx /\ AccessDataSet(r) \in SetIdx
<1>1. AnyMiss \/ IsCMO \/ Writes => req.op \notin {"none", "fence"}
  BY ModeAssumption DEF AnyMiss, IsCMO, Reads, Writes
<1>2. req \in Requests BY DEF TypeOK
<1>3. AnyMiss \/ IsCMO \/ Writes => req.set \in SetIdx
  BY <1>1, <1>2, Addressed
<1> QED BY <1>3, NextSetType DEF AccessTagSet, AccessDataSet

LEMMA TouchType ==
  ASSUME TypeOK, req.set \in SetIdx, NEW w, Touch(w)
  PROVE  lru' \in [SetIdx -> Ways]
BY DEF Touch, TurnFrom, TypeOK

\* A request that enters and addresses the ports leaves both well typed.
LEMMA CompletesType ==
  ASSUME TypeOK, NEW r \in Requests, Completes(r),
         dirty' \in [SetIdx -> WayBits], lru' \in [SetIdx -> Ways],
         tag' \in Shape(Tags), valid' \in Shape(BOOLEAN), data' \in Shape(Line)
  PROVE  TypeOK'
<1>1. rd' \in Ports
  BY AccessSetType, ReadType DEF Completes
<1> QED BY <1>1 DEF Completes, Enter, TypeOK, Ports, Shape, WayBits, counters, busVars

LEMMA LoadHitType ==
  ASSUME TypeOK, NEW r \in Requests, LoadHit(r) PROVE TypeOK'
<1>1. req.set \in SetIdx BY Addressed DEF TypeOK, LoadHit
<1>2. lru' \in [SetIdx -> Ways] BY <1>1, TouchType DEF LoadHit
<1> QED BY <1>2, CompletesType DEF LoadHit, TypeOK, Shape, WayBits

LEMMA StoreHitType ==
  ASSUME TypeOK, NEW r \in Requests, StoreHit(r) PROVE TypeOK'
<1>1. req.set \in SetIdx /\ req.word \in Words /\ req.val \in Values
  BY Addressed, LoadStore, StoreValue DEF TypeOK, StoreHit, Writes
<1>2. lru' \in [SetIdx -> Ways] BY <1>1, TouchType DEF StoreHit
<1>3. dirty' \in Shape(BOOLEAN)
  BY <1>1, SetWaysType DEF StoreHit, TypeOK, Shape, WayBits
<1>4. \A l \in Line : Merge(l) \in Line BY <1>1 DEF Merge, Line
<1>5. data' \in Shape(Line) BY <1>1, <1>4 DEF StoreHit, TypeOK, Shape
<1> QED BY <1>2, <1>3, <1>5, CompletesType DEF StoreHit, TypeOK, Shape, WayBits

LEMMA InstallZeroType ==
  ASSUME TypeOK, NEW W, InstallZero(W), req.tag \in Tags, req.set \in SetIdx
  PROVE  /\ tag' \in Shape(Tags) /\ valid' \in Shape(BOOLEAN) /\ data' \in Shape(Line)
         /\ dirty' \in [SetIdx -> WayBits] /\ lru' \in [SetIdx -> Ways]
<1>1. BlankLine \in Line BY SetsAndWays
<1>2. lru' \in [SetIdx -> Ways] BY TouchType DEF InstallZero
<1>3. tag' \in Shape(Tags) BY SetWaysType DEF InstallZero, TypeOK, Shape
<1>4. valid' \in Shape(BOOLEAN) /\ dirty' \in Shape(BOOLEAN)
  BY SetWaysType DEF InstallZero, TypeOK, Shape, WayBits
<1>5. data' \in Shape(Line) BY <1>1, SetWaysType DEF InstallZero, TypeOK, Shape
<1> QED BY <1>2, <1>3, <1>4, <1>5 DEF Shape, WayBits

LEMMA ZeroInPlaceType ==
  ASSUME TypeOK, NEW r \in Requests, ZeroInPlace(r) PROVE TypeOK'
<1>1. req.tag \in Tags /\ req.set \in SetIdx
  BY Addressed DEF TypeOK, ZeroInPlace, CMOZeroNoEviction
<1> QED BY <1>1, InstallZeroType, CompletesType DEF ZeroInPlace

LEMMA DropHitType ==
  ASSUME TypeOK, NEW r \in Requests, DropHit(r) PROVE TypeOK'
<1>1. req.set \in SetIdx BY Addressed DEF TypeOK, DropHit
<1>2. valid' \in Shape(BOOLEAN)
  BY <1>1, SetWaysType DEF DropHit, TypeOK, Shape, WayBits
<1> QED BY <1>2, CompletesType DEF DropHit, TypeOK, Shape, WayBits

LEMMA PassThroughType ==
  ASSUME TypeOK, NEW r \in Requests, PassThrough(r) PROVE TypeOK'
BY CompletesType DEF PassThrough, TypeOK, Shape, WayBits, arrays

LEMMA HoldType == ASSUME TypeOK, Hold PROVE TypeOK'
BY DEF Hold, TypeOK, TurnFrom, arrays, counters, busVars

LEMMA SquashType == ASSUME TypeOK, Squash PROVE TypeOK'
<1>1. rd' \in Ports
  BY BubbleType, AccessSetType, ReadType DEF Squash, TypeOK, arrays
<1> QED BY <1>1, BubbleType DEF Squash, TypeOK, Ports, arrays, counters, busVars

\* The bus: a beat written to or captured from memory.
LEMMA StartWriteType ==
  ASSUME TypeOK, NEW a \in Locations, NEW l \in Line, StartWrite(a, l)
  PROVE  /\ bus' \in {"ADR_PHASE", "CACHE_FETCH", "CACHE_WRITEBACK"}
         /\ beat' \in Words /\ buf' \in Line /\ mem' \in [Locations -> Line]
BY SetsAndWays DEF StartWrite, TypeOK, Line

LEMMA NextBeat == ASSUME beat \in Words, ~LastBeat PROVE beat + 1 \in Words
BY SizeAssumption DEF LastBeat, Words

LEMMA NextWriteBeatType ==
  ASSUME TypeOK, NEW a \in Locations, NEW l \in Line, NextWriteBeat(a, l)
  PROVE  /\ bus' \in {"ADR_PHASE", "CACHE_FETCH", "CACHE_WRITEBACK"}
         /\ beat' \in Words /\ buf' \in Line /\ mem' \in [Locations -> Line]
<1>1. beat + 1 \in Words
  BY NextBeat DEF NextWriteBeat, TypeOK
<1> QED BY <1>1 DEF NextWriteBeat, TypeOK, Line

LEMMA CaptureType ==
  ASSUME TypeOK, Here \in Locations, Capture PROVE buf' \in Line
BY DEF Capture, TypeOK, Line

\* What every cycle of a miss and of a flush leaves to prove.
LEMMA QuietType ==
  ASSUME TypeOK, NEW s \in SetIdx, Read(s, s), UNCHANGED <<arrays, counters, req>>,
         curr' \in CacheStates, bus' \in {"ADR_PHASE", "CACHE_FETCH", "CACHE_WRITEBACK"},
         beat' \in Words, buf' \in Line, mem' \in [Locations -> Line]
  PROVE  TypeOK'
<1>1. rd' \in Ports BY ReadType DEF TypeOK, arrays
<1> QED BY <1>1 DEF TypeOK, Ports, arrays, counters

LEMMA StartFetchType == ASSUME TypeOK, StartFetch PROVE TypeOK'
<1>1. req.set \in SetIdx
  BY Addressed DEF StartFetch, AnyMiss, Reads, Writes, TypeOK
<1> QED BY <1>1, QuietType, SetsAndWays
        DEF StartFetch, StartRead, TypeOK, CacheStates, MissStates, busVars

\* In a state of a miss the request names a line.  The requests that cannot
\* reach the state are excluded by the invariant.
MissHere == req.op \notin {"none", "fence"}

LEMMA HereType ==
  ASSUME TypeOK, MissHere
  PROVE  req.tag \in Tags /\ req.set \in SetIdx /\ Here \in Locations
BY Addressed DEF TypeOK, MissHere, Here, Locations

LEMMA StartWritebackType == ASSUME TypeOK, StartWriteback PROVE TypeOK'
<1>1. MissHere
  BY DEF StartWriteback, MissHere, AnyMiss, CMOWriteback, SomeClean, Reads, Writes
<1>2. req.set \in SetIdx BY <1>1, HereType
<1>3. /\ <<ReadTag({VictimWay}), req.set>> \in Locations
      /\ ReadLine({VictimWay}) \in Line
  BY <1>2, VictimType, ReadTypes DEF Locations
<1>4. /\ bus' \in {"ADR_PHASE", "CACHE_FETCH", "CACHE_WRITEBACK"}
      /\ beat' \in Words /\ buf' \in Line /\ mem' \in [Locations -> Line]
  <2>1. CASE UNCHANGED busVars BY <2>1 DEF busVars, TypeOK
  <2>2. CASE StartWrite(<<ReadTag({VictimWay}), req.set>>, ReadLine({VictimWay}))
    BY <2>2, <1>3, StartWriteType
  <2> QED BY <2>1, <2>2 DEF StartWriteback
<1> QED BY <1>2, <1>4, QuietType DEF StartWriteback, CacheStates, MissStates

LEMMA StartFlushType == ASSUME TypeOK, StartFlush PROVE TypeOK'
<1>1. flushAdr \in SetIdx BY DEF TypeOK
<1> QED BY <1>1, QuietType DEF StartFlush, CacheStates, busVars, TypeOK

LEMMA WritebackLineType ==
  ASSUME TypeOK, MissHere
  PROVE  /\ <<ReadTag(WritebackWays), req.set>> \in Locations
         /\ ReadLine(WritebackWays) \in Line
<1>1. WritebackWays \in SUBSET Ways
  BY VictimType DEF WritebackWays, HitWays
<1> QED BY <1>1, ReadTypes, HereType DEF Locations

LEMMA WritebackBeatType == ASSUME TypeOK, MissHere, WritebackBeat PROVE TypeOK'
<1>1. /\ bus' \in {"ADR_PHASE", "CACHE_FETCH", "CACHE_WRITEBACK"}
      /\ beat' \in Words /\ buf' \in Line /\ mem' \in [Locations -> Line]
  BY WritebackLineType, StartWriteType, NextWriteBeatType DEF WritebackBeat
<1>2. curr' \in CacheStates BY DEF WritebackBeat, TypeOK
<1> QED BY <1>1, <1>2, HereType, QuietType DEF WritebackBeat

LEMMA EvictionDoneType == ASSUME TypeOK, MissHere, EvictionDone PROVE TypeOK'
BY HereType, QuietType, SetsAndWays
   DEF EvictionDone, StartRead, CacheStates, MissStates, TypeOK

LEMMA CMOWritebackDoneType == ASSUME TypeOK, MissHere, CMOWritebackDone PROVE TypeOK'
<1>1. req.tag \in Tags /\ req.set \in SetIdx BY HereType
<1>2. /\ tag' \in Shape(Tags) /\ valid' \in Shape(BOOLEAN) /\ data' \in Shape(Line)
      /\ dirty' \in [SetIdx -> WayBits] /\ lru' \in [SetIdx -> Ways]
  <2>1. CASE InstallZero({VictimWay}) BY <2>1, <1>1, InstallZeroType
  <2>2. CASE /\ dirty' = SetWays(dirty, req.set, HitWays, FALSE)
             /\ valid' = IF req.op = "clean" THEN SetWays(valid, req.set, HitWays, FALSE)
                                             ELSE valid
             /\ UNCHANGED <<tag, data, lru>>
    <3>1. dirty' \in Shape(BOOLEAN) /\ valid' \in Shape(BOOLEAN)
      BY <2>2, <1>1, SetWaysType DEF TypeOK, Shape, WayBits
    <3> QED BY <3>1, <2>2 DEF TypeOK, Shape, WayBits
  <2> QED BY <2>1, <2>2 DEF CMOWritebackDone
<1>3. rd' \in Ports BY <1>1, <1>2, ReadType DEF CMOWritebackDone
<1> QED BY <1>2, <1>3, SetsAndWays
        DEF CMOWritebackDone, BusRelease, TypeOK, Ports, Shape, WayBits, CacheStates,
            MissStates, counters

LEMMA FetchBeatType == ASSUME TypeOK, MissHere, FetchBeat PROVE TypeOK'
<1>1. /\ bus' \in {"ADR_PHASE", "CACHE_FETCH", "CACHE_WRITEBACK"}
      /\ beat' \in Words /\ buf' \in Line /\ mem' \in [Locations -> Line]
  <2>1. CASE StartRead BY <2>1, SetsAndWays DEF StartRead, TypeOK
  <2>2. CASE ~LastBeat /\ Capture /\ beat' = beat + 1 /\ UNCHANGED <<bus, mem>>
    <3>1. beat' \in Words BY <2>2, NextBeat DEF TypeOK
    <3>2. buf' \in Line BY <2>2, HereType, CaptureType
    <3> QED BY <3>1, <3>2, <2>2 DEF TypeOK
  <2> QED BY <2>1, <2>2 DEF FetchBeat
<1>2. curr' \in CacheStates BY DEF FetchBeat, TypeOK
<1> QED BY <1>1, <1>2, HereType, QuietType DEF FetchBeat

LEMMA FetchDoneType == ASSUME TypeOK, MissHere, FetchDone PROVE TypeOK'
<1>1. buf' \in Line BY HereType, CaptureType DEF FetchDone
<1> QED BY <1>1, HereType, QuietType, SetsAndWays
        DEF FetchDone, BusRelease, CacheStates, MissStates, TypeOK

LEMMA WriteLineType ==
  ASSUME TypeOK, Reads \/ Writes, WriteLine PROVE TypeOK'
<1>1. req.tag \in Tags /\ req.set \in SetIdx
  BY HereType DEF MissHere, Reads, Writes
<1>2. tag' \in Shape(Tags) BY <1>1, SetWaysType DEF WriteLine, TypeOK, Shape
<1>3. valid' \in Shape(BOOLEAN)
  BY <1>1, SetWaysType DEF WriteLine, TypeOK, Shape, WayBits
<1>4. dirty' \in Shape(BOOLEAN)
  <2>1. Writes \in BOOLEAN BY DEF Writes
  <2> QED BY <1>1, <2>1, SetWaysType DEF WriteLine, TypeOK, Shape, WayBits
<1>5. (IF Writes THEN Merge(buf) ELSE buf) \in Line
  BY LoadStore, StoreValue DEF TypeOK, Writes, Merge, Line
<1>6. data' \in Shape(Line) BY <1>1, <1>5, SetWaysType DEF WriteLine, TypeOK, Shape
<1>7. lru' \in [SetIdx -> Ways] BY <1>1, TouchType DEF WriteLine
<1>8. rd' \in Ports BY <1>1, <1>4, <1>7, ReadType DEF WriteLine, Shape, WayBits
<1> QED BY <1>2, <1>3, <1>4, <1>6, <1>7, <1>8
        DEF WriteLine, TypeOK, Ports, Shape, WayBits, CacheStates, MissStates, BusIdle,
            busVars, counters

LEMMA AddressSetupType ==
  ASSUME TypeOK, NEW r \in Requests, AddressSetup(r) PROVE TypeOK'
<1>1. (IF IsFence THEN flushAdr ELSE NextSet(r)) \in SetIdx BY NextSetType DEF TypeOK
<1>2. rd' \in Ports BY <1>1, ReadType DEF AddressSetup, TypeOK, arrays
<1> QED BY <1>2 DEF AddressSetup, Enter, TypeOK, Ports, CacheStates, MissStates, BusIdle,
                    busVars, counters, arrays

LEMMA LateTrapType ==
  ASSUME TypeOK, InFlight, LateTrap PROVE TypeOK'
<1>1. curr \in MissStates BY ModeAssumption DEF LateTrap
<1>2. curr # "ADDRESS_SETUP" => MissHere
  BY <1>1, ModeAssumption DEF InFlight, MissStates, MissHere, Reads, Writes, SomeClean
<1>3. bus # "ADR_PHASE" => curr # "ADDRESS_SETUP" BY DEF InFlight
<1>4. (IF curr = "ADDRESS_SETUP" THEN 0 ELSE req.set) \in SetIdx
  BY <1>2, HereType, SetsAndWays
<1>5. lru' \in [SetIdx -> Ways] BY <1>2, HereType, TouchType DEF LateTrap, TypeOK
<1>6. rd' \in Ports BY <1>4, <1>5, ReadType DEF LateTrap, TypeOK
<1>7. buf' \in Line BY <1>2, <1>3, HereType, CaptureType DEF LateTrap, TypeOK
<1>8. mem' \in [Locations -> Line]
  <2>1. CASE mem' = mem BY <2>1 DEF TypeOK
  <2>2. CASE /\ bus = "CACHE_WRITEBACK" /\ ~LastBeat
             /\ mem' = [mem EXCEPT ![<<ReadTag(WritebackWays), req.set>>][beat + 1]
                                     = ReadLine(WritebackWays)[beat + 1]]
    <3>1. MissHere BY <2>2, <1>2, <1>3
    <3>2. beat + 1 \in Words BY <2>2, NextBeat DEF TypeOK
    <3> QED BY <2>2, <3>1, <3>2, WritebackLineType DEF TypeOK, Line
  <2> QED BY <2>1, <2>2 DEF LateTrap
<1> QED BY <1>5, <1>6, <1>7, <1>8, BubbleType, SetsAndWays
        DEF LateTrap, BusRelease, TypeOK, Ports, CacheStates, counters

\* The counters of a flush stay inside the array.
LEMMA FlushCounterType ==
  ASSUME TypeOK
  PROVE  /\ (IF LastWay THEN 0 ELSE flushWay + 1) \in Ways
         /\ (IF LastWay THEN (flushAdr + 1) % NumSets ELSE flushAdr) \in SetIdx
<1>1. flushAdr \in SetIdx /\ flushWay \in Ways BY DEF TypeOK
<1>2. (flushAdr + 1) % NumSets \in SetIdx BY <1>1, SizeAssumption DEF SetIdx
<1>3. ~LastWay => flushWay + 1 \in Ways BY <1>1, SizeAssumption DEF Ways, LastWay
<1> QED BY <1>1, <1>2, <1>3, SetsAndWays

LEMMA AdvanceFlushType ==
  ASSUME TypeOK, AdvanceFlush, UNCHANGED <<arrays, req>>,
         bus' \in {"ADR_PHASE", "CACHE_FETCH", "CACHE_WRITEBACK"},
         beat' \in Words, buf' \in Line, mem' \in [Locations -> Line]
  PROVE  TypeOK'
<1>1. flushAdr' \in SetIdx /\ flushWay' \in Ways
  BY FlushCounterType DEF AdvanceFlush
<1>2. rd' \in Ports BY <1>1, ReadType DEF AdvanceFlush, TypeOK, arrays
<1> QED BY <1>1, <1>2 DEF AdvanceFlush, TypeOK, Ports, CacheStates, MissStates, arrays

LEMMA FlushCleanType == ASSUME TypeOK, FlushClean PROVE TypeOK'
BY AdvanceFlushType DEF FlushClean, TypeOK, busVars

LEMMA FlushDirtyType == ASSUME TypeOK, FlushDirty PROVE TypeOK'
<1>1. flushAdr \in SetIdx BY DEF TypeOK
<1>2. dirty' \in Shape(BOOLEAN)
  BY <1>1, SetWaysType DEF FlushDirty, TypeOK, Shape, WayBits
<1>3. rd' \in Ports BY <1>1, <1>2, ReadType DEF FlushDirty, TypeOK, Shape, WayBits
<1> QED BY <1>2, <1>3
        DEF FlushDirty, TypeOK, Ports, Shape, WayBits, CacheStates, counters, busVars

LEMMA FlushBeatType == ASSUME TypeOK, FlushBeat PROVE TypeOK'
<1>1. flushAdr \in SetIdx /\ flushWay \in Ways BY DEF TypeOK
<1>2. <<ReadTag({flushWay}), flushAdr>> \in Locations /\ ReadLine({flushWay}) \in Line
  BY <1>1, ReadTypes DEF Locations
<1>3. /\ bus' \in {"ADR_PHASE", "CACHE_FETCH", "CACHE_WRITEBACK"}
      /\ beat' \in Words /\ buf' \in Line /\ mem' \in [Locations -> Line]
  BY <1>2, StartWriteType, NextWriteBeatType DEF FlushBeat
<1>4. curr' \in CacheStates BY DEF FlushBeat, TypeOK
<1> QED BY <1>1, <1>3, <1>4, QuietType DEF FlushBeat

LEMMA FlushWrittenType == ASSUME TypeOK, FlushWritten PROVE TypeOK'
BY AdvanceFlushType, SetsAndWays DEF FlushWritten, BusRelease, TypeOK

LEMMA TypeInit == Init => TypeOK
BY SetsAndWays, BubbleType DEF Init, TypeOK, WayBits, CacheStates
-----------------------------------------------------------------------------
(***************************************************************************)
(* Where lines are.  The program spaces its cache-management operations    *)
(* and uses cbo.zero only with a direct-mapped cache: without either,      *)
(* NoAlias is false (MCDCache).                                            *)
(***************************************************************************)
PlainProgram == CMOSpaced = TRUE /\ ("zero" \in CMOs => NumWays = 1)

LEMMA ZeroIsDirect ==
  ASSUME TypeOK, PlainProgram, req.op = "zero"
  PROVE  IsCMO /\ Ways = {0}
BY SizeAssumption, ModeAssumption DEF TypeOK, Requests, PlainProgram, Ways, IsCMO

\* One way cannot hold a line twice.
LEMMA DirectNoAlias == ASSUME Ways = {0} PROVE NoAlias'
BY DEF NoAlias, Holders

\* Dropping valid bits only takes holders away.
LEMMA FewerHolders ==
  ASSUME TypeOK, tag' = tag,
         \A s \in SetIdx, w \in Ways : valid'[s][w] => valid[s][w]
  PROVE  \A a \in Locations : Holders(a)' \subseteq Holders(a)
BY DEF Holders, Locations

LEMMA StillNoAlias ==
  ASSUME NoAlias, \A a \in Locations : Holders(a)' \subseteq Holders(a)
  PROVE  NoAlias'
BY DEF NoAlias

\* The holders of a line after valid bits of a set were cleared.
LEMMA Invalidated ==
  ASSUME TypeOK, NEW s \in SetIdx, NEW W, valid' = SetWays(valid, s, W, FALSE)
  PROVE  \A i \in SetIdx, w \in Ways : valid'[i][w] => valid[i][w]
BY DEF SetWays, TypeOK

\* A cycle of ACCESS that lets r in leaves the tag port on the set of r.
LEMMA CompletesFresh ==
  ASSUME TypeOK, PlainProgram, InFlight, NEW r \in Requests, Completes(r),
         IsCMO \/ valid' = valid
  PROVE  InFlight' /\ PortFresh' /\ MissAbsent'
<1>1. curr' = "ACCESS" /\ bus' = bus /\ req' = r /\ curr = "ACCESS"
  BY DEF Completes, Enter, busVars
<1>2. InFlight' BY <1>1 DEF InFlight
<1>3. MissAbsent' BY <1>1 DEF MissAbsent
<1>4. CASE IsCMO
  <2>1. r = Bubble BY <1>4 DEF Completes, Enter, MayFollow, PlainProgram
  <2> QED BY <1>1, <1>2, <1>3, <2>1 DEF PortFresh, Bubble
<1>5. CASE ~IsCMO
  <2>1. r.op \notin {"none", "fence"} => AccessTagSet(r) = r.set
    BY <1>5 DEF AccessTagSet, NextSet, Completes, StallConditions
  <2>2. rd'.tag = AccessTagSet(r) /\ rd'.valid = valid[AccessTagSet(r)]
    BY DEF Completes, Read
  <2>3. PortFresh' BY <1>1, <1>5, <2>1, <2>2 DEF PortFresh
  <2> QED BY <1>2, <1>3, <2>3
<1> QED BY <1>4, <1>5

LEMMA HitPlacement ==
  ASSUME TypeOK, PlainProgram, Placement, NEW r \in Requests,
         Completes(r), UNCHANGED <<tag, valid>>
  PROVE  Placement'
<1>1. InFlight' /\ PortFresh' /\ MissAbsent'
  BY CompletesFresh DEF Placement
<1>2. NoAlias' BY FewerHolders, StillNoAlias DEF Placement
<1> QED BY <1>1, <1>2 DEF Placement

LEMMA DropHitPlacement ==
  ASSUME TypeOK, PlainProgram, Placement, NEW r \in Requests, DropHit(r)
  PROVE  Placement'
<1>1. req.set \in SetIdx BY Addressed DEF TypeOK, DropHit
<1>2. IsCMO BY ModeAssumption DEF DropHit, IsCMO, TypeOK, Requests
<1>3. InFlight' /\ PortFresh' /\ MissAbsent'
  BY <1>2, CompletesFresh DEF Placement, DropHit
<1>4. NoAlias'
  BY <1>1, Invalidated, FewerHolders, StillNoAlias DEF Placement, DropHit
<1> QED BY <1>3, <1>4 DEF Placement

LEMMA ZeroInPlacePlacement ==
  ASSUME TypeOK, PlainProgram, Placement, NEW r \in Requests, ZeroInPlace(r)
  PROVE  Placement'
<1>1. IsCMO /\ NoAlias'
  BY ZeroIsDirect, DirectNoAlias DEF ZeroInPlace, CMOZeroNoEviction
<1>2. InFlight' /\ PortFresh' /\ MissAbsent'
  BY <1>1, CompletesFresh DEF Placement, ZeroInPlace
<1> QED BY <1>1, <1>2 DEF Placement

\* Away from ACCESS, as long as the arrays keep their lines, only the request
\* and the bus have to fit the new state.
LEMMA QuietPlacement ==
  ASSUME TypeOK, Placement, UNCHANGED <<tag, valid>>, curr' # "ACCESS", InFlight',
         curr' \in {"FETCH", "WRITEBACK", "WRITE_LINE"} /\ (Reads' \/ Writes')
            => req' = req /\ Here \in Locations /\ Holders(Here) = {}
  PROVE  Placement'
<1>1. NoAlias' BY FewerHolders, StillNoAlias DEF Placement
<1>2. MissAbsent'
  <2>1. \A a \in Locations : Holders(a)' \subseteq Holders(a) BY FewerHolders
  <2>2. req' = req => Here' = Here BY DEF Here
  <2>3. curr' \in {"FETCH", "WRITEBACK", "WRITE_LINE"} /\ (Reads' \/ Writes')
          => Here' = Here /\ Holders(Here)' \subseteq {}
    BY <2>1, <2>2 DEF Holders, Here
  <2> QED BY <2>3 DEF MissAbsent
<1> QED BY <1>1, <1>2 DEF Placement, PortFresh

LEMMA BusyHere == ASSUME TypeOK, Reads \/ Writes PROVE Here \in Locations
BY HereType DEF MissHere, Reads, Writes

\* A miss seen through a fresh tag port is a line no way holds.
LEMMA MissHoldsNothing ==
  ASSUME TypeOK, Placement, curr = "ACCESS", AnyMiss
  PROVE  Holders(Here) = {}
BY DEF Placement, PortFresh, AnyMiss, Reads, Writes, Hit, HitWays, Holders, Here

LEMMA HoldPlacement == ASSUME TypeOK, Placement, Hold PROVE Placement'
<1>1. rd'.tag = rd.tag /\ rd'.valid = rd.valid BY DEF Hold, TypeOK
<1>2. UNCHANGED <<curr, tag, valid, req, bus>> BY DEF Hold, arrays, busVars
<1>3. NoAlias' BY <1>2, FewerHolders, StillNoAlias DEF Placement
<1>4. curr' = "ACCESS" BY DEF Hold
<1>5. InFlight' BY <1>2 DEF InFlight, Placement, Reads, Writes, SomeClean
<1>6. PortFresh' BY <1>1, <1>2 DEF PortFresh, Placement
<1> QED BY <1>3, <1>4, <1>5, <1>6 DEF Placement, MissAbsent

\* A cancelled request leaves a bubble in ACCESS.
LEMMA BubblePlacement ==
  ASSUME TypeOK, Placement, UNCHANGED <<tag, valid>>, curr' = "ACCESS", req' = Bubble,
         bus' = "ADR_PHASE"
  PROVE  Placement'
<1>1. NoAlias' BY FewerHolders, StillNoAlias DEF Placement
<1> QED BY <1>1 DEF Placement, InFlight, PortFresh, MissAbsent, Bubble

LEMMA SquashPlacement == ASSUME TypeOK, Placement, Squash PROVE Placement'
BY BubblePlacement DEF Squash, Placement, InFlight, arrays, busVars

LEMMA LateTrapPlacement == ASSUME TypeOK, Placement, LateTrap PROVE Placement'
BY BubblePlacement DEF LateTrap, BusRelease

LEMMA StartFetchPlacement == ASSUME TypeOK, Placement, StartFetch PROVE Placement'
<1>1. Reads \/ Writes BY DEF StartFetch, AnyMiss
<1>2. Here \in Locations /\ Holders(Here) = {}
  BY <1>1, BusyHere, MissHoldsNothing DEF StartFetch
<1>3. InFlight' BY <1>1 DEF StartFetch, InFlight, Reads, Writes
<1> QED BY <1>2, <1>3, QuietPlacement DEF StartFetch, arrays

LEMMA StartWritebackPlacement ==
  ASSUME TypeOK, Placement, StartWriteback PROVE Placement'
<1>1. Reads \/ Writes => AnyMiss
  BY DEF StartWriteback, CMOWriteback, SomeClean, Reads, Writes
<1>2. Reads \/ Writes => Here \in Locations /\ Holders(Here) = {}
  BY <1>1, BusyHere, MissHoldsNothing DEF StartWriteback
<1>3. InFlight'
  BY DEF StartWriteback, AnyMiss, CMOWriteback, InFlight, Reads, Writes, SomeClean
<1>4. req' = req /\ curr' = "WRITEBACK" BY DEF StartWriteback
<1> QED BY <1>2, <1>3, <1>4, QuietPlacement DEF StartWriteback, arrays, Reads, Writes

LEMMA StartFlushPlacement == ASSUME TypeOK, Placement, StartFlush PROVE Placement'
<1>1. InFlight' BY DEF StartFlush, Placement, InFlight, busVars
<1> QED BY <1>1, QuietPlacement DEF StartFlush, arrays

\* The cycles that stay in a miss.
LEMMA MissPlacement ==
  ASSUME TypeOK, Placement, UNCHANGED <<tag, valid, req>>,
         curr \in {"FETCH", "WRITEBACK"}, Reads \/ Writes \/ curr' = "WRITEBACK",
         curr' \in {"FETCH", "WRITEBACK", "WRITE_LINE"}, InFlight'
  PROVE  Placement'
<1>1. Reads \/ Writes => Here \in Locations /\ Holders(Here) = {}
  BY BusyHere DEF Placement, MissAbsent
<1> QED BY <1>1, QuietPlacement DEF Reads, Writes

LEMMA WritebackBeatPlacement ==
  ASSUME TypeOK, Placement, WritebackBeat PROVE Placement'
<1>1. InFlight'
  BY DEF WritebackBeat, Placement, InFlight, Reads, Writes, SomeClean
<1> QED BY <1>1, MissPlacement DEF WritebackBeat, arrays

LEMMA EvictionDonePlacement ==
  ASSUME TypeOK, Placement, EvictionDone PROVE Placement'
<1>1. InFlight' BY DEF EvictionDone, InFlight, Reads, Writes
<1> QED BY <1>1, MissPlacement DEF EvictionDone, arrays

LEMMA FetchBeatPlacement == ASSUME TypeOK, Placement, FetchBeat PROVE Placement'
<1>1. Reads \/ Writes BY DEF FetchBeat, Placement, InFlight
<1>2. InFlight' BY <1>1 DEF FetchBeat, InFlight, Reads, Writes
<1> QED BY <1>1, <1>2, MissPlacement DEF FetchBeat, arrays

LEMMA FetchDonePlacement == ASSUME TypeOK, Placement, FetchDone PROVE Placement'
<1>1. Reads \/ Writes BY DEF FetchDone, Placement, InFlight
<1>2. InFlight' BY <1>1 DEF FetchDone, InFlight, BusRelease, Reads, Writes
<1> QED BY <1>1, <1>2, MissPlacement DEF FetchDone, arrays

LEMMA CMOWritebackDonePlacement ==
  ASSUME TypeOK, PlainProgram, Placement, CMOWritebackDone PROVE Placement'
<1>1. req.set \in SetIdx
  BY Addressed, ModeAssumption DEF TypeOK, CMOWritebackDone, IsCMO
<1>2. req.op # "zero" => NoAlias'
  <2>1. req.op # "zero" =>
          tag' = tag /\ (valid' = SetWays(valid, req.set, HitWays, FALSE) \/ valid' = valid)
    BY DEF CMOWritebackDone
  <2> QED BY <1>1, <2>1, Invalidated, FewerHolders, StillNoAlias DEF Placement
<1>3. NoAlias' BY <1>2, ZeroIsDirect, DirectNoAlias
<1>4. curr' = "ADDRESS_SETUP" /\ bus' = "ADR_PHASE"
  BY DEF CMOWritebackDone, BusRelease
<1> QED BY <1>3, <1>4 DEF Placement, InFlight, PortFresh, MissAbsent

\* The line written to the victim way was in no way, and the line it replaces
\* leaves.
LEMMA WriteLineHolders ==
  ASSUME TypeOK, Reads \/ Writes, WriteLine, NEW a \in Locations
  PROVE  Holders(a)' \subseteq IF a = Here THEN {VictimWay} \cup Holders(a) ELSE Holders(a)
<1>1. req.set \in SetIdx /\ req.tag \in Tags BY HereType DEF MissHere, Reads, Writes
<1>2. a = <<a[1], a[2]>> /\ a[2] \in SetIdx BY DEF Locations
<1>3. \A w \in Ways : w # VictimWay \/ a[2] # req.set =>
        valid'[a[2]][w] = valid[a[2]][w] /\ tag'[a[2]][w] = tag[a[2]][w]
  BY <1>1, <1>2 DEF WriteLine, SetWays, TypeOK
<1>4. a[2] = req.set => tag'[a[2]][VictimWay] = req.tag
  BY <1>1, VictimType DEF WriteLine, SetWays, TypeOK
<1>5. ASSUME NEW w \in Holders(a)', w \notin Holders(a)
      PROVE  w = VictimWay /\ a = Here
  <2>1. w = VictimWay /\ a[2] = req.set BY <1>3, <1>5 DEF Holders
  <2>2. a[1] = req.tag BY <1>4, <1>5, <2>1 DEF Holders
  <2> QED BY <1>2, <2>1, <2>2 DEF Here
<1> QED BY <1>5

LEMMA WriteLinePlacement == ASSUME TypeOK, Placement, WriteLine PROVE Placement'
<1>1. Reads \/ Writes BY DEF WriteLine, Placement, InFlight
<1>2. Holders(Here) = {} BY <1>1 DEF WriteLine, Placement, MissAbsent
<1>3. NoAlias'
  <2>1. SUFFICES ASSUME NEW a \in Locations, NEW v \in Holders(a)', NEW w \in Holders(a)'
                 PROVE  v = w
    BY DEF NoAlias
  <2>2. CASE a = Here BY <1>1, <1>2, <2>2, WriteLineHolders
  <2>3. CASE a # Here BY <1>1, <2>3, WriteLineHolders DEF Placement, NoAlias
  <2> QED BY <2>2, <2>3
<1>4. curr' = "ADDRESS_SETUP" /\ bus' = "ADR_PHASE"
  BY DEF WriteLine, BusIdle, busVars
<1> QED BY <1>3, <1>4 DEF Placement, InFlight, PortFresh, MissAbsent

LEMMA AddressSetupPlacement ==
  ASSUME TypeOK, PlainProgram, Placement, NEW r \in Requests, AddressSetup(r)
  PROVE  Placement'
<1>1. curr' = "ACCESS" /\ bus' = "ADR_PHASE" /\ req' = r /\ UNCHANGED <<tag, valid>>
  BY DEF AddressSetup, Enter, BusIdle, busVars, arrays
<1>2. NoAlias' BY <1>1, FewerHolders, StillNoAlias DEF Placement
<1>3. CASE IsFence
  BY <1>1, <1>2, <1>3 DEF AddressSetup, Enter, MayFollow, Bubble, Placement, InFlight,
                          PortFresh, MissAbsent
<1>4. CASE ~IsFence
  <2>1. rd'.tag = NextSet(r) /\ rd'.valid = valid[NextSet(r)]
    BY <1>4 DEF AddressSetup, Read
  <2> QED BY <1>1, <1>2, <2>1 DEF NextSet, Placement, InFlight, PortFresh, MissAbsent
<1> QED BY <1>3, <1>4

\* A flush moves no line.
LEMMA FlushPlacement ==
  ASSUME TypeOK, Placement, FlushClean \/ FlushDirty \/ FlushBeat \/ FlushWritten
  PROVE  Placement'
<1>1. UNCHANGED <<tag, valid>>
  BY DEF FlushClean, FlushDirty, FlushBeat, FlushWritten, arrays
<1>2. curr' \in {"ADDRESS_SETUP", "FLUSH", "FLUSH_WRITEBACK"}
  BY DEF FlushClean, FlushDirty, FlushBeat, FlushWritten, AdvanceFlush
<1>3. bus' = "ADR_PHASE" \/ curr' = "FLUSH_WRITEBACK"
  BY DEF FlushClean, FlushDirty, FlushBeat, FlushWritten, BusRelease, Placement, InFlight,
         busVars
<1>4. InFlight' BY <1>2, <1>3 DEF InFlight
<1> QED BY <1>1, <1>2, <1>4, QuietPlacement
-----------------------------------------------------------------------------
LEMMA NextType == ASSUME TypeOK, InFlight, [Next]_vars PROVE TypeOK'
<1>1. CASE UNCHANGED vars
  BY <1>1 DEF TypeOK, vars, arrays, counters, busVars
<1>2. ASSUME NEW r \in Requests,
             \/ LoadHit(r) \/ StoreHit(r) \/ ZeroInPlace(r) \/ DropHit(r)
             \/ PassThrough(r) \/ AddressSetup(r)
      PROVE  TypeOK'
  BY <1>2, LoadHitType, StoreHitType, ZeroInPlaceType, DropHitType, PassThroughType,
     AddressSetupType
<1>3. CASE StartFetch \/ StartWriteback \/ StartFlush
  BY <1>3, StartFetchType, StartWritebackType, StartFlushType
<1>4. CASE WritebackBeat \/ EvictionDone \/ CMOWritebackDone \/ FetchBeat \/ FetchDone
  <2>1. MissHere
    BY <1>4, ModeAssumption
    DEF WritebackBeat, EvictionDone, CMOWritebackDone, FetchBeat, FetchDone, InFlight,
        MissHere, Reads, Writes, SomeClean
  <2> QED BY <1>4, <2>1, WritebackBeatType, EvictionDoneType, CMOWritebackDoneType,
             FetchBeatType, FetchDoneType
<1>5. CASE WriteLine BY <1>5, WriteLineType DEF WriteLine, InFlight
<1>6. CASE FlushClean \/ FlushDirty \/ FlushBeat \/ FlushWritten
  BY <1>6, FlushCleanType, FlushDirtyType, FlushBeatType, FlushWrittenType
<1>7. CASE Hold \/ Squash \/ LateTrap BY <1>7, HoldType, SquashType, LateTrapType
<1> QED BY <1>1, <1>2, <1>3, <1>4, <1>5, <1>6, <1>7 DEF Next, Advance

LEMMA InFlightStep == ASSUME TypeOK, InFlight, [Next]_vars PROVE InFlight'
<1> USE DEF InFlight
<1>1. CASE UNCHANGED vars BY <1>1 DEF vars, busVars, Reads, Writes, SomeClean
<1>2. ASSUME NEW r \in Requests,
             \/ LoadHit(r) \/ StoreHit(r) \/ ZeroInPlace(r) \/ DropHit(r)
             \/ PassThrough(r)
      PROVE  InFlight'
  BY <1>2 DEF LoadHit, StoreHit, ZeroInPlace, DropHit, PassThrough, Completes, busVars
<1>3. ASSUME NEW r \in Requests, AddressSetup(r) PROVE InFlight'
  BY <1>3 DEF AddressSetup, BusIdle, busVars
<1>4. CASE StartFetch BY <1>4 DEF StartFetch, AnyMiss, Reads, Writes
<1>5. CASE StartWriteback
  BY <1>5 DEF StartWriteback, AnyMiss, CMOWriteback, Reads, Writes, SomeClean
<1>6. CASE StartFlush \/ Hold \/ Squash
  BY <1>6 DEF StartFlush, Hold, Squash, busVars
<1>7. CASE WritebackBeat BY <1>7 DEF WritebackBeat, Reads, Writes, SomeClean
<1>8. CASE EvictionDone BY <1>8 DEF EvictionDone, Reads, Writes
<1>9. CASE FetchBeat BY <1>9 DEF FetchBeat, Reads, Writes
<1>10. CASE FetchDone BY <1>10 DEF FetchDone, BusRelease, Reads, Writes
<1>11. CASE CMOWritebackDone \/ LateTrap BY <1>11 DEF CMOWritebackDone, LateTrap, BusRelease
<1>12. CASE WriteLine BY <1>12 DEF WriteLine, BusIdle, busVars
<1>13. CASE FlushClean \/ FlushDirty \/ FlushBeat \/ FlushWritten
  BY <1>13 DEF FlushClean, FlushDirty, FlushBeat, FlushWritten, AdvanceFlush, BusRelease,
               busVars
<1> QED BY <1>1, <1>2, <1>3, <1>4, <1>5, <1>6, <1>7, <1>8, <1>9, <1>10, <1>11, <1>12, <1>13
        DEF Next, Advance

LEMMA NextPlacement ==
  ASSUME TypeOK, PlainProgram, Placement, [Next]_vars PROVE Placement'
<1>1. CASE UNCHANGED vars
  BY <1>1 DEF vars, arrays, counters, busVars, Placement, InFlight, PortFresh, MissAbsent,
              NoAlias, Holders, Here, Reads, Writes, SomeClean
<1>2. ASSUME NEW r \in Requests, LoadHit(r) \/ StoreHit(r) \/ PassThrough(r)
      PROVE  Placement'
  BY <1>2, HitPlacement DEF LoadHit, StoreHit, PassThrough, arrays
<1>3. ASSUME NEW r \in Requests, ZeroInPlace(r) PROVE Placement'
  BY <1>3, ZeroInPlacePlacement
<1>4. ASSUME NEW r \in Requests, DropHit(r) \/ AddressSetup(r) PROVE Placement'
  BY <1>4, DropHitPlacement, AddressSetupPlacement
<1>5. CASE StartFetch \/ StartWriteback \/ StartFlush
  BY <1>5, StartFetchPlacement, StartWritebackPlacement, StartFlushPlacement
<1>6. CASE WritebackBeat \/ EvictionDone \/ CMOWritebackDone \/ FetchBeat \/ FetchDone
  BY <1>6, WritebackBeatPlacement, EvictionDonePlacement, CMOWritebackDonePlacement,
     FetchBeatPlacement, FetchDonePlacement
<1>7. CASE WriteLine BY <1>7, WriteLinePlacement
<1>8. CASE FlushClean \/ FlushDirty \/ FlushBeat \/ FlushWritten
  BY <1>8, FlushPlacement
<1>9. CASE Hold \/ Squash \/ LateTrap
  BY <1>9, HoldPlacement, SquashPlacement, LateTrapPlacement
<1> QED BY <1>1, <1>2, <1>3, <1>4, <1>5, <1>6, <1>7, <1>8, <1>9 DEF Next, Advance

LEMMA PlacementInit == Init => Placement
BY DEF Init, Placement, InFlight, PortFresh, MissAbsent, NoAlias, Holders, Bubble, Locations
-----------------------------------------------------------------------------
(***************************************************************************)
(* Every register and array keeps its type, in every program and with      *)
(* every trap; a miss belongs to a request that can miss.                  *)
(***************************************************************************)
THEOREM TypeCorrect == Spec => [](TypeOK /\ InFlight)
<1>1. Init => TypeOK /\ InFlight BY TypeInit, PlacementInit DEF Placement
<1>2. TypeOK /\ InFlight /\ [Next]_vars => (TypeOK /\ InFlight)'
  BY NextType, InFlightStep
<1> QED BY <1>1, <1>2, PTL DEF Spec

(***************************************************************************)
(* What the controller decides on is what the arrays hold: the read ports  *)
(* show the set of the request, a line being fetched is in no way, and no  *)
(* line is in two, in a program that spaces its cache-management           *)
(* operations and uses cbo.zero only with a direct-mapped cache.           *)
(***************************************************************************)
THEOREM PlacementHolds == ASSUME PlainProgram PROVE Spec => []Placement
<1>1. Init => TypeOK /\ Placement BY TypeInit, PlacementInit
<1>2. TypeOK /\ Placement /\ [Next]_vars => (TypeOK /\ Placement)'
  BY NextType, NextPlacement DEF Placement
<1> QED BY <1>1, <1>2, PTL DEF Spec

(***************************************************************************)
(* "Exactly 1 way hits" (cachefsm.sv): whatever the replacement bits, the  *)
(* bus and late traps do, no line is in two ways, in such a program.       *)
(***************************************************************************)
THEOREM OneWayHits == ASSUME PlainProgram PROVE Spec => []NoAlias
<1>1. Spec => []Placement BY PlacementHolds
<1>2. Placement => NoAlias BY DEF Placement
<1> QED BY <1>1, <1>2, PTL
=============================================================================
