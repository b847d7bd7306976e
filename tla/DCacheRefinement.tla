-------------------------- MODULE DCacheRefinement --------------------------
(***************************************************************************)
(* The data cache is a memory: the module proves that DCache implements    *)
(* module Memory, and what that rests on, for every size.                  *)
(***************************************************************************)
EXTENDS DCacheProofs

Matches(s, w) == data[s][w] = mem[<<tag[s][w], s>>]

\* The read ports show set s.
Shows(s) ==
  rd = [tag |-> s, data |-> s, valid |-> valid[s], dirty |-> dirty[s], lru |-> lru[s]]

\* The ports in ACCESS: the data port matters to the requests that read, the
\* replacement port to the requests that miss.
PortsShow ==
  /\ curr = "ACCESS" /\ req.op \notin {"none", "fence"} =>
       /\ rd.dirty = dirty[req.set]
       /\ Reads => rd.data = req.set
       /\ AnyMiss => rd.lru = lru[req.set]
  /\ curr \in {"FETCH", "WRITEBACK", "WRITE_LINE"} => Shows(req.set)
  /\ curr \in {"FLUSH", "FLUSH_WRITEBACK"} => Shows(flushAdr)

\* Which state a burst belongs to.
BusFits ==
  /\ bus = "CACHE_FETCH" => curr = "FETCH"
  /\ bus = "CACHE_WRITEBACK" => curr \in {"WRITEBACK", "FLUSH_WRITEBACK"}
  /\ curr \in {"FLUSH", "FLUSH_WRITEBACK"} => IsFence

\* A write burst takes one valid line, and memory has it up to the beat.
BurstSet  == IF curr = "FLUSH_WRITEBACK" THEN flushAdr ELSE req.set
BurstWays == IF curr = "FLUSH_WRITEBACK" THEN {flushWay} ELSE WritebackWays

BurstHeld ==
  curr \in {"WRITEBACK", "FLUSH_WRITEBACK"} =>
    \E w \in Ways : BurstWays = {w} /\ valid[BurstSet][w]
Written ==
  bus = "CACHE_WRITEBACK" =>
    \A w \in BurstWays : \A k \in Words : k <= beat =>
      mem[<<tag[BurstSet][w], BurstSet>>][k] = data[BurstSet][w][k]

\* The fetch buffer has memory's words up to the beat, and then the line.
Fetched ==
  /\ bus = "CACHE_FETCH" => \A k \in Words : k < beat => buf[k] = mem[Here][k]
  /\ curr = "WRITE_LINE" => buf = mem[Here]

\* A way that a fetch is about to fill holds nothing memory does not have.
VictimWritten ==
  curr \in {"FETCH", "WRITE_LINE"} =>
    ~valid[req.set][VictimWay] \/ Matches(req.set, VictimWay)

\* What has been established when a request leaves through ADDRESS_SETUP.
SetupAgrees ==
  curr = "ADDRESS_SETUP" =>
    /\ req.op = "load" => buf[req.word] = Visible[Here][req.word]
    /\ SomeClean => mem[Here] = Visible[Here]
    /\ req.op = "clean" => Holders(Here) = {}

Coherent ==
  /\ PortsShow /\ BusFits /\ BurstHeld /\ Written /\ Fetched /\ VictimWritten
  /\ CleanMatchesMemory /\ SetupAgrees

\* The flush counters are zero outside of a flush, and in a flush nothing dirty
\* is behind them.
DirtyLine(s, w) == valid[s][w] /\ dirty[s][w]
FlushProgress ==
  /\ curr \notin {"FLUSH", "FLUSH_WRITEBACK"} => flushAdr = 0 /\ flushWay = 0
  /\ curr \in {"FLUSH", "FLUSH_WRITEBACK"} =>
       \A s \in SetIdx, w \in Ways :
         s < flushAdr \/ (s = flushAdr /\ w < flushWay) => ~DirtyLine(s, w)
  /\ curr = "FLUSH_WRITEBACK" => ~DirtyLine(flushAdr, flushWay)
  /\ curr = "ADDRESS_SETUP" /\ IsFence =>
       \A s \in SetIdx, w \in Ways : ~DirtyLine(s, w)
-----------------------------------------------------------------------------
(***************************************************************************)
(* What a load returns, by cases on the ways.                              *)
(***************************************************************************)
LEMMA VisibleHeld ==
  ASSUME NoAlias, NEW a \in Locations, NEW w \in Holders(a)
  PROVE  Visible[a] = data[a[2]][w]
<1>1. (CHOOSE v \in Holders(a) : TRUE) \in Holders(a) OBVIOUS
<1>2. (CHOOSE v \in Holders(a) : TRUE) = w BY <1>1 DEF NoAlias
<1> QED BY <1>2 DEF Visible

LEMMA VisibleHeldNext ==
  ASSUME NoAlias', NEW a \in Locations, NEW w \in Holders(a)'
  PROVE  Visible'[a] = data'[a[2]][w]
<1>1. (CHOOSE v \in Holders(a)' : TRUE) \in Holders(a)' OBVIOUS
<1>2. (CHOOSE v \in Holders(a)' : TRUE) = w BY <1>1 DEF NoAlias
<1> QED BY <1>2 DEF Visible

LEMMA VisibleFree ==
  ASSUME NEW a \in Locations, Holders(a) = {} PROVE Visible[a] = mem[a]
BY DEF Visible

LEMMA VisibleFreeNext ==
  ASSUME NEW a \in Locations, Holders(a)' = {} PROVE Visible'[a] = mem'[a]
BY DEF Visible

LEMMA VisibleType == ASSUME TypeOK PROVE Visible \in [Locations -> Line]
<1>1. SUFFICES ASSUME NEW a \in Locations
               PROVE  (IF Holders(a) = {} THEN mem[a]
                       ELSE data[a[2]][CHOOSE w \in Holders(a) : TRUE]) \in Line
  BY DEF Visible
<1>2. a[2] \in SetIdx BY DEF Locations
<1>3. CASE Holders(a) = {} BY <1>3 DEF TypeOK
<1>4. CASE Holders(a) # {}
  <2>1. (CHOOSE w \in Holders(a) : TRUE) \in Ways BY <1>4 DEF Holders
  <2> QED BY <1>2, <1>4, <2>1 DEF TypeOK
<1> QED BY <1>3, <1>4

LEMMA VisibleDomain == DOMAIN Visible = Locations /\ DOMAIN Visible' = Locations
BY DEF Visible

\* The way of a valid line is the holder of its address.
LEMMA Holding ==
  ASSUME TypeOK, NEW s \in SetIdx, NEW w \in Ways, valid[s][w]
  PROVE  <<tag[s][w], s>> \in Locations /\ w \in Holders(<<tag[s][w], s>>)
BY DEF TypeOK, Locations, Holders

LEMMA HolderIs ==
  ASSUME NEW a \in Locations, NEW w \in Holders(a)
  PROVE  /\ w \in Ways /\ a[1] \in Tags /\ a[2] \in SetIdx
         /\ valid[a[2]][w] /\ tag[a[2]][w] = a[1] /\ a = <<tag[a[2]][w], a[2]>>
BY DEF Locations, Holders

\* A line that matches is what a load returns.
LEMMA MatchVisible ==
  ASSUME NoAlias, NEW a \in Locations, \A w \in Holders(a) : Matches(a[2], w)
  PROVE  Visible[a] = mem[a]
<1>1. CASE Holders(a) = {} BY <1>1, VisibleFree
<1>2. ASSUME NEW w \in Holders(a) PROVE Visible[a] = mem[a]
  BY <1>2, VisibleHeld, HolderIs DEF Matches
<1> QED BY <1>1, <1>2

\* Nothing is lost in a cycle that leaves lines and memory alone.
LEMMA SameVisible ==
  ASSUME UNCHANGED <<tag, valid, data, mem>>
  PROVE  Visible' = Visible /\ \A s \in SetIdx, w \in Ways : Matches(s, w)' = Matches(s, w)
BY DEF Visible, Holders, Matches

\* A word of a held line is written to its own address.
WritesWord(s, w, k) ==
  mem' = [mem EXCEPT ![<<tag[s][w], s>>][k] = data[s][w][k]]

LEMMA WrittenWord ==
  ASSUME TypeOK, NEW s \in SetIdx, NEW w \in Ways, NEW k \in Words, WritesWord(s, w, k)
  PROVE  /\ mem'[<<tag[s][w], s>>][k] = data[s][w][k]
         /\ \A j \in Words : j # k => mem'[<<tag[s][w], s>>][j] = mem[<<tag[s][w], s>>][j]
         /\ \A a \in Locations : a # <<tag[s][w], s>> => mem'[a] = mem[a]
<1>1. <<tag[s][w], s>> \in Locations BY DEF TypeOK, Locations
<1> QED BY <1>1 DEF WritesWord, TypeOK, Line

\* It changes no load and spoils no clean line.
LEMMA WriteWordKeeps ==
  ASSUME TypeOK, NoAlias, NEW s \in SetIdx, NEW w \in Ways, valid[s][w],
         NEW k \in Words, WritesWord(s, w, k), UNCHANGED <<tag, valid, data>>
  PROVE  /\ Visible' = Visible
         /\ \A i \in SetIdx, v \in Ways : valid[i][v] /\ Matches(i, v) => Matches(i, v)'
<1> DEFINE here == <<tag[s][w], s>>
<1>1. here \in Locations /\ w \in Holders(here) BY Holding
<1>2. \A a \in Locations : a # here => mem'[a] = mem[a] BY WrittenWord
<1>3. ASSUME NEW i \in SetIdx, NEW v \in Ways, valid[i][v], Matches(i, v)
      PROVE  Matches(i, v)'
  <2>1. <<tag[i][v], i>> \in Locations /\ v \in Holders(<<tag[i][v], i>>) BY <1>3, Holding
  <2>2. CASE <<tag[i][v], i>> # here BY <1>2, <1>3, <2>1, <2>2 DEF Matches
  <2>3. CASE <<tag[i][v], i>> = here
    <3>1. v = w /\ i = s BY <1>1, <2>1, <2>3 DEF NoAlias
    <3>2. mem[here] = data[s][w] BY <1>3, <2>3, <3>1 DEF Matches
    <3>3. mem'[here] = [mem[here] EXCEPT ![k] = data[s][w][k]]
      BY <1>1 DEF WritesWord, TypeOK
    <3>4. mem[here] \in Line BY <1>1 DEF TypeOK
    <3>5. mem'[here] = mem[here] BY <3>2, <3>3, <3>4 DEF Line
    <3> QED BY <3>1, <3>2, <3>5, <2>3 DEF Matches
  <2> QED BY <2>2, <2>3
<1>4. ASSUME NEW a \in Locations PROVE Visible'[a] = Visible[a]
  <2>1. Holders(a)' = Holders(a) BY DEF Holders
  <2>2. CASE Holders(a) = {}
    <3>1. a # here BY <1>1, <2>2
    <3> QED BY <1>2, <2>1, <2>2, <3>1, VisibleFree, VisibleFreeNext
  <2>3. CASE Holders(a) # {} BY <2>1, <2>3 DEF Visible
  <2> QED BY <2>2, <2>3
<1>5. Visible' = Visible BY <1>4, VisibleDomain DEF Visible
<1> QED BY <1>3, <1>5
-----------------------------------------------------------------------------
(***************************************************************************)
(* The combinational signals, seen through ports that show what they       *)
(* should.                                                                 *)
(***************************************************************************)
LEMMA HitHolders ==
  ASSUME rd.tag = req.set, rd.valid = valid[req.set]
  PROVE  HitWays = Holders(Here)
BY DEF HitWays, Holders, Here

LEMMA ShowsHolders ==
  ASSUME Shows(req.set) PROVE HitWays = Holders(Here)
BY HitHolders DEF Shows

LEMMA SameVictim ==
  ASSUME rd'.valid = rd.valid, rd'.lru = rd.lru PROVE VictimWay' = VictimWay
BY DEF VictimWay

\* Nothing in a miss or a flush moves what the controller looks at.
LEMMA SamePorts ==
  ASSUME NEW s, Shows(s), Read(s, s), UNCHANGED <<arrays, req>>
  PROVE  /\ Shows(s)' /\ rd' = rd
         /\ VictimWay' = VictimWay /\ WritebackWays' = WritebackWays
<1>1. Shows(s)' BY DEF Shows, Read, arrays
<1>2. rd' = rd BY <1>1 DEF Shows, arrays
<1>3. VictimWay' = VictimWay BY <1>2, SameVictim
<1>4. WritebackWays' = WritebackWays
  BY <1>2, <1>3 DEF WritebackWays, HitWays, SomeClean, arrays
<1> QED BY <1>1, <1>2, <1>3, <1>4

LEMMA ReadOne ==
  ASSUME NEW w PROVE ReadTag({w}) = tag[rd.tag][w] /\ ReadLine({w}) = data[rd.data][w]
<1>1. (CHOOSE v \in {w} : TRUE) = w OBVIOUS
<1> QED BY <1>1 DEF ReadTag, ReadLine

\* Ports that show the set are read as the arrays are.
LEMMA ReadShown ==
  ASSUME NEW s, NEW w, Shows(s)
  PROVE  ReadTag({w}) = tag[s][w] /\ ReadLine({w}) = data[s][w]
BY ReadOne DEF Shows

LEMMA BurstSetType ==
  ASSUME TypeOK, Placement, curr \in {"WRITEBACK", "FLUSH_WRITEBACK"}
  PROVE  BurstSet \in SetIdx
<1>1. curr = "WRITEBACK" => MissHere
  BY ModeAssumption DEF Placement, InFlight, MissHere, Reads, Writes, SomeClean
<1> QED BY <1>1, HereType DEF BurstSet, TypeOK

\* A burst that has been acknowledged has written its line.
LEMMA BurstComplete ==
  ASSUME TypeOK, Placement, BusFits, Written, WriteAck, NEW w \in Ways, w \in BurstWays
  PROVE  Matches(BurstSet, w)
<1>1. BurstSet \in SetIdx BY BurstSetType DEF BusFits, WriteAck
<1>2. \A k \in Words : mem[<<tag[BurstSet][w], BurstSet>>][k] = data[BurstSet][w][k]
  <2>1. \A k \in Words : k <= beat BY SizeAssumption DEF WriteAck, LastBeat, Words
  <2> QED BY <2>1 DEF Written, WriteAck
<1>3. mem[<<tag[BurstSet][w], BurstSet>>] \in Line /\ data[BurstSet][w] \in Line
  BY <1>1 DEF TypeOK, Locations
<1> QED BY <1>2, <1>3 DEF Matches, Line
-----------------------------------------------------------------------------
(***************************************************************************)
(* Cycles that end in ACCESS.                                              *)
(***************************************************************************)
LEMMA IntoAccess ==
  ASSUME curr' = "ACCESS", bus' = "ADR_PHASE", PortsShow', CleanMatchesMemory'
  PROVE  Coherent'
BY DEF Coherent, BusFits, BurstHeld, Written, Fetched, VictimWritten, SetupAgrees

\* Outside of ACCESS lines and memory that stay put stay clean.
LEMMA SameClean ==
  ASSUME CleanMatchesMemory, curr # "FLUSH_WRITEBACK", UNCHANGED <<tag, dirty, data, mem>>,
         \A s \in SetIdx, w \in Ways : valid'[s][w] => valid[s][w]
  PROVE  CleanMatchesMemory'
BY DEF CleanMatchesMemory

\* The ports show the request that enters.
LEMMA CompletesShow ==
  ASSUME TypeOK, PlainProgram, NEW r \in Requests, Completes(r)
  PROVE  PortsShow' /\ curr' = "ACCESS" /\ UNCHANGED busVars
<1>1. curr' = "ACCESS" /\ req' = r /\ UNCHANGED busVars
  BY DEF Completes, Enter
<1>2. PortsShow'
  <2>1. CASE IsCMO
    <3>1. r = Bubble BY <2>1 DEF Completes, Enter, MayFollow, PlainProgram
    <3> QED BY <1>1, <3>1 DEF PortsShow, Bubble
  <2>2. CASE ~IsCMO
    <3>1. SUFFICES ASSUME r.op \notin {"none", "fence"}
                   PROVE  /\ rd'.dirty = dirty'[r.set] /\ rd'.lru = lru'[r.set]
                          /\ r.op \in {"load", "amo"} => rd'.data = r.set
      BY <1>1 DEF PortsShow, Reads
    <3>2. ~AnyMiss BY DEF Completes, StallConditions
    <3>3. AccessTagSet(r) = r.set
      BY <2>2, <3>1, <3>2 DEF AccessTagSet, NextSet
    <3>4. r.op \in {"load", "amo"} => AccessDataSet(r) = r.set
      BY <2>2, <3>1, <3>2 DEF AccessDataSet, NextSet, Completes, Enter, MayFollow
    <3> QED BY <3>3, <3>4 DEF Completes, Read
  <2> QED BY <2>1, <2>2
<1> QED BY <1>1, <1>2

LEMMA LoadHitCoherent ==
  ASSUME TypeOK, PlainProgram, Placement, Coherent, NEW r \in Requests,
         LoadHit(r) \/ PassThrough(r)
  PROVE  Coherent' /\ Visible' = Visible
<1>1. Completes(r) /\ UNCHANGED <<tag, valid, dirty, data>>
  BY DEF LoadHit, PassThrough, arrays
<1>2. PortsShow' /\ curr' = "ACCESS" /\ UNCHANGED busVars BY <1>1, CompletesShow
<1>3. bus' = "ADR_PHASE" /\ mem' = mem
  BY <1>1, <1>2 DEF busVars, Completes, Placement, InFlight
<1>4. curr # "FLUSH_WRITEBACK" BY <1>1 DEF Completes
<1>5. CleanMatchesMemory' BY <1>1, <1>3, <1>4, SameClean DEF Coherent
<1> QED BY <1>1, <1>2, <1>3, <1>5, IntoAccess, SameVisible

\* A cycle of ACCESS sees the ways that hold the line.
LEMMA AccessHits ==
  ASSUME Placement, Coherent, curr = "ACCESS", req.op \notin {"none", "fence"}
  PROVE  HitWays = Holders(Here) /\ rd.valid = valid[req.set] /\ rd.dirty = dirty[req.set]
BY HitHolders DEF Placement, PortFresh, Coherent, PortsShow

\* What changes in one line.
LEMMA OneLineChanges ==
  ASSUME NEW h \in Locations, NEW l,
         \A a \in Locations : a # h => Visible'[a] = Visible[a], Visible'[h] = l
  PROVE  Visible' = [Visible EXCEPT ![h] = l]
<1> DEFINE before(a) == IF Holders(a) = {} THEN mem[a]
                        ELSE data[a[2]][CHOOSE w \in Holders(a) : TRUE]
           after(a)  == before(a)'
<1>1. Visible = [a \in Locations |-> before(a)] BY DEF Visible
<1>2. Visible' = [a \in Locations |-> Visible'[a]]
  BY DEF Visible
<1> HIDE DEF before
<1> QED BY <1>1, <1>2

\* A store that hits changes the word it names, and marks the line dirty.
LEMMA StoreHitCoherent ==
  ASSUME TypeOK, PlainProgram, Placement, Coherent, NEW r \in Requests, StoreHit(r)
  PROVE  Coherent' /\ Visible' = [Visible EXCEPT ![Here][req.word] = req.val]
<1>1. Completes(r) /\ Writes /\ UNCHANGED <<tag, valid>> BY DEF StoreHit
<1>2. PortsShow' /\ curr' = "ACCESS" /\ UNCHANGED busVars BY <1>1, CompletesShow
<1>3. bus' = "ADR_PHASE" /\ mem' = mem /\ curr = "ACCESS"
  BY <1>1, <1>2 DEF busVars, Completes, Placement, InFlight
<1>4. HitWays = Holders(Here) BY <1>1, <1>3, AccessHits DEF Writes
<1>5. Here \in Locations /\ req.set \in SetIdx /\ req.tag \in Tags
  BY <1>1, HereType DEF MissHere, Writes
<1>6. HitWays # {} BY <1>1 DEF Completes, StallConditions, AnyMiss, Hit
<1>7. \A s \in SetIdx, w \in Ways : s # req.set \/ w \notin HitWays =>
        dirty'[s][w] = dirty[s][w] /\ data'[s][w] = data[s][w]
  BY <1>5 DEF StoreHit, SetWays, TypeOK
<1>8. \A w \in HitWays : dirty'[req.set][w] = TRUE
                         /\ data'[req.set][w] = Merge(data[req.set][w])
  BY <1>5 DEF StoreHit, SetWays, TypeOK, HitWays
<1>9. CleanMatchesMemory'
  <2>1. SUFFICES ASSUME NEW s \in SetIdx, NEW w \in Ways, valid[s][w], ~dirty'[s][w]
                 PROVE  data'[s][w] = mem[<<tag[s][w], s>>]
    BY <1>1, <1>3 DEF CleanMatchesMemory
  <2>2. s # req.set \/ w \notin HitWays BY <1>8, <2>1
  <2> QED BY <1>3, <1>7, <2>1, <2>2 DEF Coherent, CleanMatchesMemory
<1>10. Holders(Here) \subseteq Ways /\ NoAlias BY DEF Holders, Placement
<1>11. NoAlias' BY <1>1, HitPlacement DEF Placement
<1>12. ASSUME NEW a \in Locations, a # Here PROVE Visible'[a] = Visible[a]
  <2>1. Holders(a)' = Holders(a) BY <1>1 DEF Holders
  <2>2. CASE Holders(a) = {}
    BY <1>3, <2>1, <2>2, VisibleFree, VisibleFreeNext
  <2>3. ASSUME NEW w \in Holders(a) PROVE Visible'[a] = Visible[a]
    <3>1. w \in Ways /\ a[2] \in SetIdx /\ (a[2] # req.set \/ w \notin HitWays)
      BY <1>4, <1>5, <1>12, HolderIs DEF Here
    <3> QED BY <1>7, <1>10, <1>11, <2>1, <3>1, VisibleHeld, VisibleHeldNext
  <2> QED BY <2>2, <2>3
<1>13. ASSUME NEW a \in Locations, a = Here PROVE Visible'[a] = Merge(Visible[a])
  <2>1. PICK w \in HitWays : TRUE BY <1>6
  <2>2. w \in Holders(a) /\ w \in Holders(a)' /\ a[2] = req.set
    BY <1>1, <1>4, <1>13, <2>1 DEF Holders, Here
  <2>3. Visible[a] = data[req.set][w] BY <1>10, <2>2, VisibleHeld
  <2>4. Visible'[a] = data'[req.set][w] BY <1>11, <2>2, VisibleHeldNext
  <2> QED BY <1>8, <2>1, <2>3, <2>4
<1>14. Visible' = [Visible EXCEPT ![Here][req.word] = req.val]
  BY <1>5, <1>12, <1>13, OneLineChanges DEF Merge
<1> QED BY <1>2, <1>3, <1>9, <1>14, IntoAccess

\* A cache-management operation that needs no bus has its line in memory, or the
\* line is not held.
LEMMA CleanHere ==
  ASSUME TypeOK, Placement, Coherent, curr = "ACCESS", SomeClean, ~CMOWriteback
  PROVE  Here \in Locations /\ Visible[Here] = mem[Here]
<1>1. Here \in Locations /\ req.set \in SetIdx BY HereType DEF MissHere, SomeClean
<1>2. HitWays = Holders(Here) /\ rd.valid = valid[req.set] /\ rd.dirty = dirty[req.set]
  BY AccessHits DEF SomeClean
<1>3. ASSUME NEW w \in Holders(Here) PROVE Matches(req.set, w)
  <2>1. w \in Ways /\ valid[req.set][w] BY <1>1, <1>3, HolderIs DEF Here
  <2>2. Hit /\ ~HitLineDirty BY <1>2, <1>3 DEF Hit, CMOWriteback
  <2>3. ~dirty[req.set][w] BY <1>2, <2>1, <2>2 DEF HitLineDirty
  <2> QED BY <1>1, <2>1, <2>3 DEF Coherent, CleanMatchesMemory, Matches
<1>4. Here[2] = req.set BY DEF Here
<1> QED BY <1>1, <1>3, <1>4, MatchVisible DEF Placement

\* Lines leave: each is in memory, or it is the one that may be lost.
LEMMA LinesLeave ==
  ASSUME NoAlias, NEW a \in Locations, UNCHANGED <<tag, data, mem>>, NoAlias',
         Holders(a)' = Holders(a) \/ (Holders(a)' = {} /\ Visible[a] = mem[a])
  PROVE  Visible'[a] = Visible[a]
<1>1. CASE Holders(a)' = {} /\ Visible[a] = mem[a] BY <1>1, VisibleFreeNext
<1>2. CASE Holders(a)' = Holders(a) /\ Holders(a) = {}
  BY <1>2, VisibleFree, VisibleFreeNext
<1>3. CASE Holders(a)' = Holders(a) /\ Holders(a) # {}
  <2>1. PICK w \in Holders(a) : TRUE BY <1>3
  <2> QED BY <1>3, <2>1, VisibleHeld, VisibleHeldNext
<1> QED BY <1>1, <1>2, <1>3

\* Clearing the valid bits of the ways that hit empties one line.
LEMMA HitsDropped ==
  ASSUME TypeOK, Here \in Locations, HitWays = Holders(Here),
         tag' = tag, valid' = SetWays(valid, req.set, HitWays, FALSE)
  PROVE  \A a \in Locations : Holders(a)' = IF a = Here THEN {} ELSE Holders(a)
<1>1. SUFFICES ASSUME NEW a \in Locations
               PROVE  Holders(a)' = IF a = Here THEN {} ELSE Holders(a)
  OBVIOUS
<1>2. a[2] \in SetIdx /\ a = <<a[1], a[2]>> /\ req.set \in SetIdx
  BY DEF Locations, Here
<1>3. \A w \in Ways :
        valid'[a[2]][w] <=> valid[a[2]][w] /\ ~(a[2] = req.set /\ w \in HitWays)
  BY <1>2 DEF SetWays, TypeOK, WayBits
<1>4. Holders(a)' = {w \in Ways : valid'[a[2]][w] /\ tag[a[2]][w] = a[1]}
  BY DEF Holders
<1>5. CASE a = Here
  <2>1. a[1] = req.tag /\ a[2] = req.set BY <1>5 DEF Here
  <2>2. \A w \in Ways : valid[a[2]][w] /\ tag[a[2]][w] = a[1] => w \in HitWays
    BY <1>5 DEF Holders
  <2> QED BY <1>3, <1>4, <1>5, <2>1, <2>2
<1>6. CASE a # Here
  <2>1. a[2] = req.set => \A w \in HitWays : tag[a[2]][w] # a[1]
    BY <1>2, <1>6 DEF Holders, Here
  <2> QED BY <1>3, <1>4, <1>6, <2>1 DEF Holders
<1> QED BY <1>5, <1>6

\* cbo.inval may lose what was stored, CMOpM[2] with nothing dirty loses nothing.
LEMMA DropHitCoherent ==
  ASSUME TypeOK, PlainProgram, Placement, Coherent, NEW r \in Requests, DropHit(r)
  PROVE  /\ Coherent'
         /\ req.op = "clean" => Visible' = Visible
         /\ req.op = "inval" => Visible' = [Visible EXCEPT ![Here] = mem[Here]]
<1>1. Completes(r) /\ UNCHANGED <<tag, data, dirty>> BY DEF DropHit
<1>2. PortsShow' /\ curr' = "ACCESS" /\ UNCHANGED busVars BY <1>1, CompletesShow
<1>3. bus' = "ADR_PHASE" /\ mem' = mem /\ curr = "ACCESS"
  BY <1>1, <1>2 DEF busVars, Completes, Placement, InFlight
<1>4. Here \in Locations /\ req.set \in SetIdx BY HereType DEF DropHit, MissHere
<1>5. HitWays = Holders(Here) BY <1>3, AccessHits DEF DropHit
<1>6. CleanMatchesMemory'
  BY <1>1, <1>3, <1>4, Invalidated, SameClean DEF DropHit, Coherent
<1>7. \A a \in Locations : Holders(a)' = IF a = Here THEN {} ELSE Holders(a)
  BY <1>1, <1>4, <1>5, HitsDropped DEF DropHit
<1>8. NoAlias /\ NoAlias' BY DropHitPlacement DEF Placement
<1>9. \A a \in Locations : a # Here => Visible'[a] = Visible[a]
  BY <1>1, <1>3, <1>7, <1>8, LinesLeave
<1>10. Visible'[Here] = mem[Here]
  <2>1. \A a \in Locations : a = Here => Visible'[a] = mem'[a]
    BY <1>7, VisibleFreeNext
  <2> QED BY <1>3, <1>4, <2>1
<1>11. Visible' = [Visible EXCEPT ![Here] = mem[Here]]
  BY <1>4, <1>9, <1>10, OneLineChanges
<1>12. req.op = "clean" => Visible[Here] = mem[Here]
  BY <1>1, <1>3, CleanHere DEF SomeClean, Completes, StallConditions
<1>13. req.op = "clean" => Visible' = Visible
  BY <1>11, <1>12, VisibleType
<1> QED BY <1>2, <1>3, <1>6, <1>11, <1>13, IntoAccess

\* A line is put into a way that held it, or whose line memory has.
LEMMA Installed ==
  ASSUME TypeOK, NoAlias, NoAlias', Here \in Locations, NEW v \in Ways, NEW l,
         tag' = SetWays(tag, req.set, {v}, req.tag),
         valid' = SetWays(valid, req.set, {v}, TRUE),
         data' = SetWays(data, req.set, {v}, l), mem' = mem,
         Holders(Here) \subseteq {v},
         v \in Holders(Here) \/ ~valid[req.set][v] \/ Matches(req.set, v)
  PROVE  /\ Visible' = [Visible EXCEPT ![Here] = l]
         /\ tag'[req.set][v] = req.tag /\ data'[req.set][v] = l
         /\ \A s \in SetIdx, w \in Ways : s # req.set \/ w # v =>
              valid'[s][w] = valid[s][w] /\ tag'[s][w] = tag[s][w] /\ data'[s][w] = data[s][w]
<1>1. req.set \in SetIdx /\ req.tag \in Tags BY DEF Here, Locations
<1>t. \A s \in SetIdx, w \in Ways : tag'[s][w] = IF s = req.set /\ w = v THEN req.tag ELSE tag[s][w]
  <2>1. tag \in [SetIdx -> [Ways -> Tags]] BY DEF TypeOK
  <2> QED BY <1>1, <2>1 DEF SetWays
<1>v. \A s \in SetIdx, w \in Ways : valid'[s][w] = IF s = req.set /\ w = v THEN TRUE ELSE valid[s][w]
  <2>1. valid \in [SetIdx -> [Ways -> BOOLEAN]] BY DEF TypeOK, WayBits
  <2> QED BY <1>1, <2>1 DEF SetWays
<1>d. \A s \in SetIdx, w \in Ways : data'[s][w] = IF s = req.set /\ w = v THEN l ELSE data[s][w]
  <2>1. data \in [SetIdx -> [Ways -> Line]] BY DEF TypeOK
  <2> QED BY <1>1, <2>1 DEF SetWays
<1>2. \A s \in SetIdx, w \in Ways : s # req.set \/ w # v =>
        valid'[s][w] = valid[s][w] /\ tag'[s][w] = tag[s][w] /\ data'[s][w] = data[s][w]
  BY <1>t, <1>v, <1>d
<1>3. valid'[req.set][v] /\ tag'[req.set][v] = req.tag /\ data'[req.set][v] = l
  BY <1>1, <1>t, <1>v, <1>d
<1>4. ASSUME NEW a \in Locations, a = Here PROVE Visible'[a] = l
  <2>1. a[1] = req.tag /\ a[2] = req.set BY <1>4 DEF Here
  <2>2. v \in Holders(a)' BY <1>3, <2>1 DEF Holders
  <2>3. Visible'[a] = data'[a[2]][v] BY <2>2, VisibleHeldNext
  <2> QED BY <1>3, <2>1, <2>3
<1>5. ASSUME NEW a \in Locations, a # Here PROVE Visible'[a] = Visible[a]
  <2>1. a[2] \in SetIdx /\ a = <<a[1], a[2]>> BY DEF Locations
  <2>2. ~(a[1] = req.tag /\ a[2] = req.set) BY <1>5, <2>1 DEF Here
  <2>3. \A w \in Ways : w \in Holders(a)' <=> w \in Holders(a) /\ (a[2] # req.set \/ w # v)
    BY <1>2, <1>3, <2>1, <2>2, ZenonT(40) DEF Holders
  <2>4. CASE Holders(a) = {}
    <3>1. Holders(a)' = {} BY <2>3, <2>4 DEF Holders
    <3> QED BY <2>4, <3>1, VisibleFree, VisibleFreeNext
  <2>5. ASSUME NEW w \in Holders(a), a[2] # req.set \/ w # v
        PROVE  Visible'[a] = Visible[a]
    <3>1. w \in Ways /\ w \in Holders(a)' BY <2>3, <2>5, HolderIs
    <3>2. Visible[a] = data[a[2]][w] BY <2>5, VisibleHeld
    <3>3. Visible'[a] = data'[a[2]][w] BY <3>1, VisibleHeldNext
    <3>4. data'[a[2]][w] = data[a[2]][w] BY <1>2, <2>1, <2>5, <3>1
    <3> QED BY <3>2, <3>3, <3>4
  <2>6. ASSUME NEW u \in Holders(a), a[2] = req.set, u = v
        PROVE  Visible'[a] = Visible[a]
    <3>1. v \notin Holders(Here)
      BY <1>1, <2>2, <2>6, HolderIs DEF Holders, Here
    <3>2. valid[a[2]][v] /\ a = <<tag[a[2]][v], a[2]>> BY <2>6, HolderIs
    <3>3. Visible[a] = mem[a]
      BY <2>6, <3>1, <3>2, VisibleHeld DEF Matches
    <3>4. \A w \in Ways : w \in Holders(a) => w = v BY <2>6 DEF NoAlias
    <3>5. Holders(a)' \subseteq Ways BY DEF Holders
    <3>6. \A w \in Ways : w \notin Holders(a)' BY <2>3, <2>6, <3>4
    <3>7. Holders(a)' = {} BY <3>5, <3>6, Zenon
    <3>8. Visible'[a] = mem'[a] BY <3>7, VisibleFreeNext
    <3>9. mem' = mem OBVIOUS
    <3> QED BY <3>3, <3>8, <3>9, Zenon
  <2>7. CASE Holders(a) # {}
    <3>1. PICK w \in Holders(a) : TRUE BY <2>7
    <3>2. CASE a[2] # req.set \/ w # v BY <3>2, <2>5
    <3>3. CASE a[2] = req.set /\ w = v BY <3>3, <2>6
    <3> QED BY <3>2, <3>3
  <2> QED BY <2>4, <2>7
<1>6. Visible' = [Visible EXCEPT ![Here] = l]
  <2>1. \A a \in Locations : Visible'[a] = IF a = Here THEN l ELSE Visible[a] BY <1>4, <1>5
  <2> QED BY <2>1, OneLineChanges
<1> QED BY <1>2, <1>3, <1>6

LEMMA ZeroHere ==
  ASSUME TypeOK, req.op = "zero" PROVE Here \in Locations /\ MissHere
BY HereType DEF MissHere

\* A line marked dirty need not be in memory.
LEMMA InstalledClean ==
  ASSUME TypeOK, CleanMatchesMemory, curr # "FLUSH_WRITEBACK", req.set \in SetIdx,
         NEW v \in Ways, mem' = mem,
         \A s \in SetIdx, w \in Ways : s # req.set \/ w # v =>
           /\ valid'[s][w] = valid[s][w] /\ tag'[s][w] = tag[s][w]
           /\ data'[s][w] = data[s][w] /\ dirty'[s][w] = dirty[s][w],
         dirty'[req.set][v] \/ data'[req.set][v] = mem[<<tag'[req.set][v], req.set>>]
  PROVE  CleanMatchesMemory'
<1>1. SUFFICES ASSUME NEW s \in SetIdx, NEW w \in Ways, valid'[s][w], ~dirty'[s][w]
               PROVE  data'[s][w] = mem[<<tag'[s][w], s>>]
  BY DEF CleanMatchesMemory
<1>2. CASE s = req.set /\ w = v BY <1>1, <1>2
<1>3. CASE s # req.set \/ w # v BY <1>1, <1>3 DEF CleanMatchesMemory
<1> QED BY <1>2, <1>3

\* cbo.zero zeroes its line, over a victim that is clean or written.
LEMMA ZeroInstalled ==
  ASSUME TypeOK, Placement, Placement', CleanMatchesMemory, curr # "FLUSH_WRITEBACK",
         req.op = "zero", Ways = {0}, InstallZero({0}), mem' = mem,
         ~valid[req.set][0] \/ Matches(req.set, 0) \/ Holders(Here) # {}
  PROVE  CleanMatchesMemory' /\ Visible' = [Visible EXCEPT ![Here] = BlankLine]
<1>1. Here \in Locations /\ req.set \in SetIdx BY ZeroHere, HereType
<1>2. Holders(Here) \subseteq {0} BY DEF Holders
<1>3. 0 \in Holders(Here) \/ ~valid[req.set][0] \/ Matches(req.set, 0) BY <1>2
<1>4. NoAlias /\ NoAlias' BY DEF Placement
<1>5. /\ Visible' = [Visible EXCEPT ![Here] = BlankLine]
      /\ \A s \in SetIdx, w \in Ways : s # req.set \/ w # 0 =>
           valid'[s][w] = valid[s][w] /\ tag'[s][w] = tag[s][w] /\ data'[s][w] = data[s][w]
  BY <1>1, <1>2, <1>3, <1>4, Installed DEF InstallZero
<1>6. \A s \in SetIdx, w \in Ways : s # req.set \/ w # 0 => dirty'[s][w] = dirty[s][w]
  BY <1>1 DEF InstallZero, SetWays, TypeOK
<1>7. dirty'[req.set][0] BY <1>1 DEF InstallZero, SetWays, TypeOK
<1> QED BY <1>1, <1>5, <1>6, <1>7, InstalledClean

LEMMA ZeroInPlaceCoherent ==
  ASSUME TypeOK, PlainProgram, Placement, Coherent, NEW r \in Requests, ZeroInPlace(r)
  PROVE  Coherent' /\ Visible' = [Visible EXCEPT ![Here] = BlankLine]
<1>1. Completes(r) /\ req.op = "zero" BY DEF ZeroInPlace, CMOZeroNoEviction
<1>2. PortsShow' /\ curr' = "ACCESS" /\ UNCHANGED busVars BY <1>1, CompletesShow
<1>3. bus' = "ADR_PHASE" /\ mem' = mem /\ curr = "ACCESS"
  BY <1>1, <1>2 DEF busVars, Completes, Placement, InFlight
<1>4. Ways = {0} BY <1>1, ZeroIsDirect
<1>5. Placement' BY ZeroInPlacePlacement
<1>6. VictimWay = 0 BY <1>4, VictimType
<1>7. HitWays = Holders(Here) /\ rd.valid = valid[req.set] /\ rd.dirty = dirty[req.set]
  BY <1>1, <1>3, AccessHits
<1>8. (IF Hit THEN HitWays ELSE {VictimWay}) = {0} BY <1>4, <1>6 DEF Hit, HitWays
<1>9. req.set \in SetIdx BY <1>1, ZeroHere, HereType
<1>10. ~valid[req.set][0] \/ ~dirty[req.set][0]
  BY <1>6, <1>7, <1>1 DEF ZeroInPlace, CMOZeroNoEviction, LineDirty, IsFence
<1>11. ~valid[req.set][0] \/ Matches(req.set, 0)
  BY <1>3, <1>4, <1>9, <1>10 DEF Coherent, CleanMatchesMemory, Matches
<1>12. CleanMatchesMemory' /\ Visible' = [Visible EXCEPT ![Here] = BlankLine]
  BY <1>1, <1>3, <1>4, <1>5, <1>8, <1>11, ZeroInstalled DEF ZeroInPlace, Coherent
<1> QED BY <1>2, <1>3, <1>12, IntoAccess

LEMMA HoldCoherent ==
  ASSUME TypeOK, Placement, Coherent, Hold PROVE Coherent' /\ Visible' = Visible
<1>1. UNCHANGED <<curr, arrays, req, busVars>> /\ curr = "ACCESS" BY DEF Hold
<1>2. rd'.tag = rd.tag /\ rd'.valid = rd.valid /\ rd'.dirty = rd.dirty
      /\ rd'.data = rd.data
  BY DEF Hold, TypeOK
<1>3. ~AnyMiss' BY <1>1, <1>2
                DEF Hold, StallConditions, AnyMiss, Hit, HitWays, Reads, Writes, arrays
<1>4. PortsShow' BY <1>1, <1>2, <1>3 DEF PortsShow, Coherent, Reads, arrays
<1>5. UNCHANGED <<tag, valid, dirty, data, mem>> /\ bus' = "ADR_PHASE"
  BY <1>1 DEF arrays, busVars, Placement, InFlight
<1>6. CleanMatchesMemory' BY <1>1, <1>5, SameClean DEF Coherent
<1> QED BY <1>1, <1>4, <1>5, <1>6, IntoAccess, SameVisible

LEMMA SquashCoherent ==
  ASSUME TypeOK, Placement, Coherent, Squash PROVE Coherent' /\ Visible' = Visible
<1>1. UNCHANGED <<curr, arrays, busVars>> /\ curr = "ACCESS" /\ req' = Bubble BY DEF Squash
<1>2. PortsShow' BY <1>1 DEF PortsShow, Bubble
<1>3. UNCHANGED <<tag, valid, dirty, data, mem>> /\ bus' = "ADR_PHASE"
  BY <1>1 DEF arrays, busVars, Placement, InFlight
<1>4. CleanMatchesMemory' BY <1>1, <1>3, SameClean DEF Coherent
<1> QED BY <1>1, <1>2, <1>3, <1>4, IntoAccess, SameVisible

LEMMA AddressSetupCoherent ==
  ASSUME TypeOK, Placement, Coherent, NEW r \in Requests, AddressSetup(r)
  PROVE  Coherent' /\ Visible' = Visible
<1>1. /\ UNCHANGED <<tag, valid, dirty, data, lru, mem>> /\ curr = "ADDRESS_SETUP"
      /\ curr' = "ACCESS" /\ bus' = "ADR_PHASE" /\ req' = r
  BY DEF AddressSetup, Enter, BusIdle, arrays, busVars
<1>2. PortsShow'
  <2>1. CASE IsFence
    BY <1>1, <2>1 DEF AddressSetup, Enter, MayFollow, PortsShow, Bubble
  <2>2. CASE ~IsFence BY <1>1, <2>2 DEF AddressSetup, Read, NextSet, PortsShow
  <2> QED BY <2>1, <2>2
<1>3. CleanMatchesMemory' BY <1>1, SameClean DEF Coherent
<1> QED BY <1>1, <1>2, <1>3, IntoAccess, SameVisible
-----------------------------------------------------------------------------
(***************************************************************************)
(* Write bursts.                                                           *)
(***************************************************************************)
\* Memory after a beat of the line in way w of set s.
LEMMA BeatKeeps ==
  ASSUME TypeOK, NoAlias, CleanMatchesMemory, NEW s \in SetIdx, NEW w \in Ways,
         valid[s][w], NEW k \in Words, WritesWord(s, w, k),
         UNCHANGED <<tag, valid, data, dirty>>,
         curr = "FLUSH_WRITEBACK" => curr' = curr /\ UNCHANGED counters
  PROVE  CleanMatchesMemory' /\ Visible' = Visible
<1>1. /\ Visible' = Visible
      /\ \A i \in SetIdx, v \in Ways : valid[i][v] /\ Matches(i, v) => Matches(i, v)'
  BY WriteWordKeeps
<1>2. CleanMatchesMemory'
  BY <1>1 DEF CleanMatchesMemory, Matches, counters
<1> QED BY <1>1, <1>2

\* What the bus is given in the cycles of a burst.
LEMMA BurstWord ==
  ASSUME TypeOK, Placement, Coherent, curr \in {"WRITEBACK", "FLUSH_WRITEBACK"}
  PROVE  /\ BurstSet \in SetIdx
         /\ \E w \in Ways : /\ BurstWays = {w} /\ valid[BurstSet][w]
                            /\ ReadTag(BurstWays) = tag[BurstSet][w]
                            /\ ReadLine(BurstWays) = data[BurstSet][w]
<1>1. BurstSet \in SetIdx BY BurstSetType
<1>2. Shows(BurstSet) BY DEF Coherent, PortsShow, BurstSet
<1>3. PICK w \in Ways : BurstWays = {w} /\ valid[BurstSet][w]
  BY DEF Coherent, BurstHeld
<1> QED BY <1>1, <1>2, <1>3, ReadShown

LEMMA LateTrapCoherent ==
  ASSUME TypeOK, Placement, Coherent, LateTrap PROVE Coherent' /\ Visible' = Visible
<1>1. /\ curr' = "ACCESS" /\ bus' = "ADR_PHASE" /\ req' = Bubble
      /\ UNCHANGED <<tag, valid, dirty, data>>
      /\ curr \in MissStates
  BY ModeAssumption DEF LateTrap, BusRelease
<1>2. PortsShow' BY <1>1 DEF PortsShow, Bubble
<1>3. CleanMatchesMemory' /\ Visible' = Visible
  <2>1. CASE mem' = mem
    BY <1>1, <2>1, SameClean, SameVisible DEF Coherent, MissStates
  <2>2. CASE /\ bus = "CACHE_WRITEBACK" /\ ~LastBeat
             /\ mem' = [mem EXCEPT ![<<ReadTag(WritebackWays), req.set>>][beat + 1]
                                     = ReadLine(WritebackWays)[beat + 1]]
    <3>1. curr = "WRITEBACK" BY <1>1, <2>2 DEF Coherent, BusFits, MissStates
    <3>2. BurstSet = req.set /\ BurstWays = WritebackWays
      BY <3>1 DEF BurstSet, BurstWays
    <3>3. beat + 1 \in Words BY <2>2, NextBeat DEF TypeOK
    <3>4. PICK w \in Ways : /\ valid[req.set][w]
                            /\ ReadTag(BurstWays) = tag[req.set][w]
                            /\ ReadLine(BurstWays) = data[req.set][w]
      BY <3>1, <3>2, BurstWord
    <3>5. req.set \in SetIdx BY <3>1, <3>2, BurstWord
    <3>6. WritesWord(req.set, w, beat + 1)
      BY <2>2, <3>2, <3>4 DEF WritesWord
    <3> QED BY <1>1, <3>1, <3>3, <3>4, <3>5, <3>6, BeatKeeps DEF Placement, Coherent
  <2> QED BY <2>1, <2>2 DEF LateTrap
<1> QED BY <1>1, <1>2, <1>3, IntoAccess

\* A beat of a burst that is under way or starts.
LEMMA BurstBeat ==
  ASSUME TypeOK, Placement, Coherent, curr \in {"WRITEBACK", "FLUSH_WRITEBACK"},
         UNCHANGED <<curr, arrays, counters, req>>, Read(BurstSet, BurstSet),
         \/ bus = "ADR_PHASE"
            /\ StartWrite(<<ReadTag(BurstWays), BurstSet>>, ReadLine(BurstWays))
         \/ NextWriteBeat(<<ReadTag(BurstWays), BurstSet>>, ReadLine(BurstWays))
  PROVE  Coherent' /\ Visible' = Visible
<1>1. BurstSet \in SetIdx BY BurstWord
<1>2. PICK w \in Ways : /\ BurstWays = {w} /\ valid[BurstSet][w]
                        /\ ReadTag(BurstWays) = tag[BurstSet][w]
                        /\ ReadLine(BurstWays) = data[BurstSet][w]
  BY BurstWord
<1>3. Shows(BurstSet) BY DEF Coherent, PortsShow, BurstSet
<1>4. /\ Shows(BurstSet)' /\ WritebackWays' = WritebackWays
      /\ BurstSet' = BurstSet /\ BurstWays' = BurstWays
  <2>1. BurstSet' = BurstSet BY DEF BurstSet, counters
  <2>2. PICK s : s = BurstSet OBVIOUS
  <2>3. Shows(s)' /\ WritebackWays' = WritebackWays BY <1>3, <2>2, SamePorts
  <2>4. Shows(BurstSet)' BY <2>1, <2>2, <2>3 DEF Shows
  <2> QED BY <2>1, <2>3, <2>4 DEF BurstWays, counters
<1>5. UNCHANGED <<tag, valid, dirty, data, lru>> BY DEF arrays
<1>6. PICK k \in Words : /\ WritesWord(BurstSet, w, k) /\ beat' = k
                         /\ bus' = "CACHE_WRITEBACK"
                         /\ k # 0 => bus = "CACHE_WRITEBACK" /\ k = beat + 1
  <2>1. CASE bus = "ADR_PHASE"
             /\ StartWrite(<<ReadTag(BurstWays), BurstSet>>, ReadLine(BurstWays))
    BY <1>2, <2>1, SetsAndWays DEF StartWrite, WritesWord
  <2>2. CASE NextWriteBeat(<<ReadTag(BurstWays), BurstSet>>, ReadLine(BurstWays))
    <3>1. beat + 1 \in Words BY <2>2, NextBeat DEF TypeOK, NextWriteBeat
    <3> QED BY <1>2, <2>2, <3>1 DEF NextWriteBeat, WritesWord
  <2> QED BY <2>1, <2>2
<1>7. CleanMatchesMemory' /\ Visible' = Visible
  BY <1>1, <1>2, <1>5, <1>6, BeatKeeps DEF Placement, Coherent
<1>8. Written'
  <2>1. SUFFICES ASSUME NEW j \in Words, j <= k
                 PROVE  mem'[<<tag[BurstSet][w], BurstSet>>][j] = data[BurstSet][w][j]
    BY <1>2, <1>4, <1>5, <1>6 DEF Written
  <2>2. CASE j = k BY <1>1, <1>6, <2>2, WrittenWord
  <2>3. CASE j # k
    <3>1. k # 0 /\ j <= beat BY <1>6, <2>1, <2>3 DEF Words, TypeOK
    <3>2. mem[<<tag[BurstSet][w], BurstSet>>][j] = data[BurstSet][w][j]
      BY <1>2, <1>6, <3>1 DEF Coherent, Written
    <3> QED BY <1>1, <1>6, <2>3, <3>2, WrittenWord
  <2> QED BY <2>2, <2>3
<1>9. BurstHeld' BY <1>2, <1>4, <1>5 DEF BurstHeld
<1>10. PortsShow' BY <1>4 DEF PortsShow, BurstSet
<1>11. BusFits' /\ Fetched' /\ VictimWritten' /\ SetupAgrees'
  BY <1>6 DEF BusFits, Fetched, VictimWritten, SetupAgrees, Coherent, IsFence
<1> QED BY <1>7, <1>8, <1>9, <1>10, <1>11 DEF Coherent

LEMMA WritebackBeatCoherent ==
  ASSUME TypeOK, Placement, Coherent, WritebackBeat PROVE Coherent' /\ Visible' = Visible
<1>1. BurstSet = req.set /\ BurstWays = WritebackWays
  BY DEF BurstSet, BurstWays, WritebackBeat
<1> QED BY <1>1, BurstBeat DEF WritebackBeat

LEMMA FlushBeatCoherent ==
  ASSUME TypeOK, Placement, Coherent, FlushBeat PROVE Coherent' /\ Visible' = Visible
<1>1. BurstSet = flushAdr /\ BurstWays = {flushWay} BY DEF BurstSet, BurstWays, FlushBeat
<1> QED BY <1>1, BurstBeat DEF FlushBeat
-----------------------------------------------------------------------------
(***************************************************************************)
(* A miss: from ACCESS to ADDRESS_SETUP.                                   *)
(***************************************************************************)
\* The ports after a cycle that addresses the set of the request again.
LEMMA ShowsNext ==
  ASSUME Read(req.set, req.set), UNCHANGED <<arrays, req>>
  PROVE  Shows(req.set)'
BY DEF Shows, Read, arrays

\* A victim that is not dirty is in memory.
LEMMA CleanVictim ==
  ASSUME TypeOK, CleanMatchesMemory, curr = "ACCESS", NEW s \in SetIdx, NEW w \in Ways,
         ~(dirty[s][w] /\ valid[s][w])
  PROVE  ~valid[s][w] \/ Matches(s, w)
BY DEF CleanMatchesMemory, Matches

LEMMA StartFetchCoherent ==
  ASSUME TypeOK, Placement, Coherent, StartFetch PROVE Coherent' /\ Visible' = Visible
<1>1. /\ curr = "ACCESS" /\ AnyMiss /\ ~LineDirty /\ curr' = "FETCH"
      /\ UNCHANGED <<arrays, req, mem>> /\ bus = "ADR_PHASE"
      /\ ((bus' = "CACHE_FETCH" /\ beat' = 0) \/ bus' = "ADR_PHASE")
  BY DEF StartFetch, StartRead, busVars, Placement, InFlight
<1>2. MissHere /\ ~IsFence BY <1>1 DEF AnyMiss, Reads, Writes, MissHere, IsFence
<1>3. req.set \in SetIdx BY <1>2, HereType
<1>4. rd.valid = valid[req.set] /\ rd.dirty = dirty[req.set] /\ rd.lru = lru[req.set]
  BY <1>1, <1>2, AccessHits DEF MissHere, Coherent, PortsShow
<1>5. Shows(req.set)' BY <1>1, ShowsNext DEF StartFetch
<1>6. rd'.valid = rd.valid /\ rd'.lru = rd.lru BY <1>1, <1>4, <1>5 DEF Shows, arrays
<1>7. VictimWay' = VictimWay /\ VictimWay \in Ways BY <1>6, SameVictim, VictimType
<1>8. ~valid[req.set][VictimWay] \/ Matches(req.set, VictimWay)
  BY <1>1, <1>2, <1>3, <1>4, <1>7, CleanVictim DEF LineDirty, Coherent
<1>9. VictimWritten' BY <1>1, <1>7, <1>8 DEF VictimWritten, Matches, arrays
<1>10. Fetched' BY <1>1 DEF Fetched, Words
<1>11. PortsShow' BY <1>1, <1>5 DEF PortsShow
<1>12. BusFits' /\ BurstHeld' /\ Written' /\ SetupAgrees'
  BY <1>1 DEF BusFits, BurstHeld, Written, SetupAgrees
<1>13. CleanMatchesMemory' /\ Visible' = Visible
  BY <1>1, SameClean, SameVisible DEF arrays, Coherent
<1> QED BY <1>9, <1>10, <1>11, <1>12, <1>13 DEF Coherent

\* The way that is to be written back is one way, valid, and stays the same.
LEMMA WritebackWay ==
  ASSUME TypeOK, PlainProgram, Placement, Coherent, StartWriteback
  PROVE  /\ MissHere
         /\ \E w \in Ways : /\ valid[req.set][w] /\ WritebackWays' = {w}
                            /\ Reads => VictimWay = w
<1>1. /\ curr = "ACCESS" /\ ((AnyMiss /\ LineDirty) \/ CMOWriteback)
      /\ UNCHANGED <<arrays, req>>
  BY DEF StartWriteback
<1>2. MissHere /\ ~IsFence
  BY <1>1 DEF AnyMiss, CMOWriteback, SomeClean, Reads, Writes, MissHere, IsFence
<1>3. rd.tag = req.set /\ rd.valid = valid[req.set] /\ rd.dirty = dirty[req.set]
      /\ HitWays = Holders(Here)
  BY <1>1, <1>2, AccessHits DEF MissHere, Placement, PortFresh
<1>4. Shows(req.set)' BY <1>1, ShowsNext DEF StartWriteback
<1>5. rd'.tag = rd.tag /\ rd'.valid = rd.valid /\ rd'.lru = lru[req.set]
  BY <1>1, <1>3, <1>4 DEF Shows, arrays
<1>6. VictimWay \in Ways BY VictimType
<1>7. CASE SomeClean
  <2>1. Hit BY <1>1, <1>7 DEF CMOWriteback, AnyMiss, SomeClean, Reads, Writes
  <2>2. PICK w \in HitWays : TRUE BY <2>1 DEF Hit
  <2>3. Here \in Locations BY <1>2, HereType
  <2>4. HitWays = {w} BY <1>3, <2>2, <2>3 DEF Placement, NoAlias
  <2>5. HitWays' = HitWays BY <1>1, <1>5 DEF HitWays, arrays
  <2>6. w \in Ways /\ valid[req.set][w] BY <1>3, <2>2 DEF HitWays
  <2>7. WritebackWays' = {w} BY <1>1, <1>7, <2>4, <2>5 DEF WritebackWays, SomeClean
  <2> QED BY <1>2, <1>7, <2>6, <2>7 DEF SomeClean, Reads
<1>8. CASE ~SomeClean
  <2>1. LineDirty BY <1>1, <1>8 DEF CMOWriteback
  <2>2. valid[req.set][VictimWay] BY <1>2, <1>3, <2>1 DEF LineDirty
  <2>3. VictimWay' = VictimWay
    <3>1. CASE AnyMiss
      <4>1. rd.lru = lru[req.set]
        BY <1>1, <1>2, <3>1 DEF Coherent, PortsShow, MissHere
      <4> QED BY <1>5, <4>1, SameVictim
    <3>2. CASE req.op = "zero"
      <4>1. Ways = {0} BY <3>2, ZeroIsDirect
      <4>2. rd.lru = 0 /\ lru[req.set] = 0 BY <1>2, <4>1, HereType DEF TypeOK
      <4> QED BY <1>5, <4>2, SameVictim
    <3> QED BY <1>1, <1>8, <3>1, <3>2 DEF CMOWriteback
  <2>4. WritebackWays' = {VictimWay} BY <1>1, <1>8, <2>3 DEF WritebackWays, SomeClean
  <2> QED BY <1>2, <1>6, <2>2, <2>4
<1> QED BY <1>7, <1>8

LEMMA StartWritebackCoherent ==
  ASSUME TypeOK, PlainProgram, Placement, Coherent, StartWriteback
  PROVE  Coherent' /\ Visible' = Visible
<1>1. MissHere /\ req.set \in SetIdx BY WritebackWay, HereType
<1>2. PICK w \in Ways : /\ valid[req.set][w] /\ WritebackWays' = {w}
                        /\ Reads => VictimWay = w
  BY WritebackWay
<1>3. /\ curr = "ACCESS" /\ curr' = "WRITEBACK" /\ bus = "ADR_PHASE"
      /\ UNCHANGED <<tag, valid, dirty, data, lru, arrays, req>>
  BY DEF StartWriteback, arrays, Placement, InFlight
<1>4. BurstSet' = req.set /\ BurstWays' = {w} BY <1>2, <1>3 DEF BurstSet, BurstWays
<1>5. Shows(req.set)' BY <1>3, ShowsNext DEF StartWriteback
<1>6. PortsShow' BY <1>3, <1>5 DEF PortsShow
<1>7. BurstHeld' BY <1>2, <1>3, <1>4 DEF BurstHeld
<1>8. BusFits' /\ Fetched' /\ VictimWritten' /\ SetupAgrees'
  BY <1>3 DEF BusFits, Fetched, VictimWritten, SetupAgrees, StartWriteback, StartWrite,
              busVars
<1>9. CASE UNCHANGED busVars
  <2>1. CleanMatchesMemory' /\ Visible' = Visible
    BY <1>3, <1>9, SameClean, SameVisible DEF busVars, Coherent
  <2>2. Written' BY <1>3, <1>9 DEF Written, busVars
  <2> QED BY <1>6, <1>7, <1>8, <2>1, <2>2 DEF Coherent
<1>10. CASE Reads /\ StartWrite(<<ReadTag({VictimWay}), req.set>>, ReadLine({VictimWay}))
  <2>1. rd.tag = req.set /\ rd.data = req.set
    BY <1>1, <1>3, <1>10 DEF MissHere, Placement, PortFresh, Coherent, PortsShow
  <2>2. WritesWord(req.set, w, 0) /\ beat' = 0
    BY <1>2, <1>10, <2>1, ReadOne DEF StartWrite, WritesWord
  <2>3. CleanMatchesMemory' /\ Visible' = Visible
    BY <1>1, <1>2, <1>3, <2>2, SetsAndWays, BeatKeeps DEF Placement, Coherent
  <2>4. mem'[<<tag[req.set][w], req.set>>][0] = data[req.set][w][0]
    BY <1>1, <2>2, SetsAndWays, WrittenWord
  <2>5. Written' BY <1>3, <1>4, <2>2, <2>4 DEF Written, Words
  <2> QED BY <1>6, <1>7, <1>8, <2>3, <2>5 DEF Coherent
<1> QED BY <1>9, <1>10 DEF StartWriteback

LEMMA StartFlushCoherent ==
  ASSUME TypeOK, Placement, Coherent, StartFlush PROVE Coherent' /\ Visible' = Visible
<1>1. /\ curr = "ACCESS" /\ curr' = "FLUSH" /\ IsFence /\ bus' = "ADR_PHASE"
      /\ UNCHANGED <<tag, valid, dirty, data, lru, req, flushAdr, flushWay, mem>>
  BY DEF StartFlush, arrays, busVars, counters, Placement, InFlight
<1>2. PortsShow' BY <1>1 DEF PortsShow, StartFlush, Read, Shows
<1>3. BusFits' /\ BurstHeld' /\ Written' /\ Fetched' /\ VictimWritten' /\ SetupAgrees'
  BY <1>1 DEF BusFits, BurstHeld, Written, Fetched, VictimWritten, SetupAgrees, IsFence
<1>4. CleanMatchesMemory' /\ Visible' = Visible
  BY <1>1, SameClean, SameVisible DEF Coherent
<1> QED BY <1>2, <1>3, <1>4 DEF Coherent

LEMMA EvictionDoneCoherent ==
  ASSUME TypeOK, Placement, Coherent, EvictionDone PROVE Coherent' /\ Visible' = Visible
<1>1. /\ curr = "WRITEBACK" /\ curr' = "FETCH" /\ WriteAck /\ (Reads \/ Writes)
      /\ bus' = "CACHE_FETCH" /\ beat' = 0
      /\ UNCHANGED <<tag, valid, dirty, data, lru, arrays, req, mem>>
  BY DEF EvictionDone, StartRead, arrays
<1>2. Shows(req.set) BY <1>1 DEF Coherent, PortsShow
<1>3. Shows(req.set)' BY <1>1, ShowsNext DEF EvictionDone
<1>4. rd' = rd BY <1>1, <1>2, <1>3 DEF Shows
<1>5. VictimWay' = VictimWay /\ VictimWay \in Ways BY <1>4, SameVictim, VictimType
<1>6. BurstSet = req.set /\ BurstWays = {VictimWay}
  BY <1>1 DEF BurstSet, BurstWays, WritebackWays, SomeClean, Reads, Writes
<1>7. Matches(req.set, VictimWay) BY <1>1, <1>5, <1>6, BurstComplete DEF Coherent
<1>8. VictimWritten' BY <1>1, <1>5, <1>7 DEF VictimWritten, Matches
<1>9. PortsShow' BY <1>1, <1>3 DEF PortsShow
<1>10. BusFits' /\ BurstHeld' /\ Written' /\ Fetched' /\ SetupAgrees'
  BY <1>1 DEF BusFits, BurstHeld, Written, Fetched, SetupAgrees, Words
<1>11. CleanMatchesMemory' /\ Visible' = Visible
  BY <1>1, SameClean, SameVisible DEF Coherent
<1> QED BY <1>8, <1>9, <1>10, <1>11 DEF Coherent

\* The cycles of a fetch.
LEMMA FetchCoherent ==
  ASSUME TypeOK, Placement, Coherent, FetchBeat \/ FetchDone
  PROVE  Coherent' /\ Visible' = Visible
<1>1. /\ curr = "FETCH" /\ curr' \in {"FETCH", "WRITE_LINE"}
      /\ UNCHANGED <<tag, valid, dirty, data, lru, arrays, req, mem>>
      /\ Read(req.set, req.set)
  BY DEF FetchBeat, FetchDone, StartRead, arrays
<1>2. Shows(req.set) BY <1>1 DEF Coherent, PortsShow
<1>3. Shows(req.set)' BY <1>1, ShowsNext
<1>4. rd' = rd BY <1>1, <1>2, <1>3 DEF Shows
<1>5. VictimWay' = VictimWay BY <1>4, SameVictim
<1>6. VictimWritten' BY <1>1, <1>5 DEF VictimWritten, Matches, Coherent
<1>7. PortsShow' BY <1>1, <1>3 DEF PortsShow
<1>8. Here \in Locations /\ Here' = Here
  BY <1>1, BusyHere DEF Placement, InFlight, Here
<1>9. Fetched'
  <2>1. CASE bus = "ADR_PHASE" /\ FetchBeat
    BY <1>1, <2>1 DEF Fetched, FetchBeat, StartRead, Words
  <2>2. CASE bus = "CACHE_FETCH"
    <3>1. buf' = [buf EXCEPT ![beat] = mem[Here][beat]] BY <2>2 DEF FetchBeat, FetchDone, Capture
    <3>2. \A k \in Words : k <= beat => buf'[k] = mem[Here][k]
      BY <2>2, <3>1 DEF Coherent, Fetched, TypeOK, Line, Words
    <3>3. CASE FetchBeat
      <4>1. beat' = beat + 1 /\ curr' = "FETCH" BY <2>2, <3>3 DEF FetchBeat
      <4> QED BY <1>1, <1>8, <3>2, <4>1 DEF Fetched, Words, TypeOK
    <3>4. CASE FetchDone
      <4>1. \A k \in Words : k <= beat
        BY <3>4, SizeAssumption DEF FetchDone, LastBeat, Words
      <4>2. mem[Here] \in Line /\ buf \in Line BY <1>8 DEF TypeOK
      <4>3. buf' = mem[Here] BY <3>1, <3>2, <4>1, <4>2 DEF Line
      <4> QED BY <1>1, <1>8, <3>4, <4>3 DEF Fetched, FetchDone, BusRelease
    <3> QED BY <3>3, <3>4
  <2> QED BY <2>1, <2>2 DEF FetchBeat, FetchDone
<1>10. BusFits' /\ BurstHeld' /\ Written' /\ SetupAgrees'
  BY <1>1 DEF BusFits, BurstHeld, Written, SetupAgrees, FetchBeat, FetchDone, StartRead,
              BusRelease
<1>11. CleanMatchesMemory' /\ Visible' = Visible
  BY <1>1, SameClean, SameVisible DEF Coherent
<1> QED BY <1>6, <1>7, <1>9, <1>10, <1>11 DEF Coherent

\* A cycle that ends in ADDRESS_SETUP.
LEMMA IntoSetup ==
  ASSUME curr' = "ADDRESS_SETUP", bus' = "ADR_PHASE", CleanMatchesMemory', SetupAgrees'
  PROVE  Coherent'
BY DEF Coherent, PortsShow, BusFits, BurstHeld, Written, Fetched, VictimWritten

LEMMA CMOWritebackDoneCoherent ==
  ASSUME TypeOK, PlainProgram, Placement, Coherent, CMOWritebackDone
  PROVE  /\ Coherent'
         /\ req.op = "zero" => Visible' = [Visible EXCEPT ![Here] = BlankLine]
         /\ req.op # "zero" => Visible' = Visible
<1>1. /\ curr = "WRITEBACK" /\ curr' = "ADDRESS_SETUP" /\ WriteAck /\ IsCMO
      /\ bus' = "ADR_PHASE" /\ mem' = mem /\ req' = req
  BY DEF CMOWritebackDone, BusRelease
<1>2. Here \in Locations /\ req.set \in SetIdx
  BY <1>1, ModeAssumption, HereType DEF IsCMO, MissHere
<1>3. Shows(req.set) BY <1>1 DEF Coherent, PortsShow
<1>4. HitWays = Holders(Here) BY <1>3, ShowsHolders
<1>5. BurstSet = req.set /\ BurstWays = WritebackWays BY <1>1 DEF BurstSet, BurstWays
<1>6. \A w \in WritebackWays : w \in Ways => Matches(req.set, w)
  BY <1>1, <1>5, BurstComplete DEF Coherent
<1>7. Placement' BY CMOWritebackDonePlacement
<1>8. CASE req.op = "zero" /\ InstallZero({VictimWay})
  <2>1. Ways = {0} /\ VictimWay = 0 BY <1>8, ZeroIsDirect, VictimType
  <2>2. Matches(req.set, 0) BY <1>6, <1>8, <2>1 DEF WritebackWays, SomeClean
  <2>3. CleanMatchesMemory' /\ Visible' = [Visible EXCEPT ![Here] = BlankLine]
    BY <1>1, <1>7, <1>8, <2>1, <2>2, ZeroInstalled DEF Coherent
  <2>4. SetupAgrees' BY <1>1, <1>8 DEF SetupAgrees, SomeClean
  <2> QED BY <1>1, <1>8, <2>3, <2>4, IntoSetup
<1>9. CASE /\ SomeClean
           /\ dirty' = SetWays(dirty, req.set, HitWays, FALSE)
           /\ valid' = IF req.op = "clean" THEN SetWays(valid, req.set, HitWays, FALSE)
                                           ELSE valid
           /\ UNCHANGED <<tag, data, lru>>
  <2>1. HitWays \subseteq Ways /\ \A w \in HitWays : Matches(req.set, w)
    BY <1>6, <1>9 DEF WritebackWays, HitWays
  <2>2. \A s \in SetIdx, w \in Ways :
          /\ valid'[s][w] => valid[s][w]
          /\ s # req.set \/ w \notin HitWays => dirty'[s][w] = dirty[s][w]
    <3>1. \A s \in SetIdx, w \in Ways : valid'[s][w] => valid[s][w]
      BY <1>2, <1>9, Invalidated
    <3>2. \A s \in SetIdx, w \in Ways : s # req.set \/ w \notin HitWays
            => dirty'[s][w] = dirty[s][w]
      BY <1>2, <1>9 DEF SetWays, TypeOK
    <3> QED BY <3>1, <3>2
  <2>3. CleanMatchesMemory'
    <3>1. SUFFICES ASSUME NEW s \in SetIdx, NEW w \in Ways, valid'[s][w], ~dirty'[s][w]
                   PROVE  data[s][w] = mem[<<tag[s][w], s>>]
      BY <1>1, <1>9 DEF CleanMatchesMemory
    <3>2. CASE s = req.set /\ w \in HitWays BY <2>1, <3>2 DEF Matches
    <3>3. CASE s # req.set \/ w \notin HitWays
      BY <1>1, <2>2, <3>1, <3>3 DEF Coherent, CleanMatchesMemory
    <3> QED BY <3>2, <3>3
  <2>4. Visible[Here] = mem[Here]
    BY <1>2, <1>4, <2>1, MatchVisible DEF Placement, Here
  <2>5. CASE req.op = "clean"
    <3>1. \A a \in Locations : Holders(a)' = IF a = Here THEN {} ELSE Holders(a)
      BY <1>2, <1>4, <1>9, <2>5, HitsDropped
    <3>2. \A a \in Locations : Visible'[a] = Visible[a]
      BY <1>1, <1>7, <1>9, <2>4, <3>1, LinesLeave DEF Placement
    <3>3. Visible' = [Visible EXCEPT ![Here] = Visible[Here]]
      BY <1>2, <3>2, OneLineChanges
    <3>4. Visible' = Visible BY <3>3, VisibleType
    <3>5. PICK a \in Locations : a = Here BY <1>2
    <3>6. Here' = a /\ Holders(a)' = {} BY <1>1, <3>1, <3>5 DEF Here
    <3>7. Holders(Here)' = {} BY <3>6 DEF Holders
    <3>8. SetupAgrees'
      BY <1>1, <2>4, <2>5, <3>4, <3>5, <3>6, <3>7 DEF SetupAgrees, SomeClean
    <3> QED BY <1>1, <2>3, <2>5, <3>4, <3>8, IntoSetup
  <2>6. CASE req.op = "flush"
    <3>1. Visible' = Visible BY <1>1, <1>9, <2>6, SameVisible
    <3>2. SetupAgrees' BY <1>1, <2>4, <2>6, <3>1 DEF SetupAgrees, SomeClean, Here
    <3> QED BY <1>1, <2>3, <2>6, <3>1, <3>2, IntoSetup
  <2> QED BY <1>9, <2>5, <2>6 DEF SomeClean
<1> QED BY <1>8, <1>9 DEF CMOWritebackDone

\* The fetched line enters the cache, with the word of a store merged in.
LEMMA WriteLineCoherent ==
  ASSUME TypeOK, Placement, Coherent, WriteLine
  PROVE  /\ Coherent'
         /\ Writes => Visible' = [Visible EXCEPT ![Here][req.word] = req.val]
         /\ ~Writes => Visible' = Visible
<1> DEFINE l == IF Writes THEN Merge(buf) ELSE buf
<1>1. /\ curr = "WRITE_LINE" /\ curr' = "ADDRESS_SETUP" /\ bus' = "ADR_PHASE"
      /\ mem' = mem /\ req' = req /\ buf' = buf
  BY DEF WriteLine, BusIdle, busVars
<1>2. Reads \/ Writes BY <1>1 DEF Placement, InFlight
<1>3. Here \in Locations /\ req.set \in SetIdx
  BY <1>2, HereType DEF MissHere, Reads, Writes
<1>4. Holders(Here) = {} BY <1>1, <1>2 DEF Placement, MissAbsent
<1>5. VictimWay \in Ways BY VictimType
<1>6. buf = mem[Here] /\ Visible[Here] = buf
  BY <1>1, <1>3, <1>4, VisibleFree DEF Coherent, Fetched
<1>7. NoAlias /\ NoAlias' BY WriteLinePlacement DEF Placement
<1>8. /\ Visible' = [Visible EXCEPT ![Here] = l]
      /\ tag'[req.set][VictimWay] = req.tag /\ data'[req.set][VictimWay] = l
      /\ \A s \in SetIdx, w \in Ways : s # req.set \/ w # VictimWay =>
           valid'[s][w] = valid[s][w] /\ tag'[s][w] = tag[s][w] /\ data'[s][w] = data[s][w]
  <2>1. PICK v \in Ways : v = VictimWay BY <1>5
  <2>2. PICK ll : ll = l OBVIOUS
  <2>3. ~valid[req.set][v] \/ Matches(req.set, v)
    BY <1>1, <2>1 DEF Coherent, VictimWritten
  <2>4. /\ tag' = SetWays(tag, req.set, {v}, req.tag)
        /\ valid' = SetWays(valid, req.set, {v}, TRUE)
        /\ data' = SetWays(data, req.set, {v}, ll)
    BY <2>1, <2>2 DEF WriteLine
  <2> HIDE DEF l
  <2>5. Holders(Here) \subseteq {v} BY <1>4
  <2> QED BY <1>1, <1>3, <1>7, <2>1, <2>2, <2>3, <2>4, <2>5, Installed
<1>9. \A s \in SetIdx, w \in Ways :
        IF s # req.set \/ w # VictimWay THEN dirty'[s][w] = dirty[s][w]
                                        ELSE dirty'[s][w] = Writes
  BY <1>3, <1>5 DEF WriteLine, SetWays, TypeOK
<1>10. CleanMatchesMemory'
  <2>1. dirty'[req.set][VictimWay] \/ data'[req.set][VictimWay] = mem[<<tag'[req.set][VictimWay], req.set>>]
    BY <1>3, <1>5, <1>6, <1>8, <1>9 DEF Here
  <2>2. PICK v \in Ways : v = VictimWay BY <1>5
  <2> QED BY <1>1, <1>3, <1>8, <1>9, <2>1, <2>2, InstalledClean DEF Coherent
<1>11. Writes => Visible' = [Visible EXCEPT ![Here][req.word] = req.val]
  BY <1>3, <1>6, <1>8, VisibleType DEF Merge
<1>12. ~Writes => Visible' = Visible
  BY <1>3, <1>6, <1>8, VisibleType
<1>13. SetupAgrees'
  <2>1. Here' = Here BY <1>1 DEF Here
  <2>2. req.op = "load" => Visible'[Here] = buf BY <1>6, <1>12 DEF Writes
  <2>3. req.op = "load" => buf'[req'.word] = Visible'[Here'][req'.word]
    BY <1>1, <2>1, <2>2
  <2> QED BY <1>1, <1>2, <2>3 DEF SetupAgrees, SomeClean, Reads, Writes
<1> QED BY <1>1, <1>10, <1>11, <1>12, <1>13, IntoSetup
-----------------------------------------------------------------------------
(***************************************************************************)
(* fence.i.                                                                *)
(***************************************************************************)
LEMMA AdvanceFlushCoherent ==
  ASSUME TypeOK, AdvanceFlush, UNCHANGED <<arrays, req>>, IsFence, bus' = "ADR_PHASE",
         CleanMatchesMemory'
  PROVE  Coherent'
<1>1. curr' \in {"ADDRESS_SETUP", "FLUSH"} /\ IsFence'
  BY DEF AdvanceFlush, IsFence
<1>2. PortsShow' BY <1>1 DEF PortsShow, AdvanceFlush, Read, Shows, arrays
<1>3. BusFits' /\ BurstHeld' /\ Written' /\ Fetched' /\ VictimWritten' /\ SetupAgrees'
  BY <1>1 DEF BusFits, BurstHeld, Written, Fetched, VictimWritten, SetupAgrees, IsFence,
              SomeClean
<1> QED BY <1>2, <1>3 DEF Coherent

LEMMA FlushCleanCoherent ==
  ASSUME TypeOK, Placement, Coherent, FlushClean PROVE Coherent' /\ Visible' = Visible
<1>1. /\ curr = "FLUSH" /\ IsFence /\ bus' = "ADR_PHASE" /\ AdvanceFlush
      /\ UNCHANGED <<tag, valid, dirty, data, arrays, req, mem>>
  BY DEF FlushClean, Placement, InFlight, Coherent, BusFits, arrays, busVars
<1>2. CleanMatchesMemory' BY <1>1, SameClean DEF Coherent
<1> QED BY <1>1, <1>2, AdvanceFlushCoherent, SameVisible

\* The dirty bit goes first, so this one line is ahead of memory.
LEMMA FlushDirtyCoherent ==
  ASSUME TypeOK, Placement, Coherent, FlushDirty PROVE Coherent' /\ Visible' = Visible
<1>1. /\ curr = "FLUSH" /\ curr' = "FLUSH_WRITEBACK" /\ IsFence /\ LineDirty
      /\ bus' = "ADR_PHASE"
      /\ UNCHANGED <<tag, valid, data, lru, req, flushAdr, flushWay, mem>>
  BY DEF FlushDirty, Placement, InFlight, Coherent, BusFits, counters, busVars
<1>2. Shows(flushAdr) BY <1>1 DEF Coherent, PortsShow
<1>3. flushAdr \in SetIdx /\ flushWay \in Ways BY DEF TypeOK
<1>4. valid[flushAdr][flushWay] BY <1>1, <1>2 DEF LineDirty, Shows
<1>5. BurstHeld' BY <1>1, <1>3, <1>4 DEF BurstHeld, BurstWays, BurstSet
<1>6. PortsShow' BY <1>1 DEF PortsShow, FlushDirty, Read, Shows
<1>7. BusFits' /\ Written' /\ Fetched' /\ VictimWritten' /\ SetupAgrees'
  BY <1>1 DEF BusFits, Written, Fetched, VictimWritten, SetupAgrees, IsFence
<1>8. \A s \in SetIdx, w \in Ways : s # flushAdr \/ w # flushWay => dirty'[s][w] = dirty[s][w]
  BY <1>3 DEF FlushDirty, SetWays, TypeOK
<1>9. CleanMatchesMemory' BY <1>1, <1>8 DEF CleanMatchesMemory, Coherent
<1> QED BY <1>1, <1>5, <1>6, <1>7, <1>9, SameVisible DEF Coherent

LEMMA FlushWrittenCoherent ==
  ASSUME TypeOK, Placement, Coherent, FlushWritten PROVE Coherent' /\ Visible' = Visible
<1>1. /\ curr = "FLUSH_WRITEBACK" /\ IsFence /\ bus' = "ADR_PHASE" /\ AdvanceFlush
      /\ WriteAck /\ curr' # "FLUSH_WRITEBACK"
      /\ UNCHANGED <<tag, valid, dirty, data, arrays, req, mem>>
  BY DEF FlushWritten, BusRelease, Coherent, BusFits, arrays, AdvanceFlush
<1>2. BurstSet = flushAdr /\ BurstWays = {flushWay} BY <1>1 DEF BurstSet, BurstWays
<1>3. flushWay \in Ways BY DEF TypeOK
<1>4. Matches(flushAdr, flushWay) BY <1>1, <1>2, <1>3, BurstComplete DEF Coherent
<1>5. CleanMatchesMemory'
  BY <1>1, <1>4 DEF CleanMatchesMemory, Coherent, Matches
<1> QED BY <1>1, <1>5, AdvanceFlushCoherent, SameVisible
-----------------------------------------------------------------------------
LEMMA CoherentInit == Init => Coherent
<1> SUFFICES ASSUME Init PROVE Coherent
  OBVIOUS
<1>1. curr = "ACCESS" /\ req = Bubble /\ bus = "ADR_PHASE" BY DEF Init
<1>2. CleanMatchesMemory BY DEF Init, CleanMatchesMemory
<1> QED BY <1>1, <1>2
        DEF Coherent, PortsShow, BusFits, BurstHeld, Written, Fetched, VictimWritten,
            SetupAgrees, Bubble

(***************************************************************************)
(* Every step keeps the invariant and is a step of the memory.             *)
(***************************************************************************)
LEMMA WordStored ==
  ASSUME Writes, Visible' = [Visible EXCEPT ![Here][req.word] = req.val]
  PROVE  Memory!Next
BY DEF Memory!Next, Memory!StoreWord, Memory!Here, Here, Writes

LEMMA LineZeroed ==
  ASSUME req.op = "zero", Visible' = [Visible EXCEPT ![Here] = BlankLine]
  PROVE  Memory!Next
BY DEF Memory!Next, Memory!ZeroLine, Memory!Here, Here, BlankLine

LEMMA LineDropped ==
  ASSUME req.op = "inval", NEW l \in Line, Visible' = [Visible EXCEPT ![Here] = l]
  PROVE  Memory!Next
BY DEF Memory!Next, Memory!DropLine, Memory!Here, Memory!Line, Here, Line

LEMMA NextCoherent ==
  ASSUME TypeOK, PlainProgram, Placement, Coherent, [Next]_vars
  PROVE  Coherent' /\ [Memory!Next]_Visible
<1>1. CASE UNCHANGED vars
  <2>1. Visible' = Visible BY <1>1, SameVisible DEF vars, arrays, busVars
  <2>2. PortsShow' /\ BusFits' /\ Fetched'
    BY <1>1 DEF vars, arrays, counters, busVars, PortsShow, BusFits, Fetched, Coherent,
                Shows, AnyMiss, Hit, HitWays, Reads, Writes, IsFence, Here
  <2>3. VictimWay' = VictimWay /\ WritebackWays' = WritebackWays
    BY <1>1 DEF vars, arrays, VictimWay, WritebackWays, HitWays, SomeClean
  <2>4. BurstHeld' /\ Written' /\ VictimWritten'
    BY <1>1, <2>3 DEF vars, arrays, counters, busVars, BurstHeld, Written, VictimWritten,
                      Coherent, BurstWays, BurstSet, Matches
  <2>5. CleanMatchesMemory' /\ SetupAgrees'
    BY <1>1, <2>1 DEF vars, arrays, counters, busVars, CleanMatchesMemory, SetupAgrees,
                      Coherent, SomeClean, Here, Holders
  <2> QED BY <2>1, <2>2, <2>4, <2>5 DEF Coherent
<1>2. ASSUME NEW r \in Requests, LoadHit(r) \/ PassThrough(r) \/ AddressSetup(r)
      PROVE  Coherent' /\ [Memory!Next]_Visible
  BY <1>2, LoadHitCoherent, AddressSetupCoherent
<1>3. ASSUME NEW r \in Requests, StoreHit(r)
      PROVE  Coherent' /\ [Memory!Next]_Visible
  BY <1>3, StoreHitCoherent, WordStored DEF StoreHit
<1>4. ASSUME NEW r \in Requests, ZeroInPlace(r)
      PROVE  Coherent' /\ [Memory!Next]_Visible
  BY <1>4, ZeroInPlaceCoherent, LineZeroed DEF ZeroInPlace, CMOZeroNoEviction
<1>5. ASSUME NEW r \in Requests, DropHit(r)
      PROVE  Coherent' /\ [Memory!Next]_Visible
  <2>1. mem[Here] \in Line BY <1>5, HereType DEF DropHit, MissHere, TypeOK
  <2> QED BY <1>5, <2>1, DropHitCoherent, LineDropped DEF DropHit
<1>6. CASE StartFetch \/ StartWriteback \/ StartFlush
  BY <1>6, StartFetchCoherent, StartWritebackCoherent, StartFlushCoherent
<1>7. CASE WritebackBeat \/ EvictionDone \/ FetchBeat \/ FetchDone
  BY <1>7, WritebackBeatCoherent, EvictionDoneCoherent, FetchCoherent
<1>8. CASE CMOWritebackDone BY <1>8, CMOWritebackDoneCoherent, LineZeroed
<1>9. CASE WriteLine BY <1>9, WriteLineCoherent, WordStored
<1>10. CASE FlushClean \/ FlushDirty \/ FlushBeat \/ FlushWritten
  BY <1>10, FlushCleanCoherent, FlushDirtyCoherent, FlushBeatCoherent, FlushWrittenCoherent
<1>11. CASE Hold \/ Squash \/ LateTrap
  BY <1>11, HoldCoherent, SquashCoherent, LateTrapCoherent
<1> QED BY <1>1, <1>2, <1>3, <1>4, <1>5, <1>6, <1>7, <1>8, <1>9, <1>10, <1>11
        DEF Next, Advance

Invariant == TypeOK /\ Placement /\ Coherent

LEMMA InvariantHolds ==
  ASSUME PlainProgram PROVE Spec => []Invariant /\ [][Memory!Next]_Visible
<1>1. Init => Invariant BY TypeInit, PlacementInit, CoherentInit DEF Invariant
<1>2. Invariant /\ [Next]_vars => Invariant' /\ [Memory!Next]_Visible
  BY NextType, NextPlacement, NextCoherent DEF Invariant, Placement
<1> QED BY <1>1, <1>2, PTL DEF Spec

(***************************************************************************)
(* The cache is invisible: every change of what a load returns is the      *)
(* store, cbo.zero or cbo.inval in the memory stage.                       *)
(***************************************************************************)
THEOREM CacheIsInvisible == ASSUME PlainProgram PROVE Spec => Transparent
<1>1. Init => Memory!Init
  <2>1. Init => Visible \in [Locations -> Line] BY TypeInit, VisibleType
  <2> QED BY <2>1 DEF Memory!Init, Memory!Locations, Memory!Line, Locations, Line
<1>2. Spec => [][Memory!Next]_Visible BY InvariantHolds
<1> QED BY <1>1, <1>2, PTL DEF Spec, Transparent, Memory!Spec

LEMMA LoadValueHolds == ASSUME Invariant PROVE LoadValue
<1>1. ASSUME curr = "ACCESS", Reads, NEW w \in HitWays
      PROVE  data[rd.data][w][req.word] = Visible[Here][req.word]
  <2>1. Here \in Locations /\ Here[2] = req.set BY <1>1, BusyHere DEF Invariant, Here
  <2>2. rd.data = req.set /\ w \in Holders(Here)
    BY <1>1, AccessHits DEF Invariant, Coherent, PortsShow, Reads
  <2> QED BY <2>1, <2>2, VisibleHeld DEF Invariant, Placement
<1>2. ASSUME curr = "WRITE_LINE", Reads PROVE buf = Visible[Here]
  <2>1. Here \in Locations /\ Holders(Here) = {}
    BY <1>2, BusyHere DEF Invariant, Placement, MissAbsent
  <2> QED BY <1>2, <2>1, VisibleFree DEF Invariant, Coherent, Fetched
<1> QED BY <1>1, <1>2 DEF LoadValue, Invariant, Coherent, SetupAgrees

LEMMA BurstIsCommittedHolds == ASSUME Invariant PROVE BurstIsCommitted
<1>1. SUFFICES ASSUME bus # "ADR_PHASE" PROVE curr # "ACCESS"
                 /\ (bus = "CACHE_WRITEBACK" =>
                      /\ curr \in {"WRITEBACK", "FLUSH_WRITEBACK"}
                      /\ LET w == CHOOSE w \in IF IsFence THEN {flushWay} ELSE WritebackWays : TRUE
                             s == IF IsFence THEN flushAdr ELSE req.set
                         IN  valid[s][w] /\ rd.tag = s /\ rd.data = s)
  BY DEF BurstIsCommitted
<1>2. curr # "ACCESS" BY <1>1 DEF Invariant, Placement, InFlight
<1>3. CASE bus = "CACHE_WRITEBACK"
  <2>1. curr \in {"WRITEBACK", "FLUSH_WRITEBACK"} BY <1>3 DEF Invariant, Coherent, BusFits
  <2>2. IsFence <=> curr = "FLUSH_WRITEBACK"
    BY <2>1, ModeAssumption
    DEF Invariant, Placement, InFlight, Coherent, BusFits, IsFence, Reads, Writes, SomeClean
  <2>3. PICK v \in Ways : BurstWays = {v} /\ valid[BurstSet][v]
    BY <2>1 DEF Invariant, Coherent, BurstHeld
  <2>4. Shows(BurstSet) BY <2>1 DEF Invariant, Coherent, PortsShow, BurstSet
  <2>5. BurstSet = (IF IsFence THEN flushAdr ELSE req.set)
        /\ BurstWays = (IF IsFence THEN {flushWay} ELSE WritebackWays)
    BY <2>2 DEF BurstSet, BurstWays
  <2>6. (CHOOSE w \in {v} : TRUE) = v OBVIOUS
  <2> QED BY <1>2, <2>1, <2>3, <2>4, <2>5, <2>6 DEF Shows
<1> QED BY <1>2, <1>3

LEMMA CMOReachesMemoryHolds == ASSUME Invariant PROVE CMOReachesMemory
<1>1. ASSUME SomeClean, curr = "ACCESS", ~StallConditions PROVE mem[Here] = Visible[Here]
  BY <1>1, CleanHere DEF Invariant, StallConditions
<1> QED BY <1>1 DEF CMOReachesMemory, Invariant, Coherent, SetupAgrees, SomeClean

(***************************************************************************)
(* A line that is not dirty is in memory, so that it may be dropped.       *)
(***************************************************************************)
THEOREM CleanLinesAreInMemory == ASSUME PlainProgram PROVE Spec => []CleanMatchesMemory
<1>1. Invariant => CleanMatchesMemory BY DEF Invariant, Coherent
<1> QED BY <1>1, InvariantHolds, PTL

(***************************************************************************)
(* A load or an atomic gets the word last stored, from the arrays on a hit *)
(* and from the fetch buffer after a miss.                                 *)
(***************************************************************************)
THEOREM LoadsReturnLastStore == ASSUME PlainProgram PROVE Spec => []LoadValue
<1>1. Invariant => LoadValue BY LoadValueHolds
<1> QED BY <1>1, InvariantHolds, PTL

(***************************************************************************)
(* A cbo operation leaves memory with the value of its line, and CMOpM[2]  *)
(* leaves the line out of the cache.                                       *)
(***************************************************************************)
THEOREM CMOsReachMemory == ASSUME PlainProgram PROVE Spec => []CMOReachesMemory
<1>1. Invariant => CMOReachesMemory BY CMOReachesMemoryHolds
<1> QED BY <1>1, InvariantHolds, PTL

(***************************************************************************)
(* A burst writes a line this cache holds, from ports that show it, and is *)
(* in flight only while the cache reports CacheCommitted.                  *)
(***************************************************************************)
THEOREM BurstsAreCommitted == ASSUME PlainProgram PROVE Spec => []BurstIsCommitted
<1>1. Invariant => BurstIsCommitted BY BurstIsCommittedHolds
<1> QED BY <1>1, InvariantHolds, PTL
-----------------------------------------------------------------------------
(***************************************************************************)
(* A flush leaves nothing dirty behind it.                                 *)
(***************************************************************************)
Behind(s, w) == s < flushAdr \/ (s = flushAdr /\ w < flushWay)

LEMMA NextSetIndex ==
  ASSUME NEW s \in SetIdx
  PROVE  (s + 1) % NumSets = IF s = NumSets - 1 THEN 0 ELSE s + 1
<1>1. s \in Nat /\ s < NumSets /\ NumSets \in Nat \ {0} BY SizeAssumption DEF SetIdx
<1>2. CASE s = NumSets - 1
  <2>1. NumSets % NumSets = 0 BY <1>1
  <2> QED BY <1>1, <1>2, <2>1
<1>3. CASE s # NumSets - 1 BY <1>1, <1>3
<1> QED BY <1>2, <1>3

\* The line the counters name is the next that is behind them.
LEMMA AdvanceFlushBehind ==
  ASSUME TypeOK, AdvanceFlush, UNCHANGED <<valid, dirty>>,
         \A s \in SetIdx, w \in Ways : Behind(s, w) => ~DirtyLine(s, w),
         ~DirtyLine(flushAdr, flushWay)
  PROVE  FlushProgress'
<1>1. flushAdr \in SetIdx /\ flushWay \in Ways BY DEF TypeOK
<1>2. \A s \in SetIdx, w \in Ways : DirtyLine(s, w)' <=> DirtyLine(s, w) BY DEF DirtyLine
<1>3. SetIdx \subseteq Nat /\ Ways \subseteq Nat /\ NumSets \in Nat /\ NumWays \in Nat
  BY SizeAssumption DEF SetIdx, Ways
<1>4. CASE ~LastWay
  <2>1. curr' = "FLUSH" /\ flushAdr' = flushAdr /\ flushWay' = flushWay + 1
    BY <1>4 DEF AdvanceFlush, FlushFlag
  <2>2. \A s \in SetIdx, w \in Ways : s < flushAdr' \/ (s = flushAdr' /\ w < flushWay')
          => Behind(s, w) \/ (s = flushAdr /\ w = flushWay)
    BY <1>1, <1>3, <2>1 DEF Behind
  <2> QED BY <1>2, <2>1, <2>2 DEF FlushProgress
<1>5. CASE LastWay /\ flushAdr # NumSets - 1
  <2>1. curr' = "FLUSH" /\ flushAdr' = flushAdr + 1 /\ flushWay' = 0
    BY <1>1, <1>5, NextSetIndex DEF AdvanceFlush, FlushFlag
  <2>2. \A s \in SetIdx, w \in Ways : s < flushAdr' \/ (s = flushAdr' /\ w < flushWay')
          => Behind(s, w) \/ (s = flushAdr /\ w = flushWay)
    BY <1>1, <1>3, <1>5, <2>1 DEF Behind, LastWay, Ways
  <2> QED BY <1>2, <2>1, <2>2 DEF FlushProgress
<1>6. CASE FlushFlag
  <2>1. curr' = "ADDRESS_SETUP" /\ flushAdr' = 0 /\ flushWay' = 0
    BY <1>1, <1>6, NextSetIndex DEF AdvanceFlush, FlushFlag
  <2>2. \A s \in SetIdx, w \in Ways : Behind(s, w) \/ (s = flushAdr /\ w = flushWay)
    BY <1>1, <1>3, <1>6 DEF Behind, FlushFlag, LastWay, Ways, SetIdx
  <2> QED BY <1>2, <2>1, <2>2 DEF FlushProgress
<1> QED BY <1>4, <1>5, <1>6 DEF FlushFlag

\* The cycles outside of a flush.
LEMMA NoFlush ==
  ASSUME FlushProgress, curr \notin {"FLUSH", "FLUSH_WRITEBACK"}, UNCHANGED counters,
         curr' \notin {"FLUSH", "FLUSH_WRITEBACK"}, ~(curr' = "ADDRESS_SETUP" /\ IsFence')
  PROVE  FlushProgress'
BY DEF FlushProgress, counters

LEMMA NextFlushProgress ==
  ASSUME Invariant, FlushProgress, [Next]_vars PROVE FlushProgress'
<1>1. TypeOK /\ flushAdr \in SetIdx /\ flushWay \in Ways BY DEF Invariant, TypeOK
<1>2. CASE UNCHANGED vars
  BY <1>2 DEF vars, arrays, counters, FlushProgress, DirtyLine, IsFence
<1>3. ASSUME NEW r \in Requests,
             \/ LoadHit(r) \/ StoreHit(r) \/ ZeroInPlace(r) \/ DropHit(r)
             \/ PassThrough(r) \/ AddressSetup(r)
      PROVE  FlushProgress'
  <2>1. curr' = "ACCESS" /\ curr \in {"ACCESS", "ADDRESS_SETUP"} /\ UNCHANGED counters
    BY <1>3 DEF LoadHit, StoreHit, ZeroInPlace, DropHit, PassThrough, AddressSetup,
                Completes, counters
  <2> QED BY <2>1, NoFlush
<1>4. CASE StartFetch \/ StartWriteback \/ Hold \/ Squash
  BY <1>4, NoFlush DEF StartFetch, StartWriteback, Hold, Squash
<1>5. CASE WritebackBeat \/ EvictionDone \/ FetchBeat \/ FetchDone
  BY <1>5, NoFlush DEF WritebackBeat, EvictionDone, FetchBeat, FetchDone
<1>6. CASE CMOWritebackDone \/ WriteLine
  <2>1. ~IsFence
    BY <1>6, ModeAssumption
    DEF CMOWritebackDone, WriteLine, IsCMO, IsFence, Invariant, Placement, InFlight, Reads,
        Writes
  <2> QED BY <1>6, <2>1, NoFlush DEF CMOWritebackDone, WriteLine, IsFence
<1>7. CASE LateTrap
  <2>1. curr \in MissStates /\ curr' = "ACCESS" /\ UNCHANGED counters
    BY <1>7, ModeAssumption DEF LateTrap
  <2> QED BY <2>1, NoFlush DEF MissStates
<1>8. CASE StartFlush
  <2>1. curr' = "FLUSH" /\ flushAdr' = 0 /\ flushWay' = 0
    BY <1>8 DEF StartFlush, FlushProgress, counters
  <2>2. \A s \in SetIdx, w \in Ways : ~(s < 0) /\ ~(w < 0)
    BY SizeAssumption DEF SetIdx, Ways
  <2> QED BY <2>1, <2>2 DEF FlushProgress
<1>9. CASE FlushClean
  <2>1. curr = "FLUSH" /\ IsFence /\ ~LineDirty /\ AdvanceFlush /\ UNCHANGED <<valid, dirty>>
    BY <1>9 DEF FlushClean, Invariant, Coherent, BusFits, arrays
  <2>2. Shows(flushAdr) BY <2>1 DEF Invariant, Coherent, PortsShow
  <2>3. ~DirtyLine(flushAdr, flushWay) BY <2>1, <2>2 DEF LineDirty, Shows, DirtyLine
  <2> QED BY <1>1, <2>1, <2>3, AdvanceFlushBehind DEF FlushProgress, Behind
<1>10. CASE FlushDirty
  <2>1. /\ curr = "FLUSH" /\ curr' = "FLUSH_WRITEBACK"
        /\ UNCHANGED <<flushAdr, flushWay, valid>>
    BY <1>10 DEF FlushDirty, counters
  <2>2. \A s \in SetIdx, w \in Ways : dirty'[s][w] => dirty[s][w]
    BY <1>1, <1>10 DEF FlushDirty, SetWays, TypeOK
  <2>3. ~dirty'[flushAdr][flushWay] BY <1>1, <1>10 DEF FlushDirty, SetWays, TypeOK
  <2> QED BY <2>1, <2>2, <2>3 DEF FlushProgress, DirtyLine
<1>11. CASE FlushBeat
  BY <1>11 DEF FlushBeat, FlushProgress, arrays, counters, DirtyLine
<1>12. CASE FlushWritten
  <2>1. curr = "FLUSH_WRITEBACK" /\ AdvanceFlush /\ UNCHANGED <<valid, dirty>>
    BY <1>12 DEF FlushWritten, arrays
  <2> QED BY <1>1, <2>1, AdvanceFlushBehind DEF FlushProgress, Behind
<1> QED BY <1>2, <1>3, <1>4, <1>5, <1>6, <1>7, <1>8, <1>9, <1>10, <1>11, <1>12
        DEF Next, Advance

LEMMA FenceWritesAllHolds == ASSUME Invariant, FlushProgress PROVE FenceWritesAll
<1>1. SUFFICES ASSUME curr = "ADDRESS_SETUP", IsFence PROVE mem = Visible
  BY DEF FenceWritesAll
<1>2. ASSUME NEW a \in Locations PROVE Visible[a] = mem[a]
  <2>1. ASSUME NEW w \in Holders(a) PROVE Matches(a[2], w)
    <3>1. w \in Ways /\ a[2] \in SetIdx /\ valid[a[2]][w] BY <2>1, HolderIs
    <3>2. ~dirty[a[2]][w] BY <1>1, <3>1 DEF FlushProgress, DirtyLine
    <3> QED BY <1>1, <3>1, <3>2 DEF Invariant, Coherent, CleanMatchesMemory, Matches
  <2> QED BY <2>1, MatchVisible DEF Invariant, Placement
<1> QED BY <1>2, VisibleType DEF Invariant, TypeOK

(***************************************************************************)
(* fence.i does not leave before memory has everything that was stored,    *)
(* whatever it interrupted: the counters visit every way of every set, and *)
(* a line, once written, stays clean until the flush ends.                 *)
(***************************************************************************)
THEOREM FenceFlushesAll == ASSUME PlainProgram PROVE Spec => []FenceWritesAll
<1>1. Init => FlushProgress BY DEF Init, FlushProgress
<1>2. Invariant /\ FlushProgress /\ [Next]_vars => FlushProgress' BY NextFlushProgress
<1>3. Invariant /\ FlushProgress => FenceWritesAll BY FenceWritesAllHolds
<1> QED BY <1>1, <1>2, <1>3, InvariantHolds, PTL DEF Spec
=============================================================================
