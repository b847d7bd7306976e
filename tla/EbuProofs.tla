----------------------------- MODULE EbuProofs ------------------------------
(***************************************************************************)
(* Theorems about the external bus unit, for lines of every length.        *)
(***************************************************************************)
EXTENDS Ebu, SequenceTheorems, TLAPS

(***************************************************************************)
(* Types.                                                                  *)
(***************************************************************************)
Beat  == 0 .. Beats - 1
Items == [beat : Beat, write : BOOLEAN]
Reqs  == {"none", "line", "evict", "clean"} \cup Uncached

LEMMA BeatFacts ==
  /\ Beats \in Nat /\ Beats >= 4 /\ Beats <= 16 /\ 0 \in Beat /\ Stale \notin Beat
  /\ \A b \in Beat : /\ (b + 1) % Beats = IF b = Beats - 1 THEN 0 ELSE b + 1
                     /\ (b + 1) % Beats \in Beat
<1>1. CASE Beats = 4 BY <1>1 DEF Beat, Stale
<1>2. CASE Beats = 8 BY <1>2 DEF Beat, Stale
<1>3. CASE Beats = 16 BY <1>3 DEF Beat, Stale
<1> QED BY <1>1, <1>2, <1>3, EbuAssumption

LEMMA KindsAreReqs == \A m \in Masters : Kinds(m) \subseteq Reqs
BY EbuAssumption DEF Kinds, Reqs, IFUKinds, Uncached

LEMMA LineType ==
  ASSUME NEW w \in BOOLEAN PROVE Line(w) \in Seq(Items) /\ Len(Line(w)) = Beats
<1>1. Line(w) \in [1 .. Beats -> Items] BY BeatFacts DEF Line, Items, Beat
<1>2. Beats \in Nat BY BeatFacts
<1>3. Line(w) \in Seq(Items) BY <1>1, <1>2, SeqDef
<1> QED BY <1>1, <1>2, <1>3, LenProperties

LEMMA TransfersType == \A kind : Transfers(kind) \in Seq(Items)
<1> SUFFICES ASSUME NEW kind PROVE Transfers(kind) \in Seq(Items)
  OBVIOUS
<1>1. Line(TRUE) \in Seq(Items) /\ Line(FALSE) \in Seq(Items) BY LineType
<1>2. Line(TRUE) \o Line(FALSE) \in Seq(Items) BY <1>1, ConcatProperties
<1>3. [beat |-> 0, write |-> TRUE] \in Items /\ [beat |-> 0, write |-> FALSE] \in Items
  BY BeatFacts DEF Items
<1>4. /\ <<[beat |-> 0, write |-> TRUE]>> \in Seq(Items)
      /\ <<[beat |-> 0, write |-> FALSE]>> \in Seq(Items)
      /\ <<[beat |-> 0, write |-> FALSE], [beat |-> 0, write |-> TRUE]>> \in Seq(Items)
      /\ <<>> \in Seq(Items)
  BY <1>3
<1> HIDE DEF Items
<1> QED BY <1>1, <1>2, <1>4 DEF Transfers

LEMMA PhaseType ==
  ASSUME TypeOK
  PROVE  /\ \A m \in Masters : AddressPhase(m) \in Phases
         /\ Quiet \in Phases /\ Out \in Phases
<1>1. \A m \in Masters : AddressPhase(m) \in Phases
  BY DEF AddressPhase, Phases, HTRANS, HWRITE, HBURST, TypeOK, EbuAssumption
<1>2. Quiet \in Phases BY BeatFacts DEF Quiet, Phases, Masters, Beat
<1> QED BY <1>1, <1>2 DEF Out, IFUOut, Masters, TypeOK

LEMMA CountersType ==
  ASSUME TypeOK, NEW Stall \in [Masters -> BOOLEAN], BusFSMs(Stall)
  PROVE  /\ busState' \in [Masters -> BusStates]
         /\ BeatCount' \in [Masters -> Beat] /\ BeatCountDelayed' \in [Masters -> Beat]
<1>1. \A m \in Masters : NextState(m, Stall[m]) \in BusStates
  BY DEF NextState, BusStates, TypeOK
<1>2. \A m \in Masters : BeatCount[m] \in Beat /\ BeatCountDelayed[m] \in Beat
  BY DEF TypeOK, Beat
<1>3. \A m \in Masters : NextBeatCount(m) \in Beat BY <1>2, BeatFacts DEF NextBeatCount
<1> QED BY <1>1, <1>2, <1>3, BeatFacts DEF BusFSMs, BusStates

LEMMA OperationsType ==
  ASSUME TypeOK, NEW Stall \in [Masters -> BOOLEAN], Operations(Stall)
  PROVE  /\ req' \in [Masters -> Reqs] /\ walk' \in 0 .. MaxWalk
         /\ todo' \in [Masters -> Seq(Items)]
<1>1. \A m \in Masters : NextReq(m, Stall[m]) \subseteq Reqs
  <2> SUFFICES ASSUME NEW m \in Masters PROVE NextReq(m, Stall[m]) \subseteq Reqs
    OBVIOUS
  <2>1. req[m] \in Reqs BY DEF TypeOK, Reqs
  <2> QED BY <2>1, KindsAreReqs DEF NextReq, Reqs
<1>2. req' \in [Masters -> Reqs] BY <1>1 DEF Operations, Masters
<1>3. walk' \in 0 .. MaxWalk BY EbuAssumption DEF Operations, Walking, TypeOK
<1>4. \A m \in Masters : Remaining(m, Stall[m]) \in Seq(Items)
  <2> SUFFICES ASSUME NEW m \in Masters PROVE Remaining(m, Stall[m]) \in Seq(Items)
    OBVIOUS
  <2>1. todo[m] \in Seq(Items) BY DEF TypeOK, Items, Beat
  <2>2. todo[m] # <<>> => Tail(todo[m]) \in Seq(Items) BY <2>1, HeadTailProperties
  <2> QED BY <2>1, <2>2, TransfersType, EmptySeq DEF Remaining
<1> QED BY <1>2, <1>3, <1>4 DEF Operations

LEMMA CycleType == ASSUME TypeOK, [Cycle]_vars PROVE TypeOK'
<1>1. CASE Cycle
  <2>1. PICK Stall \in [Masters -> BOOLEAN] : BusFSMs(Stall) /\ Operations(Stall) /\ Trap(Stall)
    BY <1>1 DEF Cycle
  <2>2. Arbitrate /\ Slave /\ HWDATA' = NextHWDATA BY <1>1 DEF Cycle
  <2>3. HWDATA' \in 0 .. Stale
    <3>1. BeatCount["LSU"] \in 0 .. Stale /\ Stale \in 0 .. Stale /\ 0 \in 0 .. Stale
      BY BeatFacts DEF TypeOK, Masters, Stale, Beat
    <3> QED BY <2>2, <3>1 DEF NextHWDATA, PreHWDATA, TypeOK
  <2>4. Out \in Phases /\ Quiet \in Phases /\ AddressPhase("IFU") \in Phases
    BY PhaseType DEF Masters
  <2>5. /\ arb' \in {"IDLE", "ARBITRATE"} /\ IFUReqDelay' \in BOOLEAN
        /\ FinalBeatD' \in BOOLEAN /\ saved' \in Phases
    BY <2>2, <2>4 DEF Arbitrate, ArbNext, IFUReq, FinalBeat, NextSaved, TypeOK
  <2>6. ebuCount' \in 0 .. 15 BY <2>2 DEF Arbitrate, TypeOK
  <2>7. dphase' \in Phases /\ HREADY' \in BOOLEAN /\ orphan' \in BOOLEAN /\ flush' \in BOOLEAN
    BY <2>1, <2>2, <2>4 DEF Slave, Trap, TypeOK
  <2> QED BY <2>1, <2>3, <2>5, <2>6, <2>7, CountersType, OperationsType
          DEF TypeOK, Beat, Items, Reqs
<1>2. CASE UNCHANGED vars BY <1>2 DEF vars, fsm, arbiter, TypeOK
<1> QED BY <1>1, <1>2

LEMMA InitType == Init => TypeOK
<1> SUFFICES ASSUME Init PROVE TypeOK
  OBVIOUS
<1>1. 0 \in Beat /\ Quiet \in Phases /\ MaxWalk \in 0 .. MaxWalk /\ Stale \in 0 .. Stale
  BY BeatFacts, EbuAssumption DEF Quiet, Phases, Masters, Beat, Stale
<1>2. todo \in [Masters -> Seq(Items)] BY EmptySeq DEF Init
<1>3. /\ busState \in [Masters -> BusStates] /\ req \in [Masters -> Reqs]
      /\ BeatCount \in [Masters -> Beat] /\ BeatCountDelayed \in [Masters -> Beat]
  BY <1>1 DEF Init, BusStates, Reqs
<1>4. /\ arb = "IDLE" /\ IFUReqDelay = FALSE /\ FinalBeatD = FALSE /\ ebuCount = 0
      /\ HREADY = TRUE /\ flush = FALSE /\ orphan = FALSE
  BY DEF Init
<1>5. HWDATA \in 0 .. Stale /\ saved \in Phases /\ dphase \in Phases /\ walk \in 0 .. MaxWalk
  BY <1>1 DEF Init
<1>6. ebuCount \in 0 .. 15 BY <1>4
<1>7. /\ arb \in {"IDLE", "ARBITRATE"} /\ IFUReqDelay \in BOOLEAN /\ FinalBeatD \in BOOLEAN
      /\ HREADY \in BOOLEAN /\ flush \in BOOLEAN /\ orphan \in BOOLEAN
  BY <1>4, Zenon
<1> QED BY <1>2, <1>3, <1>5, <1>6, <1>7 DEF TypeOK, Beat, Items, Reqs

\* Every register keeps its type, the beat counters included: they wrap at the end
\* of a line of any length, with and without atomics.
THEOREM EbuTypeCorrect == Spec => []TypeOK
<1>1. Init => TypeOK BY InitType
<1> QED BY <1>1, CycleType, PTL DEF Spec
-----------------------------------------------------------------------------
(***************************************************************************)
(* The inductive invariant, for a data side without uncached atomics.  It  *)
(* says what each state of a master's bus state machine means: which       *)
(* operation it serves, what its counters hold, whether its transfer is    *)
(* the one in the data phase, and what its operation still asks for.       *)
(***************************************************************************)
\* The beats of a line from beat k on.
From(k, w) == [i \in 1 .. Beats - k |-> [beat |-> k + i - 1, write |-> w]]

\* The state machine of the instruction side waits for its saved address phase.
Parked(m) == m = "IFU" /\ arb = "ARBITRATE"

\* The address phase of m has been taken, and its data phase not yet ended.
Issued(m) == busState[m] \in {"DATA_PHASE", "CACHE_FETCH", "CACHE_WRITEBACK"} /\ ~Parked(m)
Mine(m)   == dphase.trans # "IDLE" /\ dphase.master = m /\ ~orphan

Control(m) ==
  /\ req[m] = "none" => busState[m] = "ADR_PHASE"
  /\ busState[m] \in {"DATA_PHASE", "MEM3"} => req[m] \in {"word", "load", "store"}
  /\ busState[m] = "CACHE_FETCH" => req[m] = "line"
  /\ busState[m] = "CACHE_WRITEBACK" => req[m] \in {"evict", "clean"}
  /\ busState[m] \notin {"ATOMIC_READ_DATA_PHASE", "ATOMIC_PHASE"}
  /\ req[m] \in {"none", "line"} \cup Kinds(m)

\* In a line the counter is a beat ahead of the data phase.  A trap may leave
\* a stale count, but not to the next operation.
Counters(m) ==
  IF CacheAccess(m)
  THEN BeatCount[m] = IF BeatCountDelayed[m] = Beats - 1 THEN 0 ELSE BeatCountDelayed[m] + 1
  ELSE req[m] # "none" => BeatCount[m] = 0 /\ BeatCountDelayed[m] = 0

DataPhase(m) ==
  /\ Issued(m) <=> Mine(m)
  /\ Issued(m) => /\ dphase.beat = BeatCountDelayed[m]
                  /\ dphase.write <=> (busState[m] = "CACHE_WRITEBACK" \/ req[m] = "store")
                  /\ CacheAccess(m) => dphase.burst = BURST_EN

Expected(m) ==
  CASE busState[m] = "ADR_PHASE" -> Transfers(req[m])
    [] busState[m] = "DATA_PHASE" -> IF Parked(m) THEN Transfers(req[m]) ELSE <<>>
    [] busState[m] = "CACHE_FETCH" ->
         IF Parked(m) THEN Line(FALSE) ELSE From(BeatCountDelayed[m] + 1, FALSE)
    [] busState[m] = "CACHE_WRITEBACK" ->
         From(BeatCountDelayed[m] + 1, TRUE) \o IF req[m] = "evict" THEN Line(FALSE) ELSE <<>>
    [] OTHER -> <<>>

Saved ==
  arb = "ARBITRATE" =>
    /\ busState["IFU"] \in {"DATA_PHASE", "CACHE_FETCH"}
    /\ BeatCountDelayed["IFU"] = 0
    /\ saved = [master |-> "IFU", trans |-> "NONSEQ", write |-> FALSE,
                burst |-> (BURST_EN /\ busState["IFU"] = "CACHE_FETCH"), beat |-> 0]

\* The last two say why the data side never misses an HREADY that is its own, and
\* never drives the bus inside a burst of the instruction side.
Bus ==
  /\ ~HREADY => dphase.trans # "IDLE"
  /\ dphase.write => HWDATA = dphase.beat
  /\ flush => busState["IFU"] \in {"ADR_PHASE", "MEM3"}
  /\ arb = "IDLE" /\ Mine("LSU") => ~IFUReqDelay
  /\ arb = "IDLE" /\ busState["IFU"] = "CACHE_FETCH" /\ BeatCount["IFU"] # 0 => IFUReqDelay

States == \A m \in Masters : Control(m) /\ Counters(m)
EbuInv ==
  /\ TypeOK /\ States /\ Saved /\ Bus
  /\ \A m \in Masters : DataPhase(m) /\ todo[m] = Expected(m)
-----------------------------------------------------------------------------
(***************************************************************************)
(* Sequences of transfers.                                                 *)
(***************************************************************************)
LEMMA FromType ==
  ASSUME NEW w \in BOOLEAN, NEW k \in 0 .. Beats
  PROVE  /\ From(k, w) \in Seq(Items) /\ Len(From(k, w)) = Beats - k
         /\ \A i \in 1 .. Beats - k : From(k, w)[i] = [beat |-> k + i - 1, write |-> w]
<1>1. Beats - k \in Nat BY BeatFacts
<1>2. From(k, w) \in [1 .. Beats - k -> Items] BY BeatFacts DEF From, Items, Beat
<1>3. From(k, w) \in Seq(Items) BY <1>1, <1>2, SeqDef
<1> QED BY <1>1, <1>2, <1>3, LenProperties DEF From

LEMMA FromFacts ==
  ASSUME NEW w \in BOOLEAN, NEW k \in 0 .. Beats
  PROVE  /\ From(k, w) \in Seq(Items)
         /\ k = Beats => From(k, w) = <<>>
         /\ k < Beats => /\ From(k, w) # <<>>
                         /\ Head(From(k, w)) = [beat |-> k, write |-> w]
                         /\ Tail(From(k, w)) = From(k + 1, w)
         /\ From(0, w) = Line(w)
<1> DEFINE s == From(k, w)
           t == From(k + 1, w)
<1>1. s \in Seq(Items) /\ Len(s) = Beats - k BY FromType
<1>2. k = Beats => s = <<>> BY BeatFacts DEF From
<1>3. ASSUME k < Beats
      PROVE  s # <<>> /\ Head(s) = [beat |-> k, write |-> w] /\ Tail(s) = t
  <2>1. k + 1 \in 0 .. Beats /\ 1 \in 1 .. Beats - k /\ Beats - k # 0 BY <1>3, BeatFacts
  <2>2. s # <<>> BY <1>1, <2>1, EmptySeq
  <2>3. s[1] = [beat |-> k + 1 - 1, write |-> w] BY <2>1, FromType
  <2>4. k + 1 - 1 = k BY BeatFacts
  <2>5. t \in Seq(Items) /\ Len(t) = Beats - (k + 1) BY <2>1, FromType
  <2>6. Tail(s) \in Seq(Items) /\ Len(Tail(s)) = (Beats - k) - 1 BY <1>1, <2>2, HeadTailProperties
  <2>7. (Beats - k) - 1 = Beats - (k + 1) BY BeatFacts
  <2>8. ASSUME NEW i \in 1 .. Len(t) PROVE t[i] = Tail(s)[i]
    <3>1. i \in 1 .. Beats - (k + 1) /\ i + 1 \in 1 .. Beats - k BY <2>5, <2>8, BeatFacts
    <3>2. Tail(s)[i] = s[i + 1] BY <1>1, <2>2, <2>6, <2>7, <3>1, HeadTailProperties
    <3>3. s[i + 1] = [beat |-> k + (i + 1) - 1, write |-> w] BY <3>1, FromType
    <3>4. t[i] = [beat |-> (k + 1) + i - 1, write |-> w] BY <2>1, <3>1, FromType
    <3>5. k + (i + 1) - 1 = (k + 1) + i - 1 BY <3>1, BeatFacts
    <3> QED BY <3>2, <3>3, <3>4, <3>5
  <2> HIDE DEF s, t
  <2>9. t = Tail(s) BY <2>5, <2>6, <2>7, <2>8, SeqEqual
  <2>10. Head(s) = s[1] BY <1>1, <2>2
  <2> QED BY <2>2, <2>3, <2>4, <2>9, <2>10
<1>4. From(0, w) = Line(w) BY BeatFacts DEF From, Line
<1> QED BY <1>1, <1>2, <1>3, <1>4

LEMMA ConcatFacts ==
  ASSUME NEW s \in Seq(Items), NEW t \in Seq(Items), s # <<>>
  PROVE  s \o t # <<>> /\ Head(s \o t) = Head(s) /\ Tail(s \o t) = Tail(s) \o t
<1>1. s \o t \in Seq(Items) /\ Len(s \o t) = Len(s) + Len(t) BY ConcatProperties
<1>2. Len(s) \in Nat \ {0} /\ Len(t) \in Nat BY EmptySeq, LenProperties
<1>3. s \o t # <<>> BY <1>1, <1>2, EmptySeq
<1>4. (s \o t)[1] = s[1] BY <1>2, ConcatProperties
<1>5. Head(s \o t) = (s \o t)[1] /\ Head(s) = s[1] BY <1>1, <1>3
<1>6. Tail(s) \in Seq(Items) /\ Len(Tail(s)) = Len(s) - 1 BY HeadTailProperties
<1>7. Tail(s \o t) \in Seq(Items) /\ Len(Tail(s \o t)) = Len(s) + Len(t) - 1
  BY <1>1, <1>3, HeadTailProperties
<1>8. Tail(s) \o t \in Seq(Items) /\ Len(Tail(s) \o t) = (Len(s) - 1) + Len(t)
  BY <1>6, ConcatProperties
<1>9. ASSUME NEW i \in 1 .. Len(Tail(s \o t)) PROVE Tail(s \o t)[i] = (Tail(s) \o t)[i]
  <2>1. Tail(s \o t)[i] = (s \o t)[i + 1] BY <1>1, <1>3, HeadTailProperties
  <2>2. i + 1 \in 1 .. Len(s) + Len(t) /\ i \in 1 .. (Len(s) - 1) + Len(t) BY <1>2, <1>7
  <2>3. (s \o t)[i + 1] = IF i + 1 <= Len(s) THEN s[i + 1] ELSE t[i + 1 - Len(s)]
    BY <2>2, ConcatProperties
  <2>4. (Tail(s) \o t)[i] = IF i <= Len(s) - 1 THEN Tail(s)[i] ELSE t[i - (Len(s) - 1)]
    BY <1>6, <2>2, ConcatProperties
  <2>5. i <= Len(s) - 1 => Tail(s)[i] = s[i + 1] BY <1>2, <1>6, <2>2, HeadTailProperties
  <2>6. i + 1 - Len(s) = i - (Len(s) - 1) /\ (i + 1 <= Len(s) <=> i <= Len(s) - 1)
    BY <1>2, <2>2
  <2> QED BY <2>1, <2>3, <2>4, <2>5, <2>6
<1>10. Tail(s \o t) = Tail(s) \o t BY <1>2, <1>7, <1>8, <1>9, SeqEqual
<1> QED BY <1>3, <1>4, <1>5, <1>10

LEMMA TailOfConcat ==
  ASSUME NEW s \in Seq(Items), NEW t \in Seq(Items), s # <<>>, NEW u, Tail(s) = u
  PROVE  Tail(s \o t) = u \o t
BY ConcatFacts, Zenon
-----------------------------------------------------------------------------
(***************************************************************************)
(* What a master drives.                                                   *)
(***************************************************************************)
Mid(m) == CacheAccess(m) /\ BeatCount[m] # 0
Sends(m) == HTRANS(m) # "IDLE"

Phase(m, trans, write, burst, beat) ==
  [master |-> m, trans |-> trans, write |-> write, burst |-> burst, beat |-> beat]

LEMMA PhaseFields ==
  ASSUME NEW m, NEW trans, NEW write, NEW burst, NEW beat
  PROVE  LET p == Phase(m, trans, write, burst, beat)
         IN  /\ p.master = m /\ p.trans = trans /\ p.write = write
             /\ p.burst = burst /\ p.beat = beat
BY DEF Phase

LEMMA CounterType ==
  ASSUME TypeOK, NEW m \in Masters
  PROVE  BeatCount[m] \in Beat /\ BeatCountDelayed[m] \in Beat
BY DEF TypeOK, Beat

LEMMA MidCounts ==
  ASSUME TypeOK, NEW m \in Masters, Control(m), Counters(m), CacheAccess(m)
  PROVE  /\ BeatCountDelayed[m] \in Beat /\ BeatCountDelayed[m] + 1 \in 0 .. Beats
         /\ Mid(m) <=> BeatCountDelayed[m] # Beats - 1
         /\ Mid(m) => BeatCount[m] = BeatCountDelayed[m] + 1 /\ BeatCountDelayed[m] + 1 < Beats
         /\ ~Mid(m) => BeatCount[m] = 0
         /\ FinalBeatCount(m) <=> ~Mid(m)
BY CounterType, BeatFacts DEF Counters, Mid, FinalBeatCount, Beat

LEMMA SendsWhen ==
  ASSUME TypeOK, NEW m \in Masters, Control(m)
  PROVE  Sends(m) <=> Starts(m) \/ Chained(m) \/ Mid(m)
BY DEF Sends, HTRANS, Control, Mid

LEMMA StartPhase ==
  ASSUME TypeOK, NEW m \in Masters, Control(m), Counters(m), Starts(m), "amo" \notin LSUKinds
  PROVE  /\ HREADY /\ busState[m] = "ADR_PHASE" /\ BeatCount[m] = 0 /\ ~flush
         /\ req[m] # "none" /\ req[m] # "amo"
         /\ AddressPhase(m) = Phase(m, "NONSEQ", req[m] \in {"store", "evict", "clean"},
                                    BURST_EN /\ req[m] \notin Uncached, 0)
<1>1. busState[m] = "ADR_PHASE" /\ HREADY /\ ~flush /\ ~CacheAccess(m) /\ ~CacheBusAck(m)
  BY DEF Starts, Ready, CacheAccess, CacheBusAck
<1>2. req[m] # "none"
  BY <1>1 DEF Starts, Asks, BusRW, CacheBusRW, Writing, Fetching, Uncached
<1>3. BeatCount[m] = 0 BY <1>1, <1>2 DEF Counters
<1>4. HTRANS(m) = "NONSEQ" BY DEF HTRANS
<1>5. HWRITE(m) = (req[m] \in {"store", "evict", "clean"})
  <2>1. CASE req[m] \in {"store", "evict", "clean"}
    <3>1. HWRITE(m) = TRUE BY <1>1, <2>1 DEF HWRITE, Writing
    <3> QED BY <2>1, <3>1
  <2>2. CASE ~(req[m] \in {"store", "evict", "clean"})
    <3>1. HWRITE(m) = FALSE BY <1>1, <2>2 DEF HWRITE, Writing
    <3>2. FALSE = (req[m] \in {"store", "evict", "clean"}) BY <2>2, SMT
    <3> QED BY <3>1, <3>2, Zenon
  <2> QED BY <2>1, <2>2
<1>6. HBURST(m) = (BURST_EN /\ req[m] \notin Uncached)
  <2>1. CacheBusRW(m) <=> req[m] \notin Uncached
    BY <1>1, <1>2, EbuAssumption DEF CacheBusRW, Writing, Fetching, Uncached, Control, Kinds, IFUKinds
  <2> QED BY <2>1, <1>1 DEF HBURST
<1>7. req[m] # "amo"
  BY DEF Control, Kinds, IFUKinds
<1> QED BY <1>1, <1>2, <1>3, <1>4, <1>5, <1>6, <1>7 DEF AddressPhase, Phase

LEMMA ChainPhase ==
  ASSUME TypeOK, NEW m \in Masters, Control(m), Counters(m), Chained(m)
  PROVE  /\ HREADY /\ m = "LSU" /\ busState[m] = "CACHE_WRITEBACK" /\ req[m] = "evict"
         /\ BeatCountDelayed[m] = Beats - 1 /\ BeatCount[m] = 0 /\ ~flush
         /\ AddressPhase(m) = Phase(m, "NONSEQ", FALSE, BURST_EN, 0)
<1>1. CacheBusAck(m) /\ CacheBusRW(m) /\ ~flush /\ HREADY /\ CacheAccess(m) /\ FinalBeatCount(m)
  BY DEF Chained, CacheBusAck, Ready
<1>2. req[m] = "evict" BY <1>1 DEF CacheBusRW, Writing, Fetching
<1>3. busState[m] = "CACHE_WRITEBACK" BY <1>1, <1>2 DEF CacheAccess, Control
<1>4. m = "LSU" BY <1>2 DEF Control, Kinds, IFUKinds, Masters
<1>5. BeatCountDelayed[m] = Beats - 1 /\ BeatCount[m] = 0
  BY <1>1, MidCounts DEF FinalBeatCount, Mid
<1>6. HTRANS(m) = "NONSEQ" BY DEF HTRANS
<1>7. HWRITE(m) = FALSE BY <1>1, <1>2, <1>3, <1>5 DEF HWRITE, Writing
<1>8. HBURST(m) = BURST_EN BY <1>1, EbuAssumption DEF HBURST
<1> QED BY <1>1, <1>2, <1>3, <1>4, <1>5, <1>6, <1>7, <1>8 DEF AddressPhase, Phase

LEMMA MidPhase ==
  ASSUME TypeOK, NEW m \in Masters, Control(m), Counters(m), Mid(m)
  PROVE  AddressPhase(m) = Phase(m, IF BURST_EN THEN "SEQ" ELSE "NONSEQ",
                                 busState[m] = "CACHE_WRITEBACK", BURST_EN,
                                 BeatCountDelayed[m] + 1)
<1>1. CacheAccess(m) /\ BeatCount[m] # 0 /\ BeatCount[m] = BeatCountDelayed[m] + 1
      /\ ~FinalBeatCount(m) /\ ~CacheBusAck(m)
  BY MidCounts DEF Mid, CacheBusAck
<1>2. HTRANS(m) = IF BURST_EN THEN "SEQ" ELSE "NONSEQ"
  BY <1>1 DEF HTRANS, Starts, Chained, CacheAccess
<1>3. HWRITE(m) = (busState[m] = "CACHE_WRITEBACK")
  BY <1>1 DEF HWRITE, CacheAccess, Writing, Control
<1>4. HBURST(m) = BURST_EN BY <1>1, EbuAssumption DEF HBURST
<1> QED BY <1>1, <1>2, <1>3, <1>4 DEF AddressPhase, Phase

\* What is sent is the next transfer the operation asks for.
LEMMA SendsNext ==
  ASSUME TypeOK, NEW m \in Masters, Control(m), Counters(m), ~Parked(m), Sends(m), "amo" \notin LSUKinds
  PROVE  /\ Expected(m) # <<>>
         /\ Head(Expected(m)) = [beat |-> AddressPhase(m).beat, write |-> AddressPhase(m).write]
<1>0. Line(FALSE) \in Seq(Items) /\ <<>> \in Seq(Items)
  BY LineType, EmptySeq
<1>l. \A w \in BOOLEAN : /\ Line(w) \in Seq(Items) /\ Line(w) # <<>>
                         /\ Head(Line(w)) = [beat |-> 0, write |-> w]
  <2> SUFFICES ASSUME NEW w \in BOOLEAN
               PROVE  /\ Line(w) \in Seq(Items) /\ Line(w) # <<>>
                      /\ Head(Line(w)) = [beat |-> 0, write |-> w]
    OBVIOUS
  <2>1. 0 \in 0 .. Beats /\ 0 < Beats BY BeatFacts
  <2> QED BY <2>1, FromFacts
<1>1. CASE Starts(m)
  <2>1. Expected(m) = Transfers(req[m]) /\ req[m] # "none" /\ req[m] # "amo"
    BY <1>1, StartPhase DEF Expected
  <2>2. /\ AddressPhase(m).beat = 0
        /\ AddressPhase(m).write = (req[m] \in {"store", "evict", "clean"})
    BY <1>1, StartPhase DEF Phase
  <2>3. CASE req[m] \in {"line", "clean"}
    <3>1. Expected(m) = Line(req[m] = "clean") BY <2>1, <2>3 DEF Transfers
    <3>2. AddressPhase(m).write = (req[m] = "clean") BY <2>2, <2>3
    <3> QED BY <1>l, <2>2, <3>1, <3>2
  <2>4. CASE req[m] = "evict"
    <3>1. Expected(m) = Line(TRUE) \o Line(FALSE) BY <2>1, <2>4 DEF Transfers
    <3>2. /\ Line(TRUE) \in Seq(Items) /\ Line(FALSE) \in Seq(Items) /\ Line(TRUE) # <<>>
          /\ Head(Line(TRUE)) = [beat |-> 0, write |-> TRUE]
      BY <1>l
    <3>3. Line(TRUE) \o Line(FALSE) # <<>> /\ Head(Line(TRUE) \o Line(FALSE)) = Head(Line(TRUE))
      BY <3>2, ConcatFacts
    <3>4. AddressPhase(m).write = TRUE BY <2>2, <2>4
    <3> QED BY <2>2, <3>1, <3>2, <3>3, <3>4
  <2>5. CASE req[m] \in {"word", "load", "store"}
    <3>1. Expected(m) = <<[beat |-> 0, write |-> (req[m] = "store")]>>
      BY <2>1, <2>5 DEF Transfers
    <3>2. AddressPhase(m).write = (req[m] = "store") BY <2>2, <2>5
    <3> QED BY <2>2, <3>1, <3>2
  <2>6. req[m] \in {"line", "clean", "evict", "word", "load", "store"}
    BY <2>1 DEF TypeOK, Uncached
  <2> QED BY <2>3, <2>4, <2>5, <2>6
<1>2. CASE Chained(m)
  <2>1. Expected(m) = From(Beats - 1 + 1, TRUE) \o Line(FALSE) BY <1>2, ChainPhase DEF Expected
  <2>2. Beats - 1 + 1 = Beats /\ Beats \in 0 .. Beats BY BeatFacts
  <2>3. Expected(m) = Line(FALSE) BY <1>0, <2>1, <2>2, FromFacts, ConcatEmptySeq
  <2>4. AddressPhase(m).beat = 0 /\ AddressPhase(m).write = FALSE
    BY <1>2, ChainPhase DEF Phase
  <2> QED BY <1>l, <2>3, <2>4
<1>3. CASE Mid(m)
  <2> DEFINE k == BeatCountDelayed[m] + 1
  <2>1. k \in 0 .. Beats /\ k < Beats BY <1>3, MidCounts DEF Mid
  <2>2. /\ AddressPhase(m).beat = k
        /\ AddressPhase(m).write = (busState[m] = "CACHE_WRITEBACK")
    BY <1>3, MidPhase DEF Phase
  <2>3. CASE busState[m] = "CACHE_FETCH"
    <3>1. Expected(m) = From(k, FALSE) BY <2>3 DEF Expected
    <3> HIDE DEF k
    <3> QED BY <2>1, <2>2, <2>3, <3>1, FromFacts
  <2>4. CASE busState[m] = "CACHE_WRITEBACK"
    <3> DEFINE rest == IF req[m] = "evict" THEN Line(FALSE) ELSE <<>>
    <3>1. Expected(m) = From(k, TRUE) \o rest BY <2>4 DEF Expected
    <3>2. rest \in Seq(Items) BY <1>0
    <3> HIDE DEF k, rest
    <3>3. /\ From(k, TRUE) \in Seq(Items) /\ From(k, TRUE) # <<>>
          /\ Head(From(k, TRUE)) = [beat |-> k, write |-> TRUE]
      BY <2>1, FromFacts
    <3>4. Expected(m) # <<>> /\ Head(Expected(m)) = Head(From(k, TRUE))
      BY <3>1, <3>2, <3>3, ConcatFacts
    <3> QED BY <2>2, <2>4, <3>3, <3>4
  <2> QED BY <1>3, <2>3, <2>4 DEF Mid, CacheAccess
<1> QED BY <1>1, <1>2, <1>3, SendsWhen
-----------------------------------------------------------------------------
(***************************************************************************)
(* Who has the bus.                                                        *)
(***************************************************************************)
Issue(m) == Accepted /\ Out.master = m

LEMMA OneIssued ==
  ASSUME EbuInv, "amo" \notin LSUKinds
  PROVE  /\ ~(Issued("LSU") /\ Issued("IFU"))
         /\ \A m \in Masters : Issued(m) => (Ready(m) <=> HREADY)
         /\ \A m \in Masters : Mid(m) /\ ~Parked(m) => Issued(m)
         /\ \A m \in Masters : Sends(m) /\ ~HREADY => Mid(m)
         /\ flush => arb = "IDLE" /\ ~Issued("IFU") /\ ~Sends("IFU")
         /\ arb = "IDLE" /\ Sends("IFU") /\ Sends("LSU") => Starts("IFU")
         /\ arb = "IDLE" /\ Mid("IFU") => ~Sends("LSU")
<1>m. "IFU" \in Masters /\ "LSU" \in Masters BY DEF Masters
<1>i. /\ TypeOK /\ Saved /\ Bus
      /\ \A m \in Masters : Control(m) /\ Counters(m) /\ DataPhase(m)
  BY DEF EbuInv, States
<1>1. ~(Issued("LSU") /\ Issued("IFU")) BY <1>i, <1>m DEF DataPhase, Mine
<1>2. ASSUME NEW m \in Masters, Issued(m) PROVE Ready(m) <=> HREADY
  <2>1. m = "IFU" => arb # "ARBITRATE" BY <1>2 DEF Issued, Parked
  <2>2. m = "LSU" => ~(arb = "IDLE" /\ IFUReqDelay) BY <1>i, <1>2, <1>m DEF DataPhase, Bus
  <2> QED BY <2>1, <2>2 DEF Ready, Disabled, Masters
<1>3. \A m \in Masters : Mid(m) /\ ~Parked(m) => Issued(m)
  BY DEF Mid, CacheAccess, Issued
<1>4. \A m \in Masters : Sends(m) /\ ~HREADY => Mid(m)
  BY <1>i, SendsWhen DEF Starts, Chained, CacheBusAck, Ready
<1>5. ASSUME flush PROVE arb = "IDLE" /\ ~Issued("IFU") /\ ~Sends("IFU")
  <2>1. busState["IFU"] \in {"ADR_PHASE", "MEM3"} BY <1>i, <1>5 DEF Bus
  <2>2. arb = "IDLE" BY <1>i, <2>1 DEF Saved, TypeOK
  <2>3. ~Starts("IFU") /\ ~Chained("IFU") /\ ~Mid("IFU")
    BY <1>5, <2>1 DEF Starts, Chained, Mid, CacheAccess
  <2> QED BY <1>i, <1>m, <2>1, <2>2, <2>3, SendsWhen DEF Issued
<1>6. ASSUME arb = "IDLE", Mid("IFU") PROVE ~Sends("LSU")
  <2>1. busState["IFU"] = "CACHE_FETCH"
    <3>1. busState["IFU"] # "CACHE_WRITEBACK"
      BY <1>i, <1>m DEF Control, Kinds, IFUKinds
    <3> QED BY <1>6, <3>1 DEF Mid, CacheAccess
  <2>2. IFUReqDelay BY <1>i, <1>6, <2>1 DEF Bus, Mid
  <2>3. ~Ready("LSU") BY <1>6, <2>2 DEF Ready, Disabled
  <2>4. ~Starts("LSU") /\ ~Chained("LSU") BY <2>3 DEF Starts, Chained, CacheBusAck
  <2>5. Issued("IFU") BY <1>m, <1>3, <1>6 DEF Parked
  <2>6. ~Mid("LSU") BY <1>1, <1>3, <1>m, <2>5 DEF Parked
  <2> QED BY <1>i, <1>m, <2>4, <2>6, SendsWhen
<1>7. ASSUME arb = "IDLE", Sends("IFU"), Sends("LSU") PROVE Starts("IFU")
  <2>1. ~Chained("IFU") BY <1>i, <1>m, ChainPhase
  <2> QED BY <1>i, <1>m, <1>6, <1>7, <2>1, SendsWhen
<1> QED BY <1>1, <1>2, <1>3, <1>4, <1>5, <1>6, <1>7

LEMMA Grants ==
  ASSUME EbuInv
  PROVE  /\ Sends("LSU") => Out = AddressPhase("LSU") /\ Out.trans # "IDLE"
         /\ ~Sends("LSU") /\ arb = "IDLE" /\ Sends("IFU") =>
              Out = AddressPhase("IFU") /\ Out.trans # "IDLE" /\ ArbNext = "IDLE"
         /\ ~Sends("LSU") /\ arb = "ARBITRATE" /\ HREADY /\ FinalBeatD =>
              Out = saved /\ Out.trans # "IDLE"
         /\ ~Sends("LSU") /\ arb = "IDLE" /\ ~Sends("IFU") => Out.trans = "IDLE"
         /\ ~Sends("LSU") /\ arb = "ARBITRATE" /\ ~(HREADY /\ FinalBeatD) => Out.trans = "IDLE"
         /\ arb = "IDLE" => (ArbNext = "ARBITRATE" <=> Sends("LSU") /\ Sends("IFU"))
         /\ arb = "ARBITRATE" => (ArbNext = "IDLE" <=> HREADY /\ FinalBeatD /\ ~Sends("LSU"))
         /\ ArbNext \in {"IDLE", "ARBITRATE"} /\ arb \in {"IDLE", "ARBITRATE"}
         /\ IFUReq <=> arb = "ARBITRATE" \/ Sends("IFU")
<1>1. \A m \in Masters : AddressPhase(m).trans = HTRANS(m) BY DEF AddressPhase
<1>2. arb \in {"IDLE", "ARBITRATE"} /\ (arb = "ARBITRATE" => saved.trans = "NONSEQ")
  BY DEF EbuInv, Saved, TypeOK
<1>3. LSUReq <=> Sends("LSU") BY DEF LSUReq, Sends
<1>4. IFUReq <=> arb = "ARBITRATE" \/ Sends("IFU")
  BY <1>1, <1>2 DEF IFUReq, IFUOut, Sends, Masters
<1>5. /\ arb = "IDLE" => (ArbNext = "ARBITRATE" <=> Sends("LSU") /\ Sends("IFU"))
      /\ arb = "ARBITRATE" => (ArbNext = "IDLE" <=> HREADY /\ FinalBeatD /\ ~Sends("LSU"))
      /\ ArbNext \in {"IDLE", "ARBITRATE"}
  BY <1>2, <1>3, <1>4 DEF ArbNext, both
<1>6. Quiet.trans = "IDLE" BY DEF Quiet
<1>7. IFUOut = IF arb = "ARBITRATE" THEN saved ELSE AddressPhase("IFU") BY DEF IFUOut
<1>8. Out = IF ArbNext = "ARBITRATE" \/ Sends("LSU") THEN AddressPhase("LSU")
            ELSE IF arb = "ARBITRATE" \/ Sends("IFU") THEN IFUOut ELSE Quiet
  BY <1>3, <1>4 DEF Out, LSUSelect
<1>9. AddressPhase("LSU").trans # "IDLE" <=> Sends("LSU") BY <1>1 DEF Sends, Masters
<1>10. AddressPhase("IFU").trans # "IDLE" <=> Sends("IFU") BY <1>1 DEF Sends, Masters
<1> QED BY <1>2, <1>4, <1>5, <1>6, <1>7, <1>8, <1>9, <1>10

LEMMA WhoIssues ==
  ASSUME EbuInv
  PROVE  /\ Issue("LSU") <=> HREADY /\ Sends("LSU")
         /\ Issue("LSU") => Out = AddressPhase("LSU")
         /\ Issue("IFU") <=> /\ HREADY /\ ~Sends("LSU")
                             /\ IF arb = "ARBITRATE" THEN FinalBeatD ELSE Sends("IFU")
         /\ Issue("IFU") => Out = IF arb = "ARBITRATE" THEN saved ELSE AddressPhase("IFU")
         /\ Accepted => \E m \in Masters : Issue(m)
<1>1. AddressPhase("LSU").master = "LSU" /\ AddressPhase("IFU").master = "IFU"
  BY DEF AddressPhase
<1>2. arb = "ARBITRATE" => saved.master = "IFU" BY DEF EbuInv, Saved
<1>3. Accepted <=> HREADY /\ Out.trans # "IDLE" BY DEF Accepted
<1>4. CASE Sends("LSU")
  BY <1>1, <1>3, <1>4, Grants DEF Issue, Masters
<1>5. CASE ~Sends("LSU") /\ arb = "IDLE"
  BY <1>1, <1>3, <1>5, Grants DEF Issue, Masters
<1>6. CASE ~Sends("LSU") /\ arb = "ARBITRATE"
  BY <1>2, <1>3, <1>6, Grants DEF Issue, Masters
<1> QED BY <1>4, <1>5, <1>6, Grants

\* What a slave accepts is what the operation asks for next.
LEMMA IssuesNext ==
  ASSUME EbuInv, "amo" \notin LSUKinds, NEW m \in Masters, Issue(m)
  PROVE  /\ Expected(m) # <<>>
         /\ Head(Expected(m)) = [beat |-> Out.beat, write |-> Out.write]
<1>i. TypeOK /\ Saved /\ Control(m) /\ Counters(m) BY DEF EbuInv, States
<1>1. CASE ~Parked(m)
  <2>1. Sends(m) /\ Out = AddressPhase(m) BY <1>1, WhoIssues, Grants DEF Parked, Masters
  <2> QED BY <1>i, <1>1, <2>1, SendsNext
<1>2. CASE Parked(m)
  <2>1. m = "IFU" /\ arb = "ARBITRATE" BY <1>2 DEF Parked
  <2>2. Out = saved BY <2>1, WhoIssues
  <2>3. Out.beat = 0 /\ Out.write = FALSE BY <1>i, <2>1, <2>2 DEF Saved
  <2>4. CASE busState[m] = "DATA_PHASE"
    <3>1. req[m] = "word" BY <1>i, <2>1, <2>4 DEF Control, Kinds, IFUKinds
    <3>2. Expected(m) = <<[beat |-> 0, write |-> FALSE]>>
      BY <1>2, <2>4, <3>1 DEF Expected, Transfers
    <3>3. LET x == [beat |-> 0, write |-> FALSE] IN <<x>> # <<>> /\ Head(<<x>>) = x
      OBVIOUS
    <3> QED BY <2>3, <3>2, <3>3
  <2>5. CASE busState[m] = "CACHE_FETCH"
    <3>1. Expected(m) = Line(FALSE) BY <1>2, <2>5 DEF Expected
    <3>2. 0 \in 0 .. Beats /\ 0 < Beats BY BeatFacts
    <3> QED BY <2>3, <3>1, <3>2, FromFacts
  <2> QED BY <1>i, <2>1, <2>4, <2>5 DEF Saved
<1> QED BY <1>1, <1>2
-----------------------------------------------------------------------------
(***************************************************************************)
(* What a cycle does to one master.                                        *)
(***************************************************************************)
SameReq(m)   == req'[m] = req[m]
SameState(m) == busState'[m] = busState[m] /\ BeatCount'[m] = BeatCount[m]
                  /\ BeatCountDelayed'[m] = BeatCountDelayed[m] /\ SameReq(m)
NewReq(m)    == req'[m] \in {"none"} \cup Kinds(m)
Reset(m)     == busState'[m] = "ADR_PHASE" /\ BeatCount'[m] = 0 /\ BeatCountDelayed'[m] = 0

\* The ways a master moves in a cycle without a trap.
Waits(m) == /\ busState[m] = "ADR_PHASE" /\ ~Starts(m) /\ Reset(m)
            /\ IF req[m] = "none" THEN NewReq(m) ELSE SameReq(m)
Begins(m) == /\ Starts(m) /\ SameReq(m)
             /\ busState'[m] = IF req[m] \in Uncached THEN "DATA_PHASE"
                               ELSE IF req[m] = "line" THEN "CACHE_FETCH" ELSE "CACHE_WRITEBACK"
             /\ BeatCountDelayed'[m] = 0
             /\ BeatCount'[m] = IF req[m] \in Uncached THEN 0 ELSE 1
Stays(m) == busState[m] \in {"DATA_PHASE", "CACHE_FETCH", "CACHE_WRITEBACK"}
              /\ ~Ready(m) /\ SameState(m)
Ends(m)  == /\ busState[m] = "DATA_PHASE" /\ Ready(m) /\ busState'[m] = "MEM3"
            /\ BeatCount'[m] = 0 /\ BeatCountDelayed'[m] = 0 /\ SameReq(m)
Holds(m) == busState[m] = "MEM3" /\ SameState(m)
Leaves(m) == busState[m] = "MEM3" /\ Reset(m) /\ NewReq(m)
Advances(m) == /\ Mid(m) /\ Ready(m) /\ busState'[m] = busState[m] /\ SameReq(m)
               /\ BeatCountDelayed'[m] = BeatCount[m]
               /\ BeatCount'[m] = IF BeatCount[m] = Beats - 1 THEN 0 ELSE BeatCount[m] + 1
Finishes(m) == /\ CacheAccess(m) /\ ~Mid(m) /\ Ready(m) /\ req[m] \in {"line", "clean"}
               /\ Reset(m) /\ req'[m] = "none"
Chains(m) == /\ Chained(m) /\ busState'[m] = "CACHE_FETCH" /\ req'[m] = "line"
             /\ BeatCountDelayed'[m] = 0 /\ BeatCount'[m] = 1

Moves(m) == \/ Waits(m) \/ Begins(m) \/ Stays(m) \/ Ends(m) \/ Holds(m) \/ Leaves(m)
            \/ Advances(m) \/ Finishes(m) \/ Chains(m)

LEMMA MasterMoves ==
  ASSUME TypeOK, NEW m \in Masters, Control(m), Counters(m), ~flush, "amo" \notin LSUKinds,
         NEW Stall \in [Masters -> BOOLEAN], BusFSMs(Stall), Operations(Stall)
  PROVE  Moves(m)
<1>k. /\ req[m] \in {"none", "line", "evict", "clean", "word", "load", "store"}
      /\ BeatCount[m] \in Beat /\ BeatCountDelayed[m] \in Beat
      /\ NextBeatCount(m) = IF BeatCount[m] = Beats - 1 THEN 0 ELSE BeatCount[m] + 1
      /\ BeatCount[m] = 0 => NextBeatCount(m) = 1
  <2>1. req[m] # "amo" BY DEF Control, Kinds, IFUKinds
  <2>2. BeatCount[m] \in Beat /\ BeatCountDelayed[m] \in Beat BY CounterType
  <2>3. NextBeatCount(m) = IF BeatCount[m] = Beats - 1 THEN 0 ELSE BeatCount[m] + 1
    BY <2>2, BeatFacts DEF NextBeatCount
  <2>4. BeatCount[m] = 0 => NextBeatCount(m) = 1 BY <2>3, BeatFacts
  <2> QED BY <2>1, <2>2, <2>3, <2>4 DEF TypeOK, Uncached
<1> DEFINE next == NextState(m, Stall[m])
           enabled == Ready(m) /\ next \in {"CACHE_FETCH", "CACHE_WRITEBACK"}
<1>n. /\ busState'[m] = next
      /\ BeatCount'[m] = IF next = "ADR_PHASE" THEN 0
                         ELSE IF enabled THEN NextBeatCount(m) ELSE BeatCount[m]
      /\ BeatCountDelayed'[m] = IF next = "ADR_PHASE" THEN 0
                                ELSE IF enabled THEN BeatCount[m] ELSE BeatCountDelayed[m]
  BY DEF BusFSMs, BeatCntEn
<1>r. req'[m] \in NextReq(m, Stall[m]) BY DEF Operations, Masters
<1>f. Free(m, Stall[m]) <=> req[m] = "none" \/ (busState[m] = "MEM3" /\ ~Stall[m]) BY DEF Free
<1>s. busState[m] \in {"ADR_PHASE", "DATA_PHASE", "MEM3", "CACHE_FETCH", "CACHE_WRITEBACK"}
  BY DEF TypeOK, Control, BusStates
<1>1. CASE busState[m] = "ADR_PHASE"
  <2>1. ~CacheAccess(m) /\ ~CacheBusAck(m) BY <1>1 DEF CacheAccess, CacheBusAck
  <2>2. Starts(m) <=> Ready(m) /\ req[m] # "none"
    BY <1>1, <1>k, <2>1 DEF Starts, Asks, BusRW, CacheBusRW, Writing, Fetching, Uncached
  <2>3. IF req[m] = "none" THEN NewReq(m) ELSE SameReq(m)
    BY <1>1, <1>r, <1>f, <2>1 DEF NextReq, NewReq, SameReq
  <2>4. CASE Starts(m)
    <3>1. BeatCount[m] = 0 /\ BeatCountDelayed[m] = 0 BY <2>1, <2>2, <2>4 DEF Counters
    <3>2. next = IF req[m] \in Uncached THEN "DATA_PHASE"
                 ELSE IF req[m] = "line" THEN "CACHE_FETCH" ELSE "CACHE_WRITEBACK"
      BY <1>1, <1>k, <2>1, <2>2, <2>4 DEF NextState, BusRW, Writing, Fetching, Uncached
    <3> HIDE DEF next
    <3> QED BY <1>k, <1>n, <2>2, <2>3, <2>4, <3>1, <3>2 DEF Moves, Begins
  <2>5. CASE ~Starts(m)
    <3>1. next = "ADR_PHASE"
      BY <1>1, <1>k, <2>1, <2>2, <2>5 DEF NextState, BusRW, Writing, Fetching, Uncached
    <3> HIDE DEF next
    <3> QED BY <1>1, <1>n, <2>3, <2>5, <3>1 DEF Moves, Waits, Reset
  <2> QED BY <2>4, <2>5
<1>2. CASE busState[m] = "DATA_PHASE"
  <2>1. ~CacheAccess(m) /\ ~CacheBusAck(m) /\ req[m] \in {"word", "load", "store"}
    BY <1>2 DEF CacheAccess, CacheBusAck, Control
  <2>2. SameReq(m) BY <1>2, <1>r, <1>f, <2>1 DEF NextReq, SameReq
  <2>3. BeatCount[m] = 0 /\ BeatCountDelayed[m] = 0 BY <2>1 DEF Counters
  <2>4. next = IF Ready(m) THEN "MEM3" ELSE "DATA_PHASE"
    BY <1>2, <2>1 DEF NextState
  <2> HIDE DEF next
  <2> QED BY <1>2, <1>n, <2>2, <2>3, <2>4 DEF Moves, Stays, Ends, SameState
<1>3. CASE busState[m] = "MEM3"
  <2>1. ~CacheAccess(m) /\ ~CacheBusAck(m) /\ req[m] \in {"word", "load", "store"}
    BY <1>3 DEF CacheAccess, CacheBusAck, Control
  <2>2. next = IF Stall[m] THEN "MEM3" ELSE "ADR_PHASE" BY <1>3, <2>1 DEF NextState
  <2>3. IF Stall[m] THEN SameReq(m) ELSE NewReq(m)
    BY <1>3, <1>r, <1>f, <2>1 DEF NextReq, SameReq, NewReq
  <2> HIDE DEF next
  <2> QED BY <1>3, <1>n, <2>2, <2>3 DEF Moves, Holds, Leaves, SameState, Reset
<1>4. CASE CacheAccess(m)
  <2>1. /\ busState[m] = "CACHE_FETCH" => req[m] = "line"
        /\ busState[m] = "CACHE_WRITEBACK" => req[m] \in {"evict", "clean"}
        /\ busState[m] \in {"CACHE_FETCH", "CACHE_WRITEBACK"}
    BY <1>4 DEF CacheAccess, Control
  <2>2. CacheBusAck(m) <=> Ready(m) /\ ~Mid(m) BY <1>4, MidCounts DEF CacheBusAck
  <2>3. next = IF ~CacheBusAck(m) THEN busState[m]
               ELSE IF req[m] = "evict" THEN "CACHE_FETCH" ELSE "ADR_PHASE"
    BY <2>1 DEF NextState, Fetching
  <2>4. req'[m] = IF ~CacheBusAck(m) THEN req[m] ELSE IF req[m] = "evict" THEN "line" ELSE "none"
    BY <1>r, <1>f, <2>1 DEF NextReq, Fetching
  <2>5. ~Mid(m) => BeatCount[m] = 0 BY <1>4, MidCounts
  <2> HIDE DEF next
  <2>6. CASE ~Ready(m)
    BY <1>n, <2>1, <2>2, <2>3, <2>4, <2>6 DEF Moves, Stays, SameState, SameReq
  <2>7. CASE Ready(m) /\ Mid(m)
    BY <1>k, <1>n, <2>1, <2>2, <2>3, <2>4, <2>7 DEF Moves, Advances, SameReq
  <2>8. CASE Ready(m) /\ ~Mid(m) /\ req[m] = "evict"
    <3>1. Chained(m) BY <2>2, <2>8 DEF Chained, CacheBusRW, Fetching
    <3> QED BY <1>k, <1>n, <2>1, <2>2, <2>3, <2>4, <2>5, <2>8, <3>1 DEF Moves, Chains
  <2>9. CASE Ready(m) /\ ~Mid(m) /\ req[m] # "evict"
    BY <1>4, <1>n, <2>1, <2>2, <2>3, <2>4, <2>9 DEF Moves, Finishes, Reset
  <2> QED BY <2>6, <2>7, <2>8, <2>9
<1> QED BY <1>s, <1>1, <1>2, <1>3, <1>4 DEF CacheAccess

LEMMA MovesKeepStates ==
  ASSUME TypeOK, TypeOK', NEW m \in Masters, Control(m), Counters(m), "amo" \notin LSUKinds, Moves(m)
  PROVE  Control(m)' /\ Counters(m)'
<1>k. /\ Kinds(m) \subseteq {"line", "evict", "clean", "word", "load", "store"} /\ "none" \notin Kinds(m)
      /\ BeatCount[m] \in Beat /\ BeatCountDelayed[m] \in Beat /\ Beats - 1 # 0 /\ 1 = 0 + 1
  BY CounterType, BeatFacts, EbuAssumption DEF Kinds, IFUKinds, Uncached
<1>r. req[m] \in {"none", "line", "evict", "clean", "word", "load", "store"}
  BY <1>k DEF Control
<1>1. CASE Waits(m) \/ Leaves(m)
  BY <1>k, <1>r, <1>1 DEF Waits, Leaves, Reset, NewReq, SameReq, Control, Counters, CacheAccess
<1>2. CASE Begins(m)
  <2>1. busState[m] = "ADR_PHASE" /\ req[m] # "none" BY <1>2, StartPhase DEF Begins
  <2> QED BY <1>k, <1>r, <1>2, <2>1
          DEF Begins, SameReq, Control, Counters, CacheAccess, Uncached
<1>3. CASE Stays(m) \/ Holds(m)
  BY <1>k, <1>r, <1>3 DEF Stays, Holds, SameState, SameReq, Control, Counters, CacheAccess
<1>4. CASE Ends(m)
  BY <1>k, <1>r, <1>4 DEF Ends, SameReq, Control, Counters, CacheAccess
<1>5. CASE Advances(m)
  <2>1. CacheAccess(m) /\ CacheAccess(m)' BY <1>5 DEF Advances, Mid, CacheAccess
  <2>2. Control(m)' BY <1>5, <2>1 DEF Advances, SameReq, Control, CacheAccess
  <2>3. Counters(m)' BY <1>5, <2>1 DEF Advances, Counters
  <2> QED BY <2>2, <2>3
<1>6. CASE Finishes(m)
  BY <1>k, <1>6 DEF Finishes, Reset, Control, Counters, CacheAccess
<1>7. CASE Chains(m)
  <2>1. req[m] = "evict" BY <1>7, ChainPhase DEF Chains
  <2> QED BY <1>k, <1>7, <2>1 DEF Chains, Control, Counters, CacheAccess
<1> QED BY <1>1, <1>2, <1>3, <1>4, <1>5, <1>6, <1>7 DEF Moves

\* A trap sends both state machines back. The side that is cut has a bubble, in
\* which its counters are cleared; the other one had nothing on the bus.
LEMMA TrapKeepsStates ==
  ASSUME TypeOK, TypeOK', States, Bus, flush, NEW m \in Masters,
         NEW Stall \in [Masters -> BOOLEAN], BusFSMs(Stall), Operations(Stall)
  PROVE  /\ Control(m)' /\ Counters(m)' /\ busState'[m] = "ADR_PHASE"
         /\ req'[m] # "none" => NewOperation(m, Stall[m])
<1>1. busState'[m] = "ADR_PHASE" BY DEF BusFSMs
<1>2. req'[m] \in {"none"} \cup (IF m = "LSU" THEN {} ELSE Kinds(m))
  BY DEF Operations, NextReq, Free, Masters
<1>3. Control(m)' BY <1>1, <1>2 DEF Control
<1>4. req'[m] # "none" => NewOperation(m, Stall[m]) BY DEF NewOperation, Free
<1>5. ~CacheAccess(m)' BY <1>1 DEF CacheAccess
<1>6. ASSUME req'[m] # "none" PROVE BeatCount'[m] = 0 /\ BeatCountDelayed'[m] = 0
  <2>1. m = "IFU" /\ busState[m] \in {"ADR_PHASE", "MEM3"} BY <1>2, <1>6 DEF Bus, Masters
  <2>2. ~CacheAccess(m) /\ ~CacheBusAck(m) BY <2>1 DEF CacheAccess, CacheBusAck
  <2>3. ~BeatCntEn(m, Stall[m]) BY DEF BeatCntEn
  <2>4. req[m] = "none" => NextState(m, Stall[m]) = "ADR_PHASE"
    BY <2>2 DEF NextState, BusRW, Writing, Fetching, Uncached, States, Control
  <2>5. req[m] # "none" => BeatCount[m] = 0 /\ BeatCountDelayed[m] = 0
    BY <2>2 DEF States, Counters
  <2> QED BY <2>3, <2>4, <2>5 DEF BusFSMs
<1> QED BY <1>1, <1>3, <1>4, <1>5, <1>6 DEF Counters
-----------------------------------------------------------------------------
(***************************************************************************)
(* What a cycle does to the data phase.                                    *)
(***************************************************************************)
LEMMA NextDataPhase ==
  ASSUME EbuInv, Slave
  PROVE  /\ ~HREADY => dphase' = dphase
         /\ HREADY /\ Accepted => dphase' = Out
         /\ HREADY /\ ~Accepted => dphase' = Quiet
         /\ flush => \A m \in Masters : ~Mine(m)'
         /\ ~flush => \A m \in Masters : Mine(m)' <=> IF HREADY THEN Issue(m) ELSE Mine(m)
<1>1. Quiet.trans = "IDLE" BY DEF Quiet
<1>2. /\ dphase' = IF ~HREADY THEN dphase ELSE IF Out.trans = "IDLE" THEN Quiet ELSE Out
      /\ orphan' = (dphase'.trans # "IDLE" /\ (flush \/ (orphan /\ ~HREADY)))
  BY DEF Slave
<1>3. Accepted <=> HREADY /\ Out.trans # "IDLE" BY DEF Accepted
<1>4. flush => \A m \in Masters : ~Mine(m)' BY <1>2 DEF Mine
<1>5. ASSUME ~flush, NEW m \in Masters
      PROVE  Mine(m)' <=> IF HREADY THEN Issue(m) ELSE Mine(m)
  <2>1. Mine(m)' <=> dphase'.trans # "IDLE" /\ dphase'.master = m /\ ~(orphan /\ ~HREADY)
    BY <1>2, <1>5 DEF Mine
  <2> QED BY <1>1, <1>2, <1>3, <2>1 DEF Mine, Issue
<1> QED BY <1>2, <1>3, <1>4, <1>5

\* Whether the arbiter keeps the instruction side parked.
LEMMA NextArbiter ==
  ASSUME EbuInv, "amo" \notin LSUKinds, Arbitrate
  PROVE  /\ arb = "IDLE" => (arb' = "ARBITRATE" <=> Starts("IFU") /\ Sends("LSU"))
         /\ arb = "ARBITRATE" => (arb' = "IDLE" <=> Issue("IFU"))
         /\ arb' \in {"IDLE", "ARBITRATE"} /\ arb \in {"IDLE", "ARBITRATE"}
         /\ IFUReqDelay' = (arb = "ARBITRATE" \/ Sends("IFU"))
<1>1. arb' = ArbNext /\ IFUReqDelay' = IFUReq BY DEF Arbitrate
<1>2. Starts("IFU") => Sends("IFU") BY DEF Sends, HTRANS
<1>3. IFUReq = (arb = "ARBITRATE" \/ Sends("IFU"))
  <2>1. IFUReq \in BOOLEAN BY DEF IFUReq
  <2> QED BY <2>1, Grants DEF IFUReq, Sends
<1>4. arb = "IDLE" => (arb' = "ARBITRATE" <=> Starts("IFU") /\ Sends("LSU"))
  BY <1>1, <1>2, OneIssued, Grants
<1>5. arb = "ARBITRATE" => (arb' = "IDLE" <=> Issue("IFU"))
  BY <1>1, Grants, WhoIssues
<1> QED BY <1>1, <1>3, <1>4, <1>5, Grants

\* Which moves put a transfer on the bus. The instruction side that starts together
\* with the data side, or waits for it, is parked until its saved phase is issued.
LEMMA WhichMovesIssue ==
  ASSUME EbuInv, "amo" \notin LSUKinds, Arbitrate, ~flush, NEW m \in Masters, Moves(m)
  PROVE  /\ Waits(m) \/ Ends(m) \/ Holds(m) \/ Leaves(m) \/ Finishes(m) =>
              ~Issue(m) /\ ~Parked(m)
         /\ Begins(m) => /\ HREADY /\ ~Parked(m) /\ (Issue(m) <=> ~Parked(m)')
                         /\ Issue(m) => Out = AddressPhase(m)
         /\ Stays(m) /\ ~HREADY => ~Issue(m) /\ (Parked(m)' <=> Parked(m))
         /\ Stays(m) /\ HREADY => /\ Parked(m) /\ (Issue(m) <=> ~Parked(m)')
                                  /\ Issue(m) => Out = saved
         /\ Advances(m) \/ Chains(m) => /\ HREADY /\ ~Parked(m) /\ ~Parked(m)'
                                        /\ Issue(m) /\ Out = AddressPhase(m)
<1>m. "IFU" \in Masters /\ "LSU" \in Masters /\ m \in {"IFU", "LSU"} BY DEF Masters
<1>i. /\ TypeOK /\ Saved /\ Control(m) /\ Counters(m)
      /\ arb \in {"IDLE", "ARBITRATE"} /\ arb' \in {"IDLE", "ARBITRATE"}
  BY NextArbiter DEF EbuInv, States
<1>p. /\ Parked(m) => /\ m = "IFU" /\ arb = "ARBITRATE" /\ ~Ready(m)
                      /\ busState[m] \in {"DATA_PHASE", "CACHE_FETCH"}
      /\ ~Parked(m) => m = "LSU" \/ arb = "IDLE"
  BY <1>i, <1>m DEF Parked, Ready, Disabled, Saved
<1>s. Starts(m) \/ Chained(m) => HREADY /\ Ready(m)
  BY DEF Starts, Chained, CacheBusAck, Ready
<1>u. ~Parked(m) => /\ Issue(m) => HREADY /\ Sends(m) /\ Out = AddressPhase(m)
                    /\ m = "LSU" /\ HREADY /\ Sends(m) => Issue(m)
                    /\ m = "IFU" /\ HREADY /\ Sends(m) /\ ~Sends("LSU") => Issue(m)
                    /\ m = "IFU" /\ Sends("LSU") => ~Issue(m)
  BY <1>m, <1>p, WhoIssues
<1>n. ~Parked(m) => (Parked(m)' <=> m = "IFU" /\ Starts(m) /\ Sends("LSU"))
  BY <1>i, <1>p, NextArbiter DEF Parked
<1>q. Parked(m) => /\ Parked(m)' <=> ~Issue(m)
                   /\ Issue(m) => HREADY /\ Out = saved
  BY <1>i, <1>p, NextArbiter, WhoIssues DEF Parked
<1>1. ASSUME Waits(m) \/ Ends(m) \/ Holds(m) \/ Leaves(m) \/ Finishes(m)
      PROVE  ~Issue(m) /\ ~Parked(m)
  <2>1. ~Parked(m)
    BY <1>1, <1>p DEF Waits, Ends, Holds, Leaves, Finishes
  <2>2. ~Starts(m) BY <1>1 DEF Waits, Ends, Holds, Leaves, Finishes, Starts, CacheAccess
  <2>3. ~Mid(m) BY <1>1 DEF Waits, Ends, Holds, Leaves, Finishes, Mid, CacheAccess
  <2>4. ~Chained(m)
    <3>1. Finishes(m) => ~Chained(m) BY <1>i, ChainPhase DEF Finishes
    <3>2. ~Finishes(m) => ~CacheAccess(m) BY <1>1 DEF Waits, Ends, Holds, Leaves, CacheAccess
    <3> QED BY <3>1, <3>2 DEF Chained, CacheBusAck
  <2> QED BY <1>i, <1>u, <2>1, <2>2, <2>3, <2>4, SendsWhen
<1>2. ASSUME Begins(m)
      PROVE  /\ HREADY /\ ~Parked(m) /\ (Issue(m) <=> ~Parked(m)')
             /\ Issue(m) => Out = AddressPhase(m)
  <2>1. Starts(m) /\ HREADY /\ ~Parked(m) BY <1>2, <1>s, <1>p DEF Begins
  <2>2. Sends(m) BY <1>i, <2>1, SendsWhen
  <2> QED BY <1>m, <1>u, <1>n, <2>1, <2>2
<1>3. ASSUME Stays(m), ~HREADY PROVE ~Issue(m) /\ (Parked(m)' <=> Parked(m))
  <2>1. ~Issue(m) BY <1>3 DEF Issue, Accepted
  <2>2. ~Starts(m) BY <1>3, <1>s
  <2> QED BY <1>n, <1>q, <2>1, <2>2
<1>4. ASSUME Stays(m), HREADY
      PROVE  Parked(m) /\ (Issue(m) <=> ~Parked(m)') /\ (Issue(m) => Out = saved)
  <2>1. Parked(m) BY <1>4, OneIssued DEF Stays, Issued
  <2> QED BY <1>q, <2>1
<1>5. ASSUME Advances(m) \/ Chains(m)
      PROVE  HREADY /\ ~Parked(m) /\ ~Parked(m)' /\ Issue(m) /\ Out = AddressPhase(m)
  <2>1. HREADY /\ ~Parked(m) BY <1>5, <1>p, <1>s DEF Advances, Chains, Ready
  <2>2. Sends(m) /\ ~Starts(m)
    BY <1>i, <1>5, SendsWhen DEF Advances, Chains, Mid, Starts, Chained, CacheBusAck, CacheAccess
  <2>3. ~Parked(m)' BY <1>n, <2>1, <2>2
  <2>4. m = "IFU" => ~Sends("LSU")
    <3>1. m = "IFU" => Mid(m) BY <1>i, <1>5, ChainPhase DEF Advances, Chains
    <3> QED BY <1>p, <2>1, <3>1, OneIssued
  <2> QED BY <1>m, <1>u, <2>1, <2>2, <2>3, <2>4
<1> QED BY <1>1, <1>2, <1>3, <1>4, <1>5

\* A master has a transfer in its data phase exactly when its state machine is in a
\* state that waits for one, and it is the transfer that the machine counts.
LEMMA DataStep ==
  ASSUME EbuInv, "amo" \notin LSUKinds, Arbitrate, Slave, NEW m \in Masters,
         flush => busState'[m] = "ADR_PHASE", ~flush => Moves(m)
  PROVE  DataPhase(m)'
<1>i. TypeOK /\ Saved /\ Control(m) /\ Counters(m) /\ DataPhase(m) BY DEF EbuInv, States
<1>1. CASE flush
  BY <1>1, NextDataPhase DEF DataPhase, Issued
<1>2. CASE ~flush
  <2>0. Moves(m) BY <1>2
  <2>m. Mine(m)' <=> IF HREADY THEN Issue(m) ELSE Mine(m) BY <1>2, NextDataPhase
  <2>d. /\ ~HREADY => dphase' = dphase
        /\ HREADY /\ Issue(m) => dphase' = Out
    BY NextDataPhase DEF Issue
  <2>1. CASE Waits(m) \/ Ends(m) \/ Holds(m) \/ Leaves(m) \/ Finishes(m)
    <3>1. busState'[m] \in {"ADR_PHASE", "MEM3"}
      BY <2>1 DEF Waits, Ends, Holds, Leaves, Finishes, Reset, SameState
    <3>2. ~Issue(m) /\ ~Parked(m) BY <1>2, <2>0, <2>1, WhichMovesIssue
    <3>3. ~HREADY => ~Mine(m)
      BY <1>i, <2>1 DEF Waits, Ends, Holds, Leaves, Finishes, DataPhase, Issued, Ready
    <3> QED BY <2>m, <3>1, <3>2, <3>3 DEF DataPhase, Issued
  <2>2. CASE Begins(m)
    <3>1. /\ HREADY /\ ~Parked(m) /\ (Issue(m) <=> ~Parked(m)')
          /\ Issue(m) => Out = AddressPhase(m)
      BY <1>2, <2>0, <2>2, WhichMovesIssue
    <3>2. /\ req[m] # "none" /\ req[m] # "amo"
          /\ AddressPhase(m) = Phase(m, "NONSEQ", req[m] \in {"store", "evict", "clean"},
                                     BURST_EN /\ req[m] \notin Uncached, 0)
      BY <1>i, <2>2, StartPhase DEF Begins
    <3>3. Issue(m) => /\ dphase'.beat = 0
                      /\ dphase'.write = (req[m] \in {"store", "evict", "clean"})
                      /\ dphase'.burst = (BURST_EN /\ req[m] \notin Uncached)
      <4> DEFINE w == req[m] \in {"store", "evict", "clean"}
                 b == BURST_EN /\ req[m] \notin Uncached
      <4>1. Issue(m) => dphase' = AddressPhase(m) BY <2>d, <3>1
      <4>2. AddressPhase(m) = Phase(m, "NONSEQ", w, b, 0) BY <3>2
      <4> HIDE DEF w, b
      <4>3. Issue(m) => dphase'.beat = 0 /\ dphase'.write = w /\ dphase'.burst = b
        BY <4>1, <4>2, PhaseFields
      <4> QED BY <4>3 DEF w, b
    <3>4. (BURST_EN /\ req[m] \notin Uncached) \in BOOLEAN OBVIOUS
    <3>5. Issued(m)' <=> Issue(m)
      BY <2>2, <3>1 DEF Begins, Issued
    <3>6. Issue(m) => (dphase'.write <=> (busState'[m] = "CACHE_WRITEBACK" \/ req'[m] = "store"))
      BY <1>i, <2>2, <3>2, <3>3 DEF Begins, SameReq, Uncached, TypeOK
    <3>7. Issue(m) /\ CacheAccess(m)' => dphase'.burst = BURST_EN
      BY <2>2, <3>3, <3>4, EbuAssumption DEF Begins, CacheAccess
    <3>8. Issue(m) => dphase'.beat = BeatCountDelayed'[m] BY <2>2, <3>3 DEF Begins
    <3> QED BY <2>m, <3>1, <3>5, <3>6, <3>7, <3>8 DEF DataPhase
  <2>3. CASE Stays(m) /\ ~HREADY
    <3>1. Parked(m)' <=> Parked(m) BY <1>2, <2>0, <2>3, WhichMovesIssue
    <3> QED BY <1>i, <2>3, <2>m, <2>d, <3>1
            DEF Stays, SameState, SameReq, DataPhase, Issued, CacheAccess
  <2>4. CASE Stays(m) /\ HREADY
    <3>1. Parked(m) /\ (Issue(m) <=> ~Parked(m)') /\ (Issue(m) => Out = saved)
      BY <1>2, <2>0, <2>4, WhichMovesIssue
    <3>2. m = "IFU" /\ busState[m] \in {"DATA_PHASE", "CACHE_FETCH"} /\ BeatCountDelayed[m] = 0
          /\ saved.write = FALSE /\ saved.beat = 0
          /\ saved.burst = (BURST_EN /\ busState[m] = "CACHE_FETCH")
      BY <1>i, <3>1 DEF Parked, Saved
    <3>3. req[m] # "store" BY <1>i, <3>2 DEF Control, Kinds, IFUKinds
    <3>4. busState'[m] = busState[m] /\ req'[m] = req[m] /\ BeatCountDelayed'[m] = 0
      BY <2>4, <3>2 DEF Stays, SameState, SameReq
    <3>5. Issued(m)' <=> Issue(m) BY <3>1, <3>2, <3>4 DEF Issued
    <3>6. CacheAccess(m)' => (BURST_EN /\ busState[m] = "CACHE_FETCH") = BURST_EN
      BY <3>2, <3>4, EbuAssumption DEF CacheAccess
    <3>7. Issue(m) => dphase' = saved BY <2>d, <2>4, <3>1
    <3> QED BY <2>4, <2>m, <3>2, <3>3, <3>4, <3>5, <3>6, <3>7 DEF DataPhase
  <2>5. CASE Advances(m)
    <3>1. HREADY /\ ~Parked(m)' /\ Issue(m) /\ Out = AddressPhase(m)
      BY <1>2, <2>0, <2>5, WhichMovesIssue
    <3>2. Mid(m) /\ CacheAccess(m) /\ busState'[m] = busState[m] /\ req'[m] = req[m]
          /\ BeatCountDelayed'[m] = BeatCount[m]
      BY <2>5 DEF Advances, Mid, SameReq
    <3>3. AddressPhase(m) = Phase(m, IF BURST_EN THEN "SEQ" ELSE "NONSEQ",
                                  busState[m] = "CACHE_WRITEBACK", BURST_EN, BeatCountDelayed[m] + 1)
      BY <1>i, <3>2, MidPhase
    <3>4. BeatCount[m] = BeatCountDelayed[m] + 1 BY <1>i, <3>2, MidCounts
    <3>5. req[m] # "store" BY <1>i, <3>2 DEF CacheAccess, Control
    <3>6. /\ dphase'.beat = BeatCountDelayed'[m] /\ dphase'.burst = BURST_EN
          /\ dphase'.write = (busState[m] = "CACHE_WRITEBACK")
      <4>1. dphase' = AddressPhase(m) BY <2>d, <3>1
      <4>2. /\ dphase'.beat = BeatCountDelayed[m] + 1 /\ dphase'.burst = BURST_EN
            /\ dphase'.write = (busState[m] = "CACHE_WRITEBACK")
        <5> DEFINE t == IF BURST_EN THEN "SEQ" ELSE "NONSEQ"
                   w == busState[m] = "CACHE_WRITEBACK"
        <5>1. AddressPhase(m) = Phase(m, t, w, BURST_EN, BeatCountDelayed[m] + 1) BY <3>3
        <5> HIDE DEF t, w
        <5>2. /\ dphase'.beat = BeatCountDelayed[m] + 1 /\ dphase'.burst = BURST_EN
              /\ dphase'.write = w
          BY <4>1, <5>1, PhaseFields
        <5> QED BY <5>2 DEF w
      <4> QED BY <3>2, <3>4, <4>2
    <3>7. Issued(m)' BY <3>1, <3>2 DEF Issued, CacheAccess
    <3> QED BY <2>m, <3>1, <3>2, <3>5, <3>6, <3>7 DEF DataPhase
  <2>6. CASE Chains(m)
    <3>1. HREADY /\ ~Parked(m)' /\ Issue(m) /\ Out = AddressPhase(m)
      BY <1>2, <2>0, <2>6, WhichMovesIssue
    <3>2. AddressPhase(m) = Phase(m, "NONSEQ", FALSE, BURST_EN, 0)
      BY <1>i, <2>6, ChainPhase DEF Chains
    <3>3. dphase'.beat = 0 /\ dphase'.burst = BURST_EN /\ dphase'.write = FALSE
      BY <2>d, <3>1, <3>2 DEF Phase
    <3> QED BY <2>m, <2>6, <3>1, <3>3 DEF Chains, DataPhase, Issued
  <2> QED BY <2>0, <2>1, <2>2, <2>3, <2>4, <2>5, <2>6 DEF Moves
<1> QED BY <1>1, <1>2
-----------------------------------------------------------------------------
(***************************************************************************)
(* What a cycle does to the transfers an operation has yet to make.        *)
(***************************************************************************)
LEMMA LinesUnfold ==
  /\ \A w \in BOOLEAN : Line(w) \in Seq(Items) /\ Line(w) # <<>> /\ Tail(Line(w)) = From(1, w)
  /\ \A w \in BOOLEAN, k \in 0 .. Beats : From(k, w) \in Seq(Items)
  /\ \A w \in BOOLEAN, k \in 0 .. Beats :
       k < Beats => From(k, w) # <<>> /\ Tail(From(k, w)) = From(k + 1, w)
  /\ \A w \in BOOLEAN : From(Beats, w) = <<>>
<1>1. 0 \in 0 .. Beats /\ 0 < Beats /\ 0 + 1 = 1 /\ Beats \in 0 .. Beats BY BeatFacts
<1>2. ASSUME NEW w \in BOOLEAN
      PROVE  Line(w) \in Seq(Items) /\ Line(w) # <<>> /\ Tail(Line(w)) = From(1, w)
  <2>1. From(0, w) = Line(w) BY <1>1, FromFacts
  <2> QED BY <1>1, <2>1, FromFacts
<1>3. \A w \in BOOLEAN, k \in 0 .. Beats : From(k, w) \in Seq(Items) BY FromFacts
<1>4. ASSUME NEW w \in BOOLEAN, NEW k \in 0 .. Beats, k < Beats
      PROVE  From(k, w) # <<>> /\ Tail(From(k, w)) = From(k + 1, w)
  BY <1>4, FromFacts
<1>5. \A w \in BOOLEAN : From(Beats, w) = <<>> BY <1>1, FromFacts
<1> QED BY <1>2, <1>3, <1>4, <1>5

\* A move that issues a transfer takes it off what is expected, another move leaves
\* that as it is, unless the operation ends or a new one begins.
LEMMA ExpectedStep ==
  ASSUME EbuInv, "amo" \notin LSUKinds, Arbitrate, ~flush, NEW m \in Masters, Moves(m),
         ~(Waits(m) /\ req[m] = "none"), ~Leaves(m), ~Finishes(m)
  PROVE  Expected(m)' = IF Issue(m) THEN Tail(Expected(m)) ELSE Expected(m)
<1>i. TypeOK /\ Saved /\ Control(m) /\ Counters(m) BY DEF EbuInv, States
<1>r. req[m] \in {"none", "line", "evict", "clean", "word", "load", "store"}
  <2>1. Kinds(m) \subseteq {"line", "evict", "clean", "word", "load", "store"}
    BY EbuAssumption DEF Kinds, IFUKinds, Uncached
  <2> QED BY <1>i, <2>1 DEF Control
<1>k. /\ "store" \in Uncached /\ "load" \in Uncached /\ "word" \in Uncached
      /\ "line" \notin Uncached /\ "evict" \notin Uncached /\ "clean" \notin Uncached
      /\ 0 + 1 = 1
  BY DEF Uncached
<1>t. \A x : Tail(<<x>>) = <<>> OBVIOUS
<1>u. \A i : Tail(<<[beat |-> 0, write |-> i]>>) = <<>> BY <1>t, Zenon
<1>1. CASE Waits(m)
  <2>1. Expected(m)' = Transfers(req[m]) BY <1>1 DEF Waits, Reset, Expected, SameReq
  <2>2. Expected(m) = Transfers(req[m]) BY <1>1 DEF Waits, Expected
  <2> QED BY <1>1, <2>1, <2>2, WhichMovesIssue
<1>2. CASE Begins(m)
  <2>1. ~Parked(m) /\ (Issue(m) <=> ~Parked(m)') BY <1>2, WhichMovesIssue
  <2>2. Expected(m) = Transfers(req[m]) /\ req[m] # "none"
    BY <1>i, <1>2, StartPhase DEF Begins, Expected
  <2>3. /\ busState'[m] = IF req[m] \in Uncached THEN "DATA_PHASE"
                          ELSE IF req[m] = "line" THEN "CACHE_FETCH" ELSE "CACHE_WRITEBACK"
        /\ req'[m] = req[m] /\ BeatCountDelayed'[m] = 0
    BY <1>2 DEF Begins, SameReq
  <2>4. CASE req[m] \in {"word", "load", "store"}
    <3>1. busState'[m] = "DATA_PHASE" BY <1>k, <2>3, <2>4
    <3>2. Expected(m)' = IF Parked(m)' THEN Transfers(req[m]) ELSE <<>>
      BY <2>3, <3>1 DEF Expected
    <3>3. Tail(Transfers(req[m])) = <<>> BY <1>u, <2>4 DEF Transfers
    <3> QED BY <2>1, <2>2, <3>2, <3>3
  <2>5. CASE req[m] = "line"
    <3>1. Expected(m)' = IF Parked(m)' THEN Line(FALSE) ELSE From(0 + 1, FALSE)
      BY <1>k, <2>3, <2>5 DEF Expected
    <3>2. Transfers(req[m]) = Line(FALSE) BY <2>5 DEF Transfers
    <3> QED BY <1>k, <2>1, <2>2, <3>1, <3>2, LinesUnfold
  <2>6. CASE req[m] \in {"evict", "clean"}
    <3> DEFINE rest == IF req[m] = "evict" THEN Line(FALSE) ELSE <<>>
    <3>1. Expected(m)' = From(0 + 1, TRUE) \o rest BY <1>k, <2>3, <2>6 DEF Expected
    <3>2. Transfers(req[m]) = Line(TRUE) \o rest
      <4>1. Line(TRUE) \in Seq(Items) BY LinesUnfold
      <4>2. Line(TRUE) \o <<>> = Line(TRUE) BY <4>1, ConcatEmptySeq
      <4> QED BY <2>6, <4>2 DEF Transfers
    <3>3. rest \in Seq(Items) /\ Line(TRUE) \in Seq(Items) /\ Line(TRUE) # <<>>
          /\ Tail(Line(TRUE)) = From(1, TRUE)
      BY LinesUnfold, EmptySeq
    <3> HIDE DEF rest
    <3>4. Tail(Line(TRUE) \o rest) = From(1, TRUE) \o rest BY <3>3, TailOfConcat
    <3>5. m = "LSU" BY <1>i, <2>6 DEF Control, Kinds, IFUKinds, Masters
    <3>6. Issue(m) BY <2>1, <3>5 DEF Parked
    <3> QED BY <1>k, <2>2, <3>1, <3>2, <3>4, <3>6
  <2> QED BY <1>r, <2>2, <2>4, <2>5, <2>6
<1>3. CASE Stays(m) /\ ~HREADY
  <2>1. ~Issue(m) /\ (Parked(m)' <=> Parked(m)) BY <1>3, WhichMovesIssue
  <2>2. busState'[m] = busState[m] /\ req'[m] = req[m]
        /\ BeatCountDelayed'[m] = BeatCountDelayed[m]
    BY <1>3 DEF Stays, SameState, SameReq
  <2> QED BY <2>1, <2>2 DEF Expected
<1>4. CASE Stays(m) /\ HREADY
  <2>1. Parked(m) /\ (Issue(m) <=> ~Parked(m)') BY <1>4, WhichMovesIssue
  <2>2. m = "IFU" /\ busState[m] \in {"DATA_PHASE", "CACHE_FETCH"} /\ BeatCountDelayed[m] = 0
    BY <1>i, <2>1 DEF Parked, Saved
  <2>3. busState'[m] = busState[m] /\ req'[m] = req[m] /\ BeatCountDelayed'[m] = 0
    BY <1>4, <2>2 DEF Stays, SameState, SameReq
  <2>4. CASE busState[m] = "DATA_PHASE"
    <3>1. Expected(m) = Transfers(req[m]) BY <2>1, <2>4 DEF Expected
    <3>2. Expected(m)' = IF Parked(m)' THEN Transfers(req[m]) ELSE <<>>
      BY <2>3, <2>4 DEF Expected
    <3>3. req[m] = "word" BY <1>i, <2>2, <2>4 DEF Control, Kinds, IFUKinds
    <3>4. Tail(Transfers(req[m])) = <<>> BY <1>u, <3>3 DEF Transfers
    <3> QED BY <2>1, <3>1, <3>2, <3>4
  <2>5. CASE busState[m] = "CACHE_FETCH"
    <3>1. Expected(m) = Line(FALSE) BY <2>1, <2>5 DEF Expected
    <3>2. Expected(m)' = IF Parked(m)' THEN Line(FALSE) ELSE From(0 + 1, FALSE)
      BY <2>3, <2>5 DEF Expected
    <3> QED BY <1>k, <2>1, <3>1, <3>2, LinesUnfold
  <2> QED BY <2>2, <2>4, <2>5
<1>5. CASE Ends(m) \/ Holds(m)
  <2>1. ~Issue(m) /\ ~Parked(m) BY <1>5, WhichMovesIssue
  <2>2. Expected(m) = <<>> BY <1>5, <2>1 DEF Ends, Holds, Expected
  <2>3. busState'[m] = "MEM3" BY <1>5 DEF Ends, Holds, SameState
  <2>4. Expected(m)' = <<>> BY <2>3 DEF Expected
  <2> QED BY <2>1, <2>2, <2>4
<1>6. CASE Advances(m)
  <2> DEFINE k == BeatCountDelayed[m] + 1
  <2>1. ~Parked(m) /\ ~Parked(m)' /\ Issue(m) BY <1>6, WhichMovesIssue
  <2>2. k \in 0 .. Beats /\ k < Beats /\ BeatCount[m] = k BY <1>i, <1>6, MidCounts DEF Advances, Mid
  <2>3. busState'[m] = busState[m] /\ req'[m] = req[m] /\ BeatCountDelayed'[m] = k
    BY <1>6, <2>2 DEF Advances, SameReq
  <2>4. CASE busState[m] = "CACHE_FETCH"
    <3>1. Expected(m) = From(k, FALSE) BY <2>1, <2>4 DEF Expected
    <3>2. Expected(m)' = From(k + 1, FALSE) BY <2>1, <2>3, <2>4 DEF Expected
    <3> HIDE DEF k
    <3> QED BY <2>1, <2>2, <3>1, <3>2, LinesUnfold
  <2>5. CASE busState[m] = "CACHE_WRITEBACK"
    <3> DEFINE rest == IF req[m] = "evict" THEN Line(FALSE) ELSE <<>>
    <3>1. Expected(m) = From(k, TRUE) \o rest BY <2>5 DEF Expected
    <3>2. Expected(m)' = From(k + 1, TRUE) \o rest BY <2>3, <2>5 DEF Expected
    <3>3. rest \in Seq(Items) BY LinesUnfold, EmptySeq
    <3> HIDE DEF k, rest
    <3>4. From(k, TRUE) \in Seq(Items) /\ From(k, TRUE) # <<>>
          /\ Tail(From(k, TRUE)) = From(k + 1, TRUE)
      BY <2>2, LinesUnfold
    <3>5. Tail(From(k, TRUE) \o rest) = From(k + 1, TRUE) \o rest BY <3>3, <3>4, TailOfConcat
    <3> QED BY <2>1, <3>1, <3>2, <3>5
  <2> QED BY <1>6, <2>4, <2>5 DEF Advances, Mid, CacheAccess
<1>7. CASE Chains(m)
  <2>1. ~Parked(m)' /\ Issue(m) BY <1>7, WhichMovesIssue
  <2>2. busState[m] = "CACHE_WRITEBACK" /\ req[m] = "evict" /\ BeatCountDelayed[m] = Beats - 1
    BY <1>i, <1>7, ChainPhase DEF Chains
  <2>3. Expected(m) = From(Beats - 1 + 1, TRUE) \o Line(FALSE) BY <2>2 DEF Expected
  <2>4. Beats - 1 + 1 = Beats BY BeatFacts
  <2>5. Expected(m) = Line(FALSE) BY <2>3, <2>4, LinesUnfold, ConcatEmptySeq
  <2>6. Expected(m)' = From(0 + 1, FALSE) BY <1>7, <2>1 DEF Chains, Expected
  <2> QED BY <1>k, <2>1, <2>5, <2>6, LinesUnfold
<1> QED BY <1>1, <1>2, <1>3, <1>4, <1>5, <1>6, <1>7 DEF Moves

LEMMA TodoStep ==
  ASSUME EbuInv, "amo" \notin LSUKinds, Arbitrate, NEW m \in Masters, Control(m)',
         NEW Stall \in [Masters -> BOOLEAN], BusFSMs(Stall), Operations(Stall),
         flush => /\ busState'[m] = "ADR_PHASE"
                  /\ req'[m] # "none" => NewOperation(m, Stall[m]),
         ~flush => Moves(m)
  PROVE  todo'[m] = Expected(m)'
<1>1. todo'[m] = Remaining(m, Stall[m]) BY DEF Operations
<1>2. CASE req'[m] = "none"
  <2>1. todo'[m] = <<>> BY <1>1, <1>2 DEF Remaining, NewOperation
  <2>2. Expected(m)' = Transfers("none") BY <1>2 DEF Control, Expected
  <2> QED BY <2>1, <2>2 DEF Transfers
<1>3. CASE NewOperation(m, Stall[m])
  <2>1. todo'[m] = Transfers(req'[m]) BY <1>1, <1>3 DEF Remaining
  <2>2. busState'[m] = "ADR_PHASE"
    <3>1. ASSUME ~flush PROVE busState'[m] = "ADR_PHASE"
      <4>1. Control(m) BY DEF EbuInv, States
      <4>2. req[m] = "none" \/ (busState[m] = "MEM3" /\ ~Stall[m])
        BY <1>3, <3>1 DEF NewOperation, Free
      <4>3. CASE req[m] = "none"
        <5>1. busState[m] = "ADR_PHASE" /\ ~Asks(m) BY <4>1, <4>3
             DEF Control, Asks, BusRW, CacheBusRW, Writing, Fetching, Uncached
        <5> QED BY <3>1, <5>1 DEF BusFSMs, NextState, Asks, CacheBusRW
      <4>4. CASE busState[m] = "MEM3" /\ ~Stall[m]
        BY <3>1, <4>4 DEF BusFSMs, NextState, CacheBusAck, CacheAccess
      <4> QED BY <4>2, <4>3, <4>4
    <3> QED BY <3>1
  <2> QED BY <2>1, <2>2 DEF Expected
<1>4. CASE req'[m] # "none" /\ ~NewOperation(m, Stall[m])
  <2>1. ~flush /\ Moves(m) /\ ~Free(m, Stall[m]) BY <1>4 DEF NewOperation, Free
  <2>2. ~(Waits(m) /\ req[m] = "none") /\ ~Finishes(m)
    BY <1>4, <2>1 DEF Free, Finishes
  <2>3. ~Leaves(m)
    <3>1. Stall[m] \/ busState[m] # "MEM3" BY <2>1 DEF Free
    <3>2. busState[m] = "MEM3" /\ Stall[m] => busState'[m] = "MEM3"
      BY <2>1 DEF BusFSMs, NextState, CacheBusAck, CacheAccess
    <3> QED BY <3>1, <3>2 DEF Leaves, Reset
  <2>4. Expected(m)' = IF Issue(m) THEN Tail(Expected(m)) ELSE Expected(m)
    BY <2>1, <2>2, <2>3, ExpectedStep
  <2>5. todo[m] = Expected(m) BY DEF EbuInv
  <2>6. Issue(m) => Expected(m) # <<>> BY IssuesNext
  <2>7. todo'[m] = IF Issue(m) THEN Tail(todo[m]) ELSE todo[m]
    BY <1>1, <1>4, <2>5, <2>6 DEF Remaining, Issue
  <2> QED BY <2>4, <2>5, <2>7
<1> QED BY <1>2, <1>3, <1>4
-----------------------------------------------------------------------------
(***************************************************************************)
(* What a cycle does to the arbiter, the write data and the slave.         *)
(***************************************************************************)
LEMMA SavedStep ==
  ASSUME EbuInv, "amo" \notin LSUKinds, Arbitrate, ~flush => Moves("IFU")
  PROVE  Saved'
<1> SUFFICES ASSUME arb' = "ARBITRATE"
             PROVE  /\ busState'["IFU"] \in {"DATA_PHASE", "CACHE_FETCH"}
                    /\ BeatCountDelayed'["IFU"] = 0
                    /\ saved' = [master |-> "IFU", trans |-> "NONSEQ", write |-> FALSE,
                                 burst |-> (BURST_EN /\ busState'["IFU"] = "CACHE_FETCH"),
                                 beat |-> 0]
  BY DEF Saved
<1>i. /\ TypeOK /\ Saved /\ Control("IFU") /\ Counters("IFU") /\ "IFU" \in Masters
      /\ saved' = NextSaved /\ arb \in {"IDLE", "ARBITRATE"}
  BY NextArbiter DEF EbuInv, States, Masters, Arbitrate
<1>1. CASE arb = "IDLE"
  <2>1. Starts("IFU") /\ Sends("LSU") BY <1>1, NextArbiter
  <2>2. ~flush /\ busState["IFU"] = "ADR_PHASE" BY <2>1 DEF Starts
  <2>3. Begins("IFU")
    <3>1. Moves("IFU") BY <2>2
    <3> QED BY <2>1, <2>2, <3>1
        DEF Moves, Waits, Stays, Ends, Holds, Leaves, Advances, Finishes, Chains, Chained,
            Mid, CacheAccess, CacheBusAck
  <2>4. req["IFU"] \in {"line", "word"}
    <3>1. req["IFU"] # "none" BY <1>i, <2>1, StartPhase
    <3> QED BY <1>i, <3>1 DEF Control, Kinds, IFUKinds
  <2>5. busState'["IFU"] = IF req["IFU"] = "line" THEN "CACHE_FETCH" ELSE "DATA_PHASE"
    BY <2>3, <2>4 DEF Begins, Uncached
  <2>6. saved' = AddressPhase("IFU")
    <3>1. both
      <4>1. LSUReq BY <2>1 DEF LSUReq, Sends
      <4>2. IFUReq
        <5>1. Sends("IFU") BY <1>i, <2>1, SendsWhen
        <5> QED BY <5>1, Grants
      <4> QED BY <4>1, <4>2 DEF both
    <3> QED BY <1>i, <1>1, <3>1 DEF NextSaved
  <2>7. AddressPhase("IFU") = Phase("IFU", "NONSEQ", req["IFU"] \in {"store", "evict", "clean"},
                                    BURST_EN /\ req["IFU"] \notin Uncached, 0)
    BY <1>i, <2>1, StartPhase
  <2>8. (req["IFU"] \in {"store", "evict", "clean"}) = FALSE BY <2>4
  <2>9. (BURST_EN /\ req["IFU"] \notin Uncached)
          = (BURST_EN /\ busState'["IFU"] = "CACHE_FETCH")
    BY <2>4, <2>5 DEF Uncached
  <2>10. saved' = Phase("IFU", "NONSEQ", FALSE, BURST_EN /\ busState'["IFU"] = "CACHE_FETCH", 0)
    BY <2>6, <2>7, <2>8, <2>9, Zenon
  <2>11. BeatCountDelayed'["IFU"] = 0 BY <2>3 DEF Begins
  <2> QED BY <2>4, <2>5, <2>10, <2>11, Zenon DEF Phase
<1>2. CASE arb = "ARBITRATE"
  <2>1. ~flush BY <1>2, OneIssued
  <2>2. Moves("IFU") /\ Parked("IFU") BY <1>2, <2>1 DEF Parked
  <2>3. /\ busState["IFU"] \in {"DATA_PHASE", "CACHE_FETCH"} /\ ~Ready("IFU")
        /\ BeatCountDelayed["IFU"] = 0
    BY <1>i, <1>2 DEF Saved, Ready, Disabled
  <2>4. Stays("IFU")
    <3>1. ~Starts("IFU") /\ ~Chained("IFU")
      BY <2>3 DEF Starts, Chained, CacheBusAck
    <3> QED BY <2>2, <2>3, <3>1
        DEF Moves, Waits, Begins, Ends, Holds, Leaves, Advances, Finishes, Chains
  <2>5. saved' = saved BY <1>i, <1>2 DEF NextSaved
  <2>6. busState'["IFU"] = busState["IFU"] /\ BeatCountDelayed'["IFU"] = 0
    BY <2>3, <2>4 DEF Stays, SameState
  <2> QED BY <1>i, <1>2, <2>3, <2>5, <2>6 DEF Saved
<1> QED BY <1>i, <1>1, <1>2

\* The write data register takes the beat that goes into its data phase.
LEMMA WriteDataStep ==
  ASSUME EbuInv, "amo" \notin LSUKinds, Slave, HWDATA' = NextHWDATA
  PROVE  dphase'.write => HWDATA' = dphase'.beat
<1>i. /\ TypeOK /\ Saved /\ Bus /\ \A m \in Masters : Control(m) /\ Counters(m)
      /\ "LSU" \in Masters /\ "IFU" \in Masters
  BY DEF EbuInv, States, Masters
<1>1. CASE ~HREADY
  <2>1. dphase' = dphase /\ HWDATA' = HWDATA BY <1>1, NextDataPhase DEF NextHWDATA, Ready
  <2> QED BY <1>i, <2>1 DEF Bus
<1>2. CASE HREADY /\ ~Accepted
  <2>1. dphase' = Quiet BY <1>2, NextDataPhase
  <2> QED BY <2>1 DEF Quiet
<1>3. CASE HREADY /\ Issue("IFU")
  <2>1. dphase' = Out BY <1>3, NextDataPhase DEF Issue
  <2>2. CASE arb = "ARBITRATE"
    <3>1. Out = saved BY <1>3, <2>2, WhoIssues
    <3> QED BY <1>i, <2>1, <2>2, <3>1 DEF Saved
  <2>3. CASE arb = "IDLE"
    <3>1. Out = AddressPhase("IFU") /\ Sends("IFU") BY <1>3, <2>3, WhoIssues
    <3>2. req["IFU"] \notin {"store", "evict", "clean"} /\ busState["IFU"] # "CACHE_WRITEBACK"
      BY <1>i DEF Control, Kinds, IFUKinds
    <3>3. ~HWRITE("IFU") BY <1>i, <3>2 DEF HWRITE, Writing, Control
    <3>4. AddressPhase("IFU").write = HWRITE("IFU") BY DEF AddressPhase
    <3> QED BY <2>1, <3>1, <3>3, <3>4
  <2> QED BY <1>i, <2>2, <2>3 DEF TypeOK
<1>4. CASE HREADY /\ Issue("LSU")
  <2>1. dphase' = AddressPhase("LSU") /\ Sends("LSU") BY <1>4, NextDataPhase, WhoIssues DEF Issue
  <2>2. Starts("LSU") \/ Chained("LSU") \/ Mid("LSU") BY <1>i, <2>1, SendsWhen
  <2>3. Ready("LSU")
    <3>1. Mid("LSU") => Ready("LSU") BY <1>i, <1>4, OneIssued DEF Parked
    <3> QED BY <2>2, <3>1 DEF Starts, Chained, CacheBusAck
  <2>4. HWDATA' = PreHWDATA BY <2>3 DEF NextHWDATA
  <2>5. AddressPhase("LSU").beat = BeatCount["LSU"] /\ AddressPhase("LSU").write = HWRITE("LSU")
    BY DEF AddressPhase
  <2>6. CASE Starts("LSU")
    <3>1. BeatCount["LSU"] = 0 /\ busState["LSU"] = "ADR_PHASE" BY <1>i, <2>6, StartPhase
    <3>2. HWRITE("LSU") => req["LSU"] \in {"store", "evict", "clean"}
      BY <3>1 DEF HWRITE, Writing
    <3> QED BY <2>1, <2>4, <2>5, <3>1, <3>2 DEF PreHWDATA
  <2>7. CASE Chained("LSU")
    <3>1. AddressPhase("LSU") = Phase("LSU", "NONSEQ", FALSE, BURST_EN, 0)
      BY <1>i, <2>7, ChainPhase
    <3>2. AddressPhase("LSU").write = FALSE BY <3>1 DEF Phase
    <3> QED BY <2>1, <3>2
  <2>8. CASE Mid("LSU")
    <3>1. ~CacheBusAck("LSU") BY <1>i, <2>8, MidCounts DEF Mid, CacheBusAck
    <3>2. HWRITE("LSU") => req["LSU"] \in {"evict", "clean"}
      BY <1>i, <2>8 DEF HWRITE, Writing, Mid, CacheAccess, Control
    <3> QED BY <2>1, <2>4, <2>5, <3>2 DEF PreHWDATA
  <2> QED BY <2>2, <2>6, <2>7, <2>8
<1> QED BY <1>1, <1>2, <1>3, <1>4, WhoIssues DEF Masters

LEMMA BusStep ==
  ASSUME EbuInv, "amo" \notin LSUKinds, Arbitrate, Slave, HWDATA' = NextHWDATA,
         flush => busState'["IFU"] = "ADR_PHASE", ~flush => Moves("IFU"),
         flush' => busState'["IFU"] \in {"ADR_PHASE", "MEM3"}
  PROVE  Bus'
<1>i. /\ TypeOK /\ Saved /\ Bus /\ \A m \in Masters : Control(m) /\ Counters(m) /\ DataPhase(m)
      /\ "LSU" \in Masters /\ "IFU" \in Masters /\ arb \in {"IDLE", "ARBITRATE"}
  BY NextArbiter DEF EbuInv, States, Masters
<1>1. ~HREADY' => dphase'.trans # "IDLE" BY DEF Slave
<1>2. dphase'.write => HWDATA' = dphase'.beat BY WriteDataStep
<1>3. ASSUME arb' = "IDLE", Mine("LSU")' PROVE ~IFUReqDelay'
  <2>1. ~flush /\ (IF HREADY THEN Issue("LSU") ELSE Mine("LSU")) BY <1>i, <1>3, NextDataPhase
  <2>2. CASE HREADY
    <3>1. Sends("LSU") /\ ~Issue("IFU") BY <2>1, <2>2, WhoIssues
    <3>2. arb = "IDLE" BY <1>i, <1>3, <3>1, NextArbiter
    <3>3. ~Sends("IFU") BY <1>3, <3>1, <3>2, OneIssued, NextArbiter
    <3> QED BY <3>2, <3>3, NextArbiter
  <2>3. CASE ~HREADY
    <3>1. Mine("LSU") /\ ~Mine("IFU") BY <2>1, <2>3 DEF Mine
    <3>2. arb = "IDLE" BY <1>i, <1>3, <2>3, NextArbiter DEF Issue, Accepted
    <3>3. ~Mid("IFU") BY <1>i, <3>1, <3>2, OneIssued DEF DataPhase, Parked
    <3>4. ~Sends("IFU") BY <1>i, <2>3, <3>3, OneIssued
    <3> QED BY <3>2, <3>4, NextArbiter
  <2> QED BY <2>2, <2>3
<1>4. ASSUME busState'["IFU"] = "CACHE_FETCH", BeatCount'["IFU"] # 0 PROVE IFUReqDelay'
  <2>1. Moves("IFU") BY <1>4
  <2>2. Begins("IFU") \/ Stays("IFU") \/ Advances("IFU")
    <3>1. ~Chains("IFU") BY <1>i, ChainPhase DEF Chains
    <3> QED BY <1>4, <2>1, <3>1
        DEF Moves, Waits, Ends, Holds, Leaves, Finishes, Reset, SameState
  <2>3. arb = "ARBITRATE" \/ Sends("IFU")
    <3>1. Begins("IFU") => Sends("IFU") BY <1>i, SendsWhen DEF Begins
    <3>2. Stays("IFU") \/ Advances("IFU") => Mid("IFU")
      BY <1>4 DEF Stays, SameState, Advances, Mid, CacheAccess
    <3>3. Mid("IFU") => Sends("IFU") BY <1>i, SendsWhen
    <3> QED BY <2>2, <3>1, <3>2, <3>3
  <2> QED BY <2>3, NextArbiter
<1> QED BY <1>1, <1>2, <1>3, <1>4 DEF Bus
-----------------------------------------------------------------------------
(***************************************************************************)
(* The theorems.                                                           *)
(***************************************************************************)
LEMMA InitInv == Init => EbuInv
<1> SUFFICES ASSUME Init PROVE EbuInv
  OBVIOUS
<1>1. TypeOK BY InitType
<1>2. \A m \in Masters : busState[m] = "ADR_PHASE" /\ BeatCount[m] = 0
                         /\ BeatCountDelayed[m] = 0 /\ req[m] = "none" /\ todo[m] = <<>>
  BY DEF Init
<1>3. arb = "IDLE" /\ IFUReqDelay = FALSE /\ HREADY = TRUE /\ flush = FALSE /\ dphase = Quiet
  BY DEF Init
<1>4. States BY <1>2 DEF States, Control, Counters, CacheAccess
<1>5. Saved BY <1>3 DEF Saved
<1>6. Quiet.trans = "IDLE" /\ Quiet.write = FALSE BY DEF Quiet
<1>7. Bus BY <1>2, <1>3, <1>6 DEF Bus, Masters
<1>8. \A m \in Masters : DataPhase(m) BY <1>2, <1>3, <1>6 DEF DataPhase, Issued, Mine
<1>9. \A m \in Masters : todo[m] = Expected(m) BY <1>2 DEF Expected, Transfers
<1> QED BY <1>1, <1>4, <1>5, <1>7, <1>8, <1>9 DEF EbuInv

LEMMA CycleInv ==
  ASSUME "amo" \notin LSUKinds, EbuInv, [Cycle]_vars PROVE EbuInv'
<1>i. TypeOK /\ States /\ Bus BY DEF EbuInv
<1>t. TypeOK' BY <1>i, CycleType
<1>1. CASE Cycle
  <2>1. PICK Stall \in [Masters -> BOOLEAN] : BusFSMs(Stall) /\ Operations(Stall) /\ Trap(Stall)
    BY <1>1 DEF Cycle
  <2>2. Arbitrate /\ Slave /\ HWDATA' = NextHWDATA BY <1>1 DEF Cycle
  <2>3. ASSUME NEW m \in Masters
        PROVE  /\ Control(m)' /\ Counters(m)'
               /\ ~flush => Moves(m)
               /\ flush => /\ busState'[m] = "ADR_PHASE"
                           /\ req'[m] # "none" => NewOperation(m, Stall[m])
    <3>1. CASE flush BY <1>i, <1>t, <2>1, <3>1, TrapKeepsStates
    <3>2. CASE ~flush
      <4>1. Control(m) /\ Counters(m) BY <1>i DEF States
      <4>2. Moves(m) BY <1>i, <2>1, <3>2, <4>1, MasterMoves
      <4> QED BY <1>i, <1>t, <3>2, <4>1, <4>2, MovesKeepStates
    <3> QED BY <3>1, <3>2
  <2>4. States' BY <2>3 DEF States
  <2>m. "IFU" \in Masters BY DEF Masters
  <2>5. Saved' BY <2>2, <2>3, <2>m, SavedStep
  <2>6. flush' => busState'["IFU"] \in {"ADR_PHASE", "MEM3"} BY <2>1 DEF Trap, Committed
  <2>7. Bus' BY <2>2, <2>3, <2>m, <2>6, BusStep
  <2>8. \A m \in Masters : DataPhase(m)' BY <2>2, <2>3, DataStep
  <2>9. \A m \in Masters : todo'[m] = Expected(m)' BY <2>1, <2>2, <2>3, TodoStep
  <2> QED BY <1>t, <2>4, <2>5, <2>7, <2>8, <2>9 DEF EbuInv
<1>2. CASE UNCHANGED vars
  <2>1. /\ busState' = busState /\ BeatCount' = BeatCount /\ BeatCountDelayed' = BeatCountDelayed
        /\ req' = req /\ flush' = flush /\ HWDATA' = HWDATA /\ arb' = arb
        /\ IFUReqDelay' = IFUReqDelay /\ saved' = saved /\ dphase' = dphase
        /\ HREADY' = HREADY /\ todo' = todo /\ orphan' = orphan
    BY <1>2 DEF vars, fsm, arbiter
  <2>2. \A m \in Masters : Expected(m)' = Expected(m) BY <2>1 DEF Expected, Parked
  <2>3. Bus' BY <1>i, <2>1 DEF Bus, Mine
  <2>4. States' BY <1>i, <2>1 DEF States, Control, Counters, CacheAccess
  <2>5. Saved' BY <2>1 DEF EbuInv, Saved
  <2>6. \A m \in Masters : DataPhase(m)'
    BY <2>1 DEF EbuInv, DataPhase, Issued, Mine, Parked, CacheAccess
  <2> QED BY <1>t, <2>1, <2>2, <2>3, <2>4, <2>5, <2>6 DEF EbuInv
<1> QED BY <1>1, <1>2

LEMMA InvHolds == ASSUME "amo" \notin LSUKinds PROVE Spec => []EbuInv
<1>1. EbuInv /\ [Cycle]_vars => EbuInv' BY CycleInv
<1> QED BY <1>1, InitInv, PTL DEF Spec

\* Slaves see the transfers of every operation once and in order, and an operation
\* ends when all have been seen: the interleaving of the two sides, the phase that is
\* saved and put on the bus later, the walker's accesses in between and the traps lose
\* and repeat none. For lines of 4, 8 and 16 beats, with and without bursts; without
\* uncached atomics.
THEOREM TransfersInOrder ==
  ASSUME "amo" \notin LSUKinds PROVE Spec => []InOrder
<1>1. EbuInv => InOrder
  <2> SUFFICES ASSUME EbuInv PROVE InOrder
    OBVIOUS
  <2>i. /\ TypeOK /\ States /\ Saved /\ \A m \in Masters : todo[m] = Expected(m) BY DEF EbuInv
  <2>1. ASSUME Accepted
        PROVE  /\ todo[Out.master] # <<>>
               /\ Head(todo[Out.master]) = [beat |-> Out.beat, write |-> Out.write]
    <3>1. PICK m \in Masters : Issue(m) BY <2>1, WhoIssues
    <3>2. Out.master = m BY <3>1 DEF Issue
    <3>3. Expected(m) # <<>> /\ Head(Expected(m)) = [beat |-> Out.beat, write |-> Out.write]
      BY <3>1, IssuesNext
    <3> QED BY <2>i, <3>1, <3>2, <3>3
  <2>2. ASSUME NEW m \in Masters, Ended(m) PROVE todo[m] = <<>>
    <3>1. CASE busState[m] = "MEM3" BY <2>i, <3>1 DEF Expected
    <3>2. CASE CacheBusAck(m) /\ ~Fetching(m)
      <4>1. CacheAccess(m) /\ Ready(m) /\ BeatCountDelayed[m] = Beats - 1
        BY <3>2 DEF CacheBusAck, FinalBeatCount
      <4>2. ~Parked(m) BY <4>1 DEF Parked, Ready, Disabled
      <4>3. req[m] # "evict" BY <3>2 DEF Fetching
      <4>4. Beats - 1 + 1 = Beats BY BeatFacts
      <4>5. CASE busState[m] = "CACHE_FETCH"
        <5>1. Expected(m) = From(Beats - 1 + 1, FALSE) BY <4>1, <4>2, <4>5 DEF Expected
        <5> QED BY <2>i, <4>4, <5>1, LinesUnfold
      <4>6. CASE busState[m] = "CACHE_WRITEBACK"
        <5>1. Expected(m) = From(Beats - 1 + 1, TRUE) \o <<>> BY <4>1, <4>3, <4>6 DEF Expected
        <5>2. <<>> \in Seq(Items) BY EmptySeq
        <5> QED BY <2>i, <4>4, <5>1, <5>2, LinesUnfold, ConcatEmptySeq
      <4> QED BY <4>1, <4>5, <4>6 DEF CacheAccess
    <3> QED BY <2>2, <3>1, <3>2 DEF Ended
  <2> QED BY <2>1, <2>2 DEF InOrder
<1> QED BY <1>1, InvHolds, PTL

\* Each end of a data phase is taken by the master whose transfer it is, by no other,
\* and by nobody when a trap cut it off; it counts that beat in that direction, and a
\* write carries its own beat's data.
THEOREM DataReachesItsMaster ==
  ASSUME "amo" \notin LSUKinds PROVE Spec => []DataReaches
<1>1. EbuInv => DataReaches
  <2> SUFFICES ASSUME EbuInv PROVE DataReaches
    OBVIOUS
  <2>i. /\ TypeOK /\ States /\ Saved /\ Bus /\ \A m \in Masters : DataPhase(m) /\ Control(m)
    BY DEF EbuInv, States
  <2>1. ASSUME NEW m \in Masters
        PROVE  /\ Takes(m) <=> HREADY /\ Mine(m)
               /\ Takes(m) => /\ dphase.beat = BeatCountDelayed[m]
                              /\ CacheAccess(m) => dphase.write = (busState[m] = "CACHE_WRITEBACK")
    <3>1. Takes(m) <=> HREADY /\ Issued(m)
      <4>1. Parked(m) => ~Ready(m) BY DEF Parked, Ready, Disabled
      <4>2. Issued(m) => (Ready(m) <=> HREADY) BY OneIssued
      <4>3. Ready(m) => HREADY BY DEF Ready
      <4>4. busState[m] # "ATOMIC_PHASE" BY <2>i DEF Control
      <4> QED BY <4>1, <4>2, <4>3, <4>4 DEF Takes, Issued
    <3>2. Issued(m) <=> Mine(m) BY <2>i DEF DataPhase
    <3>3. Issued(m) => dphase.beat = BeatCountDelayed[m] BY <2>i DEF DataPhase
    <3>4. ASSUME Issued(m), CacheAccess(m)
          PROVE  dphase.write = (busState[m] = "CACHE_WRITEBACK")
      <4>1. req[m] # "store" BY <2>i, <3>4 DEF CacheAccess, Control
      <4>2. dphase.write \in BOOLEAN BY <2>i DEF TypeOK, Phases
      <4> QED BY <2>i, <3>4, <4>1, <4>2 DEF DataPhase
    <3> QED BY <3>1, <3>2, <3>3, <3>4
  <2>2. HREADY /\ dphase.write => HWDATA = dphase.beat BY <2>i DEF Bus
  <2> QED BY <2>1, <2>2 DEF DataReaches, Mine
<1> QED BY <1>1, InvHolds, PTL

\* What stands in the address phase of a line's later beats.
LineBeat(m) == Phase(m, IF BURST_EN THEN "SEQ" ELSE "NONSEQ", busState[m] = "CACHE_WRITEBACK",
                     BURST_EN, BeatCountDelayed[m] + 1)
LineBeatsOut == \A m \in Masters : Mid(m) /\ ~Parked(m) => Out = LineBeat(m)

LEMMA MidGoesOut ==
  ASSUME "amo" \notin LSUKinds PROVE EbuInv => LineBeatsOut
<1> SUFFICES ASSUME EbuInv, NEW m \in Masters, Mid(m), ~Parked(m) PROVE Out = LineBeat(m)
  BY DEF LineBeatsOut
<1>1. TypeOK /\ Control(m) /\ Counters(m) /\ arb \in {"IDLE", "ARBITRATE"}
  BY Grants DEF EbuInv, States
<1>2. AddressPhase(m) = LineBeat(m) BY <1>1, MidPhase DEF LineBeat
<1>3. Sends(m) BY <1>1, SendsWhen
<1>4. CASE m = "LSU" BY <1>2, <1>3, <1>4, Grants
<1>5. CASE m = "IFU"
  <2>1. arb = "IDLE" BY <1>1, <1>5 DEF Parked
  <2>2. ~Sends("LSU") BY <1>5, <2>1, OneIssued
  <2> QED BY <1>2, <1>3, <1>5, <2>1, <2>2, Grants
<1> QED BY <1>4, <1>5 DEF Masters

LEMMA HeldStep ==
  ASSUME "amo" \notin LSUKinds, EbuInv, Cycle, LineBeatsOut'
  PROVE  Held
<1> SUFFICES ASSUME ~HREADY, ~flush, Out.trans # "IDLE" PROVE Out' = Out
  BY DEF Held
<1>i. /\ TypeOK /\ arb \in {"IDLE", "ARBITRATE"} /\ "LSU" \in Masters /\ "IFU" \in Masters
      /\ \A m \in Masters : Control(m) /\ Counters(m)
  BY Grants DEF EbuInv, States, Masters
<1>1. PICK Stall \in [Masters -> BOOLEAN] : BusFSMs(Stall) /\ Operations(Stall)
  BY DEF Cycle
<1>2. arb' = arb
  <2>1. Arbitrate BY DEF Cycle
  <2> QED BY <1>i, <2>1, NextArbiter DEF Issue, Accepted, Starts, Ready
<1>3. PICK m \in Masters : Mid(m) /\ ~Parked(m)
  <2>1. CASE Sends("LSU") BY <1>i, <2>1, OneIssued DEF Parked
  <2>2. CASE ~Sends("LSU")
    <3>1. arb = "IDLE" /\ Sends("IFU") BY <1>i, <2>2, Grants
    <3> QED BY <1>i, <3>1, OneIssued DEF Parked
  <2> QED BY <2>1, <2>2
<1>4. Stays(m)
  <2>1. Control(m) /\ Counters(m) BY <1>i
  <2>2. Moves(m) BY <1>i, <1>1, <2>1, MasterMoves
  <2>3. ~Ready(m) /\ ~Chained(m) /\ ~Starts(m) BY DEF Ready, Chained, Starts, CacheBusAck
  <2>4. busState[m] \in {"CACHE_FETCH", "CACHE_WRITEBACK"} BY <1>3 DEF Mid, CacheAccess
  <2> QED BY <2>2, <2>3, <2>4
      DEF Moves, Waits, Begins, Ends, Holds, Leaves, Advances, Finishes, Chains
<1>5. SameState(m) BY <1>4 DEF Stays
<1>6. Mid(m)' /\ ~Parked(m)' BY <1>2, <1>3, <1>5 DEF Mid, CacheAccess, SameState, Parked
<1>7. LineBeat(m)' = LineBeat(m) BY <1>5 DEF LineBeat, SameState, Phase
<1>8. Out = LineBeat(m) BY <1>3, MidGoesOut DEF LineBeatsOut
<1>9. Out' = LineBeat(m)' BY <1>6 DEF LineBeatsOut
<1> QED BY <1>7, <1>8, <1>9

LEMMA BeatsAreContiguous ==
  ASSUME "amo" \notin LSUKinds, EbuInv PROVE Contiguous
<1> SUFFICES ASSUME Accepted, Out.trans = "SEQ"
             PROVE  /\ dphase.master = Out.master /\ dphase.write = Out.write
                    /\ dphase.burst /\ Out.beat = dphase.beat + 1
  BY DEF Contiguous
<1>1. PICK m \in Masters : Issue(m) BY WhoIssues
<1>i. /\ TypeOK /\ Saved /\ Control(m) /\ Counters(m) /\ DataPhase(m)
      /\ arb \in {"IDLE", "ARBITRATE"}
  BY Grants DEF EbuInv, States
<1>2. ~Parked(m)
  <2>1. CASE Parked(m)
    <3>1. m = "IFU" /\ arb = "ARBITRATE" BY <2>1 DEF Parked
    <3>2. Out = saved /\ saved.trans = "NONSEQ" BY <1>i, <1>1, <3>1, WhoIssues DEF Saved
    <3> QED BY <3>2
  <2> QED BY <2>1
<1>3. Mid(m)
  <2>1. Sends(m) /\ Out = AddressPhase(m)
    BY <1>i, <1>1, <1>2, WhoIssues DEF Parked, Masters
  <2>2. HTRANS(m) = "SEQ" BY <2>1 DEF AddressPhase
  <2> QED BY <2>2 DEF HTRANS, Mid
<1>4. Out = LineBeat(m) BY <1>2, <1>3, MidGoesOut DEF LineBeatsOut
<1> DEFINE trans == IF BURST_EN THEN "SEQ" ELSE "NONSEQ"
           write == busState[m] = "CACHE_WRITEBACK"
<1>5. Out = Phase(m, trans, write, BURST_EN, BeatCountDelayed[m] + 1) BY <1>4 DEF LineBeat
<1> HIDE DEF trans, write
<1>6. /\ Out.master = m /\ Out.trans = trans /\ Out.write = write
      /\ Out.burst = BURST_EN /\ Out.beat = BeatCountDelayed[m] + 1
  BY <1>5, PhaseFields
<1>7. BURST_EN BY <1>6 DEF trans
<1>8. Issued(m) /\ Mine(m) BY <1>i, <1>2, <1>3, OneIssued DEF DataPhase
<1>9. CacheAccess(m) /\ req[m] # "store" BY <1>i, <1>3 DEF Mid, CacheAccess, Control
<1>10. dphase.write = write
  <2>1. dphase.write \in BOOLEAN BY <1>i DEF TypeOK, Phases
  <2>2. dphase.write <=> busState[m] = "CACHE_WRITEBACK" BY <1>i, <1>8, <1>9 DEF DataPhase
  <2> QED BY <2>1, <2>2 DEF write
<1>11. dphase.beat = BeatCountDelayed[m] /\ dphase.burst = BURST_EN
  BY <1>i, <1>8, <1>9 DEF DataPhase
<1> QED BY <1>6, <1>7, <1>8, <1>10, <1>11 DEF Mine

\* While a slave is not ready the address phase stands still, unless a trap takes it
\* away, and the beats of a burst follow each other with nothing in between.
THEOREM BusRulesKept ==
  ASSUME "amo" \notin LSUKinds PROVE Spec => BusRules
<1>1. EbuInv => LineBeatsOut BY MidGoesOut
<1>2. EbuInv' => LineBeatsOut' BY <1>1, PTL
<1>3. EbuInv /\ EbuInv' /\ [Cycle]_vars => [Held /\ Contiguous]_vars
  <2> SUFFICES ASSUME EbuInv, EbuInv', Cycle PROVE Held /\ Contiguous
    OBVIOUS
  <2> QED BY <1>2, HeldStep, BeatsAreContiguous
<1> QED BY <1>3, InvHolds, PTL DEF Spec, BusRules
=============================================================================
