----------------------------- MODULE MmuProofs ------------------------------
(***************************************************************************)
(* Theorems about address translation, for tables and translation buffers  *)
(* of every size and contents.                                             *)
(***************************************************************************)
EXTENDS Mmu, TLAPS

(***************************************************************************)
(* Pages, entries and addresses.                                           *)
(***************************************************************************)
LEMMA PageFacts ==
  /\ Page1 \in Pages
  /\ \A p \in Pages : Adr1(p) \in Addresses /\ Adr1(p)[1] = RootTable
  /\ \A p, q \in Pages : p[1] = q[1] => Adr1(p) = Adr1(q)
  /\ \A p, q \in Pages : p[1] = q[1] /\ p[2] = q[2] => p = q
<1>1. Pages # {}
  <2>1. PICK v \in VPN1, w \in VPN0 : TRUE BY MmuAssumption
  <2>2. <<v, w>> \in Pages BY DEF Pages
  <2> QED BY <2>2
<1>2. Page1 \in Pages BY <1>1 DEF Page1
<1> QED BY <1>2 DEF Pages, Addresses, Adr1

LEMMA OperationFacts ==
  /\ DOMAIN Permission = {"read", "write", "zero", "clean", "fetch"}
  /\ Ops \subseteq {"read", "write", "zero", "clean"}
  /\ \A op \in DOMAIN Permission : Permission[op] \in {"R", "W", "X"}
  /\ Permission["read"] = "R" /\ Permission["write"] = "W" /\ Permission["fetch"] = "X"
  /\ Permission["zero"] = "W" /\ Permission["clean"] = "R"
BY MmuAssumption DEF Permission

\* The frame of no entry is that of the root table.
LEMMA FramesApart == \A e : PPN(e) # RootTable
<1>1. "root" \in RootTable BY DEF RootTable
<1>2. \A e : "root" \notin PPN(e) BY DEF PPN, PPN0, PPN1
<1> QED BY <1>1, <1>2

LEMMA AddressesApart == \A e : \A p, q \in Pages : Adr0(e, p) # Adr1(q)
BY FramesApart DEF Adr0, Adr1

\* An entry of the root table that points to a second table is one of those that
\* software writes there: the walker writes leaves only.
RootsKnown == \A p \in Pages : ValidNonLeafPTE(pt[Adr1(p)]) => pt[Adr1(p)] \in RootValues

LEMMA KiloLeaf ==
  ASSUME NEW p, ValidNonLeafPTE(pt[Adr1(p)])
  PROVE  /\ Leaf(p).adr = Adr0(pt[Adr1(p)], p) /\ Leaf(p).pte = pt[Leaf(p).adr]
         /\ Leaf(p).type = "kilo"
BY DEF Leaf

LEMMA MegaLeaf ==
  ASSUME NEW p, ~ValidNonLeafPTE(pt[Adr1(p)])
  PROVE  /\ Leaf(p).adr = Adr1(p) /\ Leaf(p).pte = pt[Adr1(p)]
         /\ Leaf(p).type = "mega"
BY DEF Leaf

LEMMA LeafType ==
  ASSUME pt \in [Addresses -> PTEs], RootsKnown, NEW p \in Pages
  PROVE  /\ Leaf(p).adr \in Addresses /\ Leaf(p).pte = pt[Leaf(p).adr]
         /\ Leaf(p).pte \in PTEs /\ Leaf(p).type \in {"kilo", "mega"}
<1>1. CASE ValidNonLeafPTE(pt[Adr1(p)])
  <2>1. Adr0(pt[Adr1(p)], p) \in Addresses BY <1>1 DEF RootsKnown, Addresses
  <2> QED BY <1>1, <2>1, KiloLeaf
<1>2. CASE ~ValidNonLeafPTE(pt[Adr1(p)]) BY <1>2, MegaLeaf, PageFacts
<1> QED BY <1>1, <1>2

LEMMA SameLeaf == ASSUME pt' = pt PROVE \A p : Leaf(p)' = Leaf(p)
BY DEF Leaf, Adr1, Adr0, PPN

(***************************************************************************)
(* Types.                                                                  *)
(***************************************************************************)
Line == [valid : {TRUE}, page : Pages, type : {"kilo", "mega"}, pte : PTEs]
Datas == Requests \cup [op : {"stalled"}, page : {Page1}]

RequestTyped ==
  /\ unfenced \subseteq Pages /\ mode \in {"M", "S", "U"}
  /\ fetch \in Pages /\ data \in Datas
LinesTyped == /\ DOMAIN tlb = Sides
              /\ \A s \in Sides : tlb[s] \in [Lines(s) -> Line \cup {NoLine}]
UsesTyped == /\ DOMAIN RUBits = Sides
             /\ \A s \in Sides : RUBits[s] \subseteq Lines(s) /\ RUBits[s] # Lines(s)
WalkTyped ==
  /\ walker \in {"IDLE", "L1_ADR", "L1_RD", "L0_ADR", "L0_RD", "LEAF", "UPDATE_PTE", "FAULT"}
  /\ PTE \in PTEs /\ PageType \in {"kilo", "mega"} /\ HPTWWriteAdr \in Addresses
  /\ walker = "IDLE" => PTE = {}
Typed == /\ pt \in [Addresses -> PTEs] /\ RequestTyped /\ LinesTyped
         /\ UsesTyped /\ WalkTyped

LEMMA TypedIsTyped == Typed => TypeOK
BY DEF Typed, TypeOK, RequestTyped, LinesTyped, UsesTyped, WalkTyped, Line, Datas

LEMMA RequestFacts ==
  ASSUME RequestTyped
  PROVE  /\ data.page \in Pages /\ \A s \in Sides : Request(s).page \in Pages
         /\ data.op \in Ops \cup {"none", "sfence", "stalled"}
         /\ TLBAccess("D") <=> data.op \in Ops
         /\ TLBAccess("I")
BY PageFacts, OperationFacts DEF RequestTyped, Datas, Requests, Request, Sides, TLBAccess

LEMMA TouchesAreLines == \A s \in Sides : \A t \in Touches(s) : t \subseteq Lines(s)
BY DEF Touches, Matches, Matching

LEMMA RUBitsNextType ==
  ASSUME UsesTyped, NEW s \in Sides, NEW t \in SUBSET Lines(s)
  PROVE  RUBitsNext(s, t) \subseteq Lines(s) /\ RUBitsNext(s, t) # Lines(s)
<1>1. 1 \in Lines(s) BY MmuAssumption DEF Lines
<1> QED BY <1>1 DEF RUBitsNext, UsesTyped

LEMMA TouchType == ASSUME UsesTyped, Touch PROVE UsesTyped'
<1>1. PICK d \in Touches("D"), i \in Touches("I") :
         RUBits' = [D |-> IF d = {} THEN RUBits["D"] ELSE RUBitsNext("D", d),
                    I |-> IF i = {} THEN RUBits["I"] ELSE RUBitsNext("I", i)]
  BY DEF Touch
<1>2. d \in SUBSET Lines("D") /\ i \in SUBSET Lines("I") BY TouchesAreLines DEF Sides
<1>3. /\ RUBitsNext("D", d) \subseteq Lines("D") /\ RUBitsNext("D", d) # Lines("D")
      /\ RUBitsNext("I", i) \subseteq Lines("I") /\ RUBitsNext("I", i) # Lines("I")
  BY <1>2, RUBitsNextType DEF Sides
<1>4. \A s \in Sides : Lines(s)' = Lines(s) BY DEF Lines
<1> QED BY <1>1, <1>3, <1>4 DEF UsesTyped, Sides

\* Flushing leaves a line as it was, or empty.
LEMMA FlushedLines ==
  ASSUME LinesTyped, tlb' = Flushed
  PROVE  /\ LinesTyped'
         /\ \A s \in Sides : \A i \in Lines(s) :
              /\ tlb'[s][i] \in {tlb[s][i], NoLine}
              /\ TLBFlush(s) => tlb'[s][i] = NoLine
BY DEF Flushed, LinesTyped, Sides, Lines, Line, Pages, PTEs, PTEBits, PPN0, PPN1, NoLine

LEMMA ArriveType ==
  ASSUME Arrive, unfenced' \subseteq Pages
  PROVE  RequestTyped' /\ data' \in Requests
BY DEF Arrive, RequestTyped, Datas, Requests, Pages, Page1

LEMMA StalledType ==
  ASSUME RequestTyped
  PROVE  /\ Stalled \in Datas /\ Stalled.page = data.page
         /\ Stalled.op = IF data.op = "sfence" THEN "stalled" ELSE data.op
BY MmuAssumption DEF RequestTyped, Stalled, Datas, Requests

(***************************************************************************)
(* The invariant.                                                          *)
(***************************************************************************)
\* A line says of a page what the tables say; its accessed and dirty bits may be
\* older than theirs where the walker sets them.
Agrees(l, p) ==
  /\ l.type = Leaf(p).type
  /\ l.pte \subseteq Leaf(p).pte
  /\ l.pte \ {"A", "D"} = Leaf(p).pte \ {"A", "D"}
  /\ ~ADUE => l.pte = Leaf(p).pte
  /\ ~DAUFaultM(pt[Adr1(p)])

\* The pages whose lines may be stale: those that are not fenced, until the fence
\* has emptied the buffers.
Due == IF data.op = "stalled" THEN {} ELSE unfenced
LinesAgree == \A s \in Sides : \A i \in Lines(s) : \A p \in Pages \ Due :
                Match(tlb[s][i], p) => Agrees(tlb[s][i], p)

Emptied == data.op = "stalled" => \A i \in Lines("D") : tlb["D"][i] = NoLine

\* What the walker holds in each of its states.
AtLeaf == /\ HPTWWriteAdr = Leaf(Walked.page).adr /\ PageType = Leaf(Walked.page).type
          /\ ~DAUFaultM(pt[Adr1(Walked.page)])
NewPTE == Leaf(Walked.page).pte \cup {"A"}
            \cup (IF DTLBWalk /\ Dirties(data.op) THEN {"D"} ELSE {})
Started == /\ walker # "IDLE" => Translate
           /\ DTLBWalk => data.op \in Ops /\ walker # "IDLE"
AtRoot == /\ walker \in {"L1_RD", "L0_ADR"} => HPTWWriteAdr = Adr1(Walked.page)
          /\ walker = "L0_ADR" => PTE = pt[Adr1(Walked.page)] /\ PageType = "mega"
AtSecond == walker = "L0_RD" =>
              /\ PTE = pt[Adr1(Walked.page)] /\ ValidNonLeafPTE(PTE) /\ ~DAUFaultM(PTE)
              /\ HPTWWriteAdr = Adr0(PTE, Walked.page)
Ended == walker = "LEAF" => AtLeaf /\ PTE = Leaf(Walked.page).pte
Earned == walker = "UPDATE_PTE" =>
            /\ AtLeaf /\ ADUE /\ ValidPTE(PTE) /\ LeafPTE(PTE) /\ ~OtherPageFault
            /\ ~({"A", "D"} \subseteq Leaf(Walked.page).pte)
            /\ PTE = NewPTE
WalkReads == Started /\ AtRoot /\ AtSecond /\ Ended /\ Earned

Consistent == RootsKnown /\ LinesAgree /\ Emptied
MmuInv == Typed /\ Consistent /\ WalkReads /\ Apart

LEMMA InitInv == Init => MmuInv
<1> SUFFICES ASSUME Init PROVE MmuInv
  OBVIOUS
<1>1. Typed
  <2>1. RootValues \cup NextValues \subseteq PTEs BY MmuAssumption DEF PTEs
  <2>2. LinesTyped BY DEF Init, LinesTyped, Sides
  <2>3. UsesTyped
    <3>1. \A s \in Sides : 1 \in Lines(s) BY MmuAssumption DEF Lines
    <3> QED BY <3>1 DEF Init, UsesTyped
  <2>4. RequestTyped BY PageFacts DEF Init, RequestTyped, Datas, Requests
  <2>5. WalkTyped BY PageFacts DEF Init, WalkTyped, PTEs
  <2> QED BY <2>1, <2>2, <2>3, <2>4, <2>5 DEF Init, Typed
<1>2. RootsKnown BY PageFacts DEF Init, RootsKnown
<1>3. LinesAgree BY DEF Init, LinesAgree, Match, NoLine
<1>4. Emptied BY DEF Init, Emptied
<1>5. WalkReads BY DEF Init, WalkReads, Started, AtRoot, AtSecond, Ended, Earned
<1>6. Apart BY DEF Init, Apart, Translate
<1> QED BY <1>1, <1>2, <1>3, <1>4, <1>5, <1>6 DEF MmuInv, Consistent

(***************************************************************************)
(* Steps that leave the tables alone.                                      *)
(***************************************************************************)
\* Lines stay true while tables do not change and no page is added to those that
\* are not fenced, except by a flush.
LEMMA TablesStay ==
  ASSUME Consistent, pt' = pt, ADUE' = ADUE,
         \A s \in Sides : \A i \in Lines(s) : tlb'[s][i] \in {tlb[s][i], NoLine},
         \/ Due \subseteq Due'
         \/ \A s \in Sides : \A i \in Lines(s) : tlb'[s][i] = NoLine
  PROVE  RootsKnown' /\ LinesAgree'
<1>1. RootsKnown' BY DEF Consistent, RootsKnown, Adr1, ValidNonLeafPTE, LeafPTE
<1>2. LinesAgree'
  <2> SUFFICES ASSUME NEW s \in Sides, NEW i \in Lines(s), NEW p \in Pages \ Due',
                      Match(tlb'[s][i], p)
               PROVE  Agrees(tlb[s][i], p)' 
    BY DEF LinesAgree, Lines, Match
  <2>1. tlb'[s][i] # NoLine BY DEF Match, NoLine
  <2>2. tlb'[s][i] = tlb[s][i] /\ p \in Pages \ Due BY <2>1
  <2>3. Agrees(tlb[s][i], p) BY <2>2 DEF Consistent, LinesAgree
  <2>4. Leaf(p)' = Leaf(p) BY SameLeaf
  <2> QED BY <2>2, <2>3, <2>4
          DEF Agrees, DAUFaultM, ValidNonLeafPTE, LeafPTE, Adr1
<1> QED BY <1>1, <1>2

LEMMA RequestsStay ==
  ASSUME Consistent, Apart, UNCHANGED <<pt, requests, tlb>>
  PROVE  Consistent' /\ Apart'
<1>1. Due' = Due BY DEF Due, requests
<1>2. RootsKnown' /\ LinesAgree' BY <1>1, TablesStay DEF requests
<1>3. Emptied' BY DEF Consistent, Emptied, requests, Lines, NoLine
<1>4. \A p : Leaf(p)' = Leaf(p) BY SameLeaf
<1>5. Apart'
  BY <1>4 DEF Apart, requests, Request, Lagging, TLBAccess, Translate, MisalignedSuper,
              ForbiddenCMO, UserFetch
<1> QED BY <1>2, <1>3, <1>5 DEF Consistent

\* The walker holds nothing while it is idle.
LEMMA IdleReads ==
  ASSUME walker' = "IDLE", ~DTLBWalk' PROVE WalkReads'
BY DEF WalkReads, Started, AtRoot, AtSecond, Ended, Earned

(***************************************************************************)
(* Steps of an idle walker.                                                *)
(***************************************************************************)
LEMMA IdleWalk == ASSUME MmuInv, walker = "IDLE" PROVE ~DTLBWalk
BY DEF MmuInv, WalkReads, Started

LEMMA ServeInv == ASSUME MmuInv, Serve PROVE MmuInv'
<1>t. Typed /\ Consistent /\ walker = "IDLE" BY DEF MmuInv, Serve
<1>1. LinesTyped' /\ \A s \in Sides : \A i \in Lines(s) :
         /\ tlb'[s][i] \in {tlb[s][i], NoLine}
         /\ TLBFlush(s) => tlb'[s][i] = NoLine
  BY <1>t, FlushedLines DEF Serve, Typed
<1>2. RequestTyped' /\ data' \in Requests
  BY <1>t, ArriveType DEF Serve, Typed, RequestTyped
<1>3. data'.op # "stalled" BY <1>2, OperationFacts DEF Requests
<1>4. UsesTyped' BY <1>t, TouchType DEF Serve, Typed
<1>5. Typed'
  BY <1>t, <1>1, <1>2, <1>4 DEF Serve, Typed, WalkTyped, walk, Addresses, Adr0, Adr1, PPN
<1>6. \/ Due \subseteq Due'
      \/ \A s \in Sides : \A i \in Lines(s) : tlb'[s][i] = NoLine
  <2>1. CASE data.op = "sfence" BY <2>1, <1>1 DEF TLBFlush
  <2>2. CASE data.op # "sfence" BY <2>2, <1>3 DEF Due, Serve
  <2> QED BY <2>1, <2>2
<1>7. RootsKnown' /\ LinesAgree' BY <1>t, <1>1, <1>6, TablesStay DEF Serve, Arrive
<1>8. Emptied' BY <1>3 DEF Emptied
<1>9. WalkReads' BY <1>t, IdleWalk, IdleReads DEF Serve, walk
<1>10. Apart' BY DEF Serve, Arrive
<1> QED BY <1>5, <1>7, <1>8, <1>9, <1>10 DEF MmuInv, Consistent

LEMMA InterruptInv == ASSUME MmuInv, Interrupt PROVE MmuInv'
<1>t. Typed /\ Consistent /\ walker = "IDLE" BY DEF MmuInv, Interrupt
<1>1. LinesTyped' /\ \A s \in Sides : \A i \in Lines(s) :
         tlb'[s][i] \in {tlb[s][i], NoLine}
  BY <1>t, FlushedLines DEF Interrupt, Typed
<1>2. RequestTyped' /\ data' \in Requests
  BY <1>t, ArriveType DEF Interrupt, Typed, RequestTyped
<1>3. data'.op # "stalled" BY <1>2, OperationFacts DEF Requests
<1>4. UsesTyped' BY <1>t, TouchType DEF Interrupt, Typed
<1>5. Typed' BY <1>t, <1>1, <1>2, <1>4 DEF Interrupt, Typed, WalkTyped, walk
<1>6. Due \subseteq Due' BY <1>3 DEF Due, Interrupt
<1>7. RootsKnown' /\ LinesAgree' BY <1>t, <1>1, <1>6, TablesStay DEF Interrupt, Arrive
<1>8. Emptied' BY <1>3 DEF Emptied
<1>9. WalkReads' BY <1>t, IdleWalk, IdleReads DEF Interrupt, walk
<1>10. Apart' BY DEF Interrupt, Arrive
<1> QED BY <1>5, <1>7, <1>8, <1>9, <1>10 DEF MmuInv, Consistent

\* While the pipeline stands still a fence goes from its first cycle to the rest,
\* and the buffers that this empties hold nothing stale.
LEMMA StandingInv ==
  ASSUME MmuInv, tlb' = Flushed, data' = Stalled, Touch,
         UNCHANGED <<pt, unfenced, ADUE, mode, fetch>>
  PROVE  Consistent' /\ Apart' /\ LinesTyped' /\ RequestTyped' /\ UsesTyped'
<1>t. Typed /\ Consistent /\ Apart BY DEF MmuInv
<1>1. LinesTyped' /\ \A s \in Sides : \A i \in Lines(s) :
         /\ tlb'[s][i] \in {tlb[s][i], NoLine}
         /\ TLBFlush(s) => tlb'[s][i] = NoLine
  BY <1>t, FlushedLines DEF Typed
<1>2. /\ data' \in Datas /\ data'.page = data.page
      /\ data'.op = IF data.op = "sfence" THEN "stalled" ELSE data.op
  BY <1>t, StalledType DEF Typed
<1>3. RequestTyped' BY <1>t, <1>2 DEF Typed, RequestTyped, Datas, Requests, Pages, Page1
<1>4. UsesTyped' BY <1>t, TouchType DEF Typed
<1>5. \/ Due \subseteq Due'
      \/ \A s \in Sides : \A i \in Lines(s) : tlb'[s][i] = NoLine
  <2>1. CASE data.op = "sfence" BY <2>1, <1>1 DEF TLBFlush
  <2>2. CASE data.op # "sfence" BY <2>2, <1>2 DEF Due
  <2> QED BY <2>1, <2>2
<1>6. RootsKnown' /\ LinesAgree' BY <1>t, <1>1, <1>5, TablesStay
<1>7. Emptied' BY <1>1, <1>2 DEF Emptied, TLBFlush, Sides, Lines, NoLine
<1>8. Apart'
  <2>1. \A p : Leaf(p)' = Leaf(p) BY SameLeaf
  <2>2. TLBAccess("D")' <=> TLBAccess("D")
    BY <1>2, OperationFacts DEF TLBAccess, Request, Permission
  <2>3. ForbiddenCMO' <=> ForbiddenCMO
    BY <1>2, <2>1 DEF ForbiddenCMO, Permission
  <2>4. /\ TLBAccess("I")' <=> TLBAccess("I")
        /\ \A s \in Sides : Lagging(s)' <=> Lagging(s)
        /\ \A s \in Sides : Request(s)'.page = Request(s).page
    BY <1>2 DEF TLBAccess, Request, Permission, Lagging, Sides
  <2>5. \A p : MisalignedSuper(p)' <=> MisalignedSuper(p) BY <2>1 DEF MisalignedSuper
  <2>6. UserFetch' <=> UserFetch BY <2>1 DEF UserFetch
  <2> HIDE DEF TLBAccess, Lagging, Request, MisalignedSuper, ForbiddenCMO, UserFetch
  <2> QED BY <1>t, <2>2, <2>3, <2>4, <2>5, <2>6 DEF Apart, Translate, Sides
<1> QED BY <1>1, <1>3, <1>4, <1>6, <1>7, <1>8 DEF Consistent

LEMMA StallInv == ASSUME MmuInv, Stall PROVE MmuInv'
<1>1. Consistent' /\ Apart' /\ LinesTyped' /\ RequestTyped' /\ UsesTyped'
  BY StandingInv DEF Stall
<1>2. Typed' BY <1>1 DEF MmuInv, Stall, Typed, WalkTyped, walk
<1>3. WalkReads' BY IdleWalk, IdleReads DEF Stall, walk
<1> QED BY <1>1, <1>2, <1>3 DEF MmuInv

LEMMA StartWalkInv == ASSUME MmuInv, StartWalk PROVE MmuInv'
<1>t. Typed BY DEF MmuInv
<1>1. Consistent' /\ Apart' /\ LinesTyped' /\ RequestTyped' /\ UsesTyped'
  BY StandingInv DEF StartWalk
<1>2. Typed' BY <1>t, <1>1 DEF StartWalk, Typed, WalkTyped
<1>3. Translate'
  BY DEF StartWalk, TLBMissOrUpdateDA, MissOrUpdate, TLBMiss, UpdateDA, Translate
<1>4. DTLBWalk' => data'.op \in Ops
  <2>1. DTLBWalk' => TLBAccess("D")
    BY DEF StartWalk, MissOrUpdate, TLBMiss, UpdateDA, TLBHit
  <2>2. TLBAccess("D") => data.op \in Ops BY <1>t, RequestFacts DEF Typed
  <2>3. data.op \in Ops => data'.op = data.op
    BY <1>t, StalledType, OperationFacts DEF Typed, StartWalk
  <2> QED BY <2>1, <2>2, <2>3
<1>5. WalkReads'
  BY <1>3, <1>4 DEF StartWalk, WalkReads, Started, AtRoot, AtSecond, Ended, Earned
<1> QED BY <1>1, <1>2, <1>5 DEF MmuInv

LEMMA EditInv ==
  ASSUME MmuInv, NEW a \in Addresses,
         NEW e \in IF a[1] = RootTable THEN RootValues ELSE NextValues, Edit(a, e)
  PROVE  MmuInv'
<1>t. /\ Typed /\ Consistent /\ walker = "IDLE" /\ walker' = "IDLE" /\ data.op = "none"
      /\ Due = {}
  BY DEF MmuInv, Edit, walk, Due
<1>e. e \in PTEs
  <2>1. RootValues \subseteq PTEs /\ NextValues \subseteq PTEs BY MmuAssumption DEF PTEs
  <2> QED BY <2>1
<1>1. \A p \in Pages : p \notin unfenced' => Leaf(p)' = Leaf(p) /\ pt'[Adr1(p)] = pt[Adr1(p)]
  <2> SUFFICES ASSUME NEW p \in Pages, a # Adr1(p), a # Leaf(p).adr
               PROVE  Leaf(p)' = Leaf(p) /\ pt'[Adr1(p)] = pt[Adr1(p)]
    BY DEF Edit
  <2>1. pt'[Adr1(p)] = pt[Adr1(p)] BY <1>t, PageFacts DEF Edit, Typed
  <2>2. pt'[Leaf(p).adr] = pt[Leaf(p).adr] BY <1>t, LeafType DEF Edit, Typed, Consistent
  <2>3. CASE ValidNonLeafPTE(pt[Adr1(p)])
    <3>1. Leaf(p).adr = Adr0(pt[Adr1(p)], p) BY <2>3, KiloLeaf
    <3> QED BY <2>1, <2>2, <2>3, <3>1 DEF Leaf, Adr1, Adr0, ValidNonLeafPTE, LeafPTE, PPN
  <2>4. CASE ~ValidNonLeafPTE(pt[Adr1(p)])
    BY <2>1, <2>4 DEF Leaf, Adr1, ValidNonLeafPTE, LeafPTE
  <2> QED BY <2>1, <2>3, <2>4
<1>2. Typed'
  <2>1. pt' \in [Addresses -> PTEs] BY <1>t, <1>e DEF Edit, Typed
  <2>2. UsesTyped' BY <1>t, TouchType DEF Edit, Typed
  <2>3. LinesTyped' BY <1>t DEF Edit, Typed, LinesTyped, Lines, Line, NoLine, Pages, PTEs,
                            PTEBits, PPN0, PPN1, Sides
  <2>4. RequestTyped' BY <1>t DEF Edit, Typed, RequestTyped, Datas, Requests, Pages, Page1
  <2>5. WalkTyped' BY <1>t DEF Edit, Typed, WalkTyped, walk
  <2> QED BY <2>1, <2>2, <2>3, <2>4, <2>5 DEF Typed
<1>3. RootsKnown'
  <2> SUFFICES ASSUME NEW p \in Pages, ValidNonLeafPTE(pt'[Adr1(p)])
               PROVE  pt'[Adr1(p)] \in RootValues
    BY DEF RootsKnown, ValidNonLeafPTE, LeafPTE, Adr1, Pages
  <2>1. CASE a = Adr1(p)
    BY <2>1, <1>t, PageFacts DEF Edit, Typed
  <2>2. CASE a # Adr1(p)
    <3>1. pt'[Adr1(p)] = pt[Adr1(p)] BY <2>2, <1>t, PageFacts DEF Edit, Typed
    <3> QED BY <3>1, <1>t DEF Consistent, RootsKnown
  <2> QED BY <2>1, <2>2
<1>4. LinesAgree'
  <2> SUFFICES ASSUME NEW s \in Sides, NEW i \in Lines(s), NEW p \in Pages, p \notin unfenced',
                      Match(tlb[s][i], p)
               PROVE  Agrees(tlb[s][i], p)'
    BY <1>t DEF LinesAgree, Due, Edit, Lines, Match
  <2>1. Agrees(tlb[s][i], p) BY <1>t DEF Consistent, LinesAgree
  <2> QED BY <1>1, <2>1 DEF Edit, Agrees, DAUFaultM, ValidNonLeafPTE, LeafPTE, Adr1
<1>5. Emptied' BY <1>t DEF Emptied, Edit
<1>6. WalkReads' BY <1>t, IdleWalk, IdleReads DEF Edit, walk
<1> QED BY <1>2, <1>3, <1>4, <1>5, <1>6 DEF Edit, MmuInv, Consistent

(***************************************************************************)
(* Steps of the walker that read.                                          *)
(***************************************************************************)
\* A state of the walker in which no table, request or buffer changes.
LEMMA GoesInv ==
  ASSUME MmuInv, NEW from, NEW next, Goes(from, next), from # "IDLE", next # "IDLE"
  PROVE  /\ Consistent' /\ Apart' /\ RequestTyped' /\ LinesTyped' /\ UsesTyped' /\ Started'
         /\ pt' \in [Addresses -> PTEs] /\ UNCHANGED <<pt, data, mode, ADUE, DTLBWalk>>
         /\ Walked' = Walked /\ Walked.page \in Pages /\ \A p : Leaf(p)' = Leaf(p)
<1>t. Typed /\ Consistent /\ Apart BY DEF MmuInv
<1>1. Consistent' /\ Apart' BY <1>t, RequestsStay DEF Goes
<1>2. RequestTyped' /\ LinesTyped'
  BY <1>t DEF Goes, Typed, requests, RequestTyped, LinesTyped, Datas, Requests, Lines, Line,
              NoLine, Pages, Page1, PTEs, PTEBits, PPN0, PPN1, Sides
<1>3. UsesTyped' BY <1>t, TouchType DEF Goes, Typed
<1>4. Started' BY DEF Goes, MmuInv, WalkReads, Started, Translate, requests
<1>5. Walked' = Walked BY DEF Goes, requests, Walked, Request
<1>6. Walked.page \in Pages BY <1>t, RequestFacts DEF Typed, Walked, Sides
<1>7. \A p : Leaf(p)' = Leaf(p) BY SameLeaf DEF Goes
<1> QED BY <1>1, <1>2, <1>3, <1>4, <1>5, <1>6, <1>7, <1>t DEF Goes, requests, Typed

LEMMA Address1Inv == ASSUME MmuInv, Address1 PROVE MmuInv'
<1>1. /\ Consistent' /\ Apart' /\ RequestTyped' /\ LinesTyped' /\ UsesTyped' /\ Started'
      /\ pt' \in [Addresses -> PTEs] /\ Walked' = Walked /\ Walked.page \in Pages
  BY GoesInv DEF Address1
<1>2. HPTWWriteAdr' = Adr1(Walked.page) BY DEF Address1, Goes, SaveHPTWAdr, HPTWReadAdr
<1>3. Typed' BY <1>1, <1>2, PageFacts DEF Address1, Goes, MmuInv, Typed, WalkTyped
<1>4. WalkReads'
  BY <1>1, <1>2 DEF Address1, Goes, WalkReads, AtRoot, AtSecond, Ended, Earned, Adr1
<1> QED BY <1>1, <1>3, <1>4 DEF MmuInv

LEMMA Read1Inv == ASSUME MmuInv, Read("L1_RD", "L0_ADR", "mega") PROVE MmuInv'
<1>1. /\ Consistent' /\ Apart' /\ RequestTyped' /\ LinesTyped' /\ UsesTyped' /\ Started'
      /\ pt' \in [Addresses -> PTEs] /\ Walked' = Walked /\ Walked.page \in Pages
      /\ pt' = pt
  BY GoesInv DEF Read
<1>2. HPTWWriteAdr' = Adr1(Walked.page) /\ PTE' = pt[Adr1(Walked.page)]
  BY DEF Read, Goes, SaveHPTWAdr, HPTWReadAdr, MmuInv, WalkReads, AtRoot
<1>3. Typed' BY <1>1, <1>2, PageFacts DEF Read, Goes, MmuInv, Typed, WalkTyped
<1>4. WalkReads'
  BY <1>1, <1>2 DEF Read, Goes, WalkReads, AtRoot, AtSecond, Ended, Earned, Adr1
<1> QED BY <1>1, <1>3, <1>4 DEF MmuInv

LEMMA Address0Inv == ASSUME MmuInv, Address0 PROVE MmuInv'
<1> DEFINE p == Walked.page
<1>1. /\ Consistent' /\ Apart' /\ RequestTyped' /\ LinesTyped' /\ UsesTyped' /\ Started'
      /\ pt' \in [Addresses -> PTEs] /\ Walked' = Walked /\ p \in Pages
      /\ pt' = pt /\ \A q : Leaf(q)' = Leaf(q)
  BY GoesInv DEF Address0
<1>2. /\ PTE = pt[Adr1(p)] /\ PTE' = PTE /\ PageType = "mega" /\ PageType' = PageType
      /\ HPTWWriteAdr = Adr1(p) /\ walker = "L0_ADR"
  BY DEF Address0, Goes, MmuInv, WalkReads, AtRoot
<1>3. CASE DAUFaultM(PTE)
  <2>1. walker' = "FAULT" /\ HPTWWriteAdr' = HPTWWriteAdr
    BY <1>3 DEF Address0, Goes, SaveHPTWAdr
  <2>2. Typed' BY <1>1, <1>2, <2>1 DEF MmuInv, Typed, WalkTyped
  <2>3. WalkReads' BY <1>1, <2>1 DEF WalkReads, AtRoot, AtSecond, Ended, Earned
  <2> QED BY <1>1, <2>2, <2>3 DEF MmuInv
<1>4. CASE ~DAUFaultM(PTE) /\ ValidNonLeafPTE(PTE)
  <2>1. walker' = "L0_RD" /\ HPTWWriteAdr' = Adr0(PTE, p)
    BY <1>4 DEF Address0, Goes, SaveHPTWAdr, HPTWReadAdr
  <2>2. Adr0(PTE, p) \in Addresses
    <3>1. PTE \in RootValues
      BY <1>1, <1>2, <1>4 DEF MmuInv, Consistent, RootsKnown
    <3> QED BY <3>1, <1>1, <1>4 DEF Addresses
  <2>3. Typed' BY <1>1, <1>2, <2>1, <2>2 DEF MmuInv, Typed, WalkTyped
  <2>4. WalkReads'
    BY <1>1, <1>2, <1>4, <2>1
    DEF WalkReads, AtRoot, AtSecond, Ended, Earned, Adr1, Adr0, PPN, ValidNonLeafPTE, LeafPTE,
        DAUFaultM
  <2> QED BY <1>1, <2>3, <2>4 DEF MmuInv
<1>5. CASE ~DAUFaultM(PTE) /\ ~ValidNonLeafPTE(PTE)
  <2>1. walker' = "LEAF" /\ HPTWWriteAdr' = HPTWWriteAdr
    BY <1>5 DEF Address0, Goes, SaveHPTWAdr
  <2>2. Typed' BY <1>1, <1>2, <2>1 DEF MmuInv, Typed, WalkTyped
  <2>3. Leaf(p).adr = Adr1(p) /\ Leaf(p).pte = PTE /\ Leaf(p).type = "mega"
    BY <1>2, <1>5, MegaLeaf
  <2>4. ~DAUFaultM(pt[Adr1(p)])'
    BY <1>1, <1>2, <1>5 DEF Adr1, DAUFaultM, ValidNonLeafPTE, LeafPTE
  <2>5. Ended' BY <1>1, <1>2, <2>1, <2>3, <2>4 DEF Ended, AtLeaf
  <2>6. WalkReads' BY <1>1, <2>1, <2>5 DEF WalkReads, AtRoot, AtSecond, Earned
  <2> QED BY <1>1, <2>2, <2>6 DEF MmuInv
<1> QED BY <1>3, <1>4, <1>5

LEMMA Read0Inv == ASSUME MmuInv, Read("L0_RD", "LEAF", "kilo") PROVE MmuInv'
<1> DEFINE p == Walked.page
<1>1. /\ Consistent' /\ Apart' /\ RequestTyped' /\ LinesTyped' /\ UsesTyped' /\ Started'
      /\ pt' \in [Addresses -> PTEs] /\ Walked' = Walked /\ p \in Pages
      /\ pt' = pt /\ \A q : Leaf(q)' = Leaf(q)
  BY GoesInv DEF Read
<1>2. /\ PTE = pt[Adr1(p)] /\ ValidNonLeafPTE(PTE) /\ ~DAUFaultM(PTE)
      /\ HPTWWriteAdr = Adr0(PTE, p) /\ walker' = "LEAF" /\ PageType' = "kilo"
      /\ HPTWWriteAdr' = HPTWWriteAdr /\ PTE' = pt[Adr0(PTE, p)]
  BY DEF Read, Goes, SaveHPTWAdr, HPTWReadAdr, MmuInv, WalkReads, AtSecond
<1>3. /\ Leaf(p).adr = Adr0(PTE, p) /\ Leaf(p).pte = pt[Leaf(p).adr]
      /\ Leaf(p).type = "kilo"
  BY <1>2, KiloLeaf
<1>4. Typed' BY <1>1, <1>2 DEF MmuInv, Typed, WalkTyped
<1>5. Ended'
  BY <1>1, <1>2, <1>3 DEF Ended, AtLeaf, Adr1, DAUFaultM, ValidNonLeafPTE, LeafPTE
<1>6. WalkReads' BY <1>1, <1>2, <1>5 DEF WalkReads, AtRoot, AtSecond, Earned
<1> QED BY <1>1, <1>4, <1>6 DEF MmuInv

LEMMA DeniedInv == ASSUME MmuInv, Denied PROVE MmuInv'
<1>1. PICK from \in {"L1_RD", "L0_RD", "UPDATE_PTE"} : Goes(from, "FAULT") BY DEF Denied
<1>2. /\ Consistent' /\ Apart' /\ RequestTyped' /\ LinesTyped' /\ UsesTyped' /\ Started'
      /\ pt' \in [Addresses -> PTEs]
  BY <1>1, GoesInv
<1>3. walker' = "FAULT" /\ HPTWWriteAdr' = HPTWWriteAdr
  BY <1>1 DEF Goes, SaveHPTWAdr
<1>4. Typed' BY <1>2, <1>3 DEF Denied, MmuInv, Typed, WalkTyped
<1>5. WalkReads' BY <1>2, <1>3 DEF WalkReads, AtRoot, AtSecond, Ended, Earned
<1> QED BY <1>2, <1>4, <1>5 DEF MmuInv

LEMMA UpdatePTEInv == ASSUME MmuInv, UpdatePTE PROVE MmuInv'
<1> DEFINE p == Walked.page
<1>1. /\ Consistent' /\ Apart' /\ RequestTyped' /\ LinesTyped' /\ UsesTyped' /\ Started'
      /\ pt' \in [Addresses -> PTEs] /\ Walked' = Walked /\ p \in Pages
      /\ UNCHANGED <<pt, data, mode, ADUE, DTLBWalk>> /\ \A q : Leaf(q)' = Leaf(q)
  BY GoesInv DEF UpdatePTE
<1>2. /\ AtLeaf /\ PTE = Leaf(p).pte /\ walker' = "UPDATE_PTE" /\ PageType' = PageType
      /\ HPTWWriteAdr' = HPTWWriteAdr /\ HPTWUpdateDA
      /\ PTE' = PTE \cup {"A"} \cup (IF SetDirty THEN {"D"} ELSE {})
  BY DEF UpdatePTE, Goes, SaveHPTWAdr, MmuInv, WalkReads, Ended
<1>3. Typed' BY <1>1, <1>2 DEF MmuInv, Typed, WalkTyped, PTEs, PTEBits
<1>4. AtLeaf'
  BY <1>1, <1>2 DEF AtLeaf, Adr1, DAUFaultM, ValidNonLeafPTE, LeafPTE
<1>5. PTE' = NewPTE /\ NewPTE' = NewPTE
  BY <1>1, <1>2 DEF NewPTE, SetDirty, Dirties
<1>6. ValidPTE(PTE)' /\ LeafPTE(PTE)'
  BY <1>2 DEF HPTWUpdateDA, ValidPTE, LeafPTE
<1>7. ~OtherPageFault'
  <2>1. ~OtherPageFault BY <1>2 DEF HPTWUpdateDA
  <2>2. ~InvalidOp'
    BY <1>1, <1>2, <2>1, OperationFacts DEF OtherPageFault, InvalidOp, Permission
  <2> QED BY <1>1, <1>2, <2>1, <2>2 DEF OtherPageFault
<1>8. ~({"A", "D"} \subseteq Leaf(p).pte) BY <1>2 DEF HPTWUpdateDA, SetDirty
<1>9. ADUE' BY <1>1, <1>2 DEF HPTWUpdateDA
<1>10. Earned' BY <1>1, <1>4, <1>5, <1>6, <1>7, <1>8, <1>9 DEF Earned
<1>11. WalkReads' BY <1>1, <1>2, <1>10 DEF WalkReads, AtRoot, AtSecond, Ended
<1> QED BY <1>1, <1>3, <1>11 DEF MmuInv

(***************************************************************************)
(* Steps of the walker that write.                                         *)
(***************************************************************************)
\* Writing the entry of a leaf moves no leaf: every page keeps the address and the
\* type of its own, and those that share the entry all see what was written.
LEMMA WriteKeepsLeaves ==
  ASSUME MmuInv, WritePTE
  PROVE  \A q \in Pages :
           /\ Leaf(q)'.adr = Leaf(q).adr /\ Leaf(q)'.type = Leaf(q).type
           /\ Leaf(q)'.pte = IF Leaf(q).adr = HPTWWriteAdr THEN PTE ELSE Leaf(q).pte
           /\ DAUFaultM(pt[Adr1(q)])' <=> DAUFaultM(pt[Adr1(q)])
           /\ ValidNonLeafPTE(pt[Adr1(q)])' => pt'[Adr1(q)] = pt[Adr1(q)]
<1> DEFINE p == Walked.page
<1>1. /\ Typed /\ RootsKnown /\ LeafPTE(PTE) /\ p \in Pages
      /\ HPTWWriteAdr = Leaf(p).adr
  BY RequestFacts DEF MmuInv, Consistent, Typed, WritePTE, WalkReads, Earned, AtLeaf, Walked,
                      Sides
<1> SUFFICES ASSUME NEW q \in Pages
             PROVE  /\ Leaf(q)'.adr = Leaf(q).adr /\ Leaf(q)'.type = Leaf(q).type
                    /\ Leaf(q)'.pte = IF Leaf(q).adr = HPTWWriteAdr THEN PTE ELSE Leaf(q).pte
                    /\ DAUFaultM(pt[Adr1(q)])' <=> DAUFaultM(pt[Adr1(q)])
                    /\ ValidNonLeafPTE(pt[Adr1(q)])' => pt'[Adr1(q)] = pt[Adr1(q)]
  BY DEF Adr1
<1>2. \A a \in Addresses : pt'[a] = IF a = HPTWWriteAdr THEN PTE ELSE pt[a]
  BY <1>1 DEF WritePTE, Typed
<1>3. Adr1(q) \in Addresses /\ Leaf(q).adr \in Addresses /\ Leaf(q).pte = pt[Leaf(q).adr]
  BY <1>1, PageFacts, LeafType DEF Typed
<1>4. CASE HPTWWriteAdr = Adr1(q)
  <2>1. ~ValidNonLeafPTE(pt[Adr1(q)])
    <3>1. CASE ValidNonLeafPTE(pt[Adr1(p)])
      <4>1. Leaf(p).adr = Adr0(pt[Adr1(p)], p) BY <3>1, KiloLeaf
      <4>2. Adr0(pt[Adr1(p)], p) # Adr1(q)
        <5> HIDE DEF p
        <5> QED BY <1>1, AddressesApart
      <4> QED BY <1>1, <1>4, <4>1, <4>2
    <3>2. CASE ~ValidNonLeafPTE(pt[Adr1(p)])
      BY <3>2, <1>1, <1>4, MegaLeaf
    <3> QED BY <3>1, <3>2
  <2>2. pt'[Adr1(q)] = PTE BY <1>2, <1>3, <1>4
  <2>3. ~ValidNonLeafPTE(pt'[Adr1(q)]) BY <1>1, <2>2 DEF ValidNonLeafPTE
  <2>4. /\ Leaf(q).adr = Adr1(q) /\ Leaf(q).type = "mega"
        /\ Leaf(q)'.adr = Adr1(q) /\ Leaf(q)'.type = "mega" /\ Leaf(q)'.pte = PTE
    BY <2>1, <2>2, <2>3, MegaLeaf DEF Leaf, Adr1, ValidNonLeafPTE, LeafPTE
  <2>5. ~DAUFaultM(pt[Adr1(q)]) /\ ~DAUFaultM(pt[Adr1(q)])'
    BY <2>1, <2>3 DEF DAUFaultM, Adr1, ValidNonLeafPTE, LeafPTE
  <2> QED BY <1>4, <2>3, <2>4, <2>5 DEF Adr1, ValidNonLeafPTE, LeafPTE
<1>5. CASE HPTWWriteAdr # Adr1(q)
  <2>1. pt'[Adr1(q)] = pt[Adr1(q)] BY <1>2, <1>3, <1>5
  <2>2. /\ DAUFaultM(pt[Adr1(q)])' <=> DAUFaultM(pt[Adr1(q)])
        /\ ValidNonLeafPTE(pt[Adr1(q)])' <=> ValidNonLeafPTE(pt[Adr1(q)])
    BY <2>1 DEF DAUFaultM, Adr1, ValidNonLeafPTE, LeafPTE
  <2>3. CASE ValidNonLeafPTE(pt[Adr1(q)])
    <3>1. Leaf(q).adr = Adr0(pt[Adr1(q)], q) /\ Leaf(q).type = "kilo" BY <2>3, KiloLeaf
    <3>2. /\ Leaf(q)'.adr = Adr0(pt[Adr1(q)], q) /\ Leaf(q)'.type = "kilo"
          /\ Leaf(q)'.pte = pt'[Adr0(pt[Adr1(q)], q)]
      BY <2>1, <2>3 DEF Leaf, Adr1, Adr0, PPN, ValidNonLeafPTE, LeafPTE
    <3> QED BY <1>2, <1>3, <2>1, <2>2, <3>1, <3>2 DEF Adr1
  <2>4. CASE ~ValidNonLeafPTE(pt[Adr1(q)])
    <3>1. /\ Leaf(q).adr = Adr1(q) /\ Leaf(q).type = "mega" /\ Leaf(q).pte = pt[Adr1(q)]
      BY <2>4, MegaLeaf
    <3>2. /\ Leaf(q)'.adr = Adr1(q) /\ Leaf(q)'.type = "mega"
          /\ Leaf(q)'.pte = pt[Adr1(q)]
      BY <2>1, <2>4 DEF Leaf, Adr1, ValidNonLeafPTE, LeafPTE
    <3> QED BY <1>5, <2>1, <2>2, <3>1, <3>2 DEF Adr1
  <2> QED BY <2>3, <2>4
<1> QED BY <1>4, <1>5

\* What is written differs from what was there in accessed and dirty, which it sets.
LEMMA LeavesGrow ==
  ASSUME MmuInv, WritePTE, NEW q \in Pages
  PROVE  /\ Leaf(q).pte \subseteq Leaf(q)'.pte
         /\ Leaf(q).pte \ {"A", "D"} = Leaf(q)'.pte \ {"A", "D"}
<1>1. /\ Typed /\ RootsKnown /\ Walked.page \in Pages
      /\ HPTWWriteAdr = Leaf(Walked.page).adr /\ PTE = NewPTE
  BY RequestFacts DEF MmuInv, Consistent, Typed, WritePTE, WalkReads, Earned, AtLeaf, Walked,
                      Sides
<1>2. Leaf(q)'.pte = IF Leaf(q).adr = HPTWWriteAdr THEN PTE ELSE Leaf(q).pte
  BY WriteKeepsLeaves
<1>3. /\ Leaf(q).pte = pt[Leaf(q).adr]
      /\ Leaf(Walked.page).pte = pt[Leaf(Walked.page).adr]
  BY <1>1, LeafType DEF Typed
<1>4. CASE Leaf(q).adr = HPTWWriteAdr
  <2>1. Leaf(q)'.pte = NewPTE BY <1>1, <1>2, <1>4
  <2>2. Leaf(q).pte = Leaf(Walked.page).pte BY <1>1, <1>3, <1>4
  <2> QED BY <2>1, <2>2 DEF NewPTE
<1>5. CASE Leaf(q).adr # HPTWWriteAdr BY <1>2, <1>5
<1> QED BY <1>4, <1>5

LEMMA WritePTEInv == ASSUME MmuInv, WritePTE PROVE MmuInv'
<1>t. /\ Typed /\ Consistent /\ Apart /\ WalkReads /\ Walked.page \in Pages /\ Walked' = Walked
      /\ UNCHANGED <<unfenced, ADUE, mode, data, fetch, tlb, DTLBWalk, PTE, PageType,
                     HPTWWriteAdr>>
      /\ walker = "UPDATE_PTE" /\ walker' = "LEAF"
  BY RequestFacts DEF MmuInv, WritePTE, requests, Walked, Request, Typed, Sides
<1>l. \A q \in Pages :
        /\ Leaf(q)'.adr = Leaf(q).adr /\ Leaf(q)'.type = Leaf(q).type
        /\ Leaf(q)'.pte = IF Leaf(q).adr = HPTWWriteAdr THEN PTE ELSE Leaf(q).pte
        /\ DAUFaultM(pt[Adr1(q)])' <=> DAUFaultM(pt[Adr1(q)])
        /\ ValidNonLeafPTE(pt[Adr1(q)])' => pt'[Adr1(q)] = pt[Adr1(q)]
  BY WriteKeepsLeaves
<1>g. \A q \in Pages : /\ Leaf(q).pte \subseteq Leaf(q)'.pte
                       /\ Leaf(q).pte \ {"A", "D"} = Leaf(q)'.pte \ {"A", "D"}
  BY LeavesGrow
<1>e. AtLeaf /\ ADUE BY <1>t DEF WalkReads, Earned
<1>1. Typed'
  <2>1. pt' \in [Addresses -> PTEs] BY <1>t DEF WritePTE, Typed, WalkTyped
  <2>2. UsesTyped' BY <1>t, TouchType DEF WritePTE, Typed
  <2>3. LinesTyped' BY <1>t DEF Typed, LinesTyped, Lines, Line, NoLine, Pages, PTEs,
                            PTEBits, PPN0, PPN1, Sides
  <2>4. RequestTyped' BY <1>t DEF Typed, RequestTyped, Datas, Requests, Pages, Page1
  <2>5. WalkTyped' BY <1>t DEF Typed, WalkTyped
  <2> QED BY <2>1, <2>2, <2>3, <2>4, <2>5 DEF Typed
<1>2. RootsKnown'
  <2> SUFFICES ASSUME NEW q \in Pages, ValidNonLeafPTE(pt[Adr1(q)])'
               PROVE  pt'[Adr1(q)] \in RootValues
    BY DEF RootsKnown, Adr1, Pages
  <2>1. pt'[Adr1(q)] = pt[Adr1(q)] BY <1>l
  <2>2. ValidNonLeafPTE(pt[Adr1(q)])
    BY <2>1 DEF ValidNonLeafPTE, LeafPTE, Adr1
  <2> QED BY <2>1, <2>2, <1>t DEF Consistent, RootsKnown
<1>3. LinesAgree'
  <2> SUFFICES ASSUME NEW s \in Sides, NEW i \in Lines(s), NEW q \in Pages \ Due,
                      Match(tlb[s][i], q)
               PROVE  Agrees(tlb[s][i], q)'
    BY <1>t DEF LinesAgree, Due, Lines, Match
  <2>1. Agrees(tlb[s][i], q) BY <1>t DEF Consistent, LinesAgree
  <2> QED BY <1>t, <1>l, <1>g, <1>e, <2>1 DEF Agrees
<1>4. Emptied' BY <1>t DEF Consistent, Emptied, Lines, NoLine
<1>5. WalkReads'
  <2>1. Started' BY <1>t DEF WalkReads, Started, Translate
  <2>2. Leaf(Walked.page)'.pte = PTE BY <1>t, <1>l, <1>e DEF AtLeaf
  <2>3. Ended' BY <1>t, <1>l, <1>e, <2>2 DEF Ended, AtLeaf, Adr1
  <2> QED BY <1>t, <2>1, <2>3 DEF WalkReads, AtRoot, AtSecond, Earned
<1>6. Apart'
  <2>1. \A s \in Sides : Request(s)' = Request(s) /\ Request(s).page \in Pages
    BY <1>t, RequestFacts DEF Request, Typed
  <2>2. \A q \in Pages : MisalignedSuper(q)' => MisalignedSuper(q)
    BY <1>l, <1>g DEF MisalignedSuper, PPN0
  <2>3. data.page \in Pages /\ data.op \in Ops \cup {"none", "sfence", "stalled"}
    BY <1>t, RequestFacts DEF Typed
  <2>4. ForbiddenCMO' => ForbiddenCMO
    BY <1>t, <1>g, <2>3, OperationFacts DEF ForbiddenCMO, Permission
  <2>5. UserFetch' => UserFetch
    BY <1>t, <1>g DEF UserFetch, Typed, RequestTyped
  <2>6. \A s \in Sides : /\ TLBAccess(s)' <=> TLBAccess(s)
                         /\ Lagging(s)' <=> Lagging(s)
    BY <1>t, <2>1 DEF TLBAccess, Lagging, Permission
  <2>7. Translate' <=> Translate BY <1>t DEF Translate
  <2> HIDE DEF TLBAccess, Lagging, Request, MisalignedSuper, ForbiddenCMO, UserFetch, Translate
  <2> QED BY <1>t, <2>1, <2>2, <2>4, <2>5, <2>6, <2>7 DEF Apart, Sides
<1> QED BY <1>1, <1>2, <1>3, <1>4, <1>5, <1>6 DEF MmuInv, Consistent

LEMMA TLBWriteInv == ASSUME MmuInv, TLBWrite PROVE MmuInv'
<1> DEFINE s == IF DTLBWalk THEN "D" ELSE "I"
           other == IF s = "D" THEN "I" ELSE "D"
           w == Walked.page
           line == [valid |-> TRUE, page |-> w, type |-> PageType, pte |-> PTE]
<1>t. /\ Typed /\ Consistent /\ Apart /\ WalkReads /\ w \in Pages
      /\ walker = "LEAF" /\ walker' = "IDLE" /\ ~DTLBWalk'
      /\ UNCHANGED <<pt, unfenced, ADUE, mode, data, fetch>>
  BY RequestFacts DEF MmuInv, TLBWrite, Ends, requests, Typed, Walked, Sides
<1>w. /\ PTE = Leaf(w).pte /\ PageType = Leaf(w).type /\ ~DAUFaultM(pt[Adr1(w)])
  BY <1>t DEF WalkReads, Ended, AtLeaf
<1>1. \A d \in Sides : \A i \in Lines(d) :
        \/ tlb'[d][i] = tlb[d][i]
        \/ d = s /\ tlb'[d][i] = line
  <2>1. tlb' = [tlb EXCEPT ![s] = [i \in Lines(s) |-> IF i \in WriteLines(s) THEN line ELSE @[i]]]
    BY DEF TLBWrite
  <2> HIDE DEF line
  <2> QED BY <1>t, <2>1 DEF Typed, LinesTyped, Sides
<1>2. LinesTyped'
  <2>1. tlb' = [tlb EXCEPT ![s] = [i \in Lines(s) |-> IF i \in WriteLines(s) THEN line ELSE @[i]]]
    BY DEF TLBWrite
  <2>2. line \in Line BY <1>t DEF Line, Typed, WalkTyped
  <2>3. Line' = Line /\ NoLine' = NoLine /\ \A d \in Sides : Lines(d)' = Lines(d)
    BY DEF Line, NoLine, Lines, Pages, PTEs, PTEBits, PPN0, PPN1
  <2>4. s \in Sides BY DEF Sides
  <2>5. DOMAIN tlb' = Sides /\ \A d \in Sides : tlb'[d] \in [Lines(d) -> Line \cup {NoLine}]
    <3> HIDE DEF line, Line, s
    <3> QED BY <1>t, <2>1, <2>2, <2>4 DEF Typed, LinesTyped
  <2> QED BY <2>3, <2>5 DEF LinesTyped, Sides
<1>3. UsesTyped'
  <2>1. PICK t \in Touches(other) :
           RUBits' = [RUBits EXCEPT ![s] = RUBitsNext(s, WriteLines(s)),
                                    ![other] = IF t = {} THEN @ ELSE RUBitsNext(other, t)]
    BY DEF TLBWrite
  <2>2. s \in Sides /\ other \in Sides /\ s # other BY DEF Sides
  <2>3. t \in SUBSET Lines(other) BY <2>2, TouchesAreLines
  <2>4. WriteLines(s) \in SUBSET Lines(s) BY DEF WriteLines
  <2>5. /\ RUBitsNext(s, WriteLines(s)) \subseteq Lines(s)
        /\ RUBitsNext(s, WriteLines(s)) # Lines(s)
        /\ RUBitsNext(other, t) \subseteq Lines(other) /\ RUBitsNext(other, t) # Lines(other)
    <3> HIDE DEF s, other
    <3> QED BY <1>t, <2>2, <2>3, <2>4, RUBitsNextType DEF Typed
  <2>6. \A d \in Sides : Lines(d)' = Lines(d) BY DEF Lines
  <2>7. \A d \in Sides : RUBits'[d] \subseteq Lines(d) /\ RUBits'[d] # Lines(d)
    <3> HIDE DEF s, other
    <3> QED BY <1>t, <2>1, <2>2, <2>5 DEF Typed, UsesTyped
  <2>8. DOMAIN RUBits' = Sides BY <1>t, <2>1 DEF Typed, UsesTyped
  <2> QED BY <2>6, <2>7, <2>8 DEF UsesTyped, Sides
<1>4. Typed'
  <2>1. pt' \in [Addresses -> PTEs] BY <1>t DEF Typed
  <2>2. RequestTyped' BY <1>t DEF Typed, RequestTyped, Datas, Requests, Pages, Page1
  <2>3. WalkTyped' BY PageFacts DEF TLBWrite, Ends, Cleared, WalkTyped, PTEs
  <2> QED BY <1>2, <1>3, <2>1, <2>2, <2>3 DEF Typed
<1>5. RootsKnown' BY <1>t DEF Consistent, RootsKnown, Adr1, ValidNonLeafPTE, LeafPTE
<1>6. LinesAgree'
  <2>1. \A p \in Pages : Match(line, p) =>
          Leaf(p).type = Leaf(w).type /\ Leaf(p).pte = Leaf(w).pte /\ Adr1(p) = Adr1(w)
    <3> SUFFICES ASSUME NEW p \in Pages, Match(line, p)
                 PROVE  /\ Leaf(p).type = Leaf(w).type /\ Leaf(p).pte = Leaf(w).pte
                        /\ Adr1(p) = Adr1(w)
      OBVIOUS
    <3>1. w[1] = p[1] /\ (w[2] = p[2] \/ Leaf(w).type = "mega") BY <1>w DEF Match
    <3> HIDE DEF w
    <3>2. Adr1(p) = Adr1(w) BY <1>t, <3>1, PageFacts
    <3>3. CASE w[2] = p[2]
      <4>1. p = w BY <1>t, <3>1, <3>3, PageFacts
      <4> QED BY <4>1
    <3>4. CASE Leaf(w).type = "mega"
      <4>1. ~ValidNonLeafPTE(pt[Adr1(w)]) BY <3>4, KiloLeaf
      <4> QED BY <3>2, <4>1, MegaLeaf
    <3> QED BY <3>1, <3>2, <3>3, <3>4
  <2> SUFFICES ASSUME NEW d \in Sides, NEW i \in Lines(d), NEW p \in Pages \ Due,
                      Match(tlb'[d][i], p)
               PROVE  Agrees(tlb[d][i], p)'
    BY <1>t DEF LinesAgree, Due, Lines, Match
  <2>2. CASE tlb'[d][i] = tlb[d][i]
    <3>1. Agrees(tlb[d][i], p) BY <1>t, <2>2 DEF Consistent, LinesAgree
    <3>2. Leaf(p)' = Leaf(p) BY <1>t, SameLeaf
    <3> QED BY <1>t, <2>2, <3>1, <3>2
            DEF Agrees, DAUFaultM, ValidNonLeafPTE, LeafPTE, Adr1
  <2>3. CASE tlb'[d][i] = line
    <3>1. Match(line, p) BY <2>3
    <3>2. Leaf(p)' = Leaf(p) BY <1>t, SameLeaf
    <3>3. line.type = PageType /\ line.pte = PTE OBVIOUS
    <3>4. /\ Leaf(p).type = PageType /\ Leaf(p).pte = PTE /\ ~DAUFaultM(pt[Adr1(p)])
      BY <1>w, <2>1, <3>1
    <3>5. ~DAUFaultM(pt[Adr1(p)])'
      BY <1>t, <3>4 DEF DAUFaultM, ValidNonLeafPTE, LeafPTE, Adr1
    <3> HIDE DEF line
    <3> QED BY <2>3, <3>2, <3>3, <3>4, <3>5 DEF Agrees
  <2> QED BY <1>1, <2>2, <2>3
<1>7. Emptied'
  <2> SUFFICES ASSUME data.op = "stalled", NEW i \in Lines("D")
               PROVE  tlb'["D"][i] = NoLine
    BY <1>t DEF Emptied, Lines, NoLine
  <2>1. ~DTLBWalk BY <1>t, OperationFacts DEF WalkReads, Started
  <2>2. tlb'["D"][i] = tlb["D"][i] BY <1>1, <2>1 DEF Sides
  <2> QED BY <1>t, <2>2 DEF Consistent, Emptied
<1>8. WalkReads' BY <1>t, IdleReads
<1>9. Apart'
  <2>1. \A q : Leaf(q)' = Leaf(q) BY <1>t, SameLeaf
  <2> QED BY <1>t, <2>1 DEF Apart, Request, Lagging, TLBAccess, Translate, MisalignedSuper,
                           ForbiddenCMO, UserFetch, Permission, Sides
<1> QED BY <1>4, <1>5, <1>6, <1>7, <1>8, <1>9 DEF MmuInv, Consistent

LEMMA FaultInv == ASSUME MmuInv, Fault PROVE MmuInv'
<1>t. /\ Typed /\ Consistent /\ walker' = "IDLE" /\ ~DTLBWalk' /\ UNCHANGED <<pt, tlb, ADUE>>
  BY DEF MmuInv, Fault, Ends, Arrive
<1>1. RequestTyped' /\ data' \in Requests
  BY <1>t, ArriveType DEF Fault, Typed, RequestTyped
<1>2. data'.op # "stalled" BY <1>1, OperationFacts DEF Requests
<1>3. Typed'
  <2>1. UsesTyped' BY <1>t, TouchType DEF Fault, Typed
  <2>2. LinesTyped' BY <1>t DEF Typed, LinesTyped, Lines, Line, NoLine, Pages, PTEs,
                            PTEBits, PPN0, PPN1, Sides
  <2>3. WalkTyped' BY PageFacts DEF Fault, Ends, Cleared, WalkTyped, PTEs
  <2> QED BY <1>t, <1>1, <2>1, <2>2, <2>3 DEF Typed
<1>4. Due \subseteq Due' BY <1>2 DEF Fault, Due
<1>5. RootsKnown' /\ LinesAgree' BY <1>t, <1>4, TablesStay
<1>6. Emptied' BY <1>2 DEF Emptied
<1>7. WalkReads' BY <1>t, IdleReads
<1>8. Apart' BY DEF Fault, Arrive
<1> QED BY <1>3, <1>5, <1>6, <1>7, <1>8 DEF MmuInv, Consistent

LEMMA StutterInv == ASSUME MmuInv, UNCHANGED vars PROVE MmuInv'
<1>t. /\ Typed /\ Consistent /\ Apart /\ UNCHANGED <<pt, requests, tlb>>
      /\ UNCHANGED <<RUBits, walker, DTLBWalk, PTE, PageType, HPTWWriteAdr>>
      /\ UNCHANGED <<unfenced, ADUE, mode, data, fetch>>
  BY DEF MmuInv, vars, requests, walk
<1>1. Consistent' /\ Apart' BY <1>t, RequestsStay
<1>2. Typed'
  <2>1. UsesTyped' BY <1>t DEF Typed, UsesTyped, Lines, Sides
  <2>2. LinesTyped' BY <1>t DEF Typed, LinesTyped, Lines, Line, NoLine, Pages, PTEs,
                            PTEBits, PPN0, PPN1, Sides
  <2>3. RequestTyped' BY <1>t DEF Typed, RequestTyped, Datas, Requests, Pages, Page1
  <2>4. WalkTyped' BY <1>t DEF Typed, WalkTyped
  <2> QED BY <1>t, <2>1, <2>2, <2>3, <2>4 DEF Typed
<1>3. WalkReads'
  <2>1. \A q : Leaf(q)' = Leaf(q) BY <1>t, SameLeaf
  <2>2. Walked' = Walked BY <1>t DEF Walked, Request
  <2>3. NewPTE' = NewPTE BY <1>t, <2>1, <2>2 DEF NewPTE, Dirties
  <2>4. AtLeaf' <=> AtLeaf
    BY <1>t, <2>1, <2>2 DEF AtLeaf, DAUFaultM, ValidNonLeafPTE, LeafPTE, Adr1
  <2>5. OtherPageFault' <=> OtherPageFault
    BY <1>t DEF OtherPageFault, InvalidOp, Permission
  <2>6. WalkReads BY DEF MmuInv
  <2>7. Started' BY <1>t, <2>6 DEF WalkReads, Started, Translate
  <2>8. AtRoot' /\ AtSecond'
    BY <1>t, <2>2, <2>6
    DEF WalkReads, AtRoot, AtSecond, DAUFaultM, ValidNonLeafPTE, LeafPTE, Adr1, Adr0, PPN
  <2>9. Ended' BY <1>t, <2>1, <2>2, <2>4, <2>6 DEF WalkReads, Ended
  <2>10. Earned'
    BY <1>t, <2>1, <2>2, <2>3, <2>4, <2>5, <2>6 DEF WalkReads, Earned, ValidPTE, LeafPTE
  <2> QED BY <2>7, <2>8, <2>9, <2>10 DEF WalkReads
<1> QED BY <1>1, <1>2, <1>3 DEF MmuInv

LEMMA NextInv == MmuInv /\ [Next]_vars => MmuInv'
<1> SUFFICES ASSUME MmuInv, [Next]_vars PROVE MmuInv'
  OBVIOUS
<1>1. CASE Walk
  BY <1>1, StartWalkInv, Address1Inv, Read1Inv, Address0Inv, Read0Inv, DeniedInv, UpdatePTEInv,
     WritePTEInv, TLBWriteInv, FaultInv DEF Walk
<1>2. CASE Software BY <1>2, EditInv DEF Software
<1> QED BY <1>1, <1>2, ServeInv, StallInv, InterruptInv, StutterInv DEF Next

LEMMA InvHolds == Spec => []MmuInv
BY InitInv, NextInv, PTL DEF Spec

\* Every register keeps its type, whatever the tables hold and whatever interrupts a
\* request: the walker reads and writes at addresses of the tables only.
THEOREM MmuTypeCorrect == Spec => []TypeOK
<1>1. MmuInv => TypeOK BY TypedIsTyped DEF MmuInv
<1> QED BY <1>1, InvHolds, PTL

(***************************************************************************)
(* What a buffer answers.                                                  *)
(***************************************************************************)
LEMMA LinesAnswer ==
  ASSUME MmuInv, NEW s \in Sides, TLBHit(s), Request(s).page \notin Due
  PROVE  Agrees([type |-> HitPageType(s), pte |-> ReadPTE(s)], Request(s).page)
<1> DEFINE p == Request(s).page
<1>1. p \in Pages BY RequestFacts DEF MmuInv, Typed
<1>2. \A i \in Matching(s) : Agrees(tlb[s][i], p)
  BY <1>1 DEF Matching, Matches, MmuInv, Consistent, LinesAgree
<1>3. PICK k \in Matching(s) : TRUE BY DEF TLBHit
<1>4. HitPageType(s) = Leaf(p).type
  <2>1. \A i \in Matching(s) : tlb[s][i].type = Leaf(p).type BY <1>2 DEF Agrees
  <2>2. Leaf(p).type \in {"kilo", "mega"}
    BY <1>1, LeafType DEF MmuInv, Typed, Consistent
  <2> HIDE DEF p
  <2> QED BY <1>3, <2>1, <2>2 DEF HitPageType
<1>5. ReadPTE(s) \subseteq Leaf(p).pte
  BY <1>2 DEF ReadPTE, Agrees
<1>6. tlb[s][k].pte \subseteq ReadPTE(s) BY <1>3 DEF ReadPTE
<1>7. Agrees(tlb[s][k], p) BY <1>2, <1>3
<1> HIDE DEF p
<1>8. ReadPTE(s) \ {"A", "D"} = Leaf(p).pte \ {"A", "D"}
  BY <1>5, <1>6, <1>7 DEF Agrees
<1>9. ~ADUE => ReadPTE(s) = Leaf(p).pte BY <1>5, <1>6, <1>7 DEF Agrees
<1>10. Agrees([type |-> HitPageType(s), pte |-> ReadPTE(s)], p)
  BY <1>4, <1>5, <1>7, <1>8, <1>9 DEF Agrees
<1> QED BY <1>10 DEF p

LEMMA AnswersAreRight ==
  ASSUME MmuInv, NEW s \in Sides, Translate, TLBHit(s), Request(s).page \notin unfenced
  PROVE  LET r == Request(s)  leaf == Leaf(r.page) IN
         /\ TLBPageFault(s) <=> ~Permitted(r.page, r.op)
         /\ ~TLBPageFault(s) /\ ~UpdateDA(s) =>
              /\ ReadPTE(s) \ {"A", "D"} = leaf.pte \ {"A", "D"}
              /\ HitPageType(s) = leaf.type
              /\ ~PreUpdateDA(leaf.pte, r.op)
<1> DEFINE r == Request(s)
           leaf == Leaf(r.page)
           e == ReadPTE(s)
           perm == Permission[r.op]
<1>1. Agrees([type |-> HitPageType(s), pte |-> ReadPTE(s)], r.page)
  BY LinesAnswer DEF Due
<1>2. /\ HitPageType(s) = leaf.type /\ e \subseteq leaf.pte
      /\ e \ {"A", "D"} = leaf.pte \ {"A", "D"}
      /\ ~DAUFaultM(pt[Adr1(r.page)])
  BY <1>1 DEF Agrees
<1>e. ~ADUE => e = leaf.pte BY <1>1 DEF Agrees
<1>3. perm \in {"R", "W", "X"} BY OperationFacts DEF TLBHit, TLBAccess
<1>4. mode \in {"S", "U"} BY DEF Translate, MmuInv, Typed, RequestTyped
<1>5. TLBPageFault(s) <=> ~Permitted(r.page, r.op)
  <2>1. TLBPageFault(s) <=> PageFault(s) BY DEF TLBPageFault
  <2>2. PageFault(s) <=>
          \/ perm \notin e \/ ("W" \in e /\ "R" \notin e) \/ "V" \notin e
          \/ (mode = "U" /\ "U" \notin e) \/ (mode = "S" /\ "U" \in e)
          \/ HitPageType(s) = "mega" /\ e \cap PPN0 # {}
          \/ PreUpdateDA(e, r.op) /\ ~ADUE
    BY DEF PageFault, InvalidAccess
  <2>3. Permitted(r.page, r.op) <=>
          /\ ~DAUFaultM(pt[Adr1(r.page)])
          /\ ValidPTE(leaf.pte) /\ perm \in leaf.pte
          /\ "U" \in leaf.pte <=> mode = "U"
          /\ leaf.type = "mega" => leaf.pte \cap PPN0 = {}
          /\ ADUE \/ ("A" \in leaf.pte /\ (Dirties(r.op) => "D" \in leaf.pte))
    BY DEF Permitted
  <2> HIDE DEF r, leaf, e, perm
  <2>4. /\ perm \in e <=> perm \in leaf.pte
        /\ "W" \in e <=> "W" \in leaf.pte
        /\ "R" \in e <=> "R" \in leaf.pte
        /\ "V" \in e <=> "V" \in leaf.pte
        /\ "U" \in e <=> "U" \in leaf.pte
        /\ e \cap PPN0 = {} <=> leaf.pte \cap PPN0 = {}
    BY <1>2, <1>3 DEF PPN0
  <2>5. PreUpdateDA(e, r.op) /\ ~ADUE <=>
          ~(ADUE \/ ("A" \in leaf.pte /\ (Dirties(r.op) => "D" \in leaf.pte)))
    BY <1>e DEF PreUpdateDA
  <2> QED BY <1>2, <1>4, <2>1, <2>2, <2>3, <2>4, <2>5 DEF ValidPTE
<1>6. ASSUME ~TLBPageFault(s), ~UpdateDA(s) PROVE ~PreUpdateDA(leaf.pte, r.op)
  <2>1. ~PreUpdateDA(e, r.op) BY <1>6 DEF TLBPageFault, PageFault, UpdateDA
  <2> HIDE DEF r, leaf, e
  <2> QED BY <1>2, <2>1 DEF PreUpdateDA
<1> QED BY <1>2, <1>5, <1>6

\* A translation that a buffer supplies is the one in the tables, for buffers and
\* tables of every size, with the bits set by hardware or by traps, with lines read
\* together and ORed, across every fence, walk and interrupt.
THEOREM TranslatesAsTablesSay == Spec => []AsTablesSay
<1>1. MmuInv => AsTablesSay BY AnswersAreRight DEF AsTablesSay
<1> QED BY <1>1, InvHolds, PTL

(***************************************************************************)
(* What the walker writes.                                                 *)
(***************************************************************************)
LEMMA WriteIsEarned ==
  ASSUME {"Misaligned", "CMO", "UserFetch"} \cap Coincidences = {}, MmuInv, WritePTE,
         NEW a \in Addresses, pt'[a] # pt[a]
  PROVE  /\ a = Leaf(Walked.page).adr /\ Permitted(Walked.page, Walked.op)
         /\ pt'[a] = pt[a] \cup {"A"} \cup (IF DTLBWalk /\ Dirties(data.op) THEN {"D"} ELSE {})
<1> DEFINE p == Walked.page
           op == Walked.op
           leaf == Leaf(p)
<1>t. /\ Typed /\ Consistent /\ Apart /\ WalkReads /\ p \in Pages /\ walker = "UPDATE_PTE"
      /\ data.op \in Ops \cup {"none", "sfence", "stalled"} /\ TLBAccess("I")
      /\ TLBAccess("D") <=> data.op \in Ops
  BY RequestFacts DEF MmuInv, WritePTE, Typed, Walked, Sides
<1>1. /\ AtLeaf /\ ADUE /\ ValidPTE(PTE) /\ LeafPTE(PTE) /\ ~OtherPageFault
      /\ ~({"A", "D"} \subseteq leaf.pte) /\ PTE = NewPTE /\ mode \in {"S", "U"}
      /\ DTLBWalk => data.op \in Ops
  BY <1>t DEF WalkReads, Earned, Started, Translate, Typed, RequestTyped
<1>2. a = HPTWWriteAdr /\ pt'[a] = PTE BY <1>t DEF WritePTE, Typed
<1>3. a = leaf.adr /\ leaf.pte = pt[a]
  BY <1>1, <1>2, <1>t, LeafType DEF AtLeaf, Typed, Consistent
<1>w. /\ Walked = IF DTLBWalk THEN data ELSE [op |-> "fetch", page |-> fetch]
  BY DEF Walked, Request
<1>4. Permission[op] \in leaf.pte
  <2>1. CASE ~DTLBWalk
    <3>1. op = "fetch" BY <2>1, <1>w
    <3>2. "X" \in PTE BY <1>1, <2>1 DEF OtherPageFault, InvalidOp
    <3> QED BY <1>1, <3>1, <3>2, OperationFacts DEF NewPTE
  <2>2. CASE DTLBWalk /\ data.op \in {"read", "write"}
    <3>1. Permission[data.op] \in PTE BY <1>1, <2>2 DEF OtherPageFault, InvalidOp
    <3>2. Permission[data.op] \in {"R", "W"} BY <2>2, OperationFacts
    <3> QED BY <1>1, <1>w, <2>2, <3>1, <3>2 DEF NewPTE
  <2>3. CASE DTLBWalk /\ data.op \in {"zero", "clean"}
    BY <1>t, <1>1, <1>w, <2>3 DEF Apart, ForbiddenCMO, Translate
  <2> QED BY <1>1, <2>1, <2>2, <2>3, OperationFacts
<1>5. "U" \in leaf.pte <=> mode = "U"
  <2>1. "U" \in PTE <=> "U" \in leaf.pte BY <1>1 DEF NewPTE
  <2>2. mode = "U" => "U" \in PTE BY <1>1 DEF OtherPageFault
  <2>3. mode = "S" /\ DTLBWalk => "U" \notin PTE BY <1>1 DEF OtherPageFault
  <2>4. mode = "S" /\ ~DTLBWalk => "U" \notin leaf.pte
    BY <1>t, <1>w DEF Apart, UserFetch, Translate
  <2> QED BY <1>1, <2>1, <2>2, <2>3, <2>4
<1>6. leaf.type = "mega" => leaf.pte \cap PPN0 = {}
  <2>1. ~MisalignedSuper(p)
    BY <1>t, <1>1, <1>w DEF Apart, Translate, Walked, Sides
  <2> QED BY <1>1, <2>1 DEF MisalignedSuper
<1>7. ValidPTE(leaf.pte) BY <1>1 DEF ValidPTE, NewPTE
<1>8. Permitted(p, op)
  BY <1>1, <1>4, <1>5, <1>6, <1>7 DEF Permitted, AtLeaf
<1> QED BY <1>1, <1>2, <1>3, <1>8 DEF NewPTE

\* The walker sets accessed and dirty in the entry its walk ended at and in no other,
\* and for a permitted access only, whatever software does to the tables before it
\* fences them; where the checks it leaves out cannot matter.
THEOREM UpdatesAreEarned ==
  ASSUME {"Misaligned", "CMO", "UserFetch"} \cap Coincidences = {}
  PROVE  Spec => EarnedUpdate
<1> DEFINE Step ==
      walker = "UPDATE_PTE" =>
        \A a \in Addresses : pt'[a] # pt[a] =>
          /\ a = Leaf(Walked.page).adr /\ Permitted(Walked.page, Walked.op)
          /\ pt'[a] = pt[a] \cup {"A"} \cup (IF DTLBWalk /\ Dirties(data.op) THEN {"D"} ELSE {})
<1>1. MmuInv /\ [Next]_vars => [Step]_vars
  <2> SUFFICES ASSUME MmuInv, Next, walker = "UPDATE_PTE", NEW a \in Addresses, pt'[a] # pt[a]
               PROVE  /\ a = Leaf(Walked.page).adr /\ Permitted(Walked.page, Walked.op)
                      /\ pt'[a] = pt[a] \cup {"A"}
                                    \cup (IF DTLBWalk /\ Dirties(data.op) THEN {"D"} ELSE {})
    OBVIOUS
  <2>1. WritePTE
    BY DEF Next, Serve, Stall, Interrupt, Software, Edit, Walk, StartWalk, Address1, Read,
           Address0, Denied, UpdatePTE, TLBWrite, Fault, Goes
  <2> QED BY <2>1, WriteIsEarned
<1> QED BY <1>1, InvHolds, PTL DEF Spec, EarnedUpdate
=============================================================================
