-------------------------------- MODULE Mmu --------------------------------
(***************************************************************************)
(* Address translation: the translation buffers of both sides (mmu/tlb),   *)
(* the page-table walker that fills them and sets accessed and dirty bits  *)
(* (mmu/hptw.sv), and the software that changes the tables and fences them.*)
(* The tables are those of Sv32: two levels.                               *)
(*                                                                         *)
(* A step is a clock cycle; a cycle in which the walker waits for the cache*)
(* is a stuttering step.  An entry is the set of its bits that are 1, so   *)
(* that the union of entries is their OR.                                  *)
(***************************************************************************)
EXTENDS Integers

CONSTANTS VPN1, VPN0,     \* page numbers, in two segments
          RootValues,     \* entries software writes into the root table
          NextValues,     \* and into the tables of the second level
          Ops,            \* what the memory stage does with an address
          DTLBLines, ITLBLines,
          Updating,       \* values of menvcfg.ADUE: do bits get set by hardware
          Coincidences    \* rare combinations that are not kept apart

PPN0 == {"ppn0"}          \* low bits of the page number of a frame
PPN1 == {"ppn1"}
PTEBits == {"V", "R", "W", "X", "U", "A", "D"} \cup PPN0 \cup PPN1

ASSUME MmuAssumption ==
  /\ VPN1 \subseteq Nat /\ VPN0 \subseteq Nat /\ VPN1 # {} /\ VPN0 # {}
  /\ RootValues \subseteq SUBSET PTEBits /\ NextValues \subseteq SUBSET PTEBits
  /\ Ops \subseteq {"read", "write", "zero", "clean"}
  /\ DTLBLines \in Nat \ {0} /\ ITLBLines \in Nat \ {0}
  /\ Updating \subseteq BOOLEAN /\ Updating # {}
  /\ Coincidences \subseteq {"Misaligned", "CMO", "UserFetch", "Lag"}

VARIABLES
  pt,          \* the page tables in memory
  unfenced,    \* pages whose entries changed since the last fence
  ADUE, mode,
  data, fetch, \* the request in the memory stage, the page of the fetch
  tlb, RUBits,
  walker, DTLBWalk, PTE, PageType, HPTWWriteAdr

requests == <<unfenced, ADUE, mode, data, fetch>>
walk     == <<walker, DTLBWalk, PTE, PageType, HPTWWriteAdr>>
vars     == <<pt, requests, tlb, RUBits, walk>>

Pages == VPN1 \X VPN0
Page1 == CHOOSE p \in Pages : TRUE
Sides == {"D", "I"}
Lines(s) == IF s = "D" THEN 1 .. DTLBLines ELSE 1 .. ITLBLines

LeafPTE(e)         == e \cap {"R", "W", "X"} # {}
ValidPTE(e)        == "V" \in e /\ ("W" \in e => "R" \in e)
ValidNonLeafPTE(e) == "V" \in e /\ ~LeafPTE(e)
DAUFaultM(e)       == ValidNonLeafPTE(e) /\ e \cap {"D", "A", "U"} # {}

\* A table is the number of its frame.
RootTable == {"root"}
PPN(e)  == e \cap (PPN0 \cup PPN1)
Adr1(p) == <<RootTable, p[1]>>
Adr0(e, p) == <<PPN(e), p[2]>>
Addresses == {Adr1(p) : p \in Pages} \cup
             {Adr0(e, p) : e \in {v \in RootValues : ValidNonLeafPTE(v)}, p \in Pages}
-----------------------------------------------------------------------------
(***************************************************************************)
(* What the tables say of a page: its last entry, and whether that permits *)
(* an operation.                                                           *)
(***************************************************************************)
Permission == [read |-> "R", write |-> "W", zero |-> "W", clean |-> "R", fetch |-> "X"]
Dirties(op) == op \in {"write", "zero"}

Leaf(p) ==
  LET root == pt[Adr1(p)]
  IN  IF ValidNonLeafPTE(root)
        THEN [adr |-> Adr0(root, p), pte |-> pt[Adr0(root, p)], type |-> "kilo"]
        ELSE [adr |-> Adr1(p), pte |-> root, type |-> "mega"]

Permitted(p, op) ==
  LET leaf == Leaf(p)
  IN  /\ ~DAUFaultM(pt[Adr1(p)])
      /\ ValidPTE(leaf.pte) /\ Permission[op] \in leaf.pte
      /\ "U" \in leaf.pte <=> mode = "U"
      /\ leaf.type = "mega" => leaf.pte \cap PPN0 = {}
      /\ ADUE \/ ("A" \in leaf.pte /\ (Dirties(op) => "D" \in leaf.pte))
-----------------------------------------------------------------------------
(***************************************************************************)
(* A translation buffer.  Lines that match are read together and ORed.     *)
(***************************************************************************)
NoLine == [valid |-> FALSE]
Request(s) == IF s = "D" THEN data ELSE [op |-> "fetch", page |-> fetch]
TLBAccess(s) == Request(s).op \in DOMAIN Permission
Translate == mode # "M"

\* The instruction side is flushed in the first cycle of a fence only, so that
\* it can be filled again while the fence waits.
FlushesAlways(s) == data.op \in {"sfence", "stalled"}                 \* mutant of TLBFlush
FlushesData(s) == s = "D" /\ data.op \in {"sfence", "stalled"}         \* mutant of TLBFlush
TLBFlush(s) == data.op = "sfence" \/ (s = "D" /\ data.op = "stalled")

Match(l, p) == l.valid /\ l.page[1] = p[1] /\ (l.page[2] = p[2] \/ l.type = "mega")
Matches(s, p) == {i \in Lines(s) : Match(tlb[s][i], p)}
Matching(s)   == Matches(s, Request(s).page)
TLBHit(s) == TLBAccess(s) /\ Matching(s) # {} /\ ~TLBFlush(s)
ReadPTE(s) == UNION {tlb[s][i].pte : i \in Matching(s)}
HitPageType(s) == IF \E i \in Matching(s) : tlb[s][i].type = "mega" THEN "mega" ELSE "kilo"

PreUpdateDA(e, op) == "A" \notin e \/ (Dirties(op) /\ "D" \notin e)
InvalidAccess(e, op) == Permission[op] \notin e \/ ("W" \in e /\ "R" \notin e)
PageFault(s) ==
  LET e == ReadPTE(s)  op == Request(s).op
  IN  \/ InvalidAccess(e, op) \/ "V" \notin e
      \/ (mode = "U" /\ "U" \notin e) \/ (mode = "S" /\ "U" \in e)
      \/ HitPageType(s) = "mega" /\ e \cap PPN0 # {}
      \/ PreUpdateDA(e, op) /\ ~ADUE
TLBPageFault(s) == Translate /\ TLBHit(s) /\ PageFault(s)

UpdateDA(s) == /\ Translate /\ TLBHit(s) /\ ADUE
               /\ ~PageFault(s) /\ PreUpdateDA(ReadPTE(s), Request(s).op)
TLBMiss(s)  == Translate /\ TLBAccess(s) /\ ~TLBHit(s)
MissOrUpdate(s) == TLBMiss(s) \/ UpdateDA(s)
TLBMissOrUpdateDA == \E s \in Sides : MissOrUpdate(s)
HPTWStall == walker \notin {"IDLE", "FAULT"} \/ (walker = "IDLE" /\ TLBMissOrUpdateDA)

\* The first line not recently used is written.  When all are used, none is.
WriteLines(s) == {i \in Lines(s) \ RUBits[s] : \A j \in Lines(s) \ RUBits[s] : i <= j}
NeverCleared(s, lines) == RUBits[s] \cup lines                        \* mutant of RUBitsNext
RUBitsNext(s, lines) ==
  IF RUBits[s] \cup lines = Lines(s) THEN {} ELSE RUBits[s] \cup lines

\* What each side sees in a cycle: an access of the walker has a physical
\* address, which may look like any page.
Touches(s) ==
  IF s = "D" /\ walker \in {"L1_RD", "L0_RD", "UPDATE_PTE"}
    THEN {Matches(s, p) : p \in Pages} \cup {{}}
  ELSE {IF TLBHit(s) /\ (s = "I" \/ walker = "IDLE") THEN Matching(s) ELSE {}}

Touch ==
  \E d \in Touches("D"), i \in Touches("I") :
    RUBits' = [D |-> IF d = {} THEN RUBits["D"] ELSE RUBitsNext("D", d),
               I |-> IF i = {} THEN RUBits["I"] ELSE RUBitsNext("I", i)]

Flushed == [s \in Sides |-> IF TLBFlush(s) THEN [i \in Lines(s) |-> NoLine] ELSE tlb[s]]
-----------------------------------------------------------------------------
(***************************************************************************)
(* The program.  A request stays until it is served; then the next comes.  *)
(* Software changes a table with a store of its own.                       *)
(***************************************************************************)
Requests == [op : Ops, page : Pages] \cup [op : {"none", "sfence"}, page : {Page1}]

\* Software that has changed an entry fences before the page is used.
Lagging(s) == Request(s).page \in unfenced
\* A superpage that is misaligned, and not yet accessed or written.
MisalignedSuper(p) ==
  Leaf(p).type = "mega" /\ Leaf(p).pte \cap PPN0 # {} /\ ~({"A", "D"} \subseteq Leaf(p).pte)
\* A cache operation on a page it may not touch.
ForbiddenCMO == data.op \in {"zero", "clean"} /\ Permission[data.op] \notin Leaf(data.page).pte
UserFetch == mode = "S" /\ "U" \in Leaf(fetch).pte

Apart ==
  Translate =>
    /\ \A s \in Sides : TLBAccess(s) =>
         /\ Lagging(s) => ~ADUE \/ "Lag" \in Coincidences
         /\ MisalignedSuper(Request(s).page) => "Misaligned" \in Coincidences
    /\ ForbiddenCMO => "CMO" \in Coincidences
    /\ UserFetch    => "UserFetch" \in Coincidences

\* What machine mode accesses is not translated, and one such access is as good
\* as another.
Arrive ==
  /\ data' \in Requests /\ fetch' \in Pages /\ mode' \in {"M", "S", "U"}
  /\ mode' = "U" => data'.op # "sfence"
  /\ mode' = "M" => data'.op \in {"none", "sfence"} /\ fetch' = Page1
  /\ UNCHANGED ADUE
  /\ Apart'

\* The request is served, or ends in a page fault.
Serve ==
  /\ walker = "IDLE" /\ ~TLBMissOrUpdateDA
  /\ Touch /\ tlb' = Flushed
  /\ unfenced' = IF data.op \in {"sfence", "stalled"} THEN {} ELSE unfenced
  /\ UNCHANGED <<pt, walk>>
  /\ Arrive

Stalled == [data EXCEPT !.op = IF @ = "sfence" THEN "stalled" ELSE @]

\* The pipeline stands still for another reason.
Stall ==
  /\ walker = "IDLE" /\ ~TLBMissOrUpdateDA
  /\ Touch /\ tlb' = Flushed
  /\ data' = Stalled
  /\ UNCHANGED <<pt, walk, unfenced, ADUE, mode, fetch>>

\* A trap in the cycle in which a walk would begin: the request is given up.
Interrupt ==
  /\ walker = "IDLE" /\ TLBMissOrUpdateDA
  /\ Touch /\ tlb' = Flushed
  /\ UNCHANGED <<pt, unfenced, walk>>
  /\ Arrive

Edit(a, e) ==
  /\ walker = "IDLE" /\ ~TLBMissOrUpdateDA
  /\ data.op = "none" /\ mode # "U" /\ unfenced = {}
  /\ pt' = [pt EXCEPT ![a] = e]
  /\ unfenced' = unfenced \cup {p \in Pages : a \in {Adr1(p), Leaf(p).adr}}
  /\ Touch
  /\ UNCHANGED <<tlb, walk, data, fetch, mode, ADUE>>
  /\ Apart'
-----------------------------------------------------------------------------
(***************************************************************************)
(* The walker.                                                             *)
(***************************************************************************)
Walked == Request(IF DTLBWalk THEN "D" ELSE "I")

StartWalk ==
  /\ walker = "IDLE" /\ TLBMissOrUpdateDA
  /\ walker' = "L1_ADR"
  /\ DTLBWalk' = MissOrUpdate("D")
  /\ Touch /\ tlb' = Flushed
  /\ data' = Stalled
  /\ UNCHANGED <<pt, unfenced, ADUE, mode, fetch, PTE, PageType, HPTWWriteAdr>>

HPTWReadAdr(state) == IF state = "L1_RD" THEN Adr1(Walked.page) ELSE Adr0(PTE, Walked.page)

SavesFirst(next) ==                                              \* mutant of SaveHPTWAdr
  HPTWWriteAdr' = IF next = "L1_RD" THEN HPTWReadAdr(next) ELSE HPTWWriteAdr
SaveHPTWAdr(next) ==
  HPTWWriteAdr' = IF next \in {"L1_RD", "L0_RD"} THEN HPTWReadAdr(next) ELSE HPTWWriteAdr

Goes(from, next) ==
  /\ walker = from /\ walker' = next
  /\ SaveHPTWAdr(next)
  /\ Touch
  /\ UNCHANGED <<pt, requests, tlb, DTLBWalk>>

Address1 == Goes("L1_ADR", "L1_RD") /\ UNCHANGED <<PTE, PageType>>

\* An entry is read, once protection has let the read through.
Read(from, next, type) ==
  /\ Goes(from, next)
  /\ PTE' = pt[HPTWReadAdr(from)] /\ PageType' = type

Address0 ==
  /\ Goes("L0_ADR", IF DAUFaultM(PTE) THEN "FAULT"
                    ELSE IF ValidNonLeafPTE(PTE) THEN "L0_RD" ELSE "LEAF")
  /\ UNCHANGED <<PTE, PageType>>

Denied ==
  /\ \E from \in {"L1_RD", "L0_RD", "UPDATE_PTE"} : Goes(from, "FAULT")
  /\ UNCHANGED <<PTE, PageType>>

\* OtherPageFault as it is in LEAF, where an address state's check for a
\* misaligned superpage is no longer made.
InvalidOp ==
  IF DTLBWalk THEN data.op \in {"read", "write"} /\ Permission[data.op] \notin PTE
  ELSE "X" \notin PTE
OtherPageFault ==
  \/ (mode = "U" /\ "U" \notin PTE) \/ (mode = "S" /\ "U" \in PTE /\ DTLBWalk)
  \/ InvalidOp \/ "V" \notin PTE
SetDirty == "D" \notin PTE /\ DTLBWalk /\ Dirties(data.op)
Unchecked ==                                                 \* mutant of HPTWUpdateDA
  ValidPTE(PTE) /\ LeafPTE(PTE) /\ ("A" \notin PTE \/ SetDirty) /\ ADUE
HPTWUpdateDA ==
  /\ ValidPTE(PTE) /\ LeafPTE(PTE) /\ ("A" \notin PTE \/ SetDirty) /\ ADUE
  /\ ~OtherPageFault

UpdatePTE ==
  /\ HPTWUpdateDA /\ Goes("LEAF", "UPDATE_PTE")
  /\ PTE' = PTE \cup {"A"} \cup (IF SetDirty THEN {"D"} ELSE {})
  /\ UNCHANGED PageType

WritePTE ==
  /\ walker = "UPDATE_PTE" /\ walker' = "LEAF"
  /\ pt' = [pt EXCEPT ![HPTWWriteAdr] = PTE]
  /\ Touch
  /\ UNCHANGED <<requests, tlb, DTLBWalk, PTE, PageType, HPTWWriteAdr>>

KeepsPTE == PTE                                                  \* mutant of Cleared
Cleared == {}

\* What the other registers hold between walks is not read.
Ends ==
  /\ walker' = "IDLE" /\ PTE' = Cleared
  /\ DTLBWalk' = FALSE /\ PageType' = "kilo" /\ HPTWWriteAdr' = Adr1(Page1)

TLBWrite ==
  LET s == IF DTLBWalk THEN "D" ELSE "I"
      line == [valid |-> TRUE, page |-> Walked.page, type |-> PageType, pte |-> PTE]
      other == IF s = "D" THEN "I" ELSE "D"
  IN
  /\ walker = "LEAF" /\ ~HPTWUpdateDA
  /\ Ends
  /\ tlb' = [tlb EXCEPT ![s] = [i \in Lines(s) |-> IF i \in WriteLines(s) THEN line ELSE @[i]]]
  /\ \E t \in Touches(other) :
       RUBits' = [RUBits EXCEPT ![s] = RUBitsNext(s, WriteLines(s)),
                                ![other] = IF t = {} THEN @ ELSE RUBitsNext(other, t)]
  /\ UNCHANGED <<pt, requests>>

\* The fault is taken, or goes with the instruction that was fetched.
Fault ==
  /\ walker = "FAULT" /\ Ends
  /\ Touch
  /\ unfenced' = IF data.op = "stalled" THEN {} ELSE unfenced
  /\ UNCHANGED <<pt, tlb>>
  /\ Arrive

Walk ==
  \/ StartWalk \/ Address1 \/ Read("L1_RD", "L0_ADR", "mega")
  \/ Address0 \/ Read("L0_RD", "LEAF", "kilo") \/ Denied
  \/ UpdatePTE \/ WritePTE \/ TLBWrite \/ Fault
-----------------------------------------------------------------------------
Init ==
  /\ pt \in [Addresses -> RootValues \cup NextValues]
  /\ \A a \in Addresses : pt[a] \in IF a[1] = RootTable THEN RootValues ELSE NextValues
  /\ unfenced = {} /\ ADUE \in Updating
  /\ mode = "M" /\ data = [op |-> "none", page |-> Page1] /\ fetch \in Pages
  /\ tlb = [s \in Sides |-> [i \in Lines(s) |-> NoLine]]
  /\ RUBits = [s \in Sides |-> {}]
  /\ walker = "IDLE" /\ DTLBWalk = FALSE /\ PTE = {} /\ PageType = "kilo"
  /\ HPTWWriteAdr = Adr1(Page1)

Software == \E a \in Addresses : \E e \in IF a[1] = RootTable THEN RootValues ELSE NextValues : Edit(a, e)

Next == Serve \/ Stall \/ Interrupt \/ Software \/ Walk

Spec == Init /\ [][Next]_vars

\* The clock runs, and the cache answers the walker.
FairSpec == Spec /\ WF_vars(Walk)
-----------------------------------------------------------------------------
(***************************************************************************)
(* Properties.                                                             *)
(***************************************************************************)
PTEs == SUBSET PTEBits

\* Every register has a value of its type, and an idle walker an empty entry.
TypeOK ==
  /\ pt \in [Addresses -> PTEs] /\ unfenced \subseteq Pages
  /\ mode \in {"M", "S", "U"} /\ fetch \in Pages
  /\ data \in Requests \cup [op : {"stalled"}, page : {Page1}]
  /\ \A s \in Sides :
       /\ RUBits[s] \subseteq Lines(s) /\ RUBits[s] # Lines(s)
       /\ tlb[s] \in [Lines(s) -> [valid : {TRUE}, page : Pages, type : {"kilo", "mega"}, pte : PTEs]
                                  \cup {NoLine}]
  /\ walker \in {"IDLE", "L1_ADR", "L1_RD", "L0_ADR", "L0_RD", "LEAF", "UPDATE_PTE", "FAULT"}
  /\ PTE \in PTEs /\ PageType \in {"kilo", "mega"} /\ HPTWWriteAdr \in Addresses
  /\ walker = "IDLE" => PTE = {}

\* An access that finds its page in the buffer gets what the tables say: it
\* faults if and only if they do not permit it, and otherwise goes to the frame
\* they name, its accessed and dirty bits in memory (tlbcontrol.sv:92-126).
AsTablesSay ==
  \A s \in Sides :
    LET r == Request(s)  leaf == Leaf(r.page)
    IN  walker = "IDLE" /\ Translate /\ TLBHit(s) /\ r.page \notin unfenced =>
          /\ TLBPageFault(s) <=> ~Permitted(r.page, r.op)
          /\ ~TLBPageFault(s) /\ ~UpdateDA(s) =>
               /\ ReadPTE(s) \ {"A", "D"} = leaf.pte \ {"A", "D"}
               /\ HitPageType(s) = leaf.type
               /\ ~PreUpdateDA(leaf.pte, r.op)

\* The walker writes the entry its walk ended at and no other, sets accessed and,
\* for a store, dirty, and does so only for an access that is permitted
\* (hptw.sv:205-209).
EarnedUpdate ==
  [][walker = "UPDATE_PTE" =>
       \A a \in Addresses : pt'[a] # pt[a] =>
         /\ a = Leaf(Walked.page).adr /\ Permitted(Walked.page, Walked.op)
         /\ pt'[a] = pt[a] \cup {"A"} \cup (IF DTLBWalk /\ Dirties(data.op) THEN {"D"} ELSE {})]_vars

\* The pipeline does not wait for translation for ever, unless it is interrupted
\* for ever: every walk ends, and what it leaves behind serves the request
\* (hptw.sv:281, 317).
Served == []<>~HPTWStall \/ []<><<Interrupt>>_vars
=============================================================================
