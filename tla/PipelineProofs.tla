--------------------------- MODULE PipelineProofs ---------------------------
(***************************************************************************)
(* Theorems about the pipeline, whatever kinds of instructions a program   *)
(* has and, where no condition is stated, whatever coincides.              *)
(***************************************************************************)
EXTENDS Pipeline, TLAPS

(***************************************************************************)
(* The stall and flush network.                                            *)
(***************************************************************************)
LEMMA HazardFacts ==
  ASSUME NEW c, NEW h, h = Hazard(c)
  PROVE  /\ h.StallD <=> StallE \/ (c /\ ~FlushDCause)
         /\ h.StallE <=> StallE
         /\ h.StallM <=> StallM
         /\ h.StallW <=> StallW
         /\ h.FlushD <=> FlushDCause
         /\ h.FlushE <=> FlushECause \/ (h.StallD /\ ~StallE)
         /\ h.FlushM <=> FlushMCause \/ (StallE /\ ~StallM)
         /\ h.FlushW <=> FlushW
<1> DEFINE stallD == StallE \/ (c /\ ~FlushDCause)
           flushE == FlushECause \/ (stallD /\ ~StallE)
           flushM == FlushMCause \/ (StallE /\ ~StallM)
           sE == StallE  sM == StallM  sW == StallW  fD == FlushDCause  fW == FlushW
<1>1. h = [StallD |-> stallD, StallE |-> sE, StallM |-> sM, StallW |-> sW,
           FlushD |-> fD, FlushE |-> flushE, FlushM |-> flushM, FlushW |-> fW]
  BY DEF Hazard
<1>2. /\ h.StallD = stallD /\ h.StallE = sE /\ h.StallM = sM /\ h.StallW = sW
      /\ h.FlushD = fD /\ h.FlushE = flushE /\ h.FlushM = flushM /\ h.FlushW = fW
  <2> HIDE DEF stallD, flushE, flushM, sE, sM, sW, fD, fW
  <2> QED BY <1>1
<1> QED BY <1>2, Zenon

\* A stall holds every stage before it; what flushes a stage that is not held
\* flushes those before it too.
LEMMA NetworkFacts ==
  /\ StallW => StallM
  /\ StallM => StallE
  /\ FlushMCause => FlushECause /\ FlushDCause
  /\ FlushECause => FlushDCause
  /\ StallE /\ ~StallM => DivBusyE /\ ~FlushECause /\ ~FlushMCause
  /\ BPWrongE /\ ~FlushECause => StallE
  /\ TrapM => FlushMCause
  /\ TrapM /\ StallM => StallW
  /\ IFUStallF /\ ~FlushDCause => StallW
  /\ LSUStallM /\ ~FlushWCause => StallW
  /\ FlushWCause => TrapM /\ ~StallW /\ ~StallM /\ FlushW
  /\ TrapM /\ ~wfiM => FlushWCause
BY DEF StallM, StallE, FlushMCause, FlushDCause, FlushECause, StallW, WFIStallM, FlushWCause,
       FlushW, WFIInterruptedM

\* What the program moves on by is what the memory stage holds.
Expect == IF M.kind # "nop" THEN Length(M) ELSE 0

LEMMA MovedFacts ==
  /\ Moved \in 0 .. 2 /\ Expect \in 0 .. 2
  /\ StallM => Moved = 0
  /\ ~StallM /\ ~TrapM => Moved = Expect
<1>1. Expect \in 0 .. 2 BY DEF Expect, Length
<1>2. Moved \in 0 .. 2 BY DEF Moved, Length
<1>3. StallM => ~Retires BY DEF Retires, FlushW
<1>4. ~StallM /\ ~TrapM => ~StallW /\ ~FlushW
  BY NetworkFacts DEF FlushW, FlushWCause
<1> QED BY <1>1, <1>2, <1>3, <1>4 DEF Moved, Expect, Retires

LEMMA AfterFacts ==
  /\ After(Nowhere) = Nowhere
  /\ \A at \in Position : After(at) \in Position
  /\ StallM => \A at \in Position : After(at) = at
  /\ ~TrapM => \A at \in Position : at # Nowhere /\ at >= Moved => After(at) = at - Moved
  /\ \A at \in Position : After(at) # Nowhere => After(at) = at - Moved /\ at # Nowhere
<1>1. TrapM /\ StallM => StallW BY NetworkFacts
<1> QED BY <1>1, MovedFacts DEF After, Position, Nowhere

(***************************************************************************)
(* What a cycle does to the stages, in its five forms.                     *)
(***************************************************************************)
DKinds == {"nop", "good", "bad", "void"}
EKinds == {"nop", "bad", "void"} \cup Classes
MKinds == {"nop", "alu", "jump", "bad", "void"} \cup Kinds
StagesTyped == /\ D \in [at : Position, kind : DKinds]
               /\ E \in [at : Position, kind : EKinds]
               /\ M \in [at : Position, kind : MKinds]

\* An instruction keeps what it is.
Same(i, j) == j.at = After(i.at) /\ j.kind = i.kind
Held(i, j) == j.at = After(i.at) /\ (i.kind = "nop" <=> j.kind = "nop")
Advances(i, j) == IF i.kind = "nop" THEN j.kind = "nop"
                  ELSE /\ j.at = After(i.at) /\ j.kind # "nop" /\ Length(j) = Length(i)
                       /\ j.kind = "void" <=> i.kind = "void"

LEMMA MoveFacts ==
  ASSUME NEW K, NEW i \in [at : Position, kind : K]
  PROVE  Move(i) \in [at : Position, kind : K] /\ Same(i, Move(i))
BY AfterFacts DEF Move, Same

LEMMA BubbleFacts == Move(Bubble) = Bubble /\ Bubble.kind = "nop" /\ Bubble.at = Nowhere
                     /\ Nowhere \in Position
BY AfterFacts DEF Move, Bubble, Nowhere, Position

LEMMA DStep ==
  ASSUME StagesTyped, F.at \in Position, NEW c, NEW h, h = Hazard(c), D' = Move(NextD(h))
  PROVE  /\ D' \in [at : Position, kind : DKinds]
         /\ h.StallD => Held(D, D')
         /\ h.StallD /\ ~FlushDCause => D'.kind = D.kind
         /\ ~h.StallD /\ FlushDCause => D'.kind = "nop" /\ D'.at = Nowhere
         /\ ~h.StallD /\ ~FlushDCause => /\ D'.at = After(F.at)
                                         /\ D'.kind \in {"good", "bad"}
<1>1. h.FlushD <=> FlushDCause BY HazardFacts
<1>2. NextD(h) \in [at : Position, kind : DKinds]
  <2>1. Bubble \in [at : Position, kind : DKinds] BY BubbleFacts DEF Bubble, DKinds
  <2>2. Fetched \in [at : Position, kind : DKinds] BY DEF Fetched, DKinds
  <2>3. D \in [at : Position, kind : DKinds] BY DEF StagesTyped
  <2>4. [D EXCEPT !.kind = "void"] \in [at : Position, kind : DKinds] BY <2>3 DEF DKinds
  <2> HIDE DEF Bubble, Fetched
  <2> QED BY <2>1, <2>2, <2>3, <2>4 DEF NextD
<1>3. D' \in [at : Position, kind : DKinds] /\ Same(NextD(h), D') BY <1>2, MoveFacts
<1>4. CASE h.StallD /\ FlushDCause
  <2>1. NextD(h) = IF D.kind = "nop" THEN D ELSE [D EXCEPT !.kind = "void"]
    BY <1>1, <1>4 DEF NextD
  <2>2. NextD(h).at = D.at /\ (NextD(h).kind = "nop" <=> D.kind = "nop")
    BY <2>1 DEF StagesTyped
  <2> QED BY <1>3, <1>4, <2>2 DEF Same, Held
<1>5. CASE h.StallD /\ ~FlushDCause
  <2>1. NextD(h) = D BY <1>1, <1>5 DEF NextD
  <2> QED BY <1>3, <1>5, <2>1 DEF Same, Held
<1>6. CASE ~h.StallD /\ FlushDCause
  <2>1. NextD(h) = Bubble BY <1>1, <1>6 DEF NextD
  <2> QED BY <1>3, <1>6, <2>1, BubbleFacts DEF Same
<1>7. CASE ~h.StallD /\ ~FlushDCause
  <2>1. NextD(h) = Fetched BY <1>1, <1>7 DEF NextD
  <2>2. Fetched.at = F.at /\ Fetched.kind \in {"good", "bad"} BY DEF Fetched
  <2> QED BY <1>3, <1>7, <2>1, <2>2 DEF Same
<1> QED BY <1>3, <1>4, <1>5, <1>6, <1>7

LEMMA EStep ==
  ASSUME StagesTyped, NEW c, NEW h, h = Hazard(c), NEW i \in NextE(h), E' = Move(i)
  PROVE  /\ E' \in [at : Position, kind : EKinds]
         /\ StallE => Same(E, E')
         /\ ~StallE => E'.at = After(D.at)
         /\ ~StallE /\ (FlushECause \/ h.StallD) => E'.kind = "nop"
         /\ ~StallE /\ ~FlushECause /\ ~h.StallD =>
              /\ E'.kind = "nop" <=> D.kind = "nop"
              /\ E'.kind = "void" <=> D.kind = "void"
<1>1. /\ h.StallE <=> StallE
      /\ h.FlushE <=> FlushECause \/ (h.StallD /\ ~StallE)
  BY HazardFacts
<1>2. CASE StallE
  <2>1. i = E BY <1>1, <1>2 DEF NextE
  <2>2. E' \in [at : Position, kind : EKinds] /\ Same(E, E') BY <2>1, MoveFacts DEF StagesTyped
  <2> QED BY <1>2, <2>2
<1>3. CASE ~StallE /\ (FlushECause \/ h.StallD)
  <2>1. i = [D EXCEPT !.kind = "nop"] BY <1>1, <1>3 DEF NextE
  <2>2. i \in [at : Position, kind : EKinds] /\ i.at = D.at /\ i.kind = "nop"
    BY <2>1 DEF StagesTyped, EKinds
  <2>3. E' \in [at : Position, kind : EKinds] /\ Same(i, E') BY <2>2, MoveFacts
  <2> QED BY <1>3, <2>2, <2>3 DEF Same
<1>4. CASE ~StallE /\ ~FlushECause /\ ~h.StallD
  <2>1. i \in Becomes(D, Classes) BY <1>1, <1>4 DEF NextE
  <2>2. CASE D.kind = "good"
    <3>1. PICK k \in Classes : i = [D EXCEPT !.kind = k] BY <2>1, <2>2 DEF Becomes
    <3>2. i \in [at : Position, kind : EKinds] /\ i.at = D.at /\ i.kind = k
      BY <3>1 DEF StagesTyped, EKinds
    <3>3. k # "nop" /\ k # "void" BY PipelineAssumption
    <3>4. E' \in [at : Position, kind : EKinds] /\ Same(i, E') BY <3>2, MoveFacts
    <3> QED BY <1>4, <2>2, <3>2, <3>3, <3>4 DEF Same
  <2>3. CASE D.kind # "good"
    <3>1. i = D BY <2>1, <2>3 DEF Becomes
    <3>2. i \in [at : Position, kind : EKinds] BY <2>3, <3>1 DEF StagesTyped, EKinds, DKinds
    <3>3. E' \in [at : Position, kind : EKinds] /\ Same(i, E') BY <3>2, MoveFacts
    <3> QED BY <1>4, <3>1, <3>3 DEF Same
  <2> QED BY <2>2, <2>3
<1> QED BY <1>2, <1>3, <1>4

LEMMA MStep ==
  ASSUME StagesTyped, NEW c, NEW h, h = Hazard(c), NEW i \in NextM(h), M' = Move(i)
  PROVE  /\ M' \in [at : Position, kind : MKinds]
         /\ StallM => Same(M, M')
         /\ ~StallM /\ (FlushMCause \/ StallE) => M'.kind = "nop"
         /\ ~StallM /\ ~FlushMCause /\ ~StallE => Advances(E, M')
<1>1. /\ h.StallM <=> StallM
      /\ h.FlushM <=> FlushMCause \/ (StallE /\ ~StallM)
  BY HazardFacts
<1>2. CASE StallM
  <2>1. i = M BY <1>1, <1>2 DEF NextM
  <2>2. M' \in [at : Position, kind : MKinds] /\ Same(M, M') BY <2>1, MoveFacts DEF StagesTyped
  <2> QED BY <1>2, <2>2
<1>3. CASE ~StallM /\ (FlushMCause \/ StallE)
  <2>1. i = Bubble BY <1>1, <1>3 DEF NextM
  <2>2. M' = Bubble BY <2>1, BubbleFacts
  <2> QED BY <1>3, <2>2, BubbleFacts DEF Bubble, MKinds
<1>4. CASE ~StallM /\ ~FlushMCause /\ ~StallE
  <2>1. i \in InMemory(E) BY <1>1, <1>4 DEF NextM
  <2>2. CASE E.kind = "nop"
    <3>1. i = Bubble BY <2>1, <2>2 DEF InMemory
    <3>2. M' = Bubble BY <3>1, BubbleFacts
    <3> QED BY <1>4, <2>2, <3>2, BubbleFacts DEF Bubble, MKinds, Advances
  <2>3. CASE E.kind # "nop"
    <3>1. /\ i \in [at : Position, kind : MKinds] /\ i.at = E.at /\ i.kind # "nop"
          /\ i.kind = "jump" <=> E.kind = "jump"
          /\ i.kind = "void" <=> E.kind = "void"
      <4>1. CASE E.kind = "other"
        <5>1. PICK k \in Kinds : i = [E EXCEPT !.kind = k] BY <2>1, <4>1 DEF InMemory
        <5>2. k # "nop" /\ k # "jump" /\ k # "void" BY PipelineAssumption
        <5> QED BY <4>1, <5>1, <5>2 DEF StagesTyped, MKinds
      <4>2. CASE E.kind = "div"
        <5>1. i = [E EXCEPT !.kind = "alu"] BY <2>1, <4>2 DEF InMemory
        <5> QED BY <4>2, <5>1 DEF StagesTyped, MKinds
      <4>3. CASE E.kind \notin {"other", "div"}
        <5>1. i = E BY <2>1, <2>3, <4>3 DEF InMemory
        <5>2. E.kind \in {"bad", "void", "jump"}
          BY <2>3, <4>3, PipelineAssumption DEF StagesTyped, EKinds
        <5> QED BY <2>3, <5>1, <5>2 DEF StagesTyped, MKinds
      <4> QED BY <4>1, <4>2, <4>3
    <3>2. M' \in [at : Position, kind : MKinds] /\ Same(i, M') BY <3>1, MoveFacts
    <3> QED BY <1>4, <2>3, <3>1, <3>2 DEF Same, Advances, Length
  <2> QED BY <2>2, <2>3
<1> QED BY <1>2, <1>3, <1>4

\* A trap empties the pipeline.
LEMMA TrapStep ==
  ASSUME NEW c, NEW h, h = Hazard(c), TrapM, ~StallM
  PROVE  ~h.StallD /\ ~StallE /\ FlushDCause /\ FlushECause /\ FlushMCause
BY HazardFacts, NetworkFacts

FTyped == F \in [at : Position, spills : BOOLEAN, miss : BOOLEAN, from : Sources]

LEMMA FStep ==
  ASSUME FTyped, NEW c, NEW h, h = Hazard(c), F' \in NextF(h)
  PROVE  /\ F' \in [at : {F'.at}, spills : BOOLEAN, miss : BOOLEAN, from : Sources]
         /\ ~h.StallD => F'.at \in PCNextF
         /\ h.StallD => F'.at = After(F.at)
         /\ h.StallD /\ F'.miss => F.miss \/ TakeSpillF
         /\ h.StallD /\ ITLBWriteF => ~F'.miss \/ TakeSpillF
         /\ h.StallD /\ TakeSpillF /\ ~FlushDCause => F'.spills
         /\ h.StallD /\ ~TakeSpillF => F'.spills = F.spills
         /\ h.StallD /\ ~TakeSpillF /\ ~ITLBWriteF /\ spill # "SPILL" =>
              F'.miss = F.miss /\ F'.from = F.from
<1>1. h.FlushD <=> FlushDCause BY HazardFacts
<1>2. \A S, B : Addresses(S, B) =
        [at : S, spills : B, miss : {FALSE}, from : Sources] \cup
        [at : S, spills : B, miss : {TRUE}, from : {"hit"}]
  BY DEF Addresses
<1>s. "hit" \in Sources BY DEF Sources
<1>3. CASE ~h.StallD
  <2>1. F' \in Addresses(PCNextF, BOOLEAN) BY <1>3 DEF NextF
  <2> HIDE DEF PCNextF
  <2> QED BY <1>2, <1>3, <1>s, <2>1
<1>4. CASE h.StallD /\ TakeSpillF /\ ~h.FlushD
  <2>1. F' \in Addresses({After(F.at)}, {TRUE}) BY <1>4 DEF NextF
  <2> HIDE DEF After
  <2> QED BY <1>1, <1>2, <1>4, <1>s, <2>1
<1>5. CASE h.StallD /\ ~(TakeSpillF /\ ~h.FlushD) /\ (ITLBWriteF \/ (spill = "SPILL" /\ h.FlushD))
  <2>1. PICK s \in Sources : F' = [F EXCEPT !.at = After(@), !.miss = FALSE, !.from = s]
    BY <1>5 DEF NextF
  <2>2. /\ F'.at = After(F.at) /\ F'.miss = FALSE /\ F'.spills = F.spills
        /\ F' \in [at : {F'.at}, spills : BOOLEAN, miss : BOOLEAN, from : Sources]
    <3> HIDE DEF After
    <3> QED BY <2>1 DEF FTyped
  <2> HIDE DEF TakeSpillF, ITLBWriteF
  <2> QED BY <1>1, <1>5, <2>2
<1>6. CASE h.StallD /\ ~(TakeSpillF /\ ~h.FlushD) /\ ~(ITLBWriteF \/ (spill = "SPILL" /\ h.FlushD))
  <2>1. F' = [F EXCEPT !.at = After(@)] BY <1>6 DEF NextF
  <2>2. /\ F'.at = After(F.at) /\ F'.miss = F.miss /\ F'.spills = F.spills
        /\ F'.from = F.from
        /\ F' \in [at : {F'.at}, spills : BOOLEAN, miss : BOOLEAN, from : Sources]
    <3> HIDE DEF After
    <3> QED BY <2>1 DEF FTyped
  <2> HIDE DEF TakeSpillF, ITLBWriteF
  <2> QED BY <1>1, <1>6, <2>2
<1> QED BY <1>3, <1>4, <1>5, <1>6

(***************************************************************************)
(* Program order.                                                          *)
(***************************************************************************)
\* Where the instruction in each stage stands: that in the memory stage is next to
\* retire, that in the execute stage is the one after it, and the one behind is on
\* the predicted path.  A fetch behind an empty pipeline is on the right path.
Ordered ==
  /\ M.kind # "nop" => M.at = 0
  /\ E.kind # "nop" => E.at = Expect
  /\ M.kind # "nop" /\ ~BPWrongM => E.at = Expect
  /\ BPWrongM => D.kind = "nop"
  /\ D.kind = "nop" => E.kind = "nop" /\ F.at = Expect /\ D.at = Nowhere
  /\ D.kind # "nop" =>
       /\ E.kind = "nop" => D.at = Expect
       /\ E.kind # "nop" => D.at \in {E.at + 1, E.at + 2}
       /\ F.at \in {D.at + 1, D.at + 2}
  /\ E.at \in 0 .. 4 \cup {Nowhere}

LEMMA OrderedStep ==
  ASSUME StagesTyped, FTyped, Ordered,
         NEW c \in {FALSE, E.kind # "nop" /\ D.kind # "nop"}, NEW h, h = Hazard(c),
         F' \in NextF(h), Stages(h)
  PROVE  Ordered' /\ StagesTyped' /\ F'.at \in 0 .. 6
<1>h. /\ h.StallD <=> StallE \/ (c /\ ~FlushDCause)
      /\ h.FlushM <=> FlushMCause \/ (StallE /\ ~StallM)
      /\ h.StallM <=> StallM
  BY HazardFacts
<1>f. /\ ~h.StallD => F'.at \in PCNextF
      /\ h.StallD => F'.at = After(F.at)
  BY FStep
<1>p. D.at \in Position /\ E.at \in Position /\ M.at \in Position /\ F.at \in Position
  BY DEF StagesTyped, FTyped
<1>d. /\ D' \in [at : Position, kind : DKinds]
      /\ h.StallD => Held(D, D')
      /\ ~h.StallD /\ FlushDCause => D'.kind = "nop" /\ D'.at = Nowhere
      /\ ~h.StallD /\ ~FlushDCause => /\ D'.at = After(F.at)
                                      /\ D'.kind \in {"good", "bad"}
  BY <1>p, DStep DEF Stages
<1>e. /\ E' \in [at : Position, kind : EKinds]
      /\ StallE => Same(E, E')
      /\ ~StallE => E'.at = After(D.at)
      /\ ~StallE /\ (FlushECause \/ h.StallD) => E'.kind = "nop"
      /\ ~StallE /\ ~FlushECause /\ ~h.StallD => (E'.kind = "nop" <=> D.kind = "nop")
  <2>1. PICK i \in NextE(h) : E' = Move(i) BY DEF Stages
  <2> QED BY <2>1, EStep
<1>m. /\ M' \in [at : Position, kind : MKinds]
      /\ StallM => Same(M, M')
      /\ ~StallM /\ (FlushMCause \/ StallE) => M'.kind = "nop"
      /\ ~StallM /\ ~FlushMCause /\ ~StallE => Advances(E, M')
  <2>1. PICK i \in NextM(h) : M' = Move(i) BY DEF Stages
  <2> QED BY <2>1, MStep
<1>b. BPWrongM' = IF StallM THEN BPWrongM ELSE ~h.FlushM /\ BPWrongE
  BY <1>h DEF Stages
<1>t. StagesTyped' BY <1>d, <1>e, <1>m DEF StagesTyped, Position, Nowhere, DKinds, EKinds, MKinds
<1>x. /\ Expect \in 0 .. 2
      /\ Expect' = IF M'.kind # "nop" THEN Length(M') ELSE 0
      /\ Length(M') \in 1 .. 2
  BY MovedFacts DEF Expect, Length
<1>v. Moved \in 0 .. 2 /\ (~StallM /\ ~TrapM => Moved = Expect)
  BY MovedFacts
<1>a. /\ StallM => \A at \in Position : After(at) = at
      /\ ~TrapM => \A at \in Position : at # Nowhere /\ at >= Moved => After(at) = at - Moved
      /\ \A at \in Position : After(at) # Nowhere => After(at) = at - Moved /\ at # Nowhere
  BY AfterFacts
<1>n. /\ StallM => StallE
      /\ FlushMCause => FlushECause /\ FlushDCause
      /\ FlushECause => FlushDCause
      /\ StallE /\ ~StallM => DivBusyE /\ ~FlushECause /\ ~FlushMCause
      /\ BPWrongE /\ ~FlushECause => StallE
      /\ TrapM => FlushMCause
  BY NetworkFacts
<1>r. Position \subseteq Nat /\ Nowhere = 99 BY DEF Position, Nowhere
<1>o. /\ M.kind # "nop" => M.at = 0
      /\ E.kind # "nop" => E.at = Expect
      /\ M.kind # "nop" /\ ~BPWrongM => E.at = Expect
      /\ BPWrongM => D.kind = "nop"
      /\ D.kind = "nop" => E.kind = "nop" /\ F.at = Expect /\ D.at = Nowhere
      /\ D.kind # "nop" =>
           /\ E.kind = "nop" => D.at = Expect
           /\ E.kind # "nop" => D.at \in {E.at + 1, E.at + 2}
           /\ F.at \in {D.at + 1, D.at + 2}
      /\ E.at \in 0 .. 4 \cup {Nowhere}
  BY DEF Ordered
<1> HIDE DEF Expect
<1>1. CASE StallM
  <2>1. h.StallD /\ StallE BY <1>1, <1>h, <1>n
  <2>2. /\ F'.at = F.at /\ M'.kind = M.kind /\ M'.at = M.at /\ E'.kind = E.kind /\ E'.at = E.at
        /\ D'.at = D.at /\ (D'.kind = "nop" <=> D.kind = "nop")
    BY <1>1, <2>1, <1>f, <1>d, <1>e, <1>m, <1>a, <1>p DEF Same, Held
  <2>3. Expect' = Expect BY <2>2 DEF Expect, Length
  <2>4. F'.at \in 0 .. 6 BY <2>2, <1>o, <1>x
  <2>5. Ordered' BY <2>2, <2>3, <1>1, <1>b, <1>o DEF Ordered, Nowhere
  <2> QED BY <2>4, <2>5, <1>t
<1>2. CASE ~StallM /\ TrapM
  <2>1. ~h.StallD /\ ~StallE /\ FlushDCause /\ FlushECause /\ FlushMCause
    BY <1>2, TrapStep
  <2>2. /\ F'.at = 0 /\ D'.kind = "nop" /\ D'.at = Nowhere /\ E'.kind = "nop" /\ M'.kind = "nop"
        /\ E'.at = After(D.at)
    BY <1>2, <2>1, <1>f, <1>d, <1>e, <1>m DEF PCNextF
  <2>3. After(D.at) = Nowhere
    <3>1. ~StallW BY <1>2, NetworkFacts
    <3> QED BY <1>2, <3>1 DEF After
  <2>4. ~BPWrongM' BY <1>2, <1>b, <1>h, <2>1
  <2>5. Expect' = 0 BY <2>2, <1>x
  <2>6. Ordered' BY <2>2, <2>3, <2>4, <2>5 DEF Ordered, Nowhere
  <2> QED BY <2>2, <2>6, <1>t
<1>3. CASE ~StallM /\ ~TrapM /\ StallE
  <2>1. h.StallD /\ ~FlushMCause /\ E.kind # "nop"
    BY <1>3, <1>h, <1>n DEF DivBusyE
  <2>2. /\ F'.at = After(F.at) /\ M'.kind = "nop" /\ E'.kind = E.kind /\ E'.at = After(E.at)
        /\ D'.at = After(D.at) /\ (D'.kind = "nop" <=> D.kind = "nop")
    BY <1>3, <2>1, <1>f, <1>d, <1>e, <1>m DEF Same, Held
  <2>3. /\ E.at = Expect /\ D.kind # "nop" /\ D.at \in {E.at + 1, E.at + 2}
        /\ F.at \in {D.at + 1, D.at + 2} /\ Moved = Expect
    BY <1>3, <2>1, <1>o, <1>v
  <2>4. /\ E'.at = 0 /\ D'.at = D.at - Expect /\ F'.at = F.at - Expect
    BY <1>3, <2>2, <2>3, <1>a, <1>p, <1>r, <1>x
  <2>5. ~BPWrongM' BY <1>3, <1>b, <1>h
  <2>6. Expect' = 0 BY <2>2, <1>x
  <2>7. D'.at \in {E'.at + 1, E'.at + 2} /\ F'.at \in {D'.at + 1, D'.at + 2}
    BY <2>3, <2>4, <1>x
  <2>8. Ordered'
    BY <2>1, <2>2, <2>3, <2>4, <2>5, <2>6, <2>7 DEF Ordered, Nowhere
  <2>9. F'.at \in 0 .. 6 BY <2>3, <2>4, <1>x
  <2> QED BY <2>8, <2>9, <1>t
<1>4. CASE ~StallM /\ ~TrapM /\ ~StallE /\ h.StallD
  <2>1. /\ ~FlushDCause /\ ~FlushMCause /\ ~FlushECause /\ E.kind # "nop" /\ D.kind # "nop"
        /\ ~BPWrongE
    BY <1>4, <1>h, <1>n DEF FlushDCause
  <2>2. /\ F'.at = After(F.at) /\ E'.kind = "nop" /\ E'.at = After(D.at)
        /\ D'.at = After(D.at) /\ D'.kind # "nop"
        /\ M'.at = After(E.at) /\ M'.kind # "nop" /\ Length(M') = Length(E)
    BY <1>4, <2>1, <1>f, <1>d, <1>e, <1>m DEF Held, Advances
  <2>3. /\ E.at = Expect /\ D.at = E.at + Length(E) /\ Length(E) \in 1 .. 2
        /\ F.at \in {D.at + 1, D.at + 2} /\ Moved = Expect
    BY <1>4, <2>1, <1>o, <1>v DEF BPWrongE, Correct, Length
  <2>4. /\ M'.at = 0 /\ D'.at = Length(E) /\ E'.at = Length(E) /\ F'.at = F.at - Expect
    BY <1>4, <2>2, <2>3, <1>a, <1>p, <1>r, <1>x
  <2>5. ~BPWrongM' BY <1>4, <1>b, <2>1
  <2>6. Expect' = Length(E) BY <2>2, <1>x
  <2>7. Ordered' BY <2>2, <2>3, <2>4, <2>5, <2>6, <1>x DEF Ordered, Nowhere
  <2>8. F'.at \in 0 .. 6 BY <2>3, <2>4, <1>x
  <2> QED BY <2>7, <2>8, <1>t
<1>5. CASE ~StallM /\ ~TrapM /\ ~StallE /\ ~h.StallD /\ FlushMCause
  <2>1. FlushDCause /\ FlushECause /\ (RetM \/ CSRWriteFenceM) /\ M.kind # "nop"
    BY <1>5, <1>n DEF FlushMCause, RetM, CSRWriteFenceM
  <2>2. /\ D'.kind = "nop" /\ D'.at = Nowhere /\ E'.kind = "nop" /\ M'.kind = "nop" /\ E'.at = After(D.at)
    BY <1>5, <2>1, <1>d, <1>e, <1>m
  <2>3. Moved = Expect /\ Expect = 1 /\ M.at = 0 /\ Length(M) = 1
    BY <1>5, <2>1, <1>v, <1>o DEF Expect, Length, RetM, CSRWriteFenceM
  <2>4. F'.at = 0
    <3>1. CASE RetM
      <4>1. F'.at = Correct(M) - Moved BY <1>5, <1>f, <3>1 DEF PCNextF
      <4> QED BY <4>1, <2>3 DEF Correct
    <3>2. CASE ~RetM
      <4>1. F'.at = NextValidPCE - Moved BY <1>5, <1>f, <2>1, <3>2 DEF PCNextF
      <4>2. NextValidPCE = Expect BY <1>o, <2>1 DEF NextValidPCE
      <4> QED BY <4>1, <4>2, <2>3
    <3> QED BY <3>1, <3>2
  <2>5. ~BPWrongM' BY <1>5, <1>b, <1>h
  <2>6. Expect' = 0 BY <2>2, <1>x
  <2>7. E'.at \in 0 .. 4 \cup {Nowhere}
    <3>1. CASE After(D.at) = Nowhere BY <3>1, <2>2
    <3>2. CASE After(D.at) # Nowhere
      <4>1. D.kind # "nop" BY <3>2, <1>o, <1>a, <1>p
      <4>2. E'.at = D.at - 1 BY <3>2, <2>2, <2>3, <1>a, <1>p
      <4>3. E.at = 1 BY <4>1, <1>o, <2>1, <2>3
      <4> QED BY <4>1, <4>2, <4>3, <1>o, <2>3
    <3> QED BY <3>1, <3>2
  <2>8. Ordered' BY <2>2, <2>4, <2>5, <2>6, <2>7 DEF Ordered, Nowhere
  <2> QED BY <2>4, <2>8, <1>t
<1>6. CASE ~StallM /\ ~TrapM /\ ~StallE /\ ~h.StallD /\ ~FlushMCause /\ FlushDCause
  <2>1. BPWrongE /\ FlushECause /\ E.kind # "nop" /\ D.kind # "nop" /\ ~RetM /\ ~CSRWriteFenceM
    BY <1>6, <1>n DEF FlushDCause, FlushMCause, BPWrongE
  <2>2. /\ D'.kind = "nop" /\ D'.at = Nowhere /\ E'.kind = "nop" /\ E'.at = After(D.at)
        /\ M'.at = After(E.at) /\ M'.kind # "nop" /\ Length(M') = Length(E)
    BY <1>6, <2>1, <1>d, <1>e, <1>m DEF Advances
  <2>3. /\ E.at = Expect /\ D.at \in {E.at + 1, E.at + 2} /\ Length(E) \in 1 .. 2
        /\ Moved = Expect
    BY <1>6, <2>1, <1>o, <1>v DEF Length
  <2>4. /\ M'.at = 0 /\ E'.at = D.at - Expect
    BY <1>6, <2>2, <2>3, <1>a, <1>p, <1>r, <1>x
  <2>5. F'.at = Length(E)
    <3>1. F'.at = Correct(E) - Moved BY <1>6, <2>1, <1>f DEF PCNextF
    <3> QED BY <3>1, <2>3, <1>x DEF Correct
  <2>6. BPWrongM' BY <1>6, <1>b, <1>h, <2>1
  <2>7. Expect' = Length(E) BY <2>2, <1>x
  <2>8. Ordered' BY <2>2, <2>3, <2>4, <2>5, <2>6, <2>7, <1>x DEF Ordered, Nowhere
  <2> QED BY <2>3, <2>5, <2>8, <1>t
<1>7. CASE ~StallM /\ ~TrapM /\ ~StallE /\ ~h.StallD /\ ~FlushDCause
  <2>1. ~BPWrongE /\ ~FlushECause /\ ~FlushMCause /\ ~RetM /\ ~CSRWriteFenceM
    BY <1>7, <1>n DEF FlushDCause, FlushMCause
  <2>2. /\ D'.kind # "nop" /\ D'.at = After(F.at) /\ E'.at = After(D.at)
        /\ E'.kind = "nop" <=> D.kind = "nop"
        /\ Advances(E, M')
    BY <1>7, <2>1, <1>d, <1>e, <1>m
  <2>3. F'.at \in {F.at + 1 - Moved, F.at + 2 - Moved}
    BY <1>7, <2>1, <1>f DEF PCNextF
  <2>4. Moved = Expect /\ ~BPWrongM' BY <1>7, <1>v, <1>b, <2>1
  <2>5. CASE D.kind = "nop"
    <3>1. /\ E.kind = "nop" /\ F.at = Expect /\ M'.kind = "nop" /\ E'.kind = "nop"
      BY <2>2, <2>5, <1>o DEF Advances
    <3>2. D'.at = 0 BY <1>7, <2>2, <2>4, <3>1, <1>a, <1>p, <1>r, <1>x
    <3>3. F'.at \in {1, 2} BY <2>3, <2>4, <3>1, <1>x
    <3>4. Expect' = 0 BY <3>1, <1>x
    <3>5. E'.at \in 0 .. 4 \cup {Nowhere}
      <4>1. D.at = Nowhere BY <2>5, <1>o
      <4> QED BY <4>1, <2>2, AfterFacts
    <3> QED BY <2>2, <2>4, <3>1, <3>2, <3>3, <3>4, <3>5, <1>t DEF Ordered, Nowhere
  <2>6. CASE D.kind # "nop" /\ E.kind = "nop"
    <3>1. D.at = Expect /\ F.at \in {D.at + 1, D.at + 2} /\ M'.kind = "nop" /\ E'.kind # "nop"
      BY <2>2, <2>6, <1>o DEF Advances
    <3>2. D'.at = F.at - Expect /\ E'.at = 0
      BY <1>7, <2>2, <2>4, <3>1, <1>a, <1>p, <1>r, <1>x
    <3>3. Expect' = 0 BY <3>1, <1>x
    <3>4. F'.at \in {D'.at + 1, D'.at + 2} /\ F'.at \in 0 .. 6
      BY <2>3, <2>4, <3>1, <3>2, <1>x
    <3> QED BY <2>2, <2>4, <3>1, <3>2, <3>3, <3>4, <1>x, <1>t DEF Ordered, Nowhere
  <2>7. CASE D.kind # "nop" /\ E.kind # "nop"
    <3>1. /\ E.at = Expect /\ D.at = E.at + Length(E) /\ Length(E) \in 1 .. 2
          /\ F.at \in {D.at + 1, D.at + 2} /\ E'.kind # "nop"
          /\ M'.kind # "nop" /\ M'.at = After(E.at) /\ Length(M') = Length(E)
      BY <2>1, <2>2, <2>7, <1>o DEF Advances, BPWrongE, Correct, Length
    <3>2. D'.at = F.at - Expect /\ E'.at = Length(E) /\ M'.at = 0
      BY <1>7, <2>2, <2>4, <3>1, <1>a, <1>p, <1>r, <1>x
    <3>3. Expect' = Length(E) BY <3>1, <1>x
    <3>4. F'.at \in {D'.at + 1, D'.at + 2} /\ F'.at \in 0 .. 6
      BY <2>3, <2>4, <3>1, <3>2, <1>x
    <3> QED BY <2>2, <2>4, <3>1, <3>2, <3>3, <3>4, <1>x, <1>t DEF Ordered, Nowhere
  <2> QED BY <2>5, <2>6, <2>7
<1> QED BY <1>1, <1>2, <1>3, <1>4, <1>5, <1>6, <1>7, <1>n

(***************************************************************************)
(* Fetch, the walker and the types of all registers.                       *)
(***************************************************************************)
CacheStates == {"idle", "busy", "write", "hold"}
WalkStates  == {"IDLE", "L1_ADR", "L1_RD", "L0_ADR", "L0_RD", "LEAF", "FAULT"}
StateTyped ==
  /\ ifu \in CacheStates /\ lsu \in CacheStates /\ spill \in {"READY", "SPILL"}
  /\ div \in {"IDLE", "BUSY", "DONE"} /\ done \in 0 .. 2 /\ walker \in WalkStates
  /\ BPWrongM \in BOOLEAN /\ wfiW \in BOOLEAN /\ way \in BOOLEAN /\ dmiss \in BOOLEAN
  /\ DTLBWalk \in BOOLEAN /\ irq \in {"none", "masked", "enabled"}

\* A branch that was mispredicted is found before another fetch has begun.
WrongIdle == BPWrongE => ifu = "idle"

\* While a page is not in the instruction buffer nothing is fetched.
MissIdle == F.miss => ifu = "idle"

\* The half that is kept is that of the instruction being fetched.
Halves == /\ half = IF spill = "SPILL" THEN F.at ELSE Nowhere
          /\ spill = "SPILL" => F.spills

\* A walk for data is for the operation in the memory stage.
Walks == /\ DTLBWalk => walker # "IDLE" /\ DTLBMiss
         /\ walker # "IDLE" /\ ~DTLBWalk => ~DTLBMiss
         /\ dmiss => M.kind \in Counted
         /\ M.kind = "memFault" /\ walker # "IDLE" => DTLBWalk

OrderInv == /\ StagesTyped /\ FTyped /\ StateTyped /\ Ordered
            /\ WrongIdle /\ MissIdle /\ Halves /\ Walks

LEMMA BooleanSteps ==
  ASSUME StateTyped, NEW c, NEW h, h = Hazard(c), NEW fault, Stages(h), Memory(h, fault)
  PROVE  /\ BPWrongM' \in BOOLEAN /\ wfiW' \in BOOLEAN
         /\ dmiss' \in BOOLEAN /\ DTLBWalk' \in BOOLEAN
<1>1. BPWrongM' \in BOOLEAN
  <2>1. BPWrongM' = IF h.StallM THEN BPWrongM ELSE ~h.FlushM /\ BPWrongE BY DEF Stages
  <2> QED BY <2>1, Zenon DEF StateTyped
<1>2. wfiW' \in BOOLEAN
  <2>1. wfiW' = IF h.StallW THEN wfiW ELSE ~h.FlushW /\ wfiM BY DEF Stages
  <2> QED BY <2>1, Zenon DEF StateTyped
<1>3. DTLBWalk' \in BOOLEAN
  <2>1. DTLBWalk' = (walker' # "IDLE" /\ IF walker = "IDLE" THEN DTLBMiss ELSE DTLBWalk)
    BY DEF Memory
  <2> QED BY <2>1, Zenon
<1>4. dmiss' \in BOOLEAN
  <2>1. CASE ~h.StallM
    <3>1. dmiss' \in IF M'.kind \in Counted THEN BOOLEAN ELSE {FALSE} BY <2>1 DEF Memory
    <3> QED BY <3>1
  <2>2. CASE h.StallM
    <3>1. dmiss' = (dmiss /\ ~(walker = "LEAF" /\ DTLBWalk)) BY <2>2 DEF Memory
    <3> QED BY <3>1, Zenon
  <2> QED BY <2>1, <2>2
<1> QED BY <1>1, <1>2, <1>3, <1>4

LEMMA IfuStep ==
  ASSUME StateTyped, NEW c, NEW h, h = Hazard(c), ifu' \in NextIfu(h)
  PROVE  /\ ifu' \in CacheStates
         /\ FlushDCause => ifu' = "idle"
         /\ ~IFUStallF /\ ~h.StallD => ifu' = "idle"
         /\ F.miss /\ ifu = "idle" => ifu' = "idle"
         /\ TakeSpillF => ifu' = "idle"
         /\ ~IFUStallF /\ ifu \in {"idle", "hold"} => ifu' \in {"idle", "hold"}
         /\ ~FlushDCause /\ F.from = "hit" /\ ifu \in {"idle", "hold"} => ifu' \in {"idle", "hold"}
<1>1. h.FlushD <=> FlushDCause BY HazardFacts
<1>2. CASE h.FlushD BY <1>1, <1>2 DEF NextIfu, CacheStates
<1>3. CASE ~h.FlushD /\ ifu = "idle"
  <2>1. ifu' \in IF F.miss \/ F.from = "hit" THEN {"idle"}
                 ELSE IF F.from = "miss" THEN {"busy"} ELSE {"idle", "busy"}
    BY <1>3 DEF NextIfu
  <2>2. ~IFUStallF \/ TakeSpillF => F.miss \/ F.from = "hit"
    BY <1>3 DEF IFUStallF, IFUCacheBusStallF, TakeSpillF
  <2> QED BY <1>1, <1>3, <2>1, <2>2 DEF CacheStates
<1>4. CASE ~h.FlushD /\ ifu = "busy"
  <2>1. ifu' \in {"busy", IF F.from = "miss" THEN "write" ELSE "hold"} BY <1>4 DEF NextIfu
  <2>2. IFUStallF /\ ~TakeSpillF BY <1>4 DEF IFUStallF, IFUCacheBusStallF, TakeSpillF
  <2> QED BY <1>1, <1>4, <2>1, <2>2 DEF CacheStates
<1>5. CASE ~h.FlushD /\ ifu = "write"
  <2>1. ifu' = "hold" BY <1>5 DEF NextIfu
  <2>2. IFUStallF /\ ~TakeSpillF BY <1>5 DEF IFUStallF, IFUCacheBusStallF, TakeSpillF
  <2> QED BY <1>1, <1>5, <2>1, <2>2 DEF CacheStates
<1>6. CASE ~h.FlushD /\ ifu = "hold"
  <2>1. ifu' = IF GatedStallD(h) THEN "hold" ELSE "idle" BY <1>6 DEF NextIfu
  <2> QED BY <1>1, <1>6, <2>1 DEF CacheStates, GatedStallD, SelSpillNextF
<1> QED BY <1>2, <1>3, <1>4, <1>5, <1>6 DEF StateTyped, CacheStates

LEMMA StateTypedStep ==
  ASSUME StateTyped, NEW c, NEW h, h = Hazard(c), NEW fault, Fetch(h), Stages(h),
         Memory(h, fault), irq' \in {"none", "masked", "enabled"}
  PROVE  StateTyped'
<1>1. ifu' \in CacheStates BY IfuStep DEF Fetch
<1>2. lsu' \in CacheStates
  <2>1. lsu' \in NextLsu(h, fault) BY DEF Memory
  <2>2. NextLsu(h, fault) \subseteq CacheStates
    BY DEF NextLsu, CacheStates
  <2> QED BY <2>1, <2>2
<1>3. spill' \in {"READY", "SPILL"} BY DEF Fetch, NextSpill, StateTyped
<1>4. div' \in {"IDLE", "BUSY", "DONE"} BY DEF Stages, NextDiv
<1>5. done' \in 0 .. 2 BY DEF Memory, StateTyped
<1>6. walker' \in WalkStates
  <2>1. walker' \in NextWalker(h, fault) BY DEF Memory
  <2>2. NextWalker(h, fault) \subseteq WalkStates BY DEF NextWalker, WalkStates
  <2> QED BY <2>1, <2>2
<1>7. way' \in BOOLEAN
  <2>1. CASE NewLookup(h)
    <3>1. way' \in Ways BY <2>1 DEF Memory
    <3>2. Ways \subseteq BOOLEAN BY DEF Ways
    <3> QED BY <3>1, <3>2
  <2>2. CASE ~NewLookup(h) BY <2>2 DEF Memory, StateTyped
  <2> QED BY <2>1, <2>2
<1> QED BY <1>1, <1>2, <1>3, <1>4, <1>5, <1>6, <1>7, BooleanSteps
        DEF StateTyped, CacheStates, WalkStates

LEMMA HalvesStep ==
  ASSUME FTyped, Halves, StateTyped, NEW c, NEW h, h = Hazard(c), Fetch(h)
  PROVE  Halves'
<1>1. h.FlushD <=> FlushDCause BY HazardFacts
<1>2. /\ half' = IF spill' = "READY" THEN Nowhere ELSE After(IF TakeSpillF THEN F.at ELSE half)
      /\ spill' = NextSpill(h)
  BY DEF Fetch
<1>3. spill' \in {"READY", "SPILL"} BY DEF Fetch, NextSpill, StateTyped
<1>4. ASSUME spill' = "SPILL" PROVE half' = F'.at /\ F'.spills
  <2>1. ~FlushDCause BY <1>1, <1>2, <1>4 DEF NextSpill
  <2>2. TakeSpillF \/ (spill = "SPILL" /\ h.StallD)
    BY <1>1, <1>2, <1>4 DEF NextSpill, StateTyped
  <2>3. CASE TakeSpillF
    <3>1. h.StallD
      BY <2>1, <2>3, HazardFacts, NetworkFacts DEF IFUStallF, SelSpillNextF
    <3>2. F'.at = After(F.at) /\ F'.spills BY <2>1, <2>3, <3>1, FStep DEF Fetch
    <3> QED BY <1>2, <1>4, <2>3, <3>2
  <2>4. CASE ~TakeSpillF /\ spill = "SPILL" /\ h.StallD
    <3>1. F'.at = After(F.at) /\ F'.spills = F.spills BY <2>4, FStep DEF Fetch
    <3>2. half = F.at /\ F.spills BY <2>4 DEF Halves
    <3> QED BY <1>2, <1>4, <2>4, <3>1, <3>2
  <2> QED BY <2>2, <2>3, <2>4
<1> QED BY <1>2, <1>3, <1>4 DEF Halves, Nowhere

LEMMA WrongIdleStep ==
  ASSUME StagesTyped, FTyped, StateTyped, Ordered, WrongIdle,
         NEW c \in {FALSE, E.kind # "nop" /\ D.kind # "nop"}, NEW h, h = Hazard(c),
         Fetch(h), Stages(h)
  PROVE  WrongIdle'
<1>h. h.StallD <=> StallE \/ (c /\ ~FlushDCause) BY HazardFacts
<1>i. /\ FlushDCause => ifu' = "idle"
      /\ ~IFUStallF /\ ~h.StallD => ifu' = "idle"
  BY IfuStep DEF Fetch
<1>p. D.at \in Position /\ E.at \in Position /\ F.at \in Position
  BY DEF StagesTyped, FTyped
<1>1. CASE FlushDCause BY <1>1, <1>i DEF WrongIdle
<1>2. CASE ~FlushDCause /\ ~h.StallD
  <2>1. ~StallW BY <1>2, <1>h, NetworkFacts
  <2>2. ~IFUStallF BY <1>2, <2>1, NetworkFacts
  <2> QED BY <1>2, <2>2, <1>i DEF WrongIdle
<1>3. CASE ~FlushDCause /\ h.StallD /\ ~StallE
  <2>1. PICK i \in NextE(h) : E' = Move(i) BY DEF Stages
  <2>2. E'.kind = "nop" BY <1>3, <2>1, EStep
  <2> QED BY <2>2 DEF WrongIdle, BPWrongE
<1>4. CASE ~FlushDCause /\ StallE
  <2>1. PICK i \in NextE(h) : E' = Move(i) BY DEF Stages
  <2>2. E'.kind = E.kind /\ E'.at = After(E.at) BY <1>4, <2>1, EStep DEF Same
  <2>3. D'.kind = D.kind /\ D'.at = After(D.at)
    BY <1>4, <1>h, <1>p, DStep DEF Stages, Held
  <2>4. ~BPWrongE /\ ~TrapM BY <1>4, NetworkFacts DEF FlushDCause
  <2>5. ~BPWrongE'
    <3>1. CASE E.kind = "nop" \/ D.kind = "nop"
      BY <2>2, <2>3, <3>1 DEF BPWrongE
    <3>2. CASE E.kind # "nop" /\ D.kind # "nop"
      <4>1. E.at = Expect /\ D.at = E.at + Length(E) /\ Length(E) \in 1 .. 2
        BY <2>4, <3>2 DEF Ordered, BPWrongE, Correct, Length
      <4>2. Moved \in {0, Expect} /\ Expect \in 0 .. 2 BY <2>4, MovedFacts
      <4>3. E'.at = E.at - Moved /\ D'.at = D.at - Moved
        BY <2>2, <2>3, <2>4, <4>1, <4>2, <1>p, AfterFacts DEF Nowhere
      <4>4. Length(E') = Length(E) BY <2>2 DEF Length
      <4> QED BY <4>1, <4>2, <4>3, <4>4 DEF BPWrongE, Correct, Length
    <3> QED BY <3>1, <3>2
  <2> QED BY <2>5 DEF WrongIdle
<1> QED BY <1>1, <1>2, <1>3, <1>4

LEMMA MissIdleStep ==
  ASSUME FTyped, StateTyped, MissIdle, NEW c, NEW h, h = Hazard(c), Fetch(h)
  PROVE  MissIdle'
<1> SUFFICES ASSUME F'.miss PROVE ifu' = "idle"
  BY DEF MissIdle
<1>i. /\ FlushDCause => ifu' = "idle"
      /\ ~IFUStallF /\ ~h.StallD => ifu' = "idle"
      /\ F.miss /\ ifu = "idle" => ifu' = "idle"
      /\ TakeSpillF => ifu' = "idle"
  BY IfuStep DEF Fetch
<1>1. CASE h.StallD
  <2>1. F.miss \/ TakeSpillF BY <1>1, FStep DEF Fetch
  <2> QED BY <2>1, <1>i DEF MissIdle
<1>2. CASE ~h.StallD /\ ~FlushDCause
  <2>1. ~IFUStallF BY <1>2, HazardFacts, NetworkFacts
  <2> QED BY <1>2, <2>1, <1>i
<1> QED BY <1>1, <1>2, <1>i

\* While a walk goes on the memory stage stands still.
LEMMA WalkStep ==
  ASSUME StagesTyped, StateTyped, NEW c, NEW h, h = Hazard(c), NEW fault \in {FALSE, MayFault},
         Stages(h), Memory(h, fault)
  PROVE  /\ StallM => M'.kind = M.kind /\ M'.at = After(M.at)
         /\ walker' # "IDLE" =>
              /\ StallM /\ StallW /\ ~FlushW /\ dmiss' = dmiss /\ walker \notin {"LEAF", "FAULT"}
              /\ walker = "IDLE" => TLBMiss
              /\ DTLBWalk' <=> IF walker = "IDLE" THEN DTLBMiss ELSE DTLBWalk
         /\ DTLBWalk' => walker' # "IDLE"
         /\ StallM => (dmiss' <=> dmiss /\ ~(walker = "LEAF" /\ DTLBWalk))
         /\ fault => MayFault
<1>h. (h.FlushW <=> FlushW) /\ (h.StallM <=> StallM) BY HazardFacts
<1>0. fault => MayFault OBVIOUS
<1>1. StallM => M'.kind = M.kind /\ M'.at = After(M.at)
  <2>1. PICK i \in NextM(h) : M' = Move(i) BY DEF Stages
  <2> QED BY <2>1, MStep DEF Same
<1>2. DTLBWalk' <=> walker' # "IDLE" /\ IF walker = "IDLE" THEN DTLBMiss ELSE DTLBWalk
  <2>1. DTLBWalk' = (walker' # "IDLE" /\ IF walker = "IDLE" THEN DTLBMiss ELSE DTLBWalk)
    BY DEF Memory
  <2> QED BY <2>1, Zenon
<1>3. StallM => (dmiss' <=> dmiss /\ ~(walker = "LEAF" /\ DTLBWalk))
  <2>1. StallM => dmiss' = (dmiss /\ ~(walker = "LEAF" /\ DTLBWalk))
    BY <1>h DEF Memory
  <2> QED BY <2>1, Zenon
<1>4. ASSUME walker' # "IDLE"
      PROVE  /\ StallM /\ StallW /\ ~FlushW /\ dmiss' = dmiss /\ walker \notin {"LEAF", "FAULT"}
             /\ walker = "IDLE" => TLBMiss
  <2>1. walker' \in NextWalker(h, fault) BY DEF Memory
  <2>2. ~FlushW BY <1>4, <1>h, <2>1 DEF NextWalker
  <2>3. ~fault \/ walker \in {"L1_RD", "L0_RD", "L0_ADR"} BY DEF MayFault, Reading
  <2>4. walker \notin {"LEAF", "FAULT"} /\ (walker = "IDLE" => TLBMiss)
    BY <1>4, <1>h, <2>1, <2>2, <2>3 DEF NextWalker
  <2>5. HPTWStall BY <2>4 DEF HPTWStall, SelHPTW
  <2>6. StallW /\ StallM BY <2>2, <2>5, NetworkFacts DEF LSUStallM, FlushW
  <2>7. dmiss' <=> dmiss BY <1>3, <2>4, <2>6
  <2>8. dmiss' \in BOOLEAN /\ dmiss \in BOOLEAN BY BooleanSteps DEF StateTyped
  <2> QED BY <2>2, <2>4, <2>6, <2>7, <2>8
<1> QED BY <1>0, <1>1, <1>2, <1>3, <1>4

LEMMA WalksStep ==
  ASSUME StagesTyped, StateTyped, MissIdle, Walks, NEW c, NEW h, h = Hazard(c),
         NEW fault \in {FALSE, MayFault}, Stages(h), Memory(h, fault)
  PROVE  Walks'
<1>1. ASSUME walker' # "IDLE"
      PROVE  /\ DTLBMiss' <=> DTLBMiss
             /\ DTLBWalk' <=> DTLBMiss
  BY <1>1, WalkStep DEF Walks, DTLBMiss
<1>2. dmiss' => M'.kind \in Counted
  <2>1. CASE StallM BY <2>1, WalkStep DEF Walks
  <2>2. CASE ~StallM
    <3>1. dmiss' \in IF M'.kind \in Counted THEN BOOLEAN ELSE {FALSE}
      BY <2>2, HazardFacts DEF Memory
    <3> QED BY <3>1
  <2> QED BY <2>1, <2>2
<1>3. DTLBWalk' => walker' # "IDLE" BY WalkStep
<1>4. M'.kind = "memFault" /\ walker' # "IDLE" => DTLBWalk'
  <2> SUFFICES ASSUME M'.kind = "memFault", walker' # "IDLE", ~DTLBWalk' PROVE FALSE
    OBVIOUS
  <2>1. /\ M.kind = "memFault" /\ ~FlushW
        /\ walker = "IDLE" => TLBMiss
        /\ ~(IF walker = "IDLE" THEN DTLBMiss ELSE DTLBWalk)
    BY WalkStep
  <2>2. walker = "IDLE" /\ ~dmiss BY <2>1 DEF Walks, DTLBMiss, Counted
  <2>3. F.miss BY <2>1, <2>2 DEF TLBMiss
  <2>4. ~CommittedF BY <2>3 DEF MissIdle, CommittedF
  <2>5. TrapM /\ ~wfiM BY <2>1, <2>2, <2>4 DEF TrapM, ExceptionM, SelHPTW, wfiM
  <2> QED BY <2>1, <2>5, NetworkFacts
<1> QED BY <1>1, <1>2, <1>3, <1>4 DEF Walks, Counted

LEMMA InitInv == Init => OrderInv
<1> SUFFICES ASSUME Init PROVE OrderInv
  OBVIOUS
<1>1. Bubble.kind = "nop" /\ Bubble.at = Nowhere /\ Nowhere \in Position /\ 0 \in Position
  BY BubbleFacts DEF Position
<1>2. StagesTyped BY <1>1 DEF Init, Bubble, StagesTyped, DKinds, EKinds, MKinds
<1>3. FTyped /\ F.at = 0 BY <1>1 DEF Init, FTyped, Addresses, Sources
<1>4. StateTyped
  <2>1. BPWrongM \in BOOLEAN /\ wfiW \in BOOLEAN /\ way \in BOOLEAN BY DEF Init
  <2>2. dmiss \in BOOLEAN /\ DTLBWalk \in BOOLEAN BY DEF Init
  <2>3. /\ ifu = "idle" /\ lsu = "idle" /\ spill = "READY" /\ div = "IDLE" /\ done = 0
        /\ walker = "IDLE" /\ irq = "none"
    BY DEF Init
  <2> QED BY <2>1, <2>2, <2>3 DEF StateTyped, CacheStates, WalkStates
<1>5. Ordered BY <1>1, <1>3 DEF Init, Ordered, Expect
<1>6. WrongIdle /\ MissIdle /\ Halves BY DEF Init, WrongIdle, MissIdle, Halves
<1>7. Walks BY DEF Init, Walks
<1> QED BY <1>2, <1>3, <1>4, <1>5, <1>6, <1>7 DEF OrderInv

LEMMA CycleInv == OrderInv /\ [Cycle]_vars => OrderInv'
<1>1. ASSUME OrderInv, Cycle PROVE OrderInv'
  <2>0. PICK c \in {FALSE, E.kind # "nop" /\ D.kind # "nop"}, fault \in {FALSE, MayFault} :
          \E h \in {Hazard(c)} :
            /\ Fetch(h) /\ Stages(h) /\ Memory(h, fault)
            /\ irq' \in {"none", "masked", "enabled"}
    BY <1>1 DEF Cycle
  <2>1. PICK h \in {Hazard(c)} :
          /\ Fetch(h) /\ Stages(h) /\ Memory(h, fault)
          /\ irq' \in {"none", "masked", "enabled"}
    BY <2>0
  <2>h. h = Hazard(c) OBVIOUS
  <2>t. StagesTyped /\ FTyped /\ StateTyped /\ Ordered /\ WrongIdle /\ MissIdle /\ Halves
      /\ Walks
    BY <1>1 DEF OrderInv
  <2>2. Ordered' /\ StagesTyped' /\ F'.at \in 0 .. 6
    BY <2>1, <2>h, <2>t, OrderedStep DEF Fetch
  <2>3. FTyped'
    <3>1. F' \in [at : {F'.at}, spills : BOOLEAN, miss : BOOLEAN, from : Sources]
      BY <2>1, <2>h, <2>t, FStep DEF Fetch
    <3>2. F'.at \in Position BY <2>2 DEF Position
    <3>3. F' \in [at : Position, spills : BOOLEAN, miss : BOOLEAN, from : Sources]
      BY <3>1, <3>2
    <3> QED BY <3>3 DEF FTyped, Position, Nowhere, Sources
  <2>4. StateTyped' BY <2>1, <2>h, <2>t, StateTypedStep
  <2>5. WrongIdle' BY <2>1, <2>h, <2>t, WrongIdleStep
  <2>6. Halves' BY <2>1, <2>h, <2>t, HalvesStep
  <2>7. Walks' BY <2>1, <2>h, <2>t, WalksStep
  <2>8. MissIdle' BY <2>1, <2>h, <2>t, MissIdleStep
  <2> QED BY <2>2, <2>3, <2>4, <2>5, <2>6, <2>7, <2>8 DEF OrderInv
<1>2. ASSUME OrderInv, UNCHANGED vars PROVE OrderInv'
  <2>1. UNCHANGED <<F, ifu, spill, half, D, E, M, BPWrongM, wfiW, div, lsu, way, dmiss, done,
                    walker, DTLBWalk, irq>>
    BY <1>2 DEF vars, front, back
  <2> QED
    BY <1>2, <2>1
    DEF OrderInv, StagesTyped, FTyped, StateTyped, Ordered, WrongIdle, MissIdle, Halves, Walks,
        Position,
        DKinds, EKinds, MKinds, Sources, CacheStates, WalkStates, Expect, BPWrongE, DTLBMiss,
        Counted, Length, Correct, Nowhere
<1> QED BY <1>1, <1>2

LEMMA InvHolds == Spec => []OrderInv
BY InitInv, CycleInv, PTL DEF Spec

\* Every register keeps its type, and no position runs away: fetch is never more than
\* six instructions ahead of the one that is to retire.
THEOREM PipelineTypeCorrect == Spec => []TypeOK
<1>1. OrderInv => TypeOK
  <2> SUFFICES ASSUME OrderInv PROVE TypeOK
    OBVIOUS
  <2>1. half \in Position BY BubbleFacts DEF OrderInv, Halves, FTyped
  <2>2. {BPWrongM, wfiW, way, dmiss, DTLBWalk} \subseteq BOOLEAN BY DEF OrderInv, StateTyped
  <2> QED BY <2>1, <2>2 DEF OrderInv, StagesTyped, FTyped, StateTyped, TypeOK, DKinds, EKinds,
                            MKinds, CacheStates, WalkStates
<1> QED BY <1>1, InvHolds, PTL

\* An instruction in two halves is put together from its own, whatever flushes fetch,
\* misses the instruction buffer or faults between the two.
THEOREM HalvesBelongTogether == Spec => []OwnHalves
<1>1. OrderInv => OwnHalves BY DEF OrderInv, Halves, OwnHalves
<1> QED BY <1>1, InvHolds, PTL

\* An instruction that must trap does not retire: either it traps, or the fetch that
\* holds its trap back holds it too.
THEOREM FaultsDoNotRetire == Spec => []FaultTraps
<1>1. OrderInv => FaultTraps
  <2> SUFFICES ASSUME OrderInv, M.kind \in {"bad", "memFault"}, Retires PROVE FALSE
    BY DEF FaultTraps
  <2>1. ~StallW /\ ~FlushW /\ ~wfiM /\ ~RetM /\ ~CSRWriteFenceM
    BY DEF Retires, wfiM, RetM, CSRWriteFenceM
  <2>2. ~TrapM BY <2>1, NetworkFacts
  <2>3. ExceptionM
    <3>1. CASE M.kind = "bad" BY <3>1 DEF ExceptionM
    <3>2. CASE M.kind = "memFault" /\ ~SelHPTW
      <4>1. ~HPTWStall BY <2>1, <2>2, NetworkFacts DEF LSUStallM
      <4>2. ~dmiss BY <3>2, <4>1 DEF HPTWStall, TLBMiss, DTLBMiss, Counted
      <4> QED BY <3>2, <4>2 DEF ExceptionM
    <3>3. CASE M.kind = "memFault" /\ SelHPTW
      <4>1. walker = "FAULT" BY <2>1, <2>2, <3>3, NetworkFacts DEF LSUStallM, HPTWStall
      <4>2. DTLBWalk BY <3>3 DEF SelHPTW, OrderInv, Walks
      <4> QED BY <4>1, <4>2 DEF ExceptionM
    <3> QED BY <3>1, <3>2, <3>3
  <2>4. CommittedF BY <2>2, <2>3 DEF TrapM
  <2>5. IFUStallF BY <2>4 DEF CommittedF, IFUStallF, IFUCacheBusStallF
  <2>6. FlushDCause BY <2>1, <2>5, NetworkFacts
  <2>7. BPWrongE BY <2>1, <2>2, <2>6 DEF FlushDCause, FlushMCause
  <2> QED BY <2>4, <2>7 DEF OrderInv, WrongIdle, CommittedF
<1> QED BY <1>1, InvHolds, PTL

(***************************************************************************)
(* Only instructions on the right path retire.                             *)
(***************************************************************************)
\* An instruction that was flushed in its register stays behind what flushed it, and a
\* WFI comes to the memory stage when no other has just left.
NoVoid == /\ D.kind = "void" => M.kind \in {"ret", "fence"} \/ BPWrongE
          /\ E.kind # "void" /\ M.kind # "void"
          /\ wfiW => M.kind # "wfi"

\* A branch that was mispredicted stays so while it is held.
LEMMA WrongStays ==
  ASSUME StagesTyped, FTyped, Ordered, BPWrongE, StallE, ~TrapM,
         NEW c, NEW h, h = Hazard(c), Stages(h)
  PROVE  BPWrongE'
<1>1. PICK i \in NextE(h) : E' = Move(i) BY DEF Stages
<1>p. D.at \in Position /\ E.at \in Position /\ F.at \in Position
  BY DEF StagesTyped, FTyped
<1>2. E'.kind = E.kind /\ E'.at = After(E.at) BY <1>1, EStep DEF Same
<1>3. D'.at = After(D.at) /\ (D'.kind = "nop" <=> D.kind = "nop")
  BY <1>p, DStep, HazardFacts DEF Stages, Held
<1>4. /\ E.at = Expect /\ D.at \in {E.at + 1, E.at + 2} /\ D.at # E.at + Length(E)
      /\ E.kind # "nop" /\ D.kind # "nop"
  BY DEF Ordered, BPWrongE, Correct
<1>5. Moved \in {0, Expect} /\ Expect \in 0 .. 2 BY MovedFacts
<1>6. E'.at = E.at - Moved /\ D'.at = D.at - Moved
  BY <1>2, <1>3, <1>4, <1>5, <1>p, AfterFacts DEF Nowhere
<1>7. Length(E') = Length(E) /\ Length(E) \in 1 .. 2 BY <1>2 DEF Length
<1> QED BY <1>2, <1>3, <1>4, <1>5, <1>6, <1>7 DEF BPWrongE, Correct

\* A trap leaves nothing in the memory stage, except where one WFI follows another.
LEMMA TrapLeaves ==
  ASSUME OrderInv, wfiW => M.kind # "wfi", TrapM PROVE ~StallM /\ M.kind # "nop"
<1>1. ExceptionM => M.kind \in {"bad"} \cup Counted
  BY DEF ExceptionM, OrderInv, Walks, DTLBMiss, Counted
<1>2. ~wfiM
  <2>1. CASE ExceptionM BY <2>1, <1>1 DEF Counted, wfiM
  <2>2. CASE InterruptM BY <2>2 DEF InterruptM, wfiM
  <2> QED BY <2>1, <2>2 DEF TrapM
<1>3. M.kind # "nop" BY <1>1 DEF TrapM, InterruptM, Counted
<1> QED BY <1>2, <1>3, NetworkFacts

LEMMA NoVoidStep ==
  ASSUME OrderInv, NoVoid, "WfiTwice" \notin Coincidences,
         NEW c \in {FALSE, E.kind # "nop" /\ D.kind # "nop"}, NEW h, h = Hazard(c),
         NEW fault, Stages(h), Apart(h, fault)
  PROVE  NoVoid'
<1>t. StagesTyped /\ FTyped /\ Ordered /\ F.at \in Position BY DEF OrderInv, FTyped
<1>h. h.StallD <=> StallE \/ (c /\ ~FlushDCause) BY HazardFacts
<1>v. D.kind = "void" => FlushDCause /\ (FlushECause \/ StallE)
  BY NetworkFacts DEF NoVoid, FlushDCause, FlushMCause, RetM, CSRWriteFenceM
<1>1. ASSUME D'.kind = "void" PROVE M'.kind \in {"ret", "fence"} \/ BPWrongE'
  <2>1. h.StallD /\ FlushDCause
    BY <1>1, <1>t, <1>v, DStep DEF Stages
  <2>2. StallE BY <2>1, <1>h
  <2>3. ~TrapM
    BY <2>1, TrapLeaves, TrapStep DEF NoVoid
  <2>4. CASE FlushMCause
    <3>1. M.kind \in {"ret", "fence"} BY <2>3, <2>4 DEF FlushMCause, RetM, CSRWriteFenceM
    <3>2. StallM BY <2>2, <2>4, NetworkFacts
    <3>3. PICK i \in NextM(h) : M' = Move(i) BY DEF Stages
    <3>4. M'.kind = M.kind BY <1>t, <3>2, <3>3, MStep DEF Same
    <3> QED BY <3>1, <3>4
  <2>5. CASE BPWrongE BY <1>t, <2>2, <2>3, <2>5, WrongStays
  <2> QED BY <2>1, <2>4, <2>5 DEF FlushDCause
<1>2. E'.kind # "void"
  <2>1. PICK i \in NextE(h) : E' = Move(i) BY DEF Stages
  <2> QED BY <1>t, <1>v, <2>1, EStep DEF NoVoid, Same
<1>3. M'.kind # "void"
  <2>1. PICK i \in NextM(h) : M' = Move(i) BY DEF Stages
  <2> QED BY <1>t, <2>1, MStep DEF NoVoid, Same, Advances
<1>4. wfiW' => M'.kind # "wfi" BY DEF Apart, WfiTwice
<1> QED BY <1>1, <1>2, <1>3, <1>4 DEF NoVoid

\* Instructions retire in program order, none skipped and none twice, and a trap saves
\* the address of the next, for every mixture of predictions, flushes, stalls, walks and
\* traps; except that one WFI may not follow another directly.
THEOREM RetiresInOrder ==
  ASSUME "WfiTwice" \notin Coincidences PROVE Spec => []InOrder
<1>1. Init => NoVoid BY DEF Init, NoVoid, Bubble
<1>2. OrderInv /\ NoVoid /\ [Cycle]_vars => NoVoid'
  <2>1. ASSUME OrderInv, NoVoid, Cycle PROVE NoVoid'
    <3>1. PICK c \in {FALSE, E.kind # "nop" /\ D.kind # "nop"}, fault \in {FALSE, MayFault} :
            \E h \in {Hazard(c)} : Stages(h) /\ Apart(h, fault)
      BY <2>1 DEF Cycle
    <3>2. PICK h \in {Hazard(c)} : Stages(h) /\ Apart(h, fault) BY <3>1
    <3>3. h = Hazard(c) OBVIOUS
    <3> QED BY <2>1, <3>2, <3>3, NoVoidStep
  <2>2. ASSUME NoVoid, UNCHANGED vars PROVE NoVoid'
    <3>1. UNCHANGED <<D, E, M, wfiW>> BY <2>2 DEF vars
    <3> QED BY <2>2, <3>1 DEF NoVoid, BPWrongE, Correct, Length
  <2> QED BY <2>1, <2>2
<1>3. OrderInv /\ NoVoid => InOrder
  <2> SUFFICES ASSUME OrderInv, NoVoid, Retires \/ TrapM PROVE M.at = 0 /\ M.kind # "void"
    BY DEF InOrder
  <2>1. M.kind # "nop" BY TrapLeaves DEF Retires, NoVoid
  <2> QED BY <2>1 DEF OrderInv, Ordered, NoVoid
<1> QED BY <1>1, <1>2, <1>3, InvHolds, PTL DEF Spec

(***************************************************************************)
(* Memory operations happen once.                                          *)
(***************************************************************************)
\* The cache is free where the walker does not read, and counts nothing for it; the
\* operation in the memory stage has happened once its access is past the point of no
\* return.  An operation that will fault holds back no fetch that could hold it back.
Quiescent ==
  /\ walker \notin {"IDLE", "L1_RD", "L0_RD"} => lsu = "idle"
  /\ walker = "IDLE" /\ (TLBMiss \/ M.kind \notin UsesLSU) => lsu = "idle"
  /\ walker = "IDLE" /\ M.kind = "memFault" => lsu = "idle"
  /\ walker = "IDLE" /\ M.kind = "io" => ~way
DoneCounts ==
  M.kind \in Counted =>
    /\ walker = "FAULT" => DTLBWalk
    /\ walker # "IDLE" \/ TLBMiss \/ lsu \in {"idle", "write"} => done = 0
    /\ walker = "IDLE" /\ lsu = "busy" => done = IF M.kind = "io" THEN 1 ELSE 0
    /\ walker = "IDLE" /\ lsu = "write" => M.kind # "io"
    /\ walker = "IDLE" /\ lsu = "hold" => done = 1
PromptFaults ==
  M.kind = "memFault" => /\ ifu \in {"idle", "hold"}
                         /\ dmiss => ~F.spills /\ F.from = "hit"
OnceInv == Quiescent /\ DoneCounts /\ PromptFaults

LEMMA LsuStep ==
  ASSUME StateTyped, NEW c, NEW h, h = Hazard(c), NEW fault, lsu' \in NextLsu(h, fault)
  PROVE  /\ FlushW \/ (~SelHPTW /\ TLBMiss) \/ fault => lsu' = "idle"
         /\ lsu = "idle" /\ (~LSUAsks \/ way) => lsu' = "idle"
         /\ lsu = "idle" => lsu' \in {"idle", "busy"}
         /\ lsu = "busy" => lsu' \in {"idle", "busy", IF IO \/ CSRWriteFenceM THEN "hold" ELSE "write"}
         /\ lsu = "write" => lsu' \in {"idle", "hold"}
         /\ lsu = "hold" => lsu' \in {"idle", "hold"}
         /\ lsu = "hold" /\ (~StallW \/ SelHPTW) => lsu' = "idle"
         /\ ~FlushW /\ ~(~SelHPTW /\ TLBMiss) /\ ~fault =>
              /\ lsu = "idle" /\ lsu' = "idle" => ~LSUAsks \/ way \/ IO
              /\ lsu = "busy" => lsu' # "idle"
              /\ lsu = "write" => lsu' = "hold"
              /\ lsu = "hold" /\ StallW /\ ~SelHPTW => lsu' = "hold"
<1>h. (h.FlushW <=> FlushW) /\ (h.StallW <=> StallW) BY HazardFacts
<1> DEFINE flush == LSUFlushW(h, fault)
<1>f. flush <=> FlushW \/ (~SelHPTW /\ TLBMiss) \/ fault
  BY <1>h DEF LSUFlushW, HPTWFlushW
<1>1. CASE flush
  <2>1. lsu' = "idle" BY <1>1 DEF NextLsu
  <2> QED BY <1>1, <1>f, <2>1 DEF StateTyped
<1>2. CASE ~flush /\ lsu = "idle"
  <2>1. lsu' \in IF ~LSUAsks \/ way THEN {"idle"} ELSE {"busy"} \cup (IF IO THEN {"idle"} ELSE {})
    BY <1>2 DEF NextLsu
  <2> HIDE DEF flush
  <2> QED BY <1>2, <1>f, <2>1
<1>3. CASE ~flush /\ lsu = "busy"
  <2>1. lsu' \in {"busy", IF IO \/ CSRWriteFenceM THEN "hold" ELSE "write"}
    BY <1>3 DEF NextLsu
  <2> HIDE DEF flush
  <2> QED BY <1>3, <1>f, <2>1
<1>4. CASE ~flush /\ lsu = "write"
  <2>1. lsu' = "hold" BY <1>4 DEF NextLsu
  <2> HIDE DEF flush
  <2> QED BY <1>4, <1>f, <2>1
<1>5. CASE ~flush /\ lsu = "hold"
  <2>1. lsu' = IF GatedStallW(h) THEN "hold" ELSE "idle" BY <1>5 DEF NextLsu
  <2> HIDE DEF flush
  <2> QED BY <1>5, <1>f, <1>h, <2>1 DEF GatedStallW
<1> QED BY <1>1, <1>2, <1>3, <1>4, <1>5 DEF StateTyped, CacheStates

\* What the memory stage counts and looks up.
LEMMA CountStep ==
  ASSUME StateTyped, NEW c, NEW h, h = Hazard(c), NEW fault, Memory(h, fault)
  PROVE  /\ ~StallM => done' = 0
         /\ StallM /\ (SelHPTW \/ FlushW \/ TLBMiss \/ fault) => done' = done
         /\ StallM /\ M.kind \in Counted /\ ~SelHPTW /\ ~TLBMiss /\ ~FlushW /\ ~fault =>
              /\ M.kind = "io" /\ lsu = "idle" => done' = IF lsu' = "busy" /\ done < 2
                                                            THEN done + 1 ELSE done
              /\ M.kind = "io" /\ lsu # "idle" => done' = done
              /\ M.kind # "io" /\ lsu = "write" => done' = IF done < 2 THEN done + 1 ELSE done
              /\ M.kind # "io" /\ lsu # "write" /\ StallW => done' = done
         /\ ~StallM \/ walker' # walker => way' \in Ways
         /\ StallM /\ walker' = walker => way' = way
<1>h. /\ h.FlushW <=> FlushW
      /\ h.StallW <=> StallW
      /\ h.StallM <=> StallM
  BY HazardFacts
<1>1. done' = IF ~h.StallM THEN 0
              ELSE IF Performed(h, fault) /\ done < 2 THEN done + 1 ELSE done
  BY DEF Memory
<1>2. /\ NewLookup(h) <=> ~StallM \/ walker' # walker
      /\ NewLookup(h) => way' \in Ways
      /\ ~NewLookup(h) => way' = way
  BY <1>h DEF Memory, NewLookup
<1>3. LSUFlushW(h, fault) <=> FlushW \/ (~SelHPTW /\ TLBMiss) \/ fault
  BY <1>h DEF LSUFlushW, HPTWFlushW
<1>4. Performed(h, fault) <=>
        /\ ~SelHPTW /\ M.kind \in Counted /\ ~(FlushW \/ TLBMiss \/ fault)
        /\ IF M.kind = "io" THEN lsu = "idle" /\ lsu' = "busy"
           ELSE lsu = "write" \/ (lsu = "idle" /\ way /\ ~StallW)
  BY <1>h, <1>3 DEF Performed, IO
<1>5. ~StallM => done' = 0 BY <1>1, <1>h
<1>6. StallM => done' = IF Performed(h, fault) /\ done < 2 THEN done + 1 ELSE done
  BY <1>1, <1>h
<1> HIDE DEF Counted
<1> QED BY <1>2, <1>4, <1>5, <1>6

\* An operation leaves the memory stage with the cache free for the next.
LEMMA LeavesFree ==
  ASSUME StagesTyped, StateTyped, NEW c, NEW h, h = Hazard(c), NEW fault \in {FALSE, MayFault},
         Stages(h), Memory(h, fault), ~StallM
  PROVE  lsu' = "idle" /\ walker' = "IDLE" /\ done' = 0
<1>1. walker' = "IDLE" BY WalkStep
<1>2. done' = 0 BY CountStep
<1>3. lsu' \in NextLsu(h, fault) BY DEF Memory
<1>4. CASE FlushWCause BY <1>1, <1>2, <1>3, <1>4, LsuStep, NetworkFacts
<1>5. CASE ~FlushWCause
  <2>1. ~StallW /\ ~DCacheBusStallM BY <1>5, NetworkFacts DEF LSUStallM
  <2>2. lsu \in {"idle", "hold"} /\ (lsu = "idle" => ~LSUAsks \/ way)
    BY <2>1 DEF DCacheBusStallM, StateTyped, CacheStates
  <2> QED BY <1>1, <1>2, <1>3, <2>1, <2>2, LsuStep
<1> QED BY <1>4, <1>5

Rare == {"WalkFault", "SplitMiss", "LateFault"}

LEMMA PromptStep ==
  ASSUME OrderInv, OnceInv, Rare \cap Coincidences = {},
         NEW c \in {FALSE, E.kind # "nop" /\ D.kind # "nop"}, NEW h, h = Hazard(c),
         NEW fault \in {FALSE, MayFault}, Fetch(h), Stages(h), Memory(h, fault), Apart(h, fault)
  PROVE  PromptFaults'
<1>t. StagesTyped /\ FTyped /\ StateTyped /\ Halves /\ Walks BY DEF OrderInv
<1>h. /\ h.StallD <=> StallE \/ (c /\ ~FlushDCause)
      /\ h.StallM <=> StallM
  BY HazardFacts
<1> SUFFICES ASSUME M'.kind = "memFault"
             PROVE  /\ ifu' \in {"idle", "hold"}
                    /\ dmiss' => ~F'.spills /\ F'.from = "hit"
  BY DEF PromptFaults
<1>i. /\ FlushDCause => ifu' = "idle"
      /\ ~IFUStallF /\ ifu \in {"idle", "hold"} => ifu' \in {"idle", "hold"}
      /\ ~FlushDCause /\ F.from = "hit" /\ ifu \in {"idle", "hold"} => ifu' \in {"idle", "hold"}
  BY <1>t, IfuStep DEF Fetch
<1>1. CASE ~StallM
  <2>1. ifu' \in {"idle", "hold"}
    <3>1. CASE FlushDCause BY <3>1, <1>i
    <3>2. CASE ~FlushDCause
      <4>1. ~IFUStallF BY <1>1, <3>2, NetworkFacts
      <4>2. ifu \in {"idle", "hold"}
        BY <1>t, <4>1 DEF IFUStallF, IFUCacheBusStallF, StateTyped, CacheStates
      <4> QED BY <4>1, <4>2, <1>i
    <3> QED BY <3>1, <3>2
  <2>2. ASSUME dmiss' PROVE ~F'.spills /\ F'.from = "hit"
    <3>1. ~(F'.spills \/ F'.from # "hit")
      BY <1>1, <1>h, <2>2 DEF Apart, LateFault, Rare
    <3> QED BY <3>1
  <2> QED BY <2>1, <2>2
<1>2. CASE StallM
  <2>1. M.kind = "memFault" BY <1>t, <1>2, WalkStep
  <2>2. ifu \in {"idle", "hold"} /\ (dmiss => ~F.spills /\ F.from = "hit")
    BY <2>1 DEF OnceInv, PromptFaults
  <2>3. dmiss
    <3>1. CASE walker = "IDLE"
      <4> SUFFICES ASSUME ~dmiss PROVE FALSE
        OBVIOUS
      <4>1. TrapM /\ ~wfiM
        BY <2>1, <2>2, <3>1 DEF TrapM, ExceptionM, SelHPTW, CommittedF, wfiM
      <4> QED BY <1>2, <4>1, NetworkFacts
    <3>2. CASE walker # "IDLE" BY <1>t, <2>1, <3>2 DEF Walks, DTLBMiss
    <3> QED BY <3>1, <3>2
  <2>4. ifu' \in {"idle", "hold"} BY <2>2, <2>3, <1>i
  <2>5. ~TakeSpillF /\ ~ITLBWriteF /\ spill # "SPILL" /\ h.StallD
    BY <1>t, <1>2, <1>h, <2>1, <2>2, <2>3, NetworkFacts
    DEF TakeSpillF, ITLBWriteF, Halves, Walks
  <2>6. F'.spills = F.spills /\ F'.from = F.from BY <1>t, <2>5, FStep DEF Fetch
  <2> QED BY <2>2, <2>3, <2>4, <2>6
<1> QED BY <1>1, <1>2

LEMMA OnceStep ==
  ASSUME OrderInv, OnceInv, Rare \cap Coincidences = {},
         NEW c \in {FALSE, E.kind # "nop" /\ D.kind # "nop"}, NEW h, h = Hazard(c),
         NEW fault \in {FALSE, MayFault}, Fetch(h), Stages(h), Memory(h, fault), Apart(h, fault)
  PROVE  Quiescent' /\ DoneCounts'
<1>t. StagesTyped /\ FTyped /\ StateTyped /\ Halves /\ Walks /\ Quiescent /\ DoneCounts
  BY DEF OrderInv, OnceInv
<1>h. /\ h.StallD <=> StallE \/ (c /\ ~FlushDCause)
      /\ h.FlushW <=> FlushW
  BY HazardFacts
<1>n. lsu' \in NextLsu(h, fault) /\ walker' \in NextWalker(h, fault) BY DEF Memory
<1>w. /\ StallM => M'.kind = M.kind
      /\ walker' # "IDLE" =>
           /\ StallM /\ StallW /\ ~FlushW /\ dmiss' = dmiss /\ walker \notin {"LEAF", "FAULT"}
           /\ walker = "IDLE" => TLBMiss
           /\ DTLBWalk' <=> IF walker = "IDLE" THEN DTLBMiss ELSE DTLBWalk
      /\ StallM => (dmiss' <=> dmiss /\ ~(walker = "LEAF" /\ DTLBWalk))
      /\ fault => MayFault
  BY <1>t, WalkStep
<1>y. walker' = "IDLE" /\ M'.kind = "io" => Ways = {FALSE} BY DEF Ways
<1>1. CASE ~StallM
  <2>1. lsu' = "idle" /\ walker' = "IDLE" /\ done' = 0 BY <1>1, <1>t, LeavesFree
  <2>2. way' \in Ways BY <1>1, <1>t, CountStep
  <2>3. Quiescent' BY <2>1, <2>2, <1>y DEF Quiescent
  <2>4. DoneCounts' BY <2>1 DEF DoneCounts
  <2> QED BY <2>3, <2>4
<1>2. CASE StallM /\ FlushW
  <2>1. ~StallW /\ WFIStallM BY <1>2, NetworkFacts DEF FlushW, StallM
  <2>2. M'.kind = "wfi" BY <1>2, <1>w, <2>1 DEF WFIStallM, wfiM
  <2>3. lsu' = "idle" BY <1>2, <1>t, <1>n, LsuStep
  <2>4. walker' = "IDLE" BY <1>2, <1>w
  <2> QED BY <2>2, <2>3, <2>4 DEF Quiescent, DoneCounts, Counted
<1>3. CASE StallM /\ ~FlushW /\ walker = "IDLE" /\ TLBMiss
  <2>1. ~fault BY <1>3, <1>w DEF MayFault, Reading
  <2>2. walker' = "L1_ADR" BY <1>3, <1>h, <1>n, <2>1 DEF NextWalker
  <2>3. lsu' = "idle" BY <1>3, <1>t, <1>n, LsuStep DEF SelHPTW
  <2>4. done' = done BY <1>3, <1>t, CountStep
  <2>5. Quiescent' BY <2>2, <2>3 DEF Quiescent
  <2>6. DoneCounts'
    <3> SUFFICES ASSUME M'.kind \in Counted PROVE done' = 0
      BY <2>2 DEF DoneCounts, Counted
    <3>1. M.kind \in Counted BY <1>3, <1>w
    <3> QED BY <1>3, <1>t, <2>4, <3>1 DEF DoneCounts
  <2> QED BY <2>5, <2>6
<1>4. CASE StallM /\ ~FlushW /\ walker = "IDLE" /\ ~TLBMiss
  <2>1. ~fault /\ ~SelHPTW /\ StallW BY <1>4, <1>w DEF MayFault, Reading, SelHPTW, FlushW
  <2>2. walker' = "IDLE" BY <1>4, <1>w
  <2>k. M'.kind = M.kind BY <1>4, <1>w
  <2>3. TLBMiss' => lsu' = "idle"
    <3> SUFFICES ASSUME TLBMiss' PROVE lsu' = "idle"
      OBVIOUS
    <3>1. ~DTLBMiss' BY <1>4, <1>w DEF TLBMiss, DTLBMiss
    <3>2. F'.miss BY <3>1 DEF TLBMiss
    <3>3. h.StallD BY <1>4, <1>h, NetworkFacts
    <3>4. TakeSpillF BY <1>4, <1>t, <3>2, <3>3, FStep DEF TLBMiss, Fetch
    <3> QED BY <3>2, <3>4 DEF Apart, SplitMiss, Rare
  <2>s. /\ lsu = "idle" /\ (~LSUAsks \/ way) => lsu' = "idle"
        /\ lsu = "idle" => lsu' \in {"idle", "busy"}
        /\ lsu = "busy" => lsu' \in {"busy", IF IO \/ CSRWriteFenceM THEN "hold" ELSE "write"}
        /\ lsu = "write" => lsu' = "hold"
        /\ lsu = "hold" => lsu' = "hold"
    BY <1>4, <1>t, <1>n, <2>1, LsuStep
  <2>4. way' = way BY <1>4, <1>t, <2>2, CountStep
  <2>5. M.kind \notin UsesLSU => lsu' = "idle"
    BY <1>4, <1>t, <2>1, <2>s DEF Quiescent, LSUAsks
  <2>6. M.kind # "memFault" \/ lsu' = "idle"
    <3> SUFFICES ASSUME M.kind = "memFault", lsu' # "idle" PROVE FALSE
      OBVIOUS
    <3>1. ~dmiss BY <1>4 DEF TLBMiss, DTLBMiss, Counted
    <3>2. ~CommittedF BY DEF OnceInv, PromptFaults, CommittedF
    <3>3. TrapM /\ ~wfiM BY <2>1, <3>1, <3>2 DEF TrapM, ExceptionM, wfiM
    <3> QED BY <1>4, <3>3, NetworkFacts
  <2>7. Quiescent' BY <2>2, <2>k, <2>3, <2>4, <2>5, <2>6, <1>4, <1>t DEF Quiescent, UsesLSU
  <2>8. DoneCounts'
    <3> SUFFICES ASSUME M.kind \in Counted
                 PROVE  /\ lsu' \in {"idle", "write"} => done' = 0
                        /\ lsu' = "busy" => done' = IF M.kind = "io" THEN 1 ELSE 0
                        /\ lsu' = "write" => M.kind # "io"
                        /\ lsu' = "hold" => done' = 1
      BY <2>2, <2>3, <2>k DEF DoneCounts, Counted
    <3>1. /\ lsu \in {"idle", "write"} => done = 0
          /\ lsu = "busy" => done = IF M.kind = "io" THEN 1 ELSE 0
          /\ lsu = "write" => M.kind # "io"
          /\ lsu = "hold" => done = 1
      BY <1>4, <1>t DEF DoneCounts
    <3>2. /\ M.kind = "io" /\ lsu = "idle" => done' = IF lsu' = "busy" /\ done < 2
                                                        THEN done + 1 ELSE done
          /\ M.kind = "io" /\ lsu # "idle" => done' = done
          /\ M.kind # "io" /\ lsu = "write" => done' = IF done < 2 THEN done + 1 ELSE done
          /\ M.kind # "io" /\ lsu # "write" => done' = done
      BY <1>4, <1>t, <2>1, CountStep
    <3>3. /\ IO <=> M.kind = "io"
          /\ ~CSRWriteFenceM
      BY <2>1 DEF IO, CSRWriteFenceM, Counted
    <3>4. lsu \in {"idle", "busy", "write", "hold"} BY <1>t DEF StateTyped, CacheStates
    <3>5. CASE lsu = "idle" BY <2>s, <3>1, <3>2, <3>5
    <3>6. CASE lsu = "busy" BY <2>s, <3>1, <3>2, <3>3, <3>6
    <3>7. CASE lsu = "write" BY <2>s, <3>1, <3>2, <3>7
    <3>8. CASE lsu = "hold" BY <2>s, <3>1, <3>2, <3>8
    <3> QED BY <3>4, <3>5, <3>6, <3>7, <3>8
  <2> QED BY <2>7, <2>8
<1>5. CASE StallM /\ ~FlushW /\ walker # "IDLE"
  <2>1. SelHPTW /\ done' = done /\ M'.kind = M.kind
    BY <1>5, <1>t, <1>w, CountStep DEF SelHPTW
  <2>2. M.kind \in Counted => done' = 0 BY <1>5, <1>t, <2>1 DEF DoneCounts
  <2>3. walker' \notin {"L1_RD", "L0_RD"} => lsu' = "idle"
    <3> SUFFICES ASSUME walker' \notin {"L1_RD", "L0_RD"} PROVE lsu' = "idle"
      OBVIOUS
    <3>1. CASE fault BY <3>1, <1>t, <1>n, LsuStep
    <3>2. CASE ~fault /\ walker \in {"L1_RD", "L0_RD"}
      <4>1. ~DCacheBusStallM BY <1>5, <1>h, <1>n, <3>2 DEF NextWalker
      <4>2. lsu \in {"idle", "hold"} /\ (lsu = "idle" => ~LSUAsks \/ way)
        BY <1>t, <4>1 DEF DCacheBusStallM, StateTyped, CacheStates
      <4> QED BY <1>t, <1>n, <2>1, <4>2, LsuStep
    <3>3. CASE ~fault /\ walker \notin {"L1_RD", "L0_RD"}
      <4>1. lsu = "idle" BY <1>5, <1>t, <3>3 DEF Quiescent
      <4>2. ~LSUAsks BY <2>1, <3>3 DEF LSUAsks, Reading
      <4> QED BY <1>t, <1>n, <4>1, <4>2, LsuStep
    <3> QED BY <3>1, <3>2, <3>3
  <2>4. walker' = "IDLE" /\ M'.kind = "io" => ~way'
    <3>1. walker' = "IDLE" => way' \in Ways BY <1>5, <1>t, CountStep
    <3> QED BY <3>1, <1>y
  <2>5. M.kind \in Counted /\ walker' = "FAULT" => DTLBWalk'
    <3> SUFFICES ASSUME M.kind \in Counted, walker' = "FAULT" PROVE DTLBWalk'
      OBVIOUS
    <3>1. fault BY <1>5, <1>h, <1>n, <1>w DEF NextWalker
    <3>2. DTLBWalk BY <3>1 DEF Apart, WalkFault, Rare
    <3> QED BY <1>5, <1>w, <3>2
  <2>6. Quiescent' BY <2>3, <2>4 DEF Quiescent
  <2>7. DoneCounts'
    <3>1. M'.kind \in Counted => done' = 0 BY <2>1, <2>2
    <3> QED BY <2>1, <2>3, <2>5, <3>1 DEF DoneCounts, Counted
  <2> QED BY <2>6, <2>7
<1> QED BY <1>1, <1>2, <1>3, <1>4, <1>5

LEMMA OnceHolds ==
  ASSUME OrderInv, OnceInv, M.kind \in Counted
  PROVE  /\ Retires => done + (IF Finishing THEN 1 ELSE 0) = 1
         /\ TrapM => done = 0
<1>t. StateTyped /\ Walks /\ WrongIdle /\ DoneCounts /\ Quiescent
  BY DEF OrderInv, OnceInv
<1>k. ~wfiM /\ ~RetM /\ ~CSRWriteFenceM /\ M.kind \in UsesLSU
  BY DEF Counted, UsesLSU, wfiM, RetM, CSRWriteFenceM
<1>1. ASSUME Retires PROVE done + (IF Finishing THEN 1 ELSE 0) = 1
  <2>1. ~StallW /\ ~FlushW /\ ~TrapM BY <1>1, <1>k, NetworkFacts DEF Retires
  <2>2. ~HPTWStall /\ ~DCacheBusStallM BY <2>1, NetworkFacts DEF LSUStallM
  <2>3. walker # "FAULT"
    <3> SUFFICES ASSUME walker = "FAULT" PROVE FALSE
      OBVIOUS
    <3>1. ExceptionM BY <1>t DEF DoneCounts, ExceptionM
    <3>2. CommittedF BY <2>1, <3>1 DEF TrapM
    <3>3. IFUStallF BY <3>2 DEF CommittedF, IFUStallF, IFUCacheBusStallF
    <3>4. FlushDCause BY <2>1, <3>3, NetworkFacts
    <3>5. BPWrongE BY <1>k, <2>1, <3>4 DEF FlushDCause, FlushMCause
    <3> QED BY <1>t, <3>2, <3>5 DEF WrongIdle, CommittedF
  <2>4. walker = "IDLE" /\ ~TLBMiss BY <2>2, <2>3 DEF HPTWStall, SelHPTW
  <2>5. CASE lsu = "idle"
    <3>1. way BY <1>k, <2>2, <2>4, <2>5 DEF DCacheBusStallM, LSUAsks, SelHPTW
    <3>2. Finishing BY <2>4, <2>5, <3>1 DEF Finishing, SelHPTW
    <3>3. done = 0 BY <1>t, <2>5 DEF DoneCounts
    <3> QED BY <3>2, <3>3
  <2>6. CASE lsu = "hold"
    <3>1. ~Finishing BY <2>6 DEF Finishing
    <3>2. done = 1 BY <1>t, <2>4, <2>6 DEF DoneCounts
    <3> QED BY <3>1, <3>2
  <2> QED BY <1>t, <2>2, <2>5, <2>6 DEF DCacheBusStallM, StateTyped, CacheStates
<1>2. ASSUME TrapM PROVE done = 0
  <2>1. CASE walker # "IDLE" BY <1>t, <2>1 DEF DoneCounts
  <2>2. CASE walker = "IDLE" /\ InterruptM
    <3>1. lsu = "idle" BY <2>2 DEF InterruptM, CommittedM
    <3> QED BY <1>t, <3>1 DEF DoneCounts
  <2>3. CASE walker = "IDLE" /\ ~InterruptM
    <3>1. M.kind = "memFault" BY <1>2, <2>3 DEF TrapM, ExceptionM, Counted
    <3>2. lsu = "idle" BY <1>t, <2>3, <3>1 DEF Quiescent
    <3> QED BY <1>t, <3>2 DEF DoneCounts
  <2> QED BY <2>1, <2>2, <2>3
<1> QED BY <1>1, <1>2

\* A memory operation that retires was performed exactly once and one that traps not at
\* all, through every walk, fetch, interrupt and stall; except where a walk for fetch
\* fails beside it, the second half of an instruction misses the buffer while its access
\* is under way, or a fetch holds back the fault that its own walk found.
THEOREM PerformedExactlyOnce ==
  ASSUME Rare \cap Coincidences = {} PROVE Spec => []ExactlyOnce
<1>1. Init => OnceInv
  BY BubbleFacts DEF Init, OnceInv, Quiescent, DoneCounts, PromptFaults, Counted
<1>2. OrderInv /\ OnceInv /\ [Cycle]_vars => OnceInv'
  <2>1. ASSUME OrderInv, OnceInv, Cycle PROVE OnceInv'
    <3>1. PICK c \in {FALSE, E.kind # "nop" /\ D.kind # "nop"}, fault \in {FALSE, MayFault} :
            \E h \in {Hazard(c)} :
              Fetch(h) /\ Stages(h) /\ Memory(h, fault) /\ Apart(h, fault)
      BY <2>1 DEF Cycle
    <3>2. PICK h \in {Hazard(c)} :
            Fetch(h) /\ Stages(h) /\ Memory(h, fault) /\ Apart(h, fault)
      BY <3>1
    <3>3. h = Hazard(c) OBVIOUS
    <3>4. PromptFaults' BY <2>1, <3>2, <3>3, PromptStep
    <3>5. Quiescent' /\ DoneCounts' BY <2>1, <3>2, <3>3, OnceStep
    <3> QED BY <3>4, <3>5 DEF OnceInv
  <2>2. ASSUME OnceInv, UNCHANGED vars PROVE OnceInv'
    <3>1. UNCHANGED <<F, ifu, M, lsu, way, dmiss, done, walker, DTLBWalk>>
      BY <2>2 DEF vars, front, back
    <3> QED BY <2>2, <3>1 DEF OnceInv, Quiescent, DoneCounts, PromptFaults, TLBMiss, DTLBMiss,
                              Counted, UsesLSU
  <2> QED BY <2>1, <2>2
<1>3. OrderInv /\ OnceInv => ExactlyOnce BY OnceHolds DEF ExactlyOnce
<1> QED BY <1>1, <1>2, <1>3, InvHolds, PTL DEF Spec
=============================================================================
