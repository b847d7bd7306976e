----------------------------- MODULE PlicProofs -----------------------------
(***************************************************************************)
(* Theorems about the interrupt controller, for every number of sources,   *)
(* contexts and priority levels.                                           *)
(***************************************************************************)
EXTENDS Plic, WellFoundedInduction, TLAPS

LEMMA Least ==
  ASSUME NEW T, T \subseteq Nat, T # {}
  PROVE  \E x \in T : \A y \in T : x <= y
<1>1. PICK x \in T : \A y \in T : ~ (<<y, x>> \in OpToRel(<, Nat))
  BY NatLessThanWellFounded, WFMin
<1>2. \A y \in T : y < x => <<y, x>> \in OpToRel(<, Nat)
  BY DEF OpToRel
<1>3. \A y \in T : x <= y
  <2>1. SUFFICES ASSUME NEW y \in T PROVE x <= y OBVIOUS
  <2>2. x \in Nat /\ y \in Nat /\ ~(y < x) BY <1>1, <1>2
  <2> QED BY <2>2
<1> QED BY <1>3

LEMMA SourceNumbers == Sources \subseteq Nat /\ Sources \subseteq 0 .. NumSources
BY PlicAssumption DEF Sources

\* A claim is a source that waits, or 0.
LEMMA ClaimWaits ==
  ASSUME TypeOK, NEW c \in Contexts
  PROVE  IntClaim(c) \in 0 .. NumSources /\ IntClaim(c) \in intPending \cup {0}
<1>1. IrqsAtMax(c) \subseteq intPending
  BY DEF IrqsAtMax, MaxLevel, LevelsWithIrqs, Active
<1>2. IrqsAtMax(c) \subseteq Nat /\ intPending \subseteq 0 .. NumSources
  BY <1>1, SourceNumbers DEF TypeOK
<1>3. CASE IrqsAtMax(c) = {}
  BY <1>3, PlicAssumption DEF IntClaim
<1>4. CASE IrqsAtMax(c) # {}
  <2>1. \E s \in IrqsAtMax(c) : \A t \in IrqsAtMax(c) : s <= t
    BY <1>2, <1>4, Least
  <2>2. IntClaim(c) \in IrqsAtMax(c) BY <1>4, <2>1 DEF IntClaim
  <2> QED BY <1>1, <1>2, <2>2
<1> QED BY <1>3, <1>4

LEMMA ClaimContext ==
  ASSUME TypeOK, apb # "idle", tx.kind = "claim"
  PROVE  tx.ctx \in Contexts
BY DEF TypeOK, Transfers, Claims, Completes, Writes
-----------------------------------------------------------------------------
(***************************************************************************)
(* Types.                                                                  *)
(***************************************************************************)
LEMMA ClockType ==
  ASSUME TypeOK, Clock PROVE requests' \subseteq Sources /\ intPending' \subseteq Sources
BY DEF TypeOK, Clock, Drive, NextIntPending

LEMMA ReadClaimType ==
  ASSUME TypeOK, apb # "idle", tx.kind = "claim", ReadClaim
  PROVE  Dout' \in 0 .. NumSources /\ intInProgress' \subseteq Sources
<1>1. IntClaim(tx.ctx) \in 0 .. NumSources BY ClaimContext, ClaimWaits
<1>2. IntClaim(tx.ctx) \in Sources \cup {0} BY <1>1, PlicAssumption DEF Sources
<1> QED BY <1>1, <1>2 DEF ReadClaim, TypeOK

LEMMA NextType == ASSUME TypeOK, [Next]_vars PROVE TypeOK'
<1>1. CASE UNCHANGED vars BY <1>1 DEF TypeOK, vars, config
<1>2. CASE Idle BY <1>2, ClockType, PlicAssumption DEF Idle, TypeOK, config
<1>3. ASSUME NEW t \in Transfers, Begin(t) PROVE TypeOK'
  BY <1>3, ClockType, PlicAssumption DEF Begin, TypeOK, config
<1>4. CASE Setup
  <2>1. Dout' \in 0 .. NumSources /\ intInProgress' \subseteq Sources
    BY <1>4, ReadClaimType, PlicAssumption DEF Setup, TypeOK
  <2> QED BY <1>4, <2>1, ClockType DEF Setup, TypeOK, config
<1>5. CASE Access
  <2>1. apb' = "idle" /\ tx' = Nothing BY <1>5 DEF Access
  <2>2. requests' \subseteq Sources /\ intPending' \subseteq Sources
    BY <1>5, ClockType DEF Access
  <2>3. CASE AccessClaim
    <3>1. Dout' \in 0 .. NumSources /\ intInProgress' \subseteq Sources
      BY <1>5, <2>3, ReadClaimType DEF AccessClaim, Access
    <3>2. held' \subseteq Sources BY <2>3 DEF AccessClaim, TypeOK, Sources
    <3> QED BY <2>1, <2>2, <2>3, <3>1, <3>2 DEF AccessClaim, TypeOK, config
  <2>4. CASE AccessComplete
    BY <2>1, <2>2, <2>4, PlicAssumption DEF AccessComplete, TypeOK, config
  <2>5. CASE AccessWrite
    <3>1. tx \in Transfers BY <1>5 DEF Access, TypeOK
    <3>2. CASE tx.kind = "priority"
      <4>1. tx.id \in Sources /\ tx.level \in Priorities
        BY <3>1, <3>2 DEF Transfers, Claims, Completes, Writes
      <4> QED BY <2>1, <2>2, <2>5, <3>2, <4>1, PlicAssumption DEF AccessWrite, TypeOK
    <3>3. CASE tx.kind = "enable"
      <4>1. tx.ctx \in Contexts /\ tx.set \in SUBSET Sources
        BY <3>1, <3>3 DEF Transfers, Claims, Completes, Writes
      <4> QED BY <2>1, <2>2, <2>5, <3>3, <4>1, PlicAssumption DEF AccessWrite, TypeOK
    <3>4. CASE tx.kind = "threshold"
      <4>1. tx.ctx \in Contexts /\ tx.level \in Priorities
        BY <3>1, <3>4 DEF Transfers, Claims, Completes, Writes
      <4> QED BY <2>1, <2>2, <2>5, <3>4, <4>1, PlicAssumption DEF AccessWrite, TypeOK
    <3> QED BY <2>5, <3>2, <3>3, <3>4 DEF AccessWrite
  <2> QED BY <1>5, <2>3, <2>4, <2>5 DEF Access
<1> QED BY <1>1, <1>2, <1>3, <1>4, <1>5 DEF Next

LEMMA TypeInit == Init => TypeOK
BY PlicAssumption DEF Init, TypeOK, Sources, Priorities
-----------------------------------------------------------------------------
(***************************************************************************)
(* What the hart has claimed stays closed.                                 *)
(***************************************************************************)
\* Everything claimed is marked, and what is marked no longer waits once the
\* transfer that marked it is over.
Marked ==
  /\ held \cup InTransit \subseteq intInProgress
  /\ ServedOnce

LEMMA PendingStep ==
  ASSUME Clock PROVE intPending' \cap intInProgress = {}
BY DEF Clock, NextIntPending

LEMMA MarkedStep == ASSUME TypeOK, Marked, [Next]_vars PROVE Marked'
<1> USE DEF Marked, ServedOnce, InTransit
<1>1. CASE UNCHANGED vars BY <1>1 DEF vars
<1>2. CASE Idle BY <1>2, PendingStep DEF Idle
<1>3. ASSUME NEW t \in Transfers, Begin(t) PROVE Marked'
  BY <1>3, PendingStep DEF Begin
<1>4. CASE Setup
  <2>1. held' = held /\ tx' = tx /\ apb = "setup" /\ intPending' \cap held = {}
    BY <1>4, PendingStep DEF Setup
  <2>2. CASE tx.kind = "claim"
    <3>1. tx.ctx \in Contexts BY <2>1, <2>2, ClaimContext
    <3>2. IntClaim(tx.ctx) \in intPending \cup {0} BY <3>1, ClaimWaits
    <3>3. Dout' = IntClaim(tx.ctx)
          /\ intInProgress' = intInProgress \cup ({IntClaim(tx.ctx)} \ {0})
      BY <1>4, <2>2 DEF Setup, ReadClaim
    <3> QED BY <2>1, <3>2, <3>3
  <2>3. CASE tx.kind # "claim" BY <1>4, <2>1, <2>3 DEF Setup
  <2> QED BY <2>2, <2>3
<1>5. CASE Access
  <2>1. apb = "access" /\ apb' = "idle" /\ intPending' \cap intInProgress = {}
    BY <1>5, PendingStep DEF Access
  <2>2. CASE AccessClaim BY <2>1, <2>2 DEF AccessClaim, ReadClaim
  <2>3. CASE AccessComplete BY <2>1, <2>3 DEF AccessComplete
  <2>4. CASE AccessWrite BY <2>1, <2>4 DEF AccessWrite
  <2> QED BY <1>5, <2>2, <2>3, <2>4 DEF Access
<1> QED BY <1>1, <1>2, <1>3, <1>4, <1>5 DEF Next

(***************************************************************************)
(* No source closed and unknown to the hart, if no request rises while a   *)
(* claim is set up: then the second read of the register repeats the       *)
(* first.                                                                  *)
(***************************************************************************)
Repeated ==
  /\ ClosedIsHeld
  /\ apb # "access" => intPending \cap intInProgress = {}
  /\ apb = "setup" /\ tx.kind = "claim" => requests \ intInProgress \subseteq intPending
  /\ apb = "access" /\ tx.kind = "claim" => IntClaim(tx.ctx) = Dout

LEMMA RepeatedStep ==
  ASSUME QuietClaims = TRUE, TypeOK, Marked, Repeated, [Next]_vars
  PROVE  Repeated'
<1> USE DEF Repeated, ClosedIsHeld, InTransit
<1>1. CASE UNCHANGED vars
  BY <1>1 DEF vars, config, IntClaim, IrqsAtMax, MaxLevel, LevelsWithIrqs, Active
<1>2. CASE Idle BY <1>2, PendingStep DEF Idle
<1>3. ASSUME NEW t \in Transfers, Begin(t) PROVE Repeated'
  <2>1. apb' = "setup" /\ tx' = t /\ intInProgress' = intInProgress /\ held' = held
    BY <1>3 DEF Begin
  <2>2. t.kind = "claim" => requests' \ intInProgress \subseteq intPending'
    BY <1>3 DEF Begin, Calm, Clock, NextIntPending
  <2> QED BY <1>3, <2>1, <2>2, PendingStep DEF Begin
<1>4. CASE Setup
  <2>1. apb = "setup" /\ apb' = "access" /\ held' = held /\ tx' = tx
    BY <1>4 DEF Setup
  <2>2. CASE tx.kind = "claim"
    <3>1. intPending' = intPending
      BY <1>4, <2>1, <2>2 DEF Setup, Clock, NextIntPending
    <3>2. IntClaim(tx.ctx)' = IntClaim(tx.ctx)
      BY <1>4, <2>1, <3>1
         DEF Setup, config, IntClaim, IrqsAtMax, MaxLevel, LevelsWithIrqs, Active
    <3>3. Dout' = IntClaim(tx.ctx)
          /\ intInProgress' = intInProgress \cup ({IntClaim(tx.ctx)} \ {0})
      BY <1>4, <2>2 DEF Setup, ReadClaim
    <3> QED BY <2>1, <2>2, <3>2, <3>3
  <2>3. CASE tx.kind # "claim" BY <1>4, <2>1, <2>3 DEF Setup
  <2> QED BY <2>2, <2>3
<1>5. CASE Access
  <2>1. apb = "access" /\ apb' = "idle" /\ intPending' \cap intInProgress = {}
    BY <1>5, PendingStep DEF Access
  <2>2. CASE AccessClaim
    <3>1. IntClaim(tx.ctx) = Dout BY <2>1, <2>2 DEF AccessClaim
    <3> QED BY <2>1, <2>2, <3>1 DEF AccessClaim, ReadClaim
  <2>3. CASE AccessComplete BY <2>1, <2>3 DEF AccessComplete
  <2>4. CASE AccessWrite BY <2>1, <2>4 DEF AccessWrite
  <2> QED BY <1>5, <2>2, <2>3, <2>4 DEF Access
<1> QED BY <1>1, <1>2, <1>3, <1>4, <1>5 DEF Next
-----------------------------------------------------------------------------
(***************************************************************************)
(* What a context is offered.                                              *)
(***************************************************************************)
LEMMA Greatest ==
  ASSUME NEW n \in Nat, NEW T, T \subseteq 0 .. n, T # {}
  PROVE  \E x \in T : \A y \in T : y <= x
<1> DEFINE U == {n - y : y \in T}
<1>1. U \subseteq Nat /\ U # {}
  <2>1. \A y \in T : n - y \in Nat OBVIOUS
  <2>2. U \subseteq Nat BY <2>1
  <2>3. PICK y \in T : TRUE OBVIOUS
  <2>4. n - y \in U BY <2>3
  <2> QED BY <2>2, <2>4
<1>2. PICK u \in U : \A v \in U : u <= v BY <1>1, Least
<1>3. PICK x \in T : u = n - x BY <1>2
<1>4. ASSUME NEW y \in T PROVE y <= x
  <2>1. n - y \in U BY DEF U
  <2>2. n - x <= n - y BY <1>2, <1>3, <2>1
  <2> QED BY <2>2
<1> QED BY <1>4

\* A source that waits waits at a level with an interrupt, and only those do.
LEMMA LevelsWait ==
  ASSUME TypeOK, NEW c \in Contexts
  PROVE  LevelsWithIrqs(c) = {intPriority[s] : s \in Waiting(c)}
BY PlicAssumption DEF LevelsWithIrqs, Active, Waiting, TypeOK, Priorities

\* The claim is the lowest of the sources that wait at the highest level.
LEMMA ClaimIsMostUrgent ==
  ASSUME TypeOK, NEW c \in Contexts, Waiting(c) # {}
  PROVE  /\ IntClaim(c) \in Waiting(c)
         /\ \A s \in Waiting(c) :
              /\ intPriority[s] <= intPriority[IntClaim(c)]
              /\ intPriority[s] = intPriority[IntClaim(c)] => IntClaim(c) <= s
<1>1. /\ LevelsWithIrqs(c) \subseteq 0 .. MaxPriority /\ LevelsWithIrqs(c) # {}
      /\ MaxPriority \in Nat
  BY LevelsWait, PlicAssumption DEF LevelsWithIrqs, Priorities
<1>2. PICK p \in LevelsWithIrqs(c) : \A q \in LevelsWithIrqs(c) : q <= p
  BY <1>1, Greatest
<1>3. MaxLevel(c) = {p}
  <2>1. \A q \in LevelsWithIrqs(c) : q # p => p > q BY <1>1, <1>2
  <2>2. \A q \in Priorities : q > p => q \notin LevelsWithIrqs(c)
    BY <1>1, <1>2 DEF Priorities
  <2> QED BY <1>1, <1>2, <2>1, <2>2 DEF MaxLevel, Priorities
<1>4. IrqsAtMax(c) = Active(c, p) BY <1>3 DEF IrqsAtMax
<1>5. /\ Active(c, p) = {s \in Waiting(c) : intPriority[s] = p}
      /\ Active(c, p) # {} /\ Active(c, p) \subseteq Nat
  BY <1>2, SourceNumbers DEF LevelsWithIrqs, Active, Waiting, TypeOK
<1>6. \E s \in IrqsAtMax(c) : \A t \in IrqsAtMax(c) : s <= t
  BY <1>4, <1>5, Least
<1>7. /\ IntClaim(c) \in IrqsAtMax(c)
      /\ \A t \in IrqsAtMax(c) : IntClaim(c) <= t
  BY <1>4, <1>5, <1>6 DEF IntClaim
<1>8. \A s \in Waiting(c) : intPriority[s] \in LevelsWithIrqs(c)
  BY LevelsWait
<1> QED BY <1>2, <1>4, <1>5, <1>7, <1>8

\* The mask of levels is the levels above the threshold.
LEMMA MaskIsAbove ==
  ASSUME TypeOK, NEW c \in Contexts, NEW p \in Priorities, p > 0
  PROVE  p \in ThreshMask(c) <=> p > intThreshold[c]
<1>1. intThreshold[c] \in 0 .. MaxPriority /\ p \in 0 .. MaxPriority /\ MaxPriority \in Nat
  BY PlicAssumption DEF TypeOK, Priorities
<1>2. intThreshold[c] \in p .. MaxPriority <=> ~(p > intThreshold[c]) BY <1>1
<1> QED BY <1>2 DEF ThreshMask

LEMMA AboveIsInterrupted ==
  ASSUME TypeOK, NEW c \in Contexts
  PROVE  ExtInt(c) <=> \E s \in Waiting(c) : intPriority[s] > intThreshold[c]
<1>1. \A s \in Waiting(c) : intPriority[s] \in Priorities /\ intPriority[s] > 0
  BY DEF Waiting, TypeOK
<1>2. \A s \in Waiting(c) : intPriority[s] \in ThreshMask(c) <=> intPriority[s] > intThreshold[c]
  BY <1>1, MaskIsAbove
<1> QED BY <1>2, LevelsWait DEF ExtInt

LEMMA OfferedWhenTyped == ASSUME TypeOK PROVE Offered
<1>1. SUFFICES ASSUME NEW c \in Contexts
      PROVE /\ ExtInt(c) <=> \E s \in Waiting(c) : intPriority[s] > intThreshold[c]
            /\ IntClaim(c) = 0 <=> Waiting(c) = {}
            /\ \A s \in Waiting(c) :
                 /\ IntClaim(c) \in Waiting(c) /\ intPriority[s] <= intPriority[IntClaim(c)]
                 /\ intPriority[s] = intPriority[IntClaim(c)] => IntClaim(c) <= s
  BY DEF Offered
<1>2. Waiting(c) \subseteq Sources BY DEF Waiting, TypeOK
<1>3. IntClaim(c) = 0 <=> Waiting(c) = {}
  <2>1. CASE Waiting(c) = {}
    <3>1. IrqsAtMax(c) = {} BY <2>1, LevelsWait DEF IrqsAtMax, MaxLevel
    <3> QED BY <2>1, <3>1 DEF IntClaim
  <2>2. CASE Waiting(c) # {}
    BY <2>2, <1>2, ClaimIsMostUrgent DEF Sources
  <2> QED BY <2>1, <2>2
<1>4. ASSUME NEW s \in Waiting(c)
      PROVE  /\ IntClaim(c) \in Waiting(c) /\ intPriority[s] <= intPriority[IntClaim(c)]
             /\ intPriority[s] = intPriority[IntClaim(c)] => IntClaim(c) <= s
  <2>1. Waiting(c) # {} BY <1>4
  <2> QED BY <1>4, <2>1, ClaimIsMostUrgent
<1>5. ExtInt(c) <=> \E s \in Waiting(c) : intPriority[s] > intThreshold[c]
  BY AboveIsInterrupted
<1> QED BY <1>3, <1>4, <1>5

\* A source that is pending is not in progress, but during the claim that has just
\* marked it.
Apart == apb = "access" /\ tx.kind # "claim" => intPending \cap intInProgress = {}

LEMMA ApartStep == ASSUME Apart, [Next]_vars PROVE Apart'
<1>1. CASE UNCHANGED vars BY <1>1 DEF vars, Apart
<1>2. CASE Setup BY <1>2, PendingStep DEF Setup, Apart
<1>3. CASE Idle \/ (\E t \in Transfers : Begin(t)) \/ Access
  BY <1>3 DEF Idle, Begin, Access, Apart
<1> QED BY <1>1, <1>2, <1>3 DEF Next

\* What waits goes on waiting: an interrupt goes away only with a claim or a change
\* of the configuration.
LEMMA StaysOffered ==
  ASSUME Repeated, Apart, Offered, Offered', [Next]_vars,
         NEW c \in Contexts, ExtInt(c), ~ExtInt(c)'
  PROVE  tx.kind = "claim" \/ config' # config
<1>1. SUFFICES ASSUME tx.kind # "claim", config' = config PROVE FALSE
  OBVIOUS
<1>2. intPending \cap intInProgress = {}
  BY <1>1 DEF Repeated, Apart
<1>3. intPending \subseteq intPending'
  <2>1. CASE UNCHANGED vars BY <2>1 DEF vars
  <2>2. CASE Clock BY <2>2, <1>2 DEF Clock, NextIntPending
  <2> QED BY <2>1, <2>2 DEF Next, Idle, Begin, Setup, Access
<1>4. Waiting(c) \subseteq Waiting(c)'
  BY <1>1, <1>3 DEF Waiting, config
<1>5. PICK s \in Waiting(c) : intPriority[s] > intThreshold[c]
  BY DEF Offered
<1>6. s \in Waiting(c)' /\ intPriority'[s] > intThreshold'[c]
  BY <1>1, <1>4, <1>5 DEF config
<1>7. ExtInt(c)' <=> \E r \in Waiting(c)' : intPriority'[r] > intThreshold'[c]
  BY DEF Offered
<1> QED BY <1>6, <1>7
-----------------------------------------------------------------------------
(***************************************************************************)
(* The registers keep their types, whatever the devices do; in particular  *)
(* a claim register never answers with a number that is no source.         *)
(***************************************************************************)
THEOREM PlicTypeCorrect == Spec => []TypeOK
<1>1. TypeOK /\ [Next]_vars => TypeOK' BY NextType
<1> QED BY <1>1, TypeInit, PTL DEF Spec

(***************************************************************************)
(* A source the hart is serving is not offered again, whatever the devices *)
(* do.                                                                     *)
(***************************************************************************)
THEOREM PlicServesOnce == Spec => []ServedOnce
<1>1. Init => TypeOK /\ Marked BY TypeInit DEF Init, Marked, ServedOnce, InTransit
<1>2. TypeOK /\ Marked /\ [Next]_vars => (TypeOK /\ Marked)'
  BY NextType, MarkedStep
<1>3. Marked => ServedOnce BY DEF Marked
<1> QED BY <1>1, <1>2, <1>3, PTL DEF Spec

(***************************************************************************)
(* "claimed requests are currently in progress of being serviced until     *)
(* they are completed" (plic_apb.sv) holds of every number of sources and  *)
(* contexts when no request rises in the setup cycle of a claim.           *)
(***************************************************************************)
THEOREM PlicClosedIsHeld == ASSUME QuietClaims = TRUE PROVE Spec => []ClosedIsHeld
<1>1. Init => TypeOK /\ Marked /\ Repeated
  BY TypeInit DEF Init, Marked, ServedOnce, InTransit, Repeated, ClosedIsHeld
<1>2. TypeOK /\ Marked /\ Repeated /\ [Next]_vars => (TypeOK /\ Marked /\ Repeated)'
  BY NextType, MarkedStep, RepeatedStep
<1>3. Repeated => ClosedIsHeld BY DEF Repeated
<1> QED BY <1>1, <1>2, <1>3, PTL DEF Spec

(***************************************************************************)
(* A context is interrupted exactly for a source above its threshold, and  *)
(* its claim gets the most urgent, for any number of priority levels and   *)
(* whatever the chain of comparisons that masks them.                      *)
(***************************************************************************)
THEOREM PlicOffersMostUrgent == Spec => []Offered
<1>1. TypeOK => Offered BY OfferedWhenTyped
<1> QED BY <1>1, PlicTypeCorrect, PTL

(***************************************************************************)
(* A device that lets go withdraws nothing, when no request rises in the   *)
(* setup cycle of a claim.                                                 *)
(***************************************************************************)
THEOREM PlicNotWithdrawn == ASSUME QuietClaims = TRUE PROVE Spec => NotWithdrawn
<1>1. Init => TypeOK /\ Marked /\ Repeated /\ Apart
  BY TypeInit DEF Init, Marked, ServedOnce, InTransit, Repeated, ClosedIsHeld, Apart
<1>2. TypeOK /\ Marked /\ Repeated /\ Apart /\ [Next]_vars => (TypeOK /\ Marked /\ Repeated /\ Apart)'
  BY NextType, MarkedStep, RepeatedStep, ApartStep
<1>3. /\ Repeated /\ Apart /\ Offered /\ Offered' /\ [Next]_vars
      => [\A c \in Contexts :
            ExtInt(c) /\ ~ExtInt(c)' => tx.kind = "claim" \/ config' # config]_vars
  BY StaysOffered
<1>4. Spec => []Offered BY PlicOffersMostUrgent
<1> QED BY <1>1, <1>2, <1>3, <1>4, PTL DEF Spec, NotWithdrawn
=============================================================================
