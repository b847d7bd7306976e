-------------------------------- MODULE Plic --------------------------------
(***************************************************************************)
(* The platform-level interrupt controller (uncore/plic_apb.sv), the       *)
(* AHB-to-APB bridge in front of it (uncore/ahbapbbridge.sv), the devices  *)
(* that request interrupts and the hart that claims and completes them.    *)
(*                                                                         *)
(* A step is a clock cycle.  The bridge selects the PLIC for two cycles,   *)
(* setup and access; the register a read is for is read, with its side     *)
(* effect, in both (memread does not wait for PENABLE), a write takes      *)
(* effect in the second.  The hart receives what was read in the first.    *)
(***************************************************************************)
EXTENDS Naturals, FiniteSets

CONSTANTS NumSources,    \* PLIC_NUM_SRC
          NumContexts,   \* `C: machine mode, and supervisor mode if there is one
          MaxPriority,   \* 7: a priority and a threshold are three bits
          QuietClaims    \* no request rises in the setup cycle of a claim

ASSUME PlicAssumption ==
  /\ NumSources \in Nat /\ NumContexts \in Nat /\ MaxPriority \in Nat
  /\ QuietClaims \in BOOLEAN

VARIABLES
  intPriority, intEn, intThreshold,   \* the registers software writes
  intInProgress, intPending,          \* sources claimed, sources waiting
  requests,                           \* the levels the devices drive
  apb, tx,                            \* phase and contents of the bus transfer
  Dout,                               \* the register behind PRDATA
  held                                \* what the hart claimed and has not completed

config == <<intPriority, intEn, intThreshold>>
vars   == <<config, intInProgress, intPending, requests, apb, tx, Dout, held>>

Sources    == 1 .. NumSources
Contexts   == 0 .. NumContexts - 1
Priorities == 0 .. MaxPriority

Claims    == [kind : {"claim"}, ctx : Contexts]
Completes == [kind : {"complete"}, id : Sources]
Writes    == [kind : {"priority"}, id : Sources, level : Priorities]
               \cup [kind : {"enable"}, ctx : Contexts, set : SUBSET Sources]
               \cup [kind : {"threshold"}, ctx : Contexts, level : Priorities]
Transfers == Claims \cup Completes \cup Writes
Nothing   == [kind |-> "none"]
-----------------------------------------------------------------------------
(***************************************************************************)
(* Combinational logic.                                                    *)
(***************************************************************************)
\* The row of irqMatrix for a priority level; level 0 has none.
Active(c, p) == {s \in intPending \cap intEn[c] : p > 0 /\ intPriority[s] = p}

LevelsWithIrqs(c) == {p \in Priorities : Active(c, p) # {}}
MaxLevel(c)       == {p \in LevelsWithIrqs(c) :
                        \A q \in Priorities : q > p => q \notin LevelsWithIrqs(c)}
IrqsAtMax(c)      == UNION {Active(c, p) : p \in MaxLevel(c)}

\* The lowest source at the highest level, 0 when there is none.
IntClaim(c) ==
  IF IrqsAtMax(c) = {} THEN 0
  ELSE CHOOSE s \in IrqsAtMax(c) : \A t \in IrqsAtMax(c) : s <= t

FromThreshold(c) == {p \in Priorities : intThreshold[c] <= p}  \* mutant of ThreshMask

\* threshMask: level p passes when no level from p up is the threshold.
ThreshMask(c) == {p \in Priorities : p > 0 /\ \A q \in p .. MaxPriority : q # intThreshold[c]}

ExtInt(c) == ThreshMask(c) \cap LevelsWithIrqs(c) # {}

\* Mutants of NextIntPending: no gateway; a request that falls is forgotten.
OpenGateway == intPending \cup requests
Unlatched   == requests \ intInProgress

NextIntPending == (intPending \cup requests) \ intInProgress
-----------------------------------------------------------------------------
(***************************************************************************)
(* The devices: a request is a level that rises and falls at any time.     *)
(***************************************************************************)
Drive == requests' \in SUBSET Sources
Calm  == QuietClaims => requests' \subseteq requests

\* What every cycle does.
Clock == Drive /\ intPending' = NextIntPending

Idle ==
  /\ apb = "idle"
  /\ UNCHANGED <<config, intInProgress, apb, tx, held>>
  /\ Dout' = 0
  /\ Clock

\* The address phase ends: the bridge captures the address and raises PSEL.
Begin(t) ==
  /\ apb = "idle"
  /\ t.kind = "complete" => t.id \in held
  /\ apb' = "setup" /\ tx' = t
  /\ UNCHANGED <<config, intInProgress, held>>
  /\ Dout' = 0
  /\ Clock
  /\ (t.kind = "claim" => Calm)

\* Mutant: a claim that finds nothing marks source 0.
ReadClaimOrZero ==
  /\ Dout' = IntClaim(tx.ctx)
  /\ intInProgress' = intInProgress \cup {IntClaim(tx.ctx)}

\* A read of a claim register answers with the claim and marks it.
ReadClaim ==
  /\ Dout' = IntClaim(tx.ctx)
  /\ intInProgress' = intInProgress \cup ({IntClaim(tx.ctx)} \ {0})

Setup ==
  /\ apb = "setup" /\ apb' = "access"
  /\ IF tx.kind = "claim" THEN ReadClaim
                          ELSE Dout' = 0 /\ UNCHANGED intInProgress
  /\ UNCHANGED <<config, tx, held>>
  /\ Clock

\* The hart takes PRDATA while the PLIC reads the claim once more.
AccessClaim ==
  /\ tx.kind = "claim"
  /\ held' = held \cup ({Dout} \ {0})
  /\ ReadClaim
  /\ UNCHANGED config

\* Mutant: a completion reopens the gateways of all sources.
CompleteAll ==
  /\ tx.kind = "complete"
  /\ intInProgress' = {}
  /\ held' = held \ {tx.id}
  /\ Dout' = 0
  /\ UNCHANGED config

AccessComplete ==
  /\ tx.kind = "complete"
  /\ intInProgress' = intInProgress \ {tx.id}
  /\ held' = held \ {tx.id}
  /\ Dout' = 0
  /\ UNCHANGED config

AccessWrite ==
  /\ \/ /\ tx.kind = "priority"
        /\ intPriority' = [intPriority EXCEPT ![tx.id] = tx.level]
        /\ UNCHANGED <<intEn, intThreshold>>
     \/ /\ tx.kind = "enable"
        /\ intEn' = [intEn EXCEPT ![tx.ctx] = tx.set]
        /\ UNCHANGED <<intPriority, intThreshold>>
     \/ /\ tx.kind = "threshold"
        /\ intThreshold' = [intThreshold EXCEPT ![tx.ctx] = tx.level]
        /\ UNCHANGED <<intPriority, intEn>>
  /\ Dout' = 0
  /\ UNCHANGED <<intInProgress, held>>

\* PREADY is always high: the transfer ends with its first access cycle.
Access ==
  /\ apb = "access" /\ apb' = "idle" /\ tx' = Nothing
  /\ AccessClaim \/ AccessComplete \/ AccessWrite
  /\ Clock
-----------------------------------------------------------------------------
Init ==
  /\ intPriority = [s \in Sources |-> 0]
  /\ intEn = [c \in Contexts |-> {}]
  /\ intThreshold = [c \in Contexts |-> 0]
  /\ intInProgress = {} /\ intPending = {}
  /\ requests \in SUBSET Sources
  /\ apb = "idle" /\ tx = Nothing /\ Dout = 0 /\ held = {}

Next == Idle \/ (\E t \in Transfers : Begin(t)) \/ Setup \/ Access

Spec == Init /\ [][Next]_vars
-----------------------------------------------------------------------------
\* Types.
TypeOK ==
  /\ intPriority \in [Sources -> Priorities]
  /\ intEn \in [Contexts -> SUBSET Sources]
  /\ intThreshold \in [Contexts -> Priorities]
  /\ intInProgress \subseteq Sources /\ intPending \subseteq Sources
  /\ requests \subseteq Sources /\ held \subseteq Sources
  /\ apb \in {"idle", "setup", "access"}
  /\ tx \in Transfers \cup {Nothing} /\ (apb # "idle" => tx \in Transfers)
  /\ Dout \in 0 .. NumSources

\* The claim on its way to the hart.
InTransit == IF apb = "access" /\ tx.kind = "claim" THEN {Dout} \ {0} ELSE {}

\* "claimed requests are currently in progress of being serviced until they are
\* completed" (plic_apb.sv): a source is closed exactly while the hart has it.  A
\* source closed and not held is dead: nobody will ever complete it.
ClosedIsHeld == intInProgress = held \cup InTransit

\* A source the hart is serving is not offered to it again, and neither is the
\* one on its way, in any context: what the second read of a claim register finds
\* beyond the first is never a source the hart already has.
ServedOnce ==
  /\ held \cap intPending = {}
  /\ held \cap InTransit = {}

\* A context is interrupted exactly when a source it has enabled waits above its
\* threshold, and a claim then finds the most urgent source: none that is enabled
\* and waiting has a higher priority, or the same and a lower number
\* (plic_apb.sv:200-258).
Waiting(c) == {s \in intPending \cap intEn[c] : intPriority[s] > 0}
Offered ==
  \A c \in Contexts :
    /\ ExtInt(c) <=> \E s \in Waiting(c) : intPriority[s] > intThreshold[c]
    /\ IntClaim(c) = 0 <=> Waiting(c) = {}
    /\ \A s \in Waiting(c) :
         LET k == IntClaim(c) IN
         /\ k \in Waiting(c) /\ intPriority[s] <= intPriority[k]
         /\ intPriority[s] = intPriority[k] => k <= s

\* An external interrupt is never withdrawn because its device lets go: only a
\* claim, or a write to the configuration, lowers it.
NotWithdrawn ==
  [][\A c \in Contexts :
       ExtInt(c) /\ ~ExtInt(c)' => tx.kind = "claim" \/ config' # config]_vars
=============================================================================
