------------------------------ MODULE MCDCache ------------------------------
(***************************************************************************)
(* Instances of DCache for TLC.  Memory and the data arrays start blank:   *)
(* every other content is reached by stores.  The program of the instance  *)
(* uses the words ProgramWords of a line and stores the ProgramValues.     *)
(***************************************************************************)
EXTENDS DCache, TLC

CONSTANTS ProgramWords, ProgramValues

BlankInit ==
  /\ mem = [a \in Locations |-> BlankLine]
  /\ data = [s \in SetIdx |-> [w \in Ways |-> BlankLine]]
  /\ Init

MCSpec     == BlankInit /\ [][Next]_vars
MCFairSpec == MCSpec /\ Fairness

ProgramBound ==
  /\ req'.op \in {"load", "store", "amo"} => req'.word \in ProgramWords
  /\ req'.op \in {"store", "amo"} => req'.val \in ProgramValues

Symmetry == Permutations(Tags)
=============================================================================
