------------------------------- MODULE MCBoot -------------------------------
(***************************************************************************)
(* A small disk for Boot: a block of the table, then a partition of two.   *)
(***************************************************************************)
EXTENDS Boot

MCCounts == <<1, 2>>
=============================================================================
