------------------------------- MODULE Memory -------------------------------
(***************************************************************************)
(* What the load/store unit may assume of the cacheable memory below it:   *)
(* one value per word, changed only by the request the pipeline has in its *)
(* memory stage.  The data cache (module DCache) implements it.            *)
(***************************************************************************)
EXTENDS Naturals

CONSTANTS Tags,      \* the part of an address above the set index
          SetIdx,    \* the set indexes of the cache
          Words,     \* the words of a cache line
          Values,    \* what a word can hold
          Zero       \* the word cbo.zero writes

VARIABLES visible,   \* what a load of each word returns
          req        \* the request in the memory stage

Locations == Tags \X SetIdx
Line      == [Words -> Values]

Here == <<req.tag, req.set>>   \* the line the request names

\* A store or an atomic replaces one word of the line it names.
StoreWord ==
  /\ req.op \in {"store", "amo"}
  /\ visible' = [visible EXCEPT ![Here][req.word] = req.val]

\* cbo.zero replaces the whole line by zeroes.
ZeroLine ==
  /\ req.op = "zero"
  /\ visible' = [visible EXCEPT ![Here] = [w \in Words |-> Zero]]

\* cbo.inval may drop what was stored to its line and not yet written back.
DropLine ==
  /\ req.op = "inval"
  /\ \E l \in Line : visible' = [visible EXCEPT ![Here] = l]

Init == visible \in [Locations -> Line]

Next == StoreWord \/ ZeroLine \/ DropLine

Spec == Init /\ [][Next]_visible
=============================================================================
