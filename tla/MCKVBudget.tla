----------------------------- MODULE MCKVBudget -----------------------------
(* Bodies and cards for TLC, in units: a tiny body for the fast path, two  *)
(* that must share the pool, one that never fits, a batch and a metadata   *)
(* call; a card, and the same one with half the pool or split slots.       *)
EXTENDS KVBudget, TLC

Body(l, t, s, f) == [len |-> l, tokens |-> t, stated |-> s, form |-> f]

SomeBodies ==
    {Body(1, 1, 1, "messages"), Body(8, 4, 0, "prompt"), Body(14, 7, 9, "messages"),
     Body(20, 18, 1, "messages"), Body(5, 3, 2, "batch"), Body(0, 0, 0, "other")}

SomeCards ==
    {[pool |-> p, shared |-> TRUE, ceiling |-> 4] : p \in {16, 8}}
    \cup {[pool |-> 16, shared |-> FALSE, ceiling |-> 0],
          [pool |-> 0, shared |-> TRUE, ceiling |-> 4]}

RequestSymmetry == Permutations(Requests)

=============================================================================
