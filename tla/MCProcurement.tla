---------------------------- MODULE MCProcurement ----------------------------
(***************************************************************************)
(* A few notices, some of them found by every query, for TLC.              *)
(***************************************************************************)
EXTENDS ProcurementCollection, TLC

CONSTANT Shared    \* the notices that every query finds

MCMatches == [r \in Records |-> IF r \in Shared THEN Queries ELSE {1}]

Symmetry == Permutations(Collectors) \cup Permutations(Shared)
              \cup Permutations(Records \ Shared)
=============================================================================
