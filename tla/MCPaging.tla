------------------------------ MODULE MCPaging ------------------------------
(* Two processes for the configurations of Paging; process a has two threads. *)
EXTENDS Paging

CONSTANTS a, b, a1, a2, b1

MCOwner == [t \in Threads |-> IF t \in {a1, a2} THEN a ELSE b]
MCReserved == <<[vaddr |-> 2, len |-> 2, prot |-> "none"]>>
=============================================================================
