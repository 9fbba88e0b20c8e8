------------------------------ MODULE Pointers ------------------------------
(***************************************************************************)
(* Linked lists in memory: what is met along a field from a first element. *)
(***************************************************************************)
EXTENDS Naturals, FiniteSets

\* The elements from start along next up to null, but at most max of them.
Chain(next, start, null, max) ==
    LET at[n \in 1 .. max] == IF n = 1 THEN start
                              ELSE IF at[n - 1] = null THEN null
                              ELSE next[at[n - 1]]
    IN [n \in 1 .. Cardinality({i \in 1 .. max : at[i] # null}) |-> at[n]]
=============================================================================
