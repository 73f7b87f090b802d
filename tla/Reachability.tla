---------------------------- MODULE Reachability ----------------------------
(***************************************************************************)
(* What can be reached in a graph given as a function from nodes to the    *)
(* sets of their successors.                                               *)
(***************************************************************************)
LOCAL INSTANCE Naturals
LOCAL INSTANCE FiniteSets

Reach(S, succ) ==
    LET R[i \in 0..Cardinality(DOMAIN succ)] ==
            IF i = 0 THEN S ELSE R[i - 1] \cup UNION {succ[x] : x \in R[i - 1] \cap DOMAIN succ}
    IN  R[Cardinality(DOMAIN succ)]

Cyclic(x, succ) == x \in DOMAIN succ /\ x \in Reach(succ[x], succ)
=============================================================================
