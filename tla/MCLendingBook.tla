---------------------------- MODULE MCLendingBook ----------------------------
(***************************************************************************)
(* Values for the constants of LendingBook: two funded pools and two empty *)
(* weights, one of them the last pool, which takes the remainder.          *)
(***************************************************************************)
EXTENDS LendingBook

\* Three of the pools take a part by weight, the last one only what is left.
MCWeights == [i \in Pools |-> IF i = 1 THEN 2 ELSE IF i = 2 THEN 1 ELSE 0]

\* No pool has a weight: fund splits evenly.
MCNoWeights == [i \in Pools |-> 0]

MCInitApr == [i \in Pools |-> IF i = 1 THEN 3 ELSE 2]

\* Every clock shows the same time.
MCSameClocks == [h \in Hosts |-> 0]

\* The second host is one second behind the first.
MCSkewedClocks == [h \in Hosts |-> IF h = FirstHost THEN 0 ELSE 1]

=============================================================================
