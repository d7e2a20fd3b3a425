--------------------------- MODULE MCPrivateVault ---------------------------
(***************************************************************************)
(* Values for the constants of PrivateVault.                               *)
(***************************************************************************)
EXTENDS PrivateVault, TLC

\* Capital goes to the first pool and, one part in three, to the last.
MCWeights == [i \in Pools |-> IF i = 1 THEN 2 ELSE IF i = 4 THEN 1 ELSE 0]

MCInitApr == [i \in Pools |-> 1]

\* Pools that pay nothing.
MCNoApr == [i \in Pools |-> 0]

\* No code looks at who an owner is, or which group id was drawn.
OwnerAndGroupSymmetry == Permutations(Owners) \union Permutations(Groups)

=============================================================================
