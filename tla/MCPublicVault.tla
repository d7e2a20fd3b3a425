---------------------------- MODULE MCPublicVault ----------------------------
(***************************************************************************)
(* Values for the constants of PublicVault.                                *)
(***************************************************************************)
EXTENDS PublicVault, TLC

\* Capital goes to the first pool and, one part in three, to the last.
MCWeights == [i \in Pools |-> IF i = 1 THEN 2 ELSE IF i = 4 THEN 1 ELSE 0]

MCInitApr == [i \in Pools |-> 1]

\* Every pool but the last pays, so that a share's price is no whole number.
MCUnevenRates == [i \in Pools |-> IF i = 4 THEN 0 ELSE 1]

\* Every pool but the last already pays the rate set_apr brings.
MCTwoRates == [i \in Pools |-> IF i = 4 THEN 1 ELSE 2]

\* Depositors are interchangeable: no code looks at who they are.
UserSymmetry == Permutations(Users)

=============================================================================
