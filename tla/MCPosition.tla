----------------------------- MODULE MCPosition -----------------------------
(***************************************************************************)
(* Values for the constants of Position.                                   *)
(***************************************************************************)
EXTENDS Position, TLC

\* No code looks at which key or viewer it is given.
KeySymmetry == Permutations(Keys) \union Permutations(Viewers)

=============================================================================
