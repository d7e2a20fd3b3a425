------------------------------ MODULE PoolLoops ------------------------------
(***************************************************************************)
(* fund, defund and marked_value as the program runs them, one pool after  *)
(* another, to compare with the closed forms of module PoolBook.  A loop   *)
(* carries its locals and has POOL_COUNT = 4 iterations.                   *)
(***************************************************************************)
EXTENDS PoolBook

\* One iteration of fund: pool i gets `part`, which counts as placed.
FundPool(s, i, part) ==
    [principal |-> [s.principal EXCEPT ![i] = SatAdd(s.principal[i], part)],
     placed    |-> SatAdd(s.placed, part)]

\* A part by weight for each pool but the last, which gets what is left.
FundLoop(principal, amount) ==
    LET s0 == [principal |-> principal, placed |-> 0]
        s1 == FundPool(s0, 1, WeightedPart(amount, 1))
        s2 == FundPool(s1, 2, WeightedPart(amount, 2))
        s3 == FundPool(s2, 3, WeightedPart(amount, 3))
    IN  FundPool(s3, 4, SatSub(amount, s3.placed)).principal

\* One iteration of defund for pool i, with `rem` still to take; once nothing
\* is left to take the loop ends.
DefundPool(s, i) ==
    LET take == IF s.rem <= s.principal[i] THEN s.rem ELSE s.principal[i]
    IN  IF s.rem = 0 THEN s
        ELSE [principal |-> [s.principal EXCEPT ![i] = s.principal[i] - take],
              rem       |-> s.rem - take]

DefundLoop(principal, amount) ==
    LET s0 == [principal |-> principal, rem |-> amount]
        s1 == DefundPool(s0, 1)
        s2 == DefundPool(s1, 2)
        s3 == DefundPool(s2, 3)
    IN  DefundPool(s3, 4).principal

\* One step of marked_value's fold, for pool i.
MarkPool(b, acc, i) == SatAdd(SatAdd(acc, b.principal[i]), b.accrued[i])

MarkedLoop(b) ==
    MarkPool(b, MarkPool(b, MarkPool(b, MarkPool(b, 0, 1), 2), 3), 4)

=============================================================================
