----------------------------- MODULE MCPoolLoops -----------------------------
(***************************************************************************)
(* LendingBook, and the closed forms of PoolBook against the loops of      *)
(* PoolLoops on every book it reaches.                                     *)
(***************************************************************************)
EXTENDS MCLendingBook, PoolLoops

\* The amounts tried on each book: small ones, which round and which the pools
\* hold or do not, and some so large that the pools saturate.
Tried == (0 .. 5 \union U64Max - 1 .. U64Max) \intersect U64

\* The closed forms are the loops.  fund places each unit where its loop does;
\* defund takes each from the pool the loop takes it from, when the pools can
\* give all of it and when they cannot; and one saturation at the end of
\* marked_value is a saturation at every step, on pools funded up to the width.
ClosedFormsMatchLoops ==
    \A a \in Tried :
        LET b == [book EXCEPT !.principal = Fund(@, a)]
        IN  /\ b.principal = FundLoop(book.principal, a)
            /\ Defund(book.principal, a) = DefundLoop(book.principal, a)
            /\ MarkedValue(b) = MarkedLoop(b)

=============================================================================
