------------------------------ MODULE PoolBook ------------------------------
(***************************************************************************)
(* The lending book (`PoolBook` and its impl, lib.rs): four pools, each    *)
(* with a principal, the yield accrued on it and a rate; the value `nav`   *)
(* last computed from them; and the marks, how much of the vault's         *)
(* cumulative flow the book has absorbed.                                  *)
(*                                                                         *)
(* This module is the data structure: a book is a record and every         *)
(* instruction that writes it is a function from books to books.  The      *)
(* machines that decide when those run are LendingBook and PublicVault.    *)
(*                                                                         *)
(* Left out: names, sectors, keys and bumps, which no computation reads,   *)
(* and `ticks`, a counter only displayed.  Weights never change after      *)
(* init_book, so they are a constant.  Loops over the four pools are       *)
(* written in closed form; module PoolLoops has the loops, and the run     *)
(* `lending` compares the two.                                             *)
(***************************************************************************)
EXTENDS U64

CONSTANTS
    Weights,        \* weight_bps of each pool
    YieldUnit       \* BPS * SECONDS_PER_YEAR

\* POOL_COUNT = 4
Pools == 1 .. 4

ASSUME WeightsAssumption   == Weights \in [Pools -> Nat]
ASSUME YieldUnitAssumption == YieldUnit \in Nat \ {0}

\* What the fields of a book can hold.
Books == [principal : [Pools -> U64], accrued : [Pools -> U64],
          apr : [Pools -> Nat], nav : U64,
          marked_in : U64, marked_out : U64, last_ts : Int]

-----------------------------------------------------------------------------
Total(f) == f[1] + f[2] + f[3] + f[4]

\* The sum of f over the pools that come before pool i.
Below(f, i) == (IF i > 1 THEN f[1] ELSE 0) + (IF i > 2 THEN f[2] ELSE 0)
                   + (IF i > 3 THEN f[3] ELSE 0)

\* init_book: empty pools at their opening rates.
NewBook(apr, now) ==
    [principal |-> [i \in Pools |-> 0], accrued |-> [i \in Pools |-> 0],
     apr |-> apr, nav |-> 0, marked_in |-> 0, marked_out |-> 0,
     last_ts |-> now]

\* A variant that leaves the accrued yield out of the value.
PrincipalOnly(b) == SatAdd(Total(b.principal), 0)

\* marked_value: the sum of every principal and accrual.  A chain of
\* saturating additions of non-negative terms saturates once, at the end.
MarkedValue(b) == SatAdd(Total(b.principal), Total(b.accrued))

-----------------------------------------------------------------------------
\* The share of `amount` that pool i takes by weight, rounded down.
WeightedPart(amount, i) ==
    IF Total(Weights) = 0 THEN amount \div 4
                          ELSE (amount * Weights[i]) \div Total(Weights)

\* A variant where the last pool is rounded down like the others.
FundRoundsDown(principal, amount) ==
    [i \in Pools |-> SatAdd(principal[i], WeightedPart(amount, i))]

\* fund: spread `amount` by weight; the last pool takes what rounding left.
Fund(principal, amount) ==
    LET part == [i \in Pools |-> WeightedPart(amount, i)]
    IN  [i \in Pools |-> SatAdd(principal[i],
                           IF i = 4 THEN SatSub(amount, Below(part, 4))
                                    ELSE part[i])]

\* A variant that does not subtract what earlier pools already gave.
DefundEachPool(principal, amount) ==
    [i \in Pools |-> SatSub(principal[i], amount)]

\* A variant that takes everything from the first pool, uncapped.
DefundFirstPool(principal, amount) == [principal EXCEPT ![1] = @ - amount]

\* defund: take `amount` in pool order, each pool giving what it has.  Pool i
\* is asked for what the pools before it could not give.  If all of them
\* together fall short, the rest of `amount` is dropped without a trace.
Defund(principal, amount) ==
    [i \in Pools |-> SatSub(principal[i], SatSub(amount, Below(principal, i)))]

\* The yield pool i has earned between last_ts and now.
Pending(b, i, now) ==
    (b.principal[i] * b.apr[i] * (now - b.last_ts)) \div YieldUnit

\* A variant that credits at least one unit however little was earned.
AccrueRoundsUp(b, now) ==
    IF now <= b.last_ts THEN b
    ELSE [b EXCEPT !.accrued =
            [i \in Pools |-> SatAdd(b.accrued[i], AsU64(Pending(b, i, now) + 1))]]

\* A variant that keeps only the latest stretch of yield.
AccrueReplaces(b, now) ==
    IF now <= b.last_ts THEN b
    ELSE [b EXCEPT !.accrued = [i \in Pools |-> AsU64(Pending(b, i, now))]]

\* accrue: fold the pending yield of every pool into its accrued balance.
\* A clock that has not moved forward accrues nothing.
Accrue(b, now) ==
    IF now <= b.last_ts THEN b
    ELSE [b EXCEPT !.accrued =
            [i \in Pools |-> SatAdd(b.accrued[i], AsU64(Pending(b, i, now)))]]

-----------------------------------------------------------------------------
(***************************************************************************)
(* The instructions.  Each accrues to `now`, stores `now` even when it is  *)
(* behind last_ts, and ends by marking nav from the pools.                 *)
(***************************************************************************)
Marked(b) == [b EXCEPT !.nav = MarkedValue(b)]

\* tick
Ticked(b, now) == Marked([Accrue(b, now) EXCEPT !.last_ts = now])

\* A variant that takes the outflow before it places the inflow.
AbsorbedOutFirst(b, now, inflow, outflow) ==
    Marked([Accrue(b, now) EXCEPT
              !.last_ts    = now,
              !.principal  = Fund(Defund(@, outflow), inflow),
              !.marked_in  = SatAdd(@, inflow),
              !.marked_out = SatAdd(@, outflow)])

\* A variant that accrues after the new capital is in the pools.
AbsorbedLate(b, now, inflow, outflow) ==
    Marked([Accrue([b EXCEPT !.principal = Defund(Fund(@, inflow), outflow)], now)
            EXCEPT !.last_ts    = now,
                   !.marked_in  = SatAdd(@, inflow),
                   !.marked_out = SatAdd(@, outflow)])

\* absorb.  Funding or defunding zero changes nothing, which is the code's
\* `if inflow > 0` and `if outflow > 0`.
Absorbed(b, now, inflow, outflow) ==
    Marked([Accrue(b, now) EXCEPT
              !.last_ts    = now,
              !.principal  = Defund(Fund(@, inflow), outflow),
              !.marked_in  = SatAdd(@, inflow),
              !.marked_out = SatAdd(@, outflow)])

\* A variant that moves the clock and the rate without settling the old one.
RepricedUnsettled(b, now, i, apr_bps) ==
    Marked([b EXCEPT !.last_ts = now, !.apr[i] = apr_bps])

\* A variant that leaves nav as it was.
RepricedUnmarked(b, now, i, apr_bps) ==
    [Accrue(b, now) EXCEPT !.last_ts = now, !.apr[i] = apr_bps]

\* set_apr
Repriced(b, now, i, apr_bps) ==
    Marked([Accrue(b, now) EXCEPT !.last_ts = now, !.apr[i] = apr_bps])

=============================================================================
