----------------------------- MODULE LendingBook -----------------------------
(***************************************************************************)
(* The lending book by itself, over time: ticks, absorptions and rate      *)
(* changes in any order and at any moment, on a book that moves between    *)
(* hosts (Solana, one rollup validator, another), each with a clock of its *)
(* own.  The question is what the pools end up having accrued.             *)
(*                                                                         *)
(* `due` is not in the program: it integrates, second by real second, what *)
(* each pool has earned at the principal and rate in force, in YieldUnit-  *)
(* ths of a dollar unit, before any rounding.                              *)
(***************************************************************************)
EXTENDS PoolBook

CONSTANTS
    Hosts,          \* where the book can live
    ClockLag,       \* seconds each host's clock is behind
    FirstHost,      \* where init_book runs
    InitApr,        \* the rates init_book registers
    Rates,          \* the rates set_apr is called with
    Flows,          \* the amounts absorb is called with
    MaxFlow,        \* bound: capital ever absorbed
    MaxTime         \* bound: real seconds the book is followed for

ASSUME LagAssumption   == ClockLag \in [Hosts -> Nat] /\ FirstHost \in Hosts
ASSUME RateAssumption  == InitApr \in [Pools -> Nat] /\ Rates \subseteq Nat
ASSUME FlowAssumption  == Flows \subseteq Nat /\ MaxTime \in Nat
ASSUME BoundAssumption == MaxFlow \in Nat /\ MaxFlow <= U64Max

VARIABLES
    book,           \* the PoolBook account
    host,           \* who holds it now
    now,            \* real seconds since init_book
    due             \* what each pool has earned so far, unrounded

vars == <<book, host, now, due>>

\* Clock::get()?.unix_timestamp, on the host that holds the book.
Clock == now - ClockLag[host]

Init ==
    /\ host = FirstHost
    /\ now  = 0
    /\ book = NewBook(InitApr, Clock)
    /\ due  = [i \in Pools |-> 0]

-----------------------------------------------------------------------------
\* tick: anyone, any time.
Tick ==
    /\ book' = Ticked(book, Clock)
    /\ UNCHANGED <<host, now, due>>

\* absorb: the authority, with whatever flow it names.
Absorb(inflow, outflow) ==
    /\ book.marked_in  + inflow  <= MaxFlow
    /\ book.marked_out + outflow <= MaxFlow
    /\ book' = Absorbed(book, Clock, inflow, outflow)
    /\ UNCHANGED <<host, now, due>>

\* set_apr: the authority; an index past the last pool fails with BadPool.
SetApr(i, apr_bps) ==
    /\ i \in Pools
    /\ book' = Repriced(book, Clock, i, apr_bps)
    /\ UNCHANGED <<host, now, due>>

\* The book changes hands: undelegated and delegated again (undelegate_book,
\* delegate_book), or copied to a new account (migrate_book).  Its contents go
\* along unchanged, last_ts included.
MoveTo(h) ==
    /\ h # host
    /\ host' = h
    /\ UNCHANGED <<book, now, due>>

\* A second passes, and every pool earns at its present principal and rate.
AdvanceTime ==
    /\ now < MaxTime
    /\ now' = now + 1
    /\ due' = [i \in Pools |-> due[i] + book.principal[i] * book.apr[i]]
    /\ UNCHANGED <<book, host>>

Next ==
    \/ Tick
    \/ \E inflow, outflow \in Flows : Absorb(inflow, outflow)
    \/ \E i \in Pools, apr_bps \in Rates : SetApr(i, apr_bps)
    \/ \E h \in Hosts : MoveTo(h)
    \/ AdvanceTime

Spec == Init /\ [][Next]_vars

-----------------------------------------------------------------------------
\* Every variable holds a value of its kind.
TypeOK ==
    /\ book \in Books
    /\ host \in Hosts
    /\ now \in 0 .. MaxTime
    /\ due \in [Pools -> Nat]

\* Whatever the order of ticks, absorptions and rate changes, and however
\* often they are repeated, no pool is ever credited more than its principal
\* earned at its rates in the time that really passed (accrue, and last_ts in
\* tick, absorb and set_apr).
NeverOverAccrues ==
    \A i \in Pools : book.accrued[i] * YieldUnit <= due[i]

\* Nor does a pool lose more than rounding: once the book is accrued to the
\* present, what it misses is less than one unit for every second.  New
\* capital and new rates never reach back, old ones never stop early.
LossIsOnlyRounding ==
    book.last_ts = now =>
        \A i \in Pools :
            due[i] - book.accrued[i] * YieldUnit <= now * (YieldUnit - 1)

\* Capital the marks say is deployed is in the pools: no rounding of fund and
\* no outflow loses a unit.  (The pools may hold more: defund drops what they
\* cannot give, while marked_out still counts it.)
PrincipalCoversMarks ==
    Total(book.principal) >= book.marked_in - book.marked_out

=============================================================================
