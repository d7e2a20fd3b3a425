----------------------------- MODULE PublicVault -----------------------------
(***************************************************************************)
(* The public half of Agama (lib.rs, keeper.ts, recycle.ts and             *)
(* migrate-book.ts): deposits and redemptions on Solana, the lending book  *)
(* on a rollup, and the keeper between them.                               *)
(*                                                                         *)
(* Solana prices every deposit and redemption on its own copy of the book, *)
(* the state the rollup last committed, corrected by the flow the book has *)
(* not marked yet.  The rollup cannot read the vault: a keeper reads both  *)
(* sides, at two different moments, and sends the difference to the book   *)
(* in a transaction that may land late or never.  Meanwhile the book is    *)
(* committed, returned to Solana, delegated again, or lost.                *)
(*                                                                         *)
(* Left out: what private depositors do (the committed `shielded` is the   *)
(* empty aggregate init_shielded writes), users' USDC, which the faucet    *)
(* hands out freely, events, and the lamports accounts are topped up with. *)
(***************************************************************************)
EXTENDS PoolBook, Pricing, Functions

CONSTANTS
    Users,          \* depositors
    Amounts,        \* what deposit is called with
    InitApr,        \* the rates init_book registers
    Rates,          \* the rates set_apr is called with
    PromptLanding,  \* an absorb lands or expires before the keeper reads the
                    \* book again
    MaxFlow,        \* bound: dollars ever deposited
    MaxYield,       \* bound: yield ever accrued in one book
    MaxTopUp,       \* bound: dollars sent to the custody without a deposit
    MaxInflight,    \* bound: absorb transactions under way at once
    MaxTime         \* bound: seconds

ASSUME AmountsAssumption == Amounts \subseteq Nat /\ Rates \subseteq Nat
ASSUME AprAssumption     == InitApr \in [Pools -> Nat]
ASSUME PromptAssumption  == PromptLanding \in BOOLEAN
ASSUME BoundsAssumption  ==
    /\ MaxFlow \in Nat /\ MaxYield \in Nat /\ MaxTopUp \in Nat
    /\ MaxInflight \in Nat /\ MaxTime \in Nat
    /\ MaxFlow + MaxFlow + MaxYield + MaxTopUp <= U64Max

VARIABLES
    vault,          \* the Vault account: shares, total_in, total_out
    custody,        \* the balance of vault_usdc
    agyld,          \* the agYLD each user holds
    baseBook,       \* the PoolBook account as Solana has it
    book,           \* the PoolBook account where it is written
    site,           \* where that is
    settling,       \* the book a commit has scheduled and not yet landed
    migrated,       \* migrate_book has run: its account exists already
    keeper,         \* what the keeper has read since it last acted
    inflight,       \* absorb transactions sent and not yet landed
    now             \* the clock

solanaVars == <<vault, custody, agyld>>
bookVars   == <<baseBook, book, site, settling, migrated>>
keeperVars == <<keeper, inflight>>
vars       == <<solanaVars, bookVars, keeperVars, now>>

\* Where the book is written: on Solana, delegated to a rollup, on its way
\* back, or still delegated on paper to a rollup that no longer writes it.
Sites == {"solana", "rollup", "returning", "lost"}

\* The keeper between two rounds of reads.
Idle == [got |-> {}, total_in |-> 0, total_out |-> 0,
         marked_in |-> 0, marked_out |-> 0]

\* The private aggregate as init_shielded leaves it.
NoPrivateFlow == [shares |-> 0, total_in |-> 0, total_out |-> 0]

\* initialize and init_book.
Init ==
    /\ vault    = [shares |-> 0, total_in |-> 0, total_out |-> 0]
    /\ custody  = 0
    /\ agyld    = [u \in Users |-> 0]
    /\ now      = 0
    /\ book     = NewBook(InitApr, now)
    /\ baseBook = book
    /\ site     = "solana"
    /\ settling = {}
    /\ migrated = FALSE
    /\ keeper   = Idle
    /\ inflight = {}

-----------------------------------------------------------------------------
(***************************************************************************)
(* Solana: depositors.                                                     *)
(***************************************************************************)

\* nav_for_pricing as deposit and redeem call it.
BaseCovered == MarksCovered(vault, baseBook, NoPrivateFlow)
BaseNav     == Nav(vault, baseBook, NoPrivateFlow)
BaseSupply  == Supply(vault, NoPrivateFlow)

\* deposit
Deposit(u, amount) ==
    LET shares == SharesFor(amount, BaseNav, BaseSupply)
    IN  /\ amount > 0
        /\ BaseCovered
        /\ Fits(shares)
        /\ shares > 0
        /\ vault.total_in + amount <= MaxFlow
        /\ vault'   = [vault EXCEPT !.shares   = SatAdd(@, shares),
                                    !.total_in = SatAdd(@, amount)]
        /\ custody' = custody + amount
        /\ agyld'   = [agyld EXCEPT ![u] = @ + shares]
        /\ UNCHANGED <<bookVars, keeperVars, now>>

\* A variant that pays without looking at what the custody holds.
RedeemUnchecked(u, shares) ==
    LET assets == AssetsFor(shares, BaseNav, BaseSupply)
    IN  /\ shares > 0
        /\ BaseCovered
        /\ vault.shares >= shares
        /\ agyld[u] >= shares
        /\ vault'   = [vault EXCEPT !.shares    = SatSub(@, shares),
                                    !.total_out = SatAdd(@, assets)]
        /\ custody' = custody - assets
        /\ agyld'   = [agyld EXCEPT ![u] = @ - shares]
        /\ UNCHANGED <<bookVars, keeperVars, now>>

\* redeem: the burn fails on more agYLD than the user holds, the transfer on
\* more USDC than the custody holds.
Redeem(u, shares) ==
    LET assets == AssetsFor(shares, BaseNav, BaseSupply)
    IN  /\ shares > 0
        /\ BaseCovered
        /\ vault.shares >= shares
        /\ Fits(assets)
        /\ assets <= custody
        /\ agyld[u] >= shares
        /\ vault'   = [vault EXCEPT !.shares    = SatSub(@, shares),
                                    !.total_out = SatAdd(@, assets)]
        /\ custody' = custody - assets
        /\ agyld'   = [agyld EXCEPT ![u] = @ - shares]
        /\ UNCHANGED <<bookVars, keeperVars, now>>

\* A plain token transfer into vault_usdc, which the program does not see:
\* whoever makes redeemed yield payable, since accruing brings no dollars in.
TopUp(amount) ==
    /\ amount > 0
    /\ custody + vault.total_out + amount <= vault.total_in + MaxTopUp
    /\ custody' = custody + amount
    /\ UNCHANGED <<vault, agyld, bookVars, keeperVars, now>>

-----------------------------------------------------------------------------
(***************************************************************************)
(* The book.  A write on the rollup leaves Solana's copy alone; on Solana  *)
(* there is one account.                                                   *)
(***************************************************************************)
WriteBook(b) ==
    /\ Total(b.accrued) <= MaxYield
    /\ book'     = b
    /\ baseBook' = IF site = "solana" THEN b ELSE baseBook

\* tick
Tick ==
    /\ site \in {"solana", "rollup"}
    /\ WriteBook(Ticked(book, now))
    /\ UNCHANGED <<solanaVars, site, settling, migrated, keeperVars, now>>

\* set_apr
SetApr(i, apr_bps) ==
    /\ site \in {"solana", "rollup"}
    /\ WriteBook(Repriced(book, now, i, apr_bps))
    /\ UNCHANGED <<solanaVars, site, settling, migrated, keeperVars, now>>

\* commit_book schedules what the book is at that moment; anyone may call it.
\* Commits settle in order, so one under way at a time is enough.
CommitBook ==
    /\ site = "rollup"
    /\ settling = {}
    /\ settling' = {book}
    /\ UNCHANGED <<solanaVars, baseBook, book, site, migrated, keeperVars, now>>

\* undelegate_book: a commit, after which the rollup stops writing.
UndelegateBook ==
    /\ site = "rollup"
    /\ settling = {}
    /\ settling' = {book}
    /\ site' = "returning"
    /\ UNCHANGED <<solanaVars, baseBook, book, migrated, keeperVars, now>>

\* A variant that settles the commit of an undelegation without its contents.
LandCommitStale ==
    /\ settling # {}
    /\ settling' = {}
    /\ site'     = IF site = "returning" THEN "solana" ELSE site
    /\ UNCHANGED <<solanaVars, baseBook, book, migrated, keeperVars, now>>

\* The scheduled commit reaches Solana (MagicBlock).
LandCommit ==
    /\ settling # {}
    /\ settling' = {}
    /\ \E b \in settling : baseBook' = b
    /\ site'     = IF site = "returning" THEN "solana" ELSE site
    /\ UNCHANGED <<solanaVars, book, migrated, keeperVars, now>>

\* delegate_book: the rollup starts from the account as Solana has it.
DelegateBook ==
    /\ site = "solana"
    /\ site' = "rollup"
    /\ UNCHANGED <<solanaVars, baseBook, book, settling, migrated, keeperVars, now>>

\* A rollup loses track of a delegation it holds on paper (MagicBlock); what
\* it had not committed is gone.
LoseDelegation ==
    /\ site = "rollup"
    /\ ~migrated
    /\ site' = "lost"
    /\ UNCHANGED <<solanaVars, baseBook, book, settling, migrated, keeperVars, now>>

\* A variant that starts the new account with no marks.
MigrateBookUnmarked ==
    /\ ~migrated
    /\ migrated' = TRUE
    /\ baseBook' = [baseBook EXCEPT !.marked_in = 0, !.marked_out = 0]
    /\ book'     = baseBook'
    /\ site'     = "solana"
    /\ settling' = {}
    /\ keeper'   = Idle
    /\ inflight' = {}
    /\ UNCHANGED <<solanaVars, now>>

\* migrate_book, once: a new account, created from what Solana last saw of the
\* old one.  A commit or an absorb still under way is addressed to the old
\* account, and the keeper is stopped first (migrate-book.ts).
MigrateBook ==
    /\ ~migrated
    /\ migrated' = TRUE
    /\ book'     = baseBook
    /\ site'     = "solana"
    /\ settling' = {}
    /\ keeper'   = Idle
    /\ inflight' = {}
    /\ UNCHANGED <<solanaVars, baseBook, now>>

-----------------------------------------------------------------------------
(***************************************************************************)
(* The keeper.  Its reads are issued together (Promise.all) and answered   *)
(* in any order, each with the state of its own moment.                    *)
(***************************************************************************)
KeeperReadVault ==
    /\ "vault" \notin keeper.got
    /\ keeper' = [keeper EXCEPT !.got       = @ \union {"vault"},
                                !.total_in  = vault.total_in,
                                !.total_out = vault.total_out]
    /\ UNCHANGED <<solanaVars, bookVars, inflight, now>>

\* A variant that reads the marks from Solana's copy of the book.
KeeperReadCommitted ==
    /\ "book" \notin keeper.got
    /\ PromptLanding => inflight = {}
    /\ keeper' = [keeper EXCEPT !.got        = @ \union {"book"},
                                !.marked_in  = baseBook.marked_in,
                                !.marked_out = baseBook.marked_out]
    /\ UNCHANGED <<solanaVars, bookVars, inflight, now>>

KeeperReadBook ==
    /\ "book" \notin keeper.got
    /\ PromptLanding => inflight = {}
    /\ keeper' = [keeper EXCEPT !.got        = @ \union {"book"},
                                !.marked_in  = book.marked_in,
                                !.marked_out = book.marked_out]
    /\ UNCHANGED <<solanaVars, bookVars, inflight, now>>

\* The flow the keeper finds unmarked: BN.max(total - marked, 0).
Inflow  == SatSub(keeper.total_in, keeper.marked_in)
Outflow == SatSub(keeper.total_out, keeper.marked_out)

\* A variant that sends what it read once more, as a retry after an error.
KeeperResends ==
    /\ keeper.got = {"vault", "book"}
    /\ \E id \in (1 .. MaxInflight) \ {t.id : t \in inflight} :
         inflight' = inflight \union
                       {[id |-> id, inflow |-> Inflow, outflow |-> Outflow]}
    /\ UNCHANGED <<solanaVars, bookVars, keeper, now>>

\* Both reads are in: send absorb for the difference, if there is one.
KeeperAct ==
    /\ keeper.got = {"vault", "book"}
    /\ keeper' = Idle
    /\ IF Inflow = 0 /\ Outflow = 0
       THEN inflight' = inflight
       ELSE \E id \in (1 .. MaxInflight) \ {t.id : t \in inflight} :
              inflight' = inflight \union
                            {[id |-> id, inflow |-> Inflow, outflow |-> Outflow]}
    /\ UNCHANGED <<solanaVars, bookVars, now>>

\* A read fails, or the process is restarted: the round starts over.
KeeperRestart ==
    /\ keeper # Idle
    /\ keeper' = Idle
    /\ UNCHANGED <<solanaVars, bookVars, inflight, now>>

\* absorb lands, on the rollup the keeper sent it to.
LandAbsorb(t) ==
    /\ site = "rollup"
    /\ WriteBook(Absorbed(book, now, t.inflow, t.outflow))
    /\ inflight' = inflight \ {t}
    /\ UNCHANGED <<solanaVars, site, settling, migrated, keeper, now>>

\* absorb never lands: refused, lost, or its blockhash expires.
DropAbsorb(t) ==
    /\ inflight' = inflight \ {t}
    /\ UNCHANGED <<solanaVars, bookVars, keeper, now>>

AdvanceTime ==
    /\ now < MaxTime
    /\ now' = now + 1
    /\ UNCHANGED <<solanaVars, bookVars, keeperVars>>

-----------------------------------------------------------------------------
Depositors ==
    \/ \E u \in Users, amount \in Amounts : Deposit(u, amount)
    \/ \E u \in Users : \E shares \in 1 .. agyld[u] : Redeem(u, shares)
    \/ \E amount \in Amounts : TopUp(amount)

Hosting == CommitBook \/ UndelegateBook \/ LandCommit \/ DelegateBook
               \/ LoseDelegation \/ MigrateBook

Keeping ==
    \/ KeeperReadVault \/ KeeperReadBook \/ KeeperAct \/ KeeperRestart
    \/ \E t \in inflight : LandAbsorb(t) \/ DropAbsorb(t)

Next ==
    \/ Depositors
    \/ Tick
    \/ \E i \in Pools, apr_bps \in Rates : SetApr(i, apr_bps)
    \/ Hosting
    \/ Keeping
    \/ AdvanceTime

Spec == Init /\ [][Next]_vars

-----------------------------------------------------------------------------
VaultType  == [shares : U64, total_in : U64, total_out : U64]
KeeperType == [got : SUBSET {"vault", "book"}, total_in : U64, total_out : U64,
               marked_in : U64, marked_out : U64]
AbsorbType == [id : 1 .. MaxInflight, inflow : U64, outflow : U64]

\* Every variable holds a value of its kind; no balance is negative.
TypeOK ==
    /\ vault \in VaultType
    /\ custody \in Nat
    /\ agyld \in [Users -> Nat]
    /\ baseBook \in Books
    /\ book \in Books
    /\ site \in Sites
    /\ settling \subseteq Books
    /\ migrated \in BOOLEAN
    /\ keeper \in KeeperType
    /\ inflight \subseteq AbsorbType
    /\ now \in 0 .. MaxTime

\* Neither copy of the book has marked more flow than the vault ever had, so
\* pricing never fails with BookAheadOfVault (nav_for_pricing): no flow is
\* absorbed twice, whatever the keeper read and whenever, across commits,
\* recycles and a migration.
BookNotAhead ==
    /\ MarksCovered(vault, baseBook, NoPrivateFlow)
    /\ MarksCovered(vault, book, NoPrivateFlow)

\* The value deposits and redemptions are priced on is exactly the dollars in,
\* less the dollars out, plus the yield the committed book has accrued; the
\* doc of nav_for_pricing: it "stays exact across the commit boundary instead
\* of stepping every time the ER commits".
NavExact ==
    BaseNav = vault.total_in - vault.total_out + Total(baseBook.accrued)

\* Every share is worth at least the dollar it stands for, so a redemption
\* never returns less than was deposited for it at par.
SharesCoveredAtPar == BaseSupply <= BaseNav

\* What the rollup or Solana has marked and accrued is never taken back: a
\* commit, an undelegation or a migration only moves Solana's copy forward.
Reaches(b, c) ==
    /\ b.marked_in  <= c.marked_in
    /\ b.marked_out <= c.marked_out
    /\ b.last_ts    <= c.last_ts
    /\ \A i \in Pools : b.accrued[i] <= c.accrued[i]

CommittedNeverRegresses == [][Reaches(baseBook, baseBook')]_vars

\* Solana's copy and the scheduled commits are earlier states of the book that
\* is written, whichever host writes it; a book on Solana has none under way.
CopiesInOrder ==
    /\ Reaches(baseBook, book)
    /\ \A b \in settling : Reaches(baseBook, b) /\ Reaches(b, book)
    /\ site = "solana" => settling = {}
    /\ book.last_ts <= now

\* The book has marked no more than the vault has seen.
VaultAhead ==
    /\ book.marked_in  <= vault.total_in
    /\ book.marked_out <= vault.total_out

\* What the keeper has read of the vault is past; what it has read of the book
\* is still so, and nothing is under way that could change it.
KeeperFresh ==
    /\ "vault" \in keeper.got =>
         /\ keeper.total_in  <= vault.total_in
         /\ keeper.total_out <= vault.total_out
    /\ "book" \in keeper.got =>
         /\ keeper.marked_in  = book.marked_in
         /\ keeper.marked_out = book.marked_out
         /\ inflight = {}

\* At most one absorb is under way, and it fits on top of the marks.
FlightFits ==
    /\ \A t, s \in inflight : t = s
    /\ \A t \in inflight :
         /\ book.marked_in  + t.inflow  <= vault.total_in
         /\ book.marked_out + t.outflow <= vault.total_out

\* A flow the keeper is carrying is not in the book yet, and only once under
\* way: why BookNotAhead holds when absorbs land promptly.
FlowCarriedOnce == CopiesInOrder /\ VaultAhead /\ KeeperFresh /\ FlightFits

\* No step of anyone lowers the price of a share somebody holds: neither a
\* deposit, nor a redemption, nor a commit, nor a new book.
SharePriceNeverFalls ==
    [][BaseSupply > 0 /\ BaseSupply' > 0
         => BaseNav' * BaseSupply >= BaseNav * BaseSupply']_vars

\* Seen from Solana, all of it is a vault that trades shares at a fair price
\* and otherwise only gains value.
Fair == INSTANCE FairVault WITH nav <- BaseNav, supply <- BaseSupply

TradesFairly == Fair!Spec

-----------------------------------------------------------------------------
(***************************************************************************)
(* The keeper's loop runs forever; its reads, though they may fail any     *)
(* number of times, are answered again and again, and so are both reads of *)
(* one round (SF).  A transaction it keeps sending lands now and then, and *)
(* so does a write between two recycles (SF): retries are what keeper.ts   *)
(* does on failure.  A book that has stopped ticking is reported by the    *)
(* keeper, and the operator runs migrate-book.ts.                          *)
(***************************************************************************)
Fairness ==
    /\ WF_vars(DelegateBook)
    /\ WF_vars(LandCommit)
    /\ WF_vars(site = "lost" /\ MigrateBook)
    /\ SF_vars(CommitBook)
    /\ SF_vars(KeeperReadVault)
    /\ SF_vars(keeper.got = {"vault"} /\ KeeperReadBook)
    /\ SF_vars(keeper.got = {"book"} /\ KeeperReadVault)
    /\ SF_vars(KeeperAct)
    /\ SF_vars(\E t \in inflight : LandAbsorb(t))

\* keeper.ts recycles the delegation between two rounds, and starts the next
\* round when the book is back on the rollup.
OneKeeper ==
    /\ site # "rollup" => keeper' \in {keeper, Idle}
    /\ site = "rollup" /\ site' = "returning" => keeper = Idle /\ inflight = {}

LiveNext ==
    \/ Depositors
    \/ Tick
    \/ \E i \in Pools, apr_bps \in Rates : SetApr(i, apr_bps)
    \/ (Hosting \/ Keeping) /\ OneKeeper
    \/ AdvanceTime

LiveSpec == Init /\ [][LiveNext]_vars /\ Fairness

\* Every dollar deposited is eventually at work in the book Solana prices on:
\* some absorb carries it there and some commit brings it back.
DepositsReachTheBook ==
    \A x \in 1 .. MaxFlow :
        vault.total_in >= x ~> baseBook.marked_in >= x

=============================================================================
