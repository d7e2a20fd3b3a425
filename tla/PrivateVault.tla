---------------------------- MODULE PrivateVault ----------------------------
(***************************************************************************)
(* The private half of Agama (lib.rs, private-keeper.ts) beside the public *)
(* one: private deposits and redemptions in the enclave, the aggregate of  *)
(* them that Solana learns in batches, exit tickets, and the keeper that   *)
(* pays tickets from the private custody.                                  *)
(*                                                                         *)
(* Two sides price shares at the same time.  Solana uses the aggregate as  *)
(* of its last commit, the enclave the live one; both use Solana's copy of *)
(* the book.  The exit book never leaves the enclave, while the aggregate  *)
(* is committed, returned to Solana and delegated again.                   *)
(*                                                                         *)
(* Left out: what PublicVault has (agYLD holders one by one, the book's    *)
(* own delegation, the two moments of the keeper's reads); who may act on  *)
(* a position; the delays and the split of a payout, which travel with the *)
(* ticket like its owner does; and how USDC gets into and out of the       *)
(* private custody without naming anybody.                                 *)
(***************************************************************************)
EXTENDS PoolBook, Pricing, FiniteSets, Functions

CONSTANTS
    Owners,         \* owners of positions, and where tickets are paid
    Amounts,        \* what deposit and deposit_private are called with
    InitApr,        \* the rates init_book registers
    Groups,         \* the group ids clients draw from
    Slots,          \* EXIT_SLOTS
    MaxFlow,        \* bound: dollars ever deposited
    MaxYield,       \* bound: yield ever accrued in the book
    MaxSent,        \* bound: payments under way at once
    MaxTime         \* bound: seconds

ASSUME OwnersAssumption  == IsFiniteSet(Owners)
ASSUME AmountsAssumption == Amounts \subseteq Nat
ASSUME AprAssumption     == InitApr \in [Pools -> Nat]
ASSUME BoundsAssumption  ==
    /\ Slots \in Nat /\ MaxFlow \in Nat /\ MaxYield \in Nat
    /\ MaxSent \in Nat /\ MaxTime \in Nat
    /\ MaxFlow + MaxFlow + MaxYield <= U64Max

VARIABLES
    vault,          \* the Vault account on Solana
    book,           \* the PoolBook on its rollup
    baseBook,       \* the PoolBook as Solana has it
    flow,           \* the absorb under way, if any
    shielded,       \* the Shielded account in the enclave
    baseShielded,   \* the Shielded account as Solana has it
    site,           \* where the Shielded account is written
    settling,       \* the aggregate a commit has scheduled and not yet landed
    private_shares, \* of each owner's position
    exits,          \* the open tickets of the ExitBook
    custody,        \* the balance of the private custody
    round,          \* tickets the private keeper has read and not yet paid
    sent,           \* payments sent and not yet landed
    claimed,        \* dollars each wallet was ever promised
    paid,           \* dollars each wallet was ever paid
    now             \* the clock

publicVars  == <<vault, book, baseBook, flow>>
siteVars    == <<baseShielded, site, settling>>
enclaveVars == <<shielded, private_shares, exits, custody>>
payVars     == <<round, sent>>
walletVars  == <<claimed, paid>>
vars == <<publicVars, siteVars, enclaveVars, payVars, walletVars, now>>

Empty == [shares |-> 0, total_in |-> 0, total_out |-> 0]

\* initialize, init_book, init_shielded, and the delegations that follow.
Init ==
    /\ vault          = Empty
    /\ now            = 0
    /\ book           = NewBook(InitApr, now)
    /\ baseBook       = book
    /\ flow           = {}
    /\ shielded       = Empty
    /\ baseShielded   = Empty
    /\ site           = "enclave"
    /\ settling       = {}
    /\ private_shares = [o \in Owners |-> 0]
    /\ exits          = {}
    /\ custody        = 0
    /\ round          = {}
    /\ sent           = {}
    /\ claimed        = [o \in Owners |-> 0]
    /\ paid           = [o \in Owners |-> 0]

-----------------------------------------------------------------------------
(***************************************************************************)
(* Solana: deposit and redeem, priced on the aggregate as last committed.  *)
(* Nobody tops up the public custody.                                      *)
(***************************************************************************)
BaseNav     == Nav(vault, baseBook, baseShielded)
BaseSupply  == Supply(vault, baseShielded)
BaseCovered == MarksCovered(vault, baseBook, baseShielded)

DepositedEver == vault.total_in + shielded.total_in

\* deposit
Deposit(amount) ==
    LET shares == SharesFor(amount, BaseNav, BaseSupply)
    IN  /\ amount > 0
        /\ BaseCovered
        /\ Fits(shares)
        /\ shares > 0
        /\ DepositedEver + amount <= MaxFlow
        /\ vault' = [vault EXCEPT !.shares   = SatAdd(@, shares),
                                  !.total_in = SatAdd(@, amount)]
        /\ UNCHANGED <<book, baseBook, flow, siteVars, enclaveVars, payVars,
                       walletVars, now>>

\* redeem
Redeem(shares) ==
    LET assets == AssetsFor(shares, BaseNav, BaseSupply)
    IN  /\ shares > 0
        /\ BaseCovered
        /\ vault.shares >= shares
        /\ Fits(assets)
        /\ assets <= vault.total_in - vault.total_out
        /\ vault' = [vault EXCEPT !.shares    = SatSub(@, shares),
                                  !.total_out = SatAdd(@, assets)]
        /\ UNCHANGED <<book, baseBook, flow, siteVars, enclaveVars, payVars,
                       walletVars, now>>

-----------------------------------------------------------------------------
(***************************************************************************)
(* The book on its rollup, and the keeper that feeds it.                   *)
(***************************************************************************)
WriteBook(b) == Total(b.accrued) <= MaxYield /\ book' = b

\* tick
Tick ==
    /\ WriteBook(Ticked(book, now))
    /\ UNCHANGED <<vault, baseBook, flow, siteVars, enclaveVars, payVars,
                   walletVars, now>>

\* commit_book, and its landing.
CommitBook ==
    /\ baseBook' = book
    /\ UNCHANGED <<vault, book, flow, siteVars, enclaveVars, payVars,
                   walletVars, now>>

\* The flow unmarked of a vault and an aggregate.
Inflow(v, s)  == SatSub(TotalIn(v, s), book.marked_in)
Outflow(v, s) == SatSub(TotalOut(v, s), book.marked_out)

\* A variant that counts private flow as soon as the enclave has it.
KeeperReadsLive ==
    /\ flow = {}
    /\ Inflow(vault, shielded) > 0 \/ Outflow(vault, shielded) > 0
    /\ flow' = {[inflow  |-> Inflow(vault, shielded),
                 outflow |-> Outflow(vault, shielded)]}
    /\ UNCHANGED <<vault, book, baseBook, siteVars, enclaveVars, payVars,
                   walletVars, now>>

\* A variant that leaves the private custody to somebody else.
KeeperReadsVault ==
    /\ flow = {}
    /\ Inflow(vault, Empty) > 0 \/ Outflow(vault, Empty) > 0
    /\ flow' = {[inflow |-> Inflow(vault, Empty), outflow |-> Outflow(vault, Empty)]}
    /\ UNCHANGED <<vault, book, baseBook, siteVars, enclaveVars, payVars,
                   walletVars, now>>

\* The keeper reads the vault, the book and the aggregate as last committed,
\* and sends absorb for the difference.
KeeperReads ==
    /\ flow = {}
    /\ Inflow(vault, baseShielded) > 0 \/ Outflow(vault, baseShielded) > 0
    /\ flow' = {[inflow  |-> Inflow(vault, baseShielded),
                 outflow |-> Outflow(vault, baseShielded)]}
    /\ UNCHANGED <<vault, book, baseBook, siteVars, enclaveVars, payVars,
                   walletVars, now>>

\* absorb
LandAbsorb(f) ==
    /\ WriteBook(Absorbed(book, now, f.inflow, f.outflow))
    /\ flow' = {}
    /\ UNCHANGED <<vault, baseBook, siteVars, enclaveVars, payVars,
                   walletVars, now>>

\* absorb is lost.
DropAbsorb ==
    /\ flow # {}
    /\ flow' = {}
    /\ UNCHANGED <<vault, book, baseBook, siteVars, enclaveVars, payVars,
                   walletVars, now>>

-----------------------------------------------------------------------------
(***************************************************************************)
(* The enclave: priced on the live aggregate.                              *)
(***************************************************************************)
LiveNav     == Nav(vault, baseBook, shielded)
LiveSupply  == Supply(vault, shielded)
LiveCovered == MarksCovered(vault, baseBook, shielded)

\* deposit_private, with the transfer to the custody it demands of the
\* instruction before it.
DepositPrivate(o, amount) ==
    LET shares == SharesFor(amount, LiveNav, LiveSupply)
    IN  /\ site = "enclave"
        /\ amount > 0
        /\ LiveCovered
        /\ Fits(shares)
        /\ shares > 0
        /\ DepositedEver + amount <= MaxFlow
        /\ private_shares' = [private_shares EXCEPT ![o] = SatAdd(@, shares)]
        /\ shielded' = [shielded EXCEPT !.shares   = SatAdd(@, shares),
                                        !.total_in = SatAdd(@, amount)]
        /\ custody'  = custody + amount
        /\ UNCHANGED <<publicVars, siteVars, exits, payVars, walletVars, now>>

\* What the private custody holds by its own books, open tickets counted as
\* paid.
Held == SatSub(shielded.total_in, shielded.total_out)

\* No open ticket has the group id, and there is a slot for one.
GroupFree(group) ==
    /\ \A t \in exits : t.group # group
    /\ Cardinality(exits) < Slots

\* A variant that does not compare the payout with what the custody holds.
OpenExitUnchecked(o, dest, shares, group) ==
    LET assets == AssetsFor(shares, LiveNav, LiveSupply)
    IN  /\ site = "enclave"
        /\ shares > 0
        /\ private_shares[o] >= shares
        /\ LiveCovered
        /\ LiveSupply > 0
        /\ Fits(assets)
        /\ assets > 0
        /\ GroupFree(group)
        /\ exits' = exits \union {[group |-> group, owner |-> dest, assets |-> assets]}
        /\ private_shares' = [private_shares EXCEPT ![o] = @ - shares]
        /\ shielded' = [shielded EXCEPT !.shares    = SatSub(@, shares),
                                        !.total_out = SatAdd(@, assets)]
        /\ claimed'  = [claimed EXCEPT ![dest] = @ + assets]
        /\ UNCHANGED <<publicVars, siteVars, custody, payVars, paid, now>>

\* open_exit.  A supply of 0 would be divided by, and the instruction abort.
OpenExit(o, dest, shares, group) ==
    LET assets == AssetsFor(shares, LiveNav, LiveSupply)
    IN  /\ site = "enclave"
        /\ shares > 0
        /\ private_shares[o] >= shares
        /\ LiveCovered
        /\ LiveSupply > 0
        /\ Fits(assets)
        /\ assets > 0
        /\ assets <= Held
        /\ GroupFree(group)
        /\ exits' = exits \union {[group |-> group, owner |-> dest, assets |-> assets]}
        /\ private_shares' = [private_shares EXCEPT ![o] = @ - shares]
        /\ shielded' = [shielded EXCEPT !.shares    = SatSub(@, shares),
                                        !.total_out = SatAdd(@, assets)]
        /\ claimed'  = [claimed EXCEPT ![dest] = @ + assets]
        /\ UNCHANGED <<publicVars, siteVars, custody, payVars, paid, now>>

\* redeem_private: the ticket names the position's owner.
RedeemPrivate(o, shares, group) == OpenExit(o, o, shares, group)

\* redeem_private_to: the owner names any wallet.
RedeemPrivateTo(o, payout, shares, group) == OpenExit(o, payout, shares, group)

-----------------------------------------------------------------------------
(***************************************************************************)
(* Paying tickets.  The keeper reads the exit book, then pays what it read *)
(* ticket by ticket.  A payment it has given up on may still land, and so  *)
(* may the one it sends in its place.                                      *)
(***************************************************************************)
\* payExits fetches the exit book.
ReadExits ==
    /\ round = {}
    /\ exits # {}
    /\ round' = exits
    /\ UNCHANGED <<publicVars, siteVars, enclaveVars, sent, walletVars, now>>

\* payExits sends the payment of one ticket and settle_exit, as one
\* transaction.
PayExit(t) ==
    /\ \E id \in (1 .. MaxSent) \ {p.id : p \in sent} :
         sent' = sent \union {[id |-> id, ticket |-> t]}
    /\ round' = round \ {t}
    /\ UNCHANGED <<publicVars, siteVars, enclaveVars, walletVars, now>>

\* payExits throws, or the process is restarted: the rest of the round waits.
AbortRound ==
    /\ round # {}
    /\ round' = {}
    /\ UNCHANGED <<publicVars, siteVars, enclaveVars, sent, walletVars, now>>

\* A variant of settle_exit that finds the slot and trusts the payment.
LandPaymentTrusting(p) ==
    /\ \E t \in exits : t.group = p.ticket.group
    /\ p.ticket.assets <= custody
    /\ exits'   = {t \in exits : t.group # p.ticket.group}
    /\ custody' = custody - p.ticket.assets
    /\ paid'    = [paid EXCEPT ![p.ticket.owner] = @ + p.ticket.assets]
    /\ sent'    = sent \ {p}
    /\ UNCHANGED <<publicVars, siteVars, shielded, private_shares, round, claimed, now>>

\* settle_exit: a payment out of the custody closes the ticket it matches, or
\* the transaction fails, transfer and all.
LandPayment(p) ==
    /\ p.ticket \in exits
    /\ p.ticket.assets <= custody
    /\ exits'   = exits \ {p.ticket}
    /\ custody' = custody - p.ticket.assets
    /\ paid'    = [paid EXCEPT ![p.ticket.owner] = @ + p.ticket.assets]
    /\ sent'    = sent \ {p}
    /\ UNCHANGED <<publicVars, siteVars, shielded, private_shares, round, claimed, now>>

\* A payment is refused, lost, or expires.
DropPayment(p) ==
    /\ sent' = sent \ {p}
    /\ UNCHANGED <<publicVars, siteVars, enclaveVars, round, walletVars, now>>

-----------------------------------------------------------------------------
(***************************************************************************)
(* The life cycle of the aggregate.                                        *)
(***************************************************************************)
\* commit_shielded
CommitShielded ==
    /\ site = "enclave"
    /\ settling = {}
    /\ settling' = {shielded}
    /\ UNCHANGED <<publicVars, baseShielded, site, enclaveVars, payVars,
                   walletVars, now>>

\* undelegate_shielded: a commit, after which the enclave stops writing.
UndelegateShielded ==
    /\ site = "enclave"
    /\ settling = {}
    /\ settling' = {shielded}
    /\ site' = "returning"
    /\ UNCHANGED <<publicVars, baseShielded, enclaveVars, payVars, walletVars, now>>

\* A variant that returns the account without its last contents.
LandShieldedStale ==
    /\ settling # {}
    /\ settling' = {}
    /\ site'     = IF site = "returning" THEN "solana" ELSE site
    /\ UNCHANGED <<publicVars, baseShielded, enclaveVars, payVars, walletVars, now>>

\* The scheduled commit reaches Solana (MagicBlock).
LandShielded ==
    /\ settling # {}
    /\ settling' = {}
    /\ \E s \in settling : baseShielded' = s
    /\ site'     = IF site = "returning" THEN "solana" ELSE site
    /\ UNCHANGED <<publicVars, enclaveVars, payVars, walletVars, now>>

\* A variant that initialises the aggregate when it is handed over.
DelegateShieldedReset ==
    /\ site = "solana"
    /\ site' = "enclave"
    /\ shielded' = Empty
    /\ UNCHANGED <<publicVars, baseShielded, settling, private_shares, exits,
                   custody, payVars, walletVars, now>>

\* delegate_shielded: the enclave starts from the account as Solana has it.
DelegateShielded ==
    /\ site = "solana"
    /\ site' = "enclave"
    /\ shielded' = baseShielded
    /\ UNCHANGED <<publicVars, baseShielded, settling, private_shares, exits,
                   custody, payVars, walletVars, now>>

AdvanceTime ==
    /\ now < MaxTime
    /\ now' = now + 1
    /\ UNCHANGED <<publicVars, siteVars, enclaveVars, payVars, walletVars>>

-----------------------------------------------------------------------------
PublicSide ==
    \/ \E amount \in Amounts : Deposit(amount)
    \/ \E shares \in 1 .. vault.shares : Redeem(shares)
    \/ Tick \/ CommitBook \/ KeeperReads \/ DropAbsorb
    \/ \E f \in flow : LandAbsorb(f)

PrivateTrade ==
    \/ \E o \in Owners, amount \in Amounts : DepositPrivate(o, amount)
    \/ \E o \in Owners, group \in Groups :
         \E shares \in 1 .. private_shares[o] :
           \/ RedeemPrivate(o, shares, group)
           \/ \E payout \in Owners : RedeemPrivateTo(o, payout, shares, group)

Paying ==
    \/ ReadExits \/ AbortRound
    \/ \E t \in round : PayExit(t)
    \/ \E p \in sent : LandPayment(p) \/ DropPayment(p)

Hosting == CommitShielded \/ UndelegateShielded \/ LandShielded \/ DelegateShielded

Next == PublicSide \/ PrivateTrade \/ Paying \/ Hosting \/ AdvanceTime

Spec == Init /\ [][Next]_vars

-----------------------------------------------------------------------------
Aggregates == [shares : U64, total_in : U64, total_out : U64]
Tickets    == [group : Groups, owner : Owners, assets : U64]

\* Every variable holds a value of its kind; no balance is negative.
TypeOK ==
    /\ vault \in Aggregates
    /\ book \in Books
    /\ baseBook \in Books
    /\ flow \subseteq [inflow : U64, outflow : U64]
    /\ shielded \in Aggregates
    /\ baseShielded \in Aggregates
    /\ site \in {"enclave", "returning", "solana"}
    /\ settling \subseteq Aggregates
    /\ private_shares \in [Owners -> U64]
    /\ exits \subseteq Tickets
    /\ custody \in Nat
    /\ round \subseteq Tickets
    /\ sent \subseteq [id : 1 .. MaxSent, ticket : Tickets]
    /\ claimed \in [Owners -> Nat]
    /\ paid \in [Owners -> Nat]
    /\ now \in 0 .. MaxTime

\* The dollars of a set of tickets.
Due(tickets) == SumFunction([t \in tickets |-> t.assets])

\* The private custody holds what the aggregate says is left, plus every open
\* ticket: each can be paid whenever its turn comes, and no payment, however
\* late or repeated, takes another's dollars (open_exit, settle_exit).
TicketsCovered == custody = shielded.total_in - shielded.total_out + Due(exits)

\* A wallet has been paid everything it was ever promised but its open
\* tickets: none is paid twice, short, to someone else, or dropped.
PaidOnce ==
    \A o \in Owners :
        claimed[o] = paid[o] + Due({t \in exits : t.owner = o})

\* The aggregate is the sum of the positions, so no owner is ever short of the
\* shares redeem_private burns, however often the account changes hands.
SharesAreThePositions == SumFunction(private_shares) = shielded.shares

\* Solana's copy, the scheduled commit and the live aggregate are successive
\* states of one account, and nobody has written it since it left the enclave.
AggregateInOrder ==
    LET Older(a, b) == a.total_in <= b.total_in /\ a.total_out <= b.total_out
    IN  /\ Older(baseShielded, shielded)
        /\ \A s \in settling : Older(baseShielded, s) /\ Older(s, shielded)
        /\ site = "returning" => settling = {shielded}
        /\ site = "solana"    => baseShielded = shielded

\* Both sides can price, for the book never ran ahead of the flow either knows
\* of, and price on exactly the dollars in less the dollars out of that flow,
\* plus the yield the committed book has accrued (nav_for_pricing).
BothNavsExact ==
    /\ BaseCovered
    /\ LiveCovered
    /\ BaseNav = vault.total_in + baseShielded.total_in
                   - vault.total_out - baseShielded.total_out
                   + Total(baseBook.accrued)
    /\ LiveNav = vault.total_in + shielded.total_in
                   - vault.total_out - shielded.total_out
                   + Total(baseBook.accrued)

\* A private deposit or redemption never lowers the price the enclave gives
\* the next one: "a not-yet-committed private deposit moves NAV and supply in
\* proportion and leaves the price alone" (nav_for_pricing).
PrivateTradesKeepThePrice ==
    [][(PrivateTrade /\ LiveSupply > 0 /\ LiveSupply' > 0)
         => LiveNav' * LiveSupply >= LiveNav * LiveSupply']_vars

\* What Solana prices a public share at is never more than what the enclave
\* prices a private one at; roundings only ever add to the private price.
\* deposit_private's doc: "the two kinds of share are always worth the same".
SharesWorthTheSame ==
    BaseSupply > 0 /\ LiveSupply > 0
        => BaseNav * LiveSupply <= LiveNav * BaseSupply

-----------------------------------------------------------------------------
(***************************************************************************)
(* Both keepers run forever and retry what fails: reads and scheduled      *)
(* commits are answered, and of the transactions sent again and again some *)
(* land (SF, for a recycle or a lost one may come between); the others     *)
(* expire with their blockhash.                                            *)
(***************************************************************************)
Fairness ==
    /\ WF_vars(LandShielded)
    /\ WF_vars(DelegateShielded)
    /\ SF_vars(CommitShielded)
    /\ SF_vars(KeeperReads)
    /\ SF_vars(\E f \in flow : LandAbsorb(f))
    /\ SF_vars(CommitBook)
    /\ WF_vars(ReadExits)
    /\ \A o \in Owners, g \in Groups :
         /\ SF_vars(\E t \in round : t.group = g /\ t.owner = o /\ PayExit(t))
         /\ SF_vars(\E p \in sent :
                      p.ticket.group = g /\ p.ticket.owner = o /\ LandPayment(p))
    /\ \A id \in 1 .. MaxSent :
         WF_vars(\E p \in sent : p.id = id /\ DropPayment(p))

LiveSpec == Spec /\ Fairness

\* Every dollar deposited in private reaches the book Solana prices on: the
\* aggregate is committed, the keeper reads it, absorbs it, and commits.
PrivateFlowReachesTheBook ==
    \A x \in 1 .. MaxFlow :
        DepositedEver >= x ~> baseBook.marked_in >= x

=============================================================================
