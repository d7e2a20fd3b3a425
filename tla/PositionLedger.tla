--------------------------- MODULE PositionLedger ---------------------------
(***************************************************************************)
(* The numbers a position shows its owner (lib.rs): its shares, public and *)
(* private, the average price they were entered at, and the value, cost    *)
(* and yield that follow.  Private shares are entered as they are minted.  *)
(* Public ones change hands on Solana, at a price of Solana's, and nobody  *)
(* tells the position; sync_position catches up with what the owner's      *)
(* token account holds, at the enclave's price of that moment.             *)
(*                                                                         *)
(* The enclave's price is the environment's: yield raises it, and it may   *)
(* fall, when public shares are redeemed at Solana's higher price or when  *)
(* a supply that went to nothing starts again at ONE.                      *)
(*                                                                         *)
(* Left out: what public shares were bought and sold for, which the ledger *)
(* never learns; dust, liquidity and tickets (PrivateVault), saturation    *)
(* and times.                                                              *)
(***************************************************************************)
EXTENDS Integers

CONSTANTS
    ONE,            \* 1.0 of a price
    Prices,         \* the enclave's share prices
    Lots,           \* the shares bought or sold at a time
    MaxShares,      \* bound: public shares, and private shares, of the owner
    MaxSyncs        \* bound: times the position is marked

ASSUME PricesAssumption ==
    ONE \in Nat \ {0} /\ Prices \subseteq Nat /\ ONE \in Prices
ASSUME LotsAssumption ==
    Lots \subseteq Nat \ {0} /\ MaxShares \in Nat /\ MaxSyncs \in Nat

VARIABLES
    price,          \* share_price in the enclave
    held,           \* the owner's agYLD
    ledger,         \* the Position account's numbers
    lowest,         \* the lowest price entered since the ledger was empty
    highest,        \* the highest
    marked,         \* the price of the last mark
    gain            \* what price moves brought on the shares the position had
                    \* meanwhile, less what exits took along, in ONE-ths of a
                    \* dollar unit, as of the last mark

ghosts     == <<lowest, highest, marked, gain>>
ledgerVars == <<price, held, ledger, ghosts>>

Ledgers == [shares : Nat, private_shares : Nat, entry_price : Nat,
            value_usdc : Nat, cost_basis : Nat, yield_usdc : Nat, syncs : Nat]

\* init_position
LedgerInit ==
    /\ price   = ONE
    /\ held    = 0
    /\ ledger  = [shares |-> 0, private_shares |-> 0, entry_price |-> ONE,
                  value_usdc |-> 0, cost_basis |-> 0, yield_usdc |-> 0, syncs |-> 0]
    /\ lowest  = ONE
    /\ highest = ONE
    /\ marked  = ONE
    /\ gain    = 0

-----------------------------------------------------------------------------
\* Public and private shares together.
Shares(l) == l.shares + l.private_shares

\* blend_entry
BlendEntry(l, added, p) ==
    LET after == Shares(l) + added
    IN  IF after = 0 THEN l
        ELSE [l EXCEPT !.entry_price = (@ * Shares(l) + p * added) \div after]

\* mark
Mark(l, p) ==
    LET value == (Shares(l) * p) \div ONE
        cost  == (Shares(l) * l.entry_price) \div ONE
    IN  [l EXCEPT !.value_usdc = value, !.cost_basis = cost,
                  !.yield_usdc = IF cost <= value THEN value - cost ELSE 0,
                  !.syncs = @ + 1]

\* A variant that counts the new shares first and blends after.
MintedBlendLate(l, shares, p) ==
    LET counted == [l EXCEPT !.private_shares = @ + shares]
    IN  Mark(BlendEntry(counted, shares, p), p)

\* The position's part of deposit_private.
Minted(l, shares, p) ==
    LET blended == BlendEntry(l, shares, p)
    IN  Mark([blended EXCEPT !.private_shares = @ + shares], p)

\* The position's part of open_exit.
Burned(l, shares, p) == Mark([l EXCEPT !.private_shares = @ - shares], p)

\* A variant that takes the balance and forgets what the new shares cost.
SyncedUnblended(l, seen, p) == Mark([l EXCEPT !.shares = seen], p)

\* The position's part of sync_position, where `seen` is the balance of the
\* owner's token account.
Synced(l, seen, p) ==
    LET caughtUp == IF seen > l.shares THEN BlendEntry(l, seen - l.shares, p) ELSE l
    IN  Mark([caughtUp EXCEPT !.shares = seen], p)

\* What the ghosts record of an instruction that enters `added` shares, or takes
\* `removed` out, and marks.
Recorded(added, removed) ==
    /\ lowest'  = IF added = 0 THEN lowest
                  ELSE IF Shares(ledger) = 0 \/ price < lowest THEN price ELSE lowest
    /\ highest' = IF added = 0 THEN highest
                  ELSE IF Shares(ledger) = 0 \/ price > highest THEN price ELSE highest
    /\ marked'  = price
    /\ gain'    = gain + Shares(ledger) * (price - marked)
                       - removed * (price - ledger.entry_price)

-----------------------------------------------------------------------------
\* deposit, for agYLD, at Solana's price.
BuyPublic(shares) ==
    /\ held + shares <= MaxShares
    /\ held' = held + shares
    /\ UNCHANGED <<price, ledger, ghosts>>

\* redeem, of agYLD, at Solana's price.
SellPublic(shares) ==
    /\ shares <= held
    /\ held' = held - shares
    /\ UNCHANGED <<price, ledger, ghosts>>

\* deposit_private
DepositPrivate(shares) ==
    /\ ledger.syncs < MaxSyncs
    /\ ledger.private_shares + shares <= MaxShares
    /\ ledger' = Minted(ledger, shares, price)
    /\ Recorded(shares, 0)
    /\ UNCHANGED <<price, held>>

\* redeem_private, redeem_private_to
RedeemPrivate(shares) ==
    /\ ledger.syncs < MaxSyncs
    /\ shares <= ledger.private_shares
    /\ ledger' = Burned(ledger, shares, price)
    /\ Recorded(0, shares)
    /\ UNCHANGED <<price, held>>

\* sync_position.  The token account may be left out of the transaction, and
\* then counts as empty.
SyncPosition(seen) ==
    /\ ledger.syncs < MaxSyncs
    /\ seen \in {0, held}
    /\ ledger' = Synced(ledger, seen, price)
    /\ IF seen > ledger.shares THEN Recorded(seen - ledger.shares, 0)
                               ELSE Recorded(0, ledger.shares - seen)
    /\ UNCHANGED <<price, held>>

\* The enclave's price moves, up or down.
PriceMoves(p) ==
    /\ p # price
    /\ price' = p
    /\ UNCHANGED <<held, ledger, ghosts>>

-----------------------------------------------------------------------------
\* Every variable holds a value of its kind.
LedgerTypeOK ==
    /\ {price, lowest, highest, marked} \subseteq Prices
    /\ held \in 0 .. MaxShares
    /\ ledger \in Ledgers
    /\ ledger.shares <= MaxShares /\ ledger.private_shares <= MaxShares
    /\ gain \in Int

\* The entry price is an average of prices at which shares were entered: it
\* lies between the lowest and the highest of them since the position was last
\* empty, through every order of purchases, sales and price moves, late,
\* repeated and partial syncs (blend_entry, sync_position: a replayed sync must
\* not re-blend, an exit "does not re-mark what is left behind").
EntryInRange ==
    Shares(ledger) > 0 => ledger.entry_price \in lowest .. highest

\* Each mark of a position may come after one blend, which rounds the entry
\* price down by less than one on each share.
RoundedAway == ledger.syncs * 2 * MaxShares

\* The yield a position shows is what the price did to its shares while it had
\* them: for any path of the price, up and down, the paper gain at the last
\* mark is the price moves on the shares held meanwhile less the gain of those
\* that left, up to the rounding of each blend, and a loss shows as no yield
\* (sync_position: "carried as a share-weighted average, which is what makes
\* accrued yield derivable"; mark).
YieldIsPriceMoves ==
    /\ ledger.yield_usdc > 0 => ledger.yield_usdc * ONE < gain + RoundedAway + ONE
    /\ ledger.yield_usdc * ONE > gain - ONE

=============================================================================
