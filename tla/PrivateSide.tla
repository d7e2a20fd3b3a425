----------------------------- MODULE PrivateSide -----------------------------
(***************************************************************************)
(* What the private keeper and a private depositor share: the aggregate    *)
(* and where it is written, the open exit tickets, the money on its way    *)
(* through MagicBlock, and the sponsor that pays for keys without SOL.     *)
(* What MagicBlock does on its own is here; PrivateVault has the amounts.  *)
(***************************************************************************)
EXTENDS Integers, FiniteSets

CONSTANT
    Lot             \* units a redemption is for

ASSUME LotAssumption == Lot \in Nat \ {0}

VARIABLES
    site,           \* the aggregate is in the "enclave", "returning" from it,
                    \* on "solana", or "arriving" in the enclave
    gated,          \* only the authority reads the aggregate in the enclave
    nonce,          \* commits its delegation has sponsored
    exits,          \* the open tickets
    money,          \* units of USDC, by where they are
    sponsor         \* shields and openings the sponsor can pay for

aggregate == <<site, gated, nonce>>
sideVars  == <<aggregate, exits, money, sponsor>>

\* From the wallet to a throwaway key and its private account, into the
\* private custody, and out of it.
Places == {"wallet", "sending", "key", "shielding", "eata", "custody", "leaving"}

Move(units, from, to) ==
    /\ money[from] >= units
    /\ money' = [money EXCEPT ![from] = @ - units, ![to] = @ + units]

\* The payment and settle_exit, in one transaction: it lands on an open
\* ticket, or not at all.
Settle(ticket) ==
    /\ ticket \in exits
    /\ exits' = exits \ {ticket}
    /\ Move(Lot, "custody", "leaving")
    /\ UNCHANGED <<aggregate, sponsor>>

\* The undelegation reaches Solana.
LandUndelegation ==
    /\ site = "returning"
    /\ site' = "solana"
    /\ UNCHANGED <<gated, nonce, exits, money, sponsor>>

\* The enclave takes the aggregate.  Whether the gate it had is still there is
\* MagicBlock's to say.
TakeAggregate ==
    /\ site = "arriving"
    /\ site' = "enclave"
    /\ gated' \in {gated, FALSE}
    /\ UNCHANGED <<nonce, exits, money, sponsor>>

\* The queue's crank delivers a part of a private send, or a payout.
DeliverPart ==
    /\ Move(1, "sending", "key")
    /\ UNCHANGED <<aggregate, exits, sponsor>>

DeliverPayout ==
    /\ Move(Lot, "leaving", "wallet")
    /\ UNCHANGED <<aggregate, exits, sponsor>>

\* The enclave takes a private token account.
TakeShielded ==
    /\ money["shielding"] > 0
    /\ Move(money["shielding"], "shielding", "eata")
    /\ UNCHANGED <<aggregate, exits, sponsor>>

\* Somebody else is opened or shielded at the sponsor's cost.
SponsorOther ==
    /\ sponsor > 0
    /\ sponsor' = sponsor - 1
    /\ UNCHANGED <<aggregate, exits, money>>

=============================================================================
