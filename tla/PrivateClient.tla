----------------------------- MODULE PrivateClient ---------------------------
(***************************************************************************)
(* A private depositor (private.ts), as e2e-private.ts and e2e-stealth.ts  *)
(* walk through it: open a position, get money into the enclave, seal the  *)
(* position, deposit, redeem share by share.  A step waits until what it   *)
(* needs is there and then sends one transaction; one that is lost is one  *)
(* not taken yet.                                                          *)
(*                                                                         *)
(* Two kinds of user: "session" opens with the wallet, acts through a      *)
(* session key and shields in public or by a private send; "stealth" opens *)
(* with a key derived from a signature, at the sponsor's cost, sends       *)
(* privately, and finds its keys again on any device.                      *)
(*                                                                         *)
(* Left out: the refusals the walks provoke on purpose (PrivateVault and   *)
(* PositionAccess have the guards), who may read what, formats.            *)
(***************************************************************************)
EXTENDS PrivateSide

CONSTANTS
    Kinds,          \* the kinds of user
    Units           \* units a user deposits: the parts its send is split into

ASSUME ClientAssumption ==
    Kinds \subseteq {"session", "stealth"} /\ Units \in Nat \ {0} /\ Units % Lot = 0

VARIABLES
    kind,
    pos,            \* the position: "none", "delegated", "taken" by the enclave
    sealed,
    shares,
    holds,          \* the key that may act on the position is at hand
    lost,           \* the process that had the shield key in use is gone
    asked           \* tickets asked for so far

clientVars == <<kind, pos, sealed, shares, holds, lost, asked>>

ClientInit ==
    /\ kind \in Kinds
    /\ pos = "none"
    /\ sealed = FALSE
    /\ shares = 0
    /\ holds = TRUE
    /\ lost = FALSE
    /\ asked = 0

\* The sponsor pays for a transaction of a key without SOL.
Sponsored ==
    /\ sponsor > 0
    /\ sponsor' = sponsor - 1

-----------------------------------------------------------------------------
\* init_position, prepare_for_rollup, authorize_session and delegate_position,
\* in one transaction the wallet pays for.
OpenByWallet ==
    /\ kind = "session"
    /\ pos = "none"
    /\ pos' = "delegated"
    /\ UNCHANGED <<sideVars, kind, sealed, shares, holds, lost, asked>>

\* The same, with the stealth key as owner and as its own session key.
OpenBySponsor ==
    /\ kind = "stealth"
    /\ pos = "none"
    /\ Sponsored
    /\ pos' = "delegated"
    /\ UNCHANGED <<aggregate, exits, money, kind, sealed, shares, holds, lost, asked>>

TakePosition ==
    /\ pos = "delegated"
    /\ pos' = "taken"
    /\ UNCHANGED <<sideVars, kind, sealed, shares, holds, lost, asked>>

\* Bound: what is paid out is not deposited again.
OneDeposit == asked = 0

\* The plain shield: wallet, key and private account in one transaction,
\* for a fresh key.
ShieldPlain ==
    /\ kind = "session"
    /\ pos # "none"
    /\ OneDeposit
    /\ Move(Units, "wallet", "shielding")
    /\ lost' = FALSE
    /\ UNCHANGED <<aggregate, exits, sponsor, kind, pos, sealed, shares, holds, asked>>

\* The wallet's private send, to a fresh key only the enclave can read.
Send ==
    /\ pos # "none"
    /\ OneDeposit
    /\ Move(Units, "wallet", "sending")
    /\ lost' = FALSE
    /\ UNCHANGED <<aggregate, exits, sponsor, kind, pos, sealed, shares, holds, asked>>

\* A key that is gone cannot sign.  A shield key that is derived from the
\* position's (private.ts, shieldKeyAt) is never gone; the one e2e-stealth.ts
\* draws at random lives as long as the walk.
KeyAtHand == ~lost

\* A variant that shields the parts that have come, without the others.
ShieldEarly ==
    /\ KeyAtHand
    /\ money["key"] > 0 /\ money["eata"] = 0
    /\ Move(money["key"], "key", "shielding")
    /\ Sponsored
    /\ UNCHANGED <<aggregate, exits, clientVars>>

\* Every part has come: the key shields them, at the sponsor's cost.
Shield ==
    /\ KeyAtHand
    /\ Move(Units, "key", "shielding")
    /\ Sponsored
    /\ UNCHANGED <<aggregate, exits, clientVars>>

\* init_permission, once the enclave has the position.
Seal ==
    /\ pos = "taken"
    /\ holds
    /\ ~sealed
    /\ sealed' = TRUE
    /\ UNCHANGED <<sideVars, kind, pos, shares, holds, lost, asked>>

\* The transfer into the custody and deposit_private behind it.
DepositPrivate ==
    /\ sealed
    /\ holds /\ KeyAtHand
    /\ site = "enclave"
    /\ Move(Units, "eata", "custody")
    /\ shares' = shares + Units
    /\ UNCHANGED <<aggregate, exits, sponsor, kind, pos, sealed, holds, lost, asked>>

-----------------------------------------------------------------------------
\* A redemption burns shares and opens a ticket.
OpenTicket ==
    /\ site = "enclave"
    /\ shares >= Lot
    /\ shares' = shares - Lot
    /\ asked' = asked + 1
    /\ exits' = exits \union {asked'}
    /\ UNCHANGED <<aggregate, money, sponsor, kind, pos, sealed, holds, lost>>

\* redeem_private, by the session key.
RedeemPrivate == kind = "session" /\ holds /\ OpenTicket

\* redeem_private_to, by the stealth key, to the wallet.
RedeemPrivateTo == kind = "stealth" /\ OpenTicket

\* e2e-private.ts, as the authority: a commit of the aggregate, and a payment
\* "the same way" the keeper makes it.
CommitHere(limit) ==
    /\ kind = "session"
    /\ shares > 0
    /\ site = "enclave"
    /\ nonce < limit
    /\ nonce' = nonce + 1
    /\ UNCHANGED <<site, gated, exits, money, sponsor, clientVars>>

PayHere(ticket) ==
    /\ kind = "session"
    /\ Settle(ticket)
    /\ UNCHANGED clientVars

InTransit == \E p \in {"sending", "key", "shielding", "eata"} : money[p] > 0

\* The browser's storage is gone, with the session key and the shield key.
LoseKeys ==
    /\ kind = "session"
    /\ holds \/ (InTransit /\ ~lost)
    /\ holds' = FALSE
    /\ lost' = InTransit
    /\ UNCHANGED <<sideVars, kind, pos, sealed, shares, asked>>

\* A variant that asks the old session key to sign for the new one.
RotateHeld ==
    /\ pos = "taken"
    /\ holds
    /\ UNCHANGED <<sideVars, clientVars>>

\* rotate_session: the wallet signs one message and a new key takes over.
Rotate ==
    /\ pos = "taken"
    /\ ~holds
    /\ holds' = TRUE
    /\ UNCHANGED <<sideVars, kind, pos, sealed, shares, lost, asked>>

\* On the way to the deposit, and back to a key that may act.
Preparing ==
    \/ OpenByWallet \/ OpenBySponsor \/ TakePosition
    \/ ShieldPlain \/ Send \/ Shield \/ Seal \/ Rotate

ClientNext ==
    \/ Preparing \/ DepositPrivate \/ RedeemPrivate \/ RedeemPrivateTo
    \/ \E ticket \in exits : PayHere(ticket)

=============================================================================
