------------------------------ MODULE Position ------------------------------
(***************************************************************************)
(* One Position account (lib.rs): the session and the gate of module       *)
(* PositionAccess and the numbers of module PositionLedger, of which the   *)
(* position's own instructions write the second only in the enclave, for   *)
(* somebody who may act.                                                   *)
(***************************************************************************)
EXTENDS PositionAccess, PositionLedger

positionAll == <<vars, ledgerVars>>

PositionInit == Init /\ LedgerInit

\* deposit and redeem, of agYLD, and what moves the price: not the position's.
Outside ==
    \/ \E shares \in Lots : BuyPublic(shares) \/ SellPublic(shares)
    \/ \E p \in Prices : PriceMoves(p)

\* deposit_private, redeem_private and sync_position: assert_may_act.
\* redeem_private_to: the owner only.
InEnclave ==
    /\ site = "enclave"
    /\ \E by \in Signers : SomebodyActs(by)
    /\ \/ \E shares \in Lots : DepositPrivate(shares) \/ RedeemPrivate(shares)
       \/ \E seen \in {0, held} : SyncPosition(seen)

PositionNext ==
    \/ Next /\ UNCHANGED ledgerVars
    \/ (Outside \/ InEnclave) /\ UNCHANGED vars

PositionSpec == PositionInit /\ [][PositionNext]_positionAll

\* Every variable holds a value of its kind.
PositionTypeOK == TypeOK /\ LedgerTypeOK

=============================================================================
