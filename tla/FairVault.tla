------------------------------ MODULE FairVault ------------------------------
(***************************************************************************)
(* What the vault promises its depositors, with no book, no rollup and no  *)
(* keeper: a pool of value `nav` divided into `supply` shares.  A deposit  *)
(* or a redemption is executed at the price of that moment, rounded        *)
(* against whoever asks; beside them value may only be added.              *)
(***************************************************************************)
EXTENDS Integers

VARIABLES nav, supply

vars == <<nav, supply>>

Init == nav = 0 /\ supply = 0

\* Dollars buy as many shares as the price gives and not one more.  The first
\* deposit, or one into a vault worth nothing, sets the price at par.
Deposit ==
    LET assets == nav' - nav
        shares == supply' - supply
    IN  /\ assets > 0
        /\ shares > 0
        /\ IF supply = 0 \/ nav = 0
           THEN shares = assets
           ELSE /\ shares * nav <= assets * supply
                /\ assets * supply < (shares + 1) * nav

\* Shares pay out what they are worth, rounded down.
Redeem ==
    LET assets == nav - nav'
        shares == supply - supply'
    IN  /\ assets >= 0
        /\ shares > 0
        /\ assets * supply <= shares * nav
        /\ shares * nav < (assets + 1) * supply

\* The pools' yield becomes part of the value the shares divide.
Yield ==
    /\ nav' > nav
    /\ supply' = supply

Next ==
    /\ nav' \in Nat /\ supply' \in Nat
    /\ Deposit \/ Redeem \/ Yield

Spec == Init /\ [][Next]_vars

=============================================================================
