------------------------------- MODULE Pricing -------------------------------
(***************************************************************************)
(* What a share is worth: nav_for_pricing and the two conversions deposit  *)
(* and redeem make with its result (lib.rs).  `vault` and `shielded` carry *)
(* shares, total_in and total_out, the public and the private aggregate;   *)
(* `book` is the lending book as the pricing side last saw it.             *)
(***************************************************************************)
EXTENDS U64

TotalIn(vault, shielded)  == SatAdd(vault.total_in, shielded.total_in)
TotalOut(vault, shielded) == SatAdd(vault.total_out, shielded.total_out)

\* The book has absorbed no more than the two custodies ever took in or paid
\* out.  Pricing fails with BookAheadOfVault otherwise.
MarksCovered(vault, book, shielded) ==
    /\ book.marked_in  <= TotalIn(vault, shielded)
    /\ book.marked_out <= TotalOut(vault, shielded)

\* A variant that leaves out the dollars no pool has taken yet.
NavWithoutUnmarked(vault, book, shielded) ==
    SatSub(book.nav, TotalOut(vault, shielded) - book.marked_out)

\* nav_for_pricing, once MarksCovered: flow not yet marked counts at par.
Nav(vault, book, shielded) ==
    SatSub(SatAdd(book.nav, TotalIn(vault, shielded) - book.marked_in),
           TotalOut(vault, shielded) - book.marked_out)

Supply(vault, shielded) == SatAdd(vault.shares, shielded.shares)

\* A variant that rounds in the depositor's favour.
SharesRoundedUp(amount, nav, supply) ==
    IF supply = 0 \/ nav = 0 THEN amount
                             ELSE (amount * supply + nav - 1) \div nav

\* The shares `amount` buys (deposit, deposit_private).
SharesFor(amount, nav, supply) ==
    IF supply = 0 \/ nav = 0 THEN amount ELSE (amount * supply) \div nav

\* A variant that rounds in the redeemer's favour.
AssetsRoundedUp(shares, nav, supply) == (shares * nav + supply - 1) \div supply

\* The dollars `shares` redeem for (redeem, open_exit); supply is not 0 there,
\* because the caller holds some of it.
AssetsFor(shares, nav, supply) == (shares * nav) \div supply

=============================================================================
