-------------------------- MODULE PrivateVaultProofs --------------------------
(***************************************************************************)
(* Theorems about PrivateVault for any owners, weights, rates, amounts and *)
(* bounds.                                                                 *)
(*                                                                         *)
(* Solana and the enclave price from different copies of the aggregate and *)
(* one copy of the book.  That both prices are exact comes down to an      *)
(* order: what the book has marked, and what is on its way to it, was read *)
(* from a committed aggregate, and a committed aggregate is an earlier     *)
(* state of the live one.                                                  *)
(***************************************************************************)
EXTENDS PrivateVault, PoolBookProofs, SumProofs

-----------------------------------------------------------------------------
(***************************************************************************)
(* Types.                                                                  *)
(***************************************************************************)
\* Totals of two custodies are amounts.
LEMMA TotalsType ==
    ASSUME NEW v \in Aggregates, NEW s \in Aggregates
    PROVE  /\ TotalIn(v, s) \in U64 /\ TotalOut(v, s) \in U64
           /\ Supply(v, s) \in U64
<1>1. /\ v.total_in \in U64 /\ v.total_out \in U64 /\ v.shares \in U64
      /\ s.total_in \in Nat /\ s.total_out \in Nat /\ s.shares \in Nat
  BY U64Nat DEF Aggregates
<1> QED BY <1>1, SatType DEF TotalIn, TotalOut, Supply

\* The value either side prices with is an amount.
LEMMA NavType ==
    ASSUME NEW v \in Aggregates, NEW b \in Books, NEW s \in Aggregates,
           MarksCovered(v, b, s)
    PROVE  Nav(v, b, s) \in Nat /\ Supply(v, s) \in Nat
<1> DEFINE in  == TotalIn(v, s) - b.marked_in
           out == TotalOut(v, s) - b.marked_out
<1>1. /\ TotalIn(v, s) \in Nat /\ TotalOut(v, s) \in Nat /\ Supply(v, s) \in Nat
      /\ b.nav \in U64 /\ b.marked_in \in Nat /\ b.marked_out \in Nat
  BY TotalsType, U64Nat DEF Books
<1>2. in \in Nat /\ out \in Nat
  BY <1>1, SMT DEF MarksCovered
<1> HIDE DEF in, out
<1>3. SatSub(SatAdd(b.nav, in), out) \in U64
  BY <1>1, <1>2, SatType
<1> QED BY <1>1, <1>3, U64Nat DEF Nav, in, out

\* Both conversions give amounts.
LEMMA ConversionsType ==
    ASSUME NEW a \in Nat, NEW n \in Nat, NEW s \in Nat
    PROVE  /\ SharesFor(a, n, s) \in Nat
           /\ s > 0 => AssetsFor(a, n, s) \in Nat
<1>1. a * s \in Nat /\ a * n \in Nat
  BY MulNat
<1>2. n > 0 => (a * s) \div n \in Nat
  BY <1>1, DivFloor
<1>3. s > 0 => (a * n) \div s \in Nat
  BY <1>1, DivFloor
<1> QED BY <1>2, <1>3, SMT DEF SharesFor, AssetsFor

\* The accounts as they are created are well typed.
LEMMA InitType == Init => TypeOK
<1> SUFFICES ASSUME Init PROVE TypeOK
  OBVIOUS
<1>1. 0 \in U64 /\ 0 \in Nat /\ 0 \in 0 .. MaxTime
  BY U64MaxAssumption, BoundsAssumption, SMT DEF U64
<1>2. NewBook(InitApr, 0) \in Books
  BY <1>1, AprAssumption, SMT DEF NewBook, Books
<1>3. Empty \in Aggregates
  BY <1>1 DEF Empty, Aggregates
<1> QED BY <1>1, <1>2, <1>3 DEF Init, TypeOK

\* What a public redemption pays is an amount: its shares are part of a supply.
LEMMA RedeemPays ==
    ASSUME TypeOK, NEW shares \in 1 .. vault.shares, Redeem(shares)
    PROVE  shares \in Nat /\ AssetsFor(shares, BaseNav, BaseSupply) \in Nat
<1>1. vault.shares \in U64 /\ vault.shares \in Nat /\ baseShielded.shares \in Nat
  BY U64Nat DEF TypeOK, Aggregates
<1>2. shares \in Nat /\ vault.shares > 0
  BY <1>1, SMT
<1>3. BaseSupply > 0
  BY <1>1, <1>2, U64MaxAssumption, SMT DEF BaseSupply, Supply, SatAdd, U64
<1>4. BaseNav \in Nat /\ BaseSupply \in Nat
  BY NavType DEF TypeOK, Redeem, BaseCovered, BaseNav, BaseSupply
<1> QED BY <1>2, <1>3, <1>4, ConversionsType

\* So is what a ticket promises.
LEMMA ExitPays ==
    ASSUME TypeOK, NEW o \in Owners, NEW dest \in Owners, NEW group \in Groups,
           NEW shares \in 1 .. private_shares[o], OpenExit(o, dest, shares, group)
    PROVE  /\ shares \in Nat /\ shares <= private_shares[o]
           /\ AssetsFor(shares, LiveNav, LiveSupply) \in Nat
<1>1. LiveNav \in Nat /\ LiveSupply \in Nat
  BY NavType DEF TypeOK, OpenExit, LiveCovered, LiveNav, LiveSupply
<1>2. private_shares[o] \in Nat
  BY U64Nat DEF TypeOK
<1>3. shares \in Nat /\ shares <= private_shares[o]
  BY <1>2, SMT
<1> QED BY <1>1, <1>3, ConversionsType DEF OpenExit

\* A public deposit or redemption keeps the types.
LEMMA PublicType ==
    ASSUME TypeOK,
           \/ \E amount \in Amounts : Deposit(amount)
           \/ \E shares \in 1 .. vault.shares : Redeem(shares)
    PROVE  TypeOK'
<1>1. BaseCovered => BaseNav \in Nat /\ BaseSupply \in Nat
  BY NavType DEF TypeOK, BaseCovered, BaseNav, BaseSupply
<1>2. /\ vault.shares \in U64 /\ vault.shares \in Nat
      /\ vault.total_in \in U64 /\ vault.total_out \in U64
  BY U64Nat DEF TypeOK, Aggregates
<1>3. ASSUME NEW amount \in Amounts, Deposit(amount)
      PROVE  vault' \in Aggregates
  <2> DEFINE shares == SharesFor(amount, BaseNav, BaseSupply)
  <2>1. amount \in Nat /\ shares \in Nat
    BY <1>1, <1>3, AmountsAssumption, ConversionsType DEF Deposit
  <2> HIDE DEF shares
  <2>2. vault' = [vault EXCEPT !.shares   = SatAdd(@, shares),
                               !.total_in = SatAdd(@, amount)]
    BY <1>3 DEF Deposit, shares
  <2>3. SatAdd(vault.shares, shares) \in U64 /\ SatAdd(vault.total_in, amount) \in U64
    BY <1>2, <2>1, SatType
  <2> QED BY <2>2, <2>3 DEF TypeOK, Aggregates
<1>4. ASSUME NEW shares \in 1 .. vault.shares, Redeem(shares)
      PROVE  vault' \in Aggregates
  <2> DEFINE assets == AssetsFor(shares, BaseNav, BaseSupply)
  <2>1. shares \in Nat /\ assets \in Nat
    BY <1>4, RedeemPays
  <2> HIDE DEF assets
  <2>2. vault' = [vault EXCEPT !.shares    = SatSub(@, shares),
                               !.total_out = SatAdd(@, assets)]
    BY <1>4 DEF Redeem, assets
  <2>3. SatSub(vault.shares, shares) \in U64 /\ SatAdd(vault.total_out, assets) \in U64
    BY <1>2, <2>1, SatType
  <2> QED BY <2>2, <2>3 DEF TypeOK, Aggregates
<1>5. UNCHANGED <<book, baseBook, flow, siteVars, enclaveVars, payVars, walletVars, now>>
  BY DEF Deposit, Redeem
<1> QED BY <1>3, <1>4, <1>5 DEF TypeOK, siteVars, enclaveVars, payVars, walletVars

\* The book, the keeper's reads and its absorbs keep the types.
LEMMA BookType ==
    ASSUME TypeOK, \/ Tick \/ CommitBook \/ KeeperReads \/ DropAbsorb
                   \/ \E f \in flow : LandAbsorb(f)
    PROVE  TypeOK'
<1>0. now \in Int /\ book \in Books
  BY BoundsAssumption, SMT DEF TypeOK
<1>1. CASE Tick
  <2>1. book' \in Books
    BY <1>0, <1>1, TickedGrows DEF Tick, WriteBook
  <2> QED BY <1>1, <2>1 DEF Tick, TypeOK, siteVars, enclaveVars, payVars, walletVars
<1>2. CASE CommitBook
  BY <1>2 DEF CommitBook, TypeOK, siteVars, enclaveVars, payVars, walletVars
<1>3. CASE KeeperReads
  <2>1. /\ TotalIn(vault, baseShielded) \in U64 /\ TotalOut(vault, baseShielded) \in U64
        /\ book.marked_in \in Nat /\ book.marked_out \in Nat
    BY TotalsType, U64Nat DEF TypeOK, Books
  <2>2. Inflow(vault, baseShielded) \in U64 /\ Outflow(vault, baseShielded) \in U64
    BY <2>1, SatType DEF Inflow, Outflow
  <2> QED BY <1>3, <2>2 DEF KeeperReads, TypeOK, siteVars, enclaveVars, payVars, walletVars
<1>4. CASE DropAbsorb
  BY <1>4 DEF DropAbsorb, TypeOK, siteVars, enclaveVars, payVars, walletVars
<1>5. ASSUME NEW f \in flow, LandAbsorb(f)
      PROVE  TypeOK'
  <2>1. f.inflow \in U64 /\ f.outflow \in U64
    BY DEF TypeOK
  <2>2. book' \in Books
    BY <1>0, <1>5, <2>1, AbsorbedGrows DEF LandAbsorb, WriteBook
  <2> QED BY <1>5, <2>2 DEF LandAbsorb, TypeOK, siteVars, enclaveVars, payVars, walletVars
<1> QED BY <1>1, <1>2, <1>3, <1>4, <1>5

\* A private deposit keeps the types.
LEMMA DepositPrivateType ==
    ASSUME TypeOK, NEW o \in Owners, NEW amount \in Amounts, DepositPrivate(o, amount)
    PROVE  TypeOK'
<1> DEFINE shares == SharesFor(amount, LiveNav, LiveSupply)
<1>1. LiveNav \in Nat /\ LiveSupply \in Nat
  BY NavType DEF TypeOK, DepositPrivate, LiveCovered, LiveNav, LiveSupply
<1>2. amount \in Nat /\ shares \in Nat
  BY <1>1, AmountsAssumption, ConversionsType
<1> HIDE DEF shares
<1>3. /\ private_shares' = [private_shares EXCEPT ![o] = SatAdd(@, shares)]
      /\ shielded' = [shielded EXCEPT !.shares   = SatAdd(@, shares),
                                      !.total_in = SatAdd(@, amount)]
      /\ custody' = custody + amount
      /\ UNCHANGED <<publicVars, siteVars, exits, payVars, walletVars, now>>
  BY DEF DepositPrivate, shares
<1>4. shielded' \in Aggregates
  <2>1. /\ SatAdd(shielded.shares, shares) \in U64
        /\ SatAdd(shielded.total_in, amount) \in U64
    BY <1>2, SatType DEF TypeOK, Aggregates
  <2> QED BY <1>3, <2>1 DEF TypeOK, Aggregates
<1>5. private_shares' \in [Owners -> U64]
  <2>1. SatAdd(private_shares[o], shares) \in U64
    BY <1>2, SatType DEF TypeOK
  <2> QED BY <1>3, <2>1 DEF TypeOK
<1>6. custody' \in Nat
  BY <1>2, <1>3, SMT DEF TypeOK
<1> QED BY <1>3, <1>4, <1>5, <1>6
        DEF TypeOK, publicVars, siteVars, payVars, walletVars

\* So does a ticket, whoever it pays.
LEMMA OpenExitType ==
    ASSUME TypeOK, NEW o \in Owners, NEW dest \in Owners, NEW group \in Groups,
           NEW shares \in 1 .. private_shares[o], OpenExit(o, dest, shares, group)
    PROVE  TypeOK'
<1> DEFINE assets == AssetsFor(shares, LiveNav, LiveSupply)
<1>1. private_shares[o] \in Nat /\ private_shares[o] \in U64
  BY U64Nat DEF TypeOK
<1>2. shares \in Nat
  BY ExitPays
<1>3. assets \in Nat
  BY ExitPays
<1> HIDE DEF assets
<1>4. /\ assets <= U64Max /\ shares <= private_shares[o]
      /\ exits' = exits \union {[group |-> group, owner |-> dest, assets |-> assets]}
      /\ private_shares' = [private_shares EXCEPT ![o] = @ - shares]
      /\ shielded' = [shielded EXCEPT !.shares    = SatSub(@, shares),
                                      !.total_out = SatAdd(@, assets)]
      /\ claimed' = [claimed EXCEPT ![dest] = @ + assets]
      /\ UNCHANGED <<publicVars, siteVars, custody, payVars, paid, now>>
  BY DEF OpenExit, Fits, assets
<1>5. shielded' \in Aggregates
  <2>1. /\ SatSub(shielded.shares, shares) \in U64
        /\ SatAdd(shielded.total_out, assets) \in U64
    BY <1>2, <1>3, SatType DEF TypeOK, Aggregates
  <2> QED BY <1>4, <2>1 DEF TypeOK, Aggregates
<1>6. private_shares' \in [Owners -> U64]
  <2>1. private_shares[o] - shares \in U64
    BY <1>1, <1>2, <1>4, U64MaxAssumption, SMT DEF U64
  <2> QED BY <1>4, <2>1 DEF TypeOK
<1>7. exits' \subseteq Tickets
  <2>1. assets \in U64
    BY <1>3, <1>4, U64MaxAssumption, SMT DEF U64
  <2> QED BY <1>4, <2>1 DEF TypeOK, Tickets
<1>8. claimed' \in [Owners -> Nat]
  <2>1. claimed[dest] + assets \in Nat
    BY <1>3, SMT DEF TypeOK
  <2> QED BY <1>4, <2>1 DEF TypeOK
<1> QED BY <1>4, <1>5, <1>6, <1>7, <1>8
        DEF TypeOK, publicVars, siteVars, payVars, walletVars

\* Reading, sending, paying and dropping keep the types: no payment takes
\* more than the custody has.
LEMMA PayingType ==
    ASSUME TypeOK, Paying
    PROVE  TypeOK'
<1>1. CASE ReadExits
  BY <1>1 DEF ReadExits, TypeOK, publicVars, siteVars, enclaveVars, walletVars
<1>2. CASE AbortRound
  BY <1>2 DEF AbortRound, TypeOK, publicVars, siteVars, enclaveVars, walletVars
<1>3. ASSUME NEW t \in round, PayExit(t)
      PROVE  TypeOK'
  <2>1. PICK id \in 1 .. MaxSent : sent' = sent \union {[id |-> id, ticket |-> t]}
    BY <1>3 DEF PayExit
  <2>2. sent' \subseteq [id : 1 .. MaxSent, ticket : Tickets]
    BY <2>1 DEF TypeOK
  <2> QED BY <1>3, <2>2 DEF PayExit, TypeOK, publicVars, siteVars, enclaveVars, walletVars
<1>4. ASSUME NEW p \in sent, LandPayment(p)
      PROVE  TypeOK'
  <2>1. p.ticket \in Tickets /\ p.ticket.owner \in Owners /\ p.ticket.assets \in Nat
    BY U64Nat DEF TypeOK, Tickets
  <2>2. custody' \in Nat
    BY <1>4, <2>1, SMT DEF LandPayment, TypeOK
  <2>3. paid' \in [Owners -> Nat]
    BY <1>4, <2>1, SMT DEF LandPayment, TypeOK
  <2>4. exits' \subseteq Tickets /\ sent' \subseteq [id : 1 .. MaxSent, ticket : Tickets]
    BY <1>4 DEF LandPayment, TypeOK
  <2> QED BY <1>4, <2>2, <2>3, <2>4 DEF LandPayment, TypeOK, publicVars, siteVars
<1>5. ASSUME NEW p \in sent, DropPayment(p)
      PROVE  TypeOK'
  BY <1>5 DEF DropPayment, TypeOK, publicVars, siteVars, enclaveVars, walletVars
<1> QED BY <1>1, <1>2, <1>3, <1>4, <1>5 DEF Paying

\* Moving the aggregate keeps the types.
LEMMA HostingType ==
    ASSUME TypeOK, Hosting
    PROVE  TypeOK'
  BY DEF Hosting, CommitShielded, UndelegateShielded, LandShielded, DelegateShielded,
         TypeOK, publicVars, enclaveVars, payVars, walletVars

\* Every step of the system keeps every variable within its type.
LEMMA NextType == TypeOK /\ [Next]_vars => TypeOK'
<1> SUFFICES ASSUME TypeOK, [Next]_vars PROVE TypeOK'
  OBVIOUS
<1>1. CASE PublicSide
  BY <1>1, PublicType, BookType DEF PublicSide
<1>2. CASE PrivateTrade
  BY <1>2, DepositPrivateType, OpenExitType DEF PrivateTrade, RedeemPrivate, RedeemPrivateTo
<1>3. CASE Paying
  BY <1>3, PayingType
<1>4. CASE Hosting
  BY <1>4, HostingType
<1>5. CASE AdvanceTime
  <2>1. now' \in 0 .. MaxTime
    BY <1>5, BoundsAssumption, SMT DEF AdvanceTime, TypeOK
  <2> QED BY <1>5, <2>1
          DEF AdvanceTime, TypeOK, publicVars, siteVars, enclaveVars, payVars, walletVars
<1>6. CASE UNCHANGED vars
  BY <1>6 DEF vars, TypeOK, publicVars, siteVars, enclaveVars, payVars, walletVars
<1> QED BY <1>1, <1>2, <1>3, <1>4, <1>5, <1>6 DEF Next

\* Every variable keeps its type in every execution: no custody goes below
\* zero, no position below what redeem_private burns.
THEOREM TypeCorrect == Spec => []TypeOK
  BY InitType, NextType, PTL DEF Spec

-----------------------------------------------------------------------------
(***************************************************************************)
(* One account, three times: committed, scheduled, live.                   *)
(***************************************************************************)
\* What the totals of the accounts are.
LEMMA Amounts64 ==
    ASSUME TypeOK
    PROVE  /\ \A a \in {vault, shielded, baseShielded} \union settling :
                /\ a.total_in \in U64 /\ a.total_out \in U64
                /\ a.total_in \in Nat /\ a.total_out \in Nat
           /\ \A b \in {book, baseBook} :
                b.marked_in \in Nat /\ b.marked_out \in Nat
<1>1. \A a \in {vault, shielded, baseShielded} \union settling : a \in Aggregates
  BY DEF TypeOK
<1>2. book \in Books /\ baseBook \in Books
  BY DEF TypeOK
<1> QED BY <1>1, <1>2, U64Nat DEF Aggregates, Books

\* Nothing is scheduled while Solana holds the account: why a commit that lands
\* cannot take it back.
InOrder == AggregateInOrder /\ (site = "solana" => settling = {})

\* An aggregate that only grew keeps the order, if the enclave wrote it.
LEMMA GrowthInOrder ==
    ASSUME TypeOK, InOrder, site = "enclave",
           UNCHANGED <<baseShielded, site, settling>>,
           shielded'.total_in \in Nat, shielded'.total_out \in Nat,
           shielded.total_in <= shielded'.total_in,
           shielded.total_out <= shielded'.total_out
    PROVE  InOrder'
<1>1. /\ baseShielded.total_in <= shielded'.total_in
      /\ baseShielded.total_out <= shielded'.total_out
  BY Amounts64, SMT DEF InOrder, AggregateInOrder
<1>2. \A a \in settling :
        a.total_in <= shielded'.total_in /\ a.total_out <= shielded'.total_out
  BY Amounts64, SMT DEF InOrder, AggregateInOrder
<1> QED BY <1>1, <1>2 DEF InOrder, AggregateInOrder

\* Moving the account keeps it: a commit schedules the live account, a landing
\* takes the scheduled one, a delegation hands over the same contents.
LEMMA HostingInOrder ==
    ASSUME TypeOK, InOrder, Hosting
    PROVE  InOrder'
<1>0. \A a \in {shielded, baseShielded} :
        a.total_in <= a.total_in /\ a.total_out <= a.total_out
  BY Amounts64, SMT
<1>1. CASE CommitShielded
  BY <1>0, <1>1 DEF CommitShielded, InOrder, AggregateInOrder, enclaveVars
<1>2. CASE UndelegateShielded
  BY <1>0, <1>2 DEF UndelegateShielded, InOrder, AggregateInOrder, enclaveVars
<1>3. CASE LandShielded
  <2>1. PICK a \in settling : baseShielded' = a
    BY <1>3 DEF LandShielded
  <2>2. /\ settling' = {} /\ UNCHANGED shielded
        /\ site' = IF site = "returning" THEN "solana" ELSE site
        /\ site # "solana"
    BY <1>3 DEF LandShielded, enclaveVars, InOrder
  <2>3. site = "returning" => baseShielded' = shielded'
    BY <2>1, <2>2 DEF InOrder, AggregateInOrder
  <2> QED BY <2>1, <2>2, <2>3 DEF InOrder, AggregateInOrder
<1>4. CASE DelegateShielded
  BY <1>0, <1>4 DEF DelegateShielded, InOrder, AggregateInOrder
<1> QED BY <1>1, <1>2, <1>3, <1>4 DEF Hosting

\* What a private deposit does to the totals.
LEMMA DepositPrivateTotals ==
    ASSUME TypeOK, NEW o \in Owners, NEW amount \in Amounts, DepositPrivate(o, amount)
    PROVE  /\ site = "enclave" /\ UNCHANGED <<publicVars, siteVars>>
           /\ amount \in Nat /\ DepositedEver + amount <= MaxFlow
           /\ shielded'.total_in = SatAdd(shielded.total_in, amount)
           /\ shielded'.total_out = shielded.total_out
<1>1. amount \in Nat
  BY AmountsAssumption
<1>2. /\ shielded'.total_in = SatAdd(shielded.total_in, amount)
      /\ shielded'.total_out = shielded.total_out
  BY DEF DepositPrivate, TypeOK, Aggregates
<1> QED BY <1>1, <1>2 DEF DepositPrivate

\* And a ticket.
LEMMA OpenExitTotals ==
    ASSUME TypeOK, NEW o \in Owners, NEW dest \in Owners, NEW group \in Groups,
           NEW shares \in 1 .. private_shares[o], OpenExit(o, dest, shares, group)
    PROVE  \E assets \in Nat :
             /\ site = "enclave" /\ UNCHANGED <<publicVars, siteVars>>
             /\ assets <= Held
             /\ shielded'.total_in = shielded.total_in
             /\ shielded'.total_out = SatAdd(shielded.total_out, assets)
<1> DEFINE assets == AssetsFor(shares, LiveNav, LiveSupply)
<1>1. assets \in Nat
  BY ExitPays
<1>2. /\ site = "enclave" /\ UNCHANGED <<publicVars, siteVars>>
      /\ assets <= Held
  BY DEF OpenExit
<1> HIDE DEF assets
<1>3. shielded' = [shielded EXCEPT !.shares    = SatSub(@, shares),
                                   !.total_out = SatAdd(@, assets)]
  BY DEF OpenExit, assets
<1>4. /\ shielded'.total_in = shielded.total_in
      /\ shielded'.total_out = SatAdd(shielded.total_out, assets)
  BY <1>3 DEF TypeOK, Aggregates
<1> QED BY <1>1, <1>2, <1>4

\* A total is no more than what it becomes.
LEMMA TradedTotals ==
    ASSUME TypeOK, NEW m \in Nat
    PROVE  \A x \in {shielded.total_in, shielded.total_out} :
             x \in Nat /\ x <= x /\ x <= SatAdd(x, m) /\ SatAdd(x, m) \in Nat
<1>1. \A x \in {shielded.total_in, shielded.total_out} : x \in U64 /\ x \in Nat
  BY Amounts64
<1> QED BY <1>1, U64MaxAssumption, SMT DEF SatAdd, U64

\* Trades in the enclave only add to the totals.
LEMMA TradeInOrder ==
    ASSUME TypeOK, InOrder, PrivateTrade
    PROVE  InOrder'
<1>1. ASSUME NEW o \in Owners, NEW amount \in Amounts, DepositPrivate(o, amount)
      PROVE  InOrder'
  <2>1. /\ site = "enclave" /\ UNCHANGED <<baseShielded, site, settling>>
        /\ amount \in Nat
        /\ shielded'.total_in = SatAdd(shielded.total_in, amount)
        /\ shielded'.total_out = shielded.total_out
    BY <1>1, DepositPrivateTotals DEF siteVars
  <2>2. /\ shielded.total_in <= shielded'.total_in
        /\ shielded.total_out <= shielded'.total_out
        /\ shielded'.total_in \in Nat /\ shielded'.total_out \in Nat
    BY <2>1, TradedTotals
  <2> QED BY <2>1, <2>2, GrowthInOrder
<1>2. ASSUME NEW o \in Owners, NEW dest \in Owners, NEW group \in Groups,
             NEW shares \in 1 .. private_shares[o], OpenExit(o, dest, shares, group)
      PROVE  InOrder'
  <2>1. PICK assets \in Nat :
          /\ site = "enclave" /\ UNCHANGED <<baseShielded, site, settling>>
          /\ shielded'.total_in = shielded.total_in
          /\ shielded'.total_out = SatAdd(shielded.total_out, assets)
    BY <1>2, OpenExitTotals DEF siteVars
  <2>2. /\ shielded.total_in <= shielded'.total_in
        /\ shielded.total_out <= shielded'.total_out
        /\ shielded'.total_in \in Nat /\ shielded'.total_out \in Nat
    BY <2>1, TradedTotals
  <2> QED BY <2>1, <2>2, GrowthInOrder
<1> QED BY <1>1, <1>2 DEF PrivateTrade, RedeemPrivate, RedeemPrivateTo

\* What is not a trade of the enclave or a move of its account leaves it alone.
LEMMA ElsewhereKeepsAggregate ==
    ASSUME PublicSide \/ Paying \/ AdvanceTime \/ UNCHANGED vars
    PROVE  UNCHANGED <<shielded, siteVars>>
<1>1. CASE PublicSide
  BY <1>1 DEF PublicSide, Deposit, Redeem, Tick, CommitBook, KeeperReads, DropAbsorb,
              LandAbsorb, enclaveVars
<1>2. CASE Paying
  BY <1>2 DEF Paying, ReadExits, AbortRound, PayExit, LandPayment, DropPayment, enclaveVars
<1>3. CASE AdvanceTime \/ UNCHANGED vars
  BY <1>3 DEF AdvanceTime, vars, enclaveVars
<1> QED BY <1>1, <1>2, <1>3

\* Every step keeps the order.
LEMMA NextInOrder == TypeOK /\ InOrder /\ [Next]_vars => InOrder'
<1> SUFFICES ASSUME TypeOK, InOrder, [Next]_vars PROVE InOrder'
  OBVIOUS
<1>1. CASE PublicSide \/ Paying \/ AdvanceTime \/ UNCHANGED vars
  BY <1>1, ElsewhereKeepsAggregate DEF InOrder, AggregateInOrder, siteVars
<1> QED BY <1>1, TradeInOrder, HostingInOrder DEF Next

\* At the start there is one empty account.
LEMMA InitInOrder == Init => InOrder
<1>1. Empty.total_in <= Empty.total_in /\ Empty.total_out <= Empty.total_out
  BY SMT DEF Empty
<1> QED BY <1>1 DEF Init, InOrder, AggregateInOrder

\* Solana's copy, the scheduled commit and the live aggregate are successive
\* states of one account through every commit and recycle.
THEOREM AggregateOrdered == Spec => []AggregateInOrder
<1>1. InOrder => AggregateInOrder
  BY DEF InOrder
<1> QED BY <1>1, InitInOrder, NextInOrder, TypeCorrect, PTL DEF Spec

-----------------------------------------------------------------------------
(***************************************************************************)
(* Exact prices on both sides.                                             *)
(***************************************************************************)
\* No custody has paid out more than it took in, nor did they together take in
\* more than the bound.
Solvent ==
    /\ \A a \in {vault, shielded, baseShielded} \union settling :
         a.total_out <= a.total_in
    /\ DepositedEver <= MaxFlow

\* The book can still absorb m in and n out: Solana knows of the flow, and the
\* pools will hold what is taken.
Absorbable(m, n) ==
    /\ book.marked_in  + m <= vault.total_in  + baseShielded.total_in
    /\ book.marked_out + n <= vault.total_out + baseShielded.total_out
    /\ book.marked_out + n <= book.marked_in + m

\* Both copies of the book hold what they have marked, and what is on its way
\* to it was known to Solana when the keeper read.
BookExact ==
    /\ Backed(book) /\ Backed(baseBook)
    /\ Total(book.accrued) <= MaxYield /\ Total(baseBook.accrued) <= MaxYield
    /\ baseBook.marked_in  <= book.marked_in
    /\ baseBook.marked_out <= book.marked_out
    /\ Absorbable(0, 0)
    /\ \A f \in flow : Absorbable(f.inflow, f.outflow)

\* A backed book, priced with two custodies that have seen all it has marked,
\* is worth the dollars in less the dollars out, plus the yield.
LEMMA PricesExact ==
    ASSUME NEW v \in Aggregates, NEW s \in Aggregates, NEW b \in Books,
           Backed(b), Total(b.accrued) <= MaxYield,
           v.total_out <= v.total_in, s.total_out <= s.total_in,
           v.total_in + s.total_in <= MaxFlow,
           b.marked_in <= v.total_in + s.total_in,
           b.marked_out <= v.total_out + s.total_out
    PROVE  /\ MarksCovered(v, b, s)
           /\ Nav(v, b, s) = v.total_in + s.total_in - v.total_out - s.total_out
                               + Total(b.accrued)
<1> DEFINE in  == v.total_in + s.total_in
           out == v.total_out + s.total_out
           yield == Total(b.accrued)
<1>1. /\ in \in Nat /\ out \in Nat /\ yield \in Nat
      /\ b.marked_in \in Nat /\ b.marked_out \in Nat /\ b.nav \in Nat
      /\ out <= in /\ in <= MaxFlow /\ yield <= MaxYield
      /\ b.marked_in <= in /\ b.marked_out <= out
  BY U64Nat, TotalNat, SMT DEF Aggregates, Books
<1>2. MaxFlow \in Nat /\ MaxYield \in Nat /\ MaxFlow + MaxYield <= U64Max
  BY BoundsAssumption, U64MaxAssumption, SMT
<1>3. b.nav = b.marked_in - b.marked_out + yield
  BY DEF Backed
<1>4. TotalIn(v, s) = SatAdd(v.total_in, s.total_in)
      /\ TotalOut(v, s) = SatAdd(v.total_out, s.total_out)
  BY DEF TotalIn, TotalOut
<1>5. v.total_in + s.total_in = in /\ v.total_out + s.total_out = out
  OBVIOUS
<1>6. v.total_in + s.total_in - v.total_out - s.total_out = in - out
  BY U64Nat, SMT DEF Aggregates
<1> HIDE DEF in, out, yield
<1>7. TotalIn(v, s) = in /\ TotalOut(v, s) = out
  BY <1>1, <1>2, <1>4, <1>5, U64MaxAssumption, SMT DEF SatAdd
<1>8. SatAdd(b.nav, in - b.marked_in) = in - b.marked_out + yield
  BY <1>1, <1>2, <1>3, U64MaxAssumption, SMT DEF SatAdd
<1>9. SatSub(in - b.marked_out + yield, out - b.marked_out) = in - out + yield
  BY <1>1, SMT DEF SatSub
<1>10. Nav(v, b, s) = in - out + yield
  BY <1>7, <1>8, <1>9 DEF Nav
<1>11. MarksCovered(v, b, s)
  BY <1>1, <1>7 DEF MarksCovered
<1> QED BY <1>6, <1>10, <1>11 DEF yield

\* Both sides can price, exactly.
LEMMA BothExact ==
    ASSUME TypeOK, InOrder, Solvent, BookExact
    PROVE  BothNavsExact
<1>1. /\ vault \in Aggregates /\ shielded \in Aggregates /\ baseShielded \in Aggregates
      /\ book \in Books /\ baseBook \in Books
  BY DEF TypeOK
<1>2. /\ baseShielded.total_in <= shielded.total_in
      /\ baseShielded.total_out <= shielded.total_out
  BY DEF InOrder, AggregateInOrder
<1>3. /\ vault.total_in + shielded.total_in <= MaxFlow
      /\ vault.total_in + baseShielded.total_in <= MaxFlow
  BY <1>2, Amounts64, BoundsAssumption, SMT DEF Solvent, DepositedEver
<1>4. /\ baseBook.marked_in <= vault.total_in + baseShielded.total_in
      /\ baseBook.marked_out <= vault.total_out + baseShielded.total_out
      /\ baseBook.marked_in <= vault.total_in + shielded.total_in
      /\ baseBook.marked_out <= vault.total_out + shielded.total_out
  BY <1>2, Amounts64, SMT DEF BookExact, Absorbable
<1>5. /\ MarksCovered(vault, baseBook, baseShielded)
      /\ Nav(vault, baseBook, baseShielded)
           = vault.total_in + baseShielded.total_in - vault.total_out
               - baseShielded.total_out + Total(baseBook.accrued)
  BY <1>1, <1>3, <1>4, PricesExact DEF Solvent, BookExact
<1>6. /\ MarksCovered(vault, baseBook, shielded)
      /\ Nav(vault, baseBook, shielded)
           = vault.total_in + shielded.total_in - vault.total_out
               - shielded.total_out + Total(baseBook.accrued)
  BY <1>1, <1>3, <1>4, PricesExact DEF Solvent, BookExact
<1> QED BY <1>5, <1>6 DEF BothNavsExact, BaseCovered, LiveCovered, BaseNav, LiveNav

\* Empty accounts are exact.
LEMMA InitExact == Init => Solvent /\ BookExact
<1> SUFFICES ASSUME Init PROVE Solvent /\ BookExact
  OBVIOUS
<1>1. /\ book.nav = 0 /\ book.marked_in = 0 /\ book.marked_out = 0
      /\ Total(book.principal) = 0 /\ Total(book.accrued) = 0
      /\ baseBook = book /\ flow = {} /\ settling = {}
      /\ vault = Empty /\ shielded = Empty /\ baseShielded = Empty
  BY SMT DEF Init, NewBook, Total, Pools
<1>2. Solvent
  BY <1>1, BoundsAssumption, SMT DEF Solvent, DepositedEver, Empty
<1>3. Backed(book) /\ Absorbable(0, 0)
  BY <1>1, SMT DEF Backed, Absorbable, Empty
<1> QED BY <1>1, <1>2, <1>3, BoundsAssumption, SMT DEF BookExact

\* Flow that is only added to leaves the book as absorbable as it was.
LEMMA MoreFlow ==
    ASSUME TypeOK, BookExact, UNCHANGED <<book, baseBook, flow>>,
           vault'.total_in \in Nat, vault'.total_out \in Nat,
           baseShielded'.total_in \in Nat, baseShielded'.total_out \in Nat,
           vault.total_in <= vault'.total_in, vault.total_out <= vault'.total_out,
           baseShielded.total_in <= baseShielded'.total_in,
           baseShielded.total_out <= baseShielded'.total_out
    PROVE  BookExact'
<1>1. \A f \in flow : f.inflow \in Nat /\ f.outflow \in Nat
  BY U64Nat DEF TypeOK
<1>2. ASSUME NEW m \in Nat, NEW n \in Nat, Absorbable(m, n)
      PROVE  Absorbable(m, n)'
  BY <1>2, Amounts64, SMT DEF Absorbable
<1>3. Absorbable(0, 0)' /\ \A f \in flow : Absorbable(f.inflow, f.outflow)'
  BY <1>1, <1>2 DEF BookExact
<1>4. /\ Backed(book)' /\ Backed(baseBook)'
  BY DEF BookExact, Backed
<1> QED BY <1>3, <1>4 DEF BookExact

\* A public deposit or redemption.
LEMMA PublicExact ==
    ASSUME TypeOK, Solvent, BookExact,
           \/ \E amount \in Amounts : Deposit(amount)
           \/ \E shares \in 1 .. vault.shares : Redeem(shares)
    PROVE  Solvent' /\ BookExact'
<1>0. UNCHANGED <<shielded, baseShielded, settling, book, baseBook, flow>>
  BY DEF Deposit, Redeem, siteVars, enclaveVars
<1>1. ASSUME NEW m \in Nat, NEW n \in Nat,
             vault'.total_in = SatAdd(vault.total_in, m),
             vault'.total_out = SatAdd(vault.total_out, n),
             DepositedEver + m <= MaxFlow,
             n <= vault.total_in - vault.total_out
      PROVE  Solvent' /\ BookExact'
  <2>1. MaxFlow <= U64Max
    BY BoundsAssumption, U64MaxAssumption, SMT
  <2>2. /\ vault'.total_in = vault.total_in + m
        /\ vault'.total_out = vault.total_out + n
    BY <1>1, <2>1, Amounts64, BoundsAssumption, U64MaxAssumption, SMT
    DEF SatAdd, DepositedEver
  <2>3. vault'.total_out <= vault'.total_in /\ DepositedEver' <= MaxFlow
    BY <1>0, <1>1, <2>2, Amounts64, BoundsAssumption, SMT DEF DepositedEver, Solvent
  <2>4. Solvent'
    BY <1>0, <2>3 DEF Solvent
  <2>5. BookExact'
    BY <1>0, <1>1, <2>2, Amounts64, MoreFlow, SMT
  <2> QED BY <2>4, <2>5
<1>2. ASSUME NEW amount \in Amounts, Deposit(amount)
      PROVE  Solvent' /\ BookExact'
  <2> DEFINE shares == SharesFor(amount, BaseNav, BaseSupply)
  <2>1. amount \in Nat
    BY AmountsAssumption
  <2>2. /\ vault' = [vault EXCEPT !.shares   = SatAdd(@, shares),
                                  !.total_in = SatAdd(@, amount)]
        /\ DepositedEver + amount <= MaxFlow
    BY <1>2 DEF Deposit
  <2> HIDE DEF shares
  <2>3. /\ vault'.total_in = SatAdd(vault.total_in, amount)
        /\ vault'.total_out = vault.total_out
    BY <2>2 DEF TypeOK, Aggregates
  <2>4. /\ vault.total_out = SatAdd(vault.total_out, 0)
        /\ 0 <= vault.total_in - vault.total_out
    BY Amounts64, U64MaxAssumption, SMT DEF SatAdd, U64, Solvent
  <2> QED BY <1>1, <2>1, <2>2, <2>3, <2>4
<1>3. ASSUME NEW shares \in 1 .. vault.shares, Redeem(shares)
      PROVE  Solvent' /\ BookExact'
  <2> DEFINE assets == AssetsFor(shares, BaseNav, BaseSupply)
  <2>1. assets \in Nat
    BY <1>3, RedeemPays
  <2>2. /\ vault' = [vault EXCEPT !.shares    = SatSub(@, shares),
                                  !.total_out = SatAdd(@, assets)]
        /\ assets <= vault.total_in - vault.total_out
    BY <1>3 DEF Redeem
  <2> HIDE DEF assets
  <2>3. /\ vault'.total_in = vault.total_in
        /\ vault'.total_out = SatAdd(vault.total_out, assets)
    BY <2>2 DEF TypeOK, Aggregates
  <2>4. /\ vault.total_in = SatAdd(vault.total_in, 0)
        /\ DepositedEver + 0 <= MaxFlow
    BY Amounts64, U64MaxAssumption, SMT DEF SatAdd, U64, Solvent, DepositedEver
  <2> QED BY <1>1, <2>1, <2>2, <2>3, <2>4
<1> QED BY <1>2, <1>3

\* A private deposit or a ticket: the enclave's own aggregate, which the book
\* does not know of yet.
LEMMA PrivateExact ==
    ASSUME TypeOK, Solvent, BookExact, PrivateTrade
    PROVE  Solvent' /\ BookExact'
<1>1. ASSUME UNCHANGED <<publicVars, siteVars>>,
             shielded'.total_out <= shielded'.total_in,
             vault.total_in + shielded'.total_in <= MaxFlow
      PROVE  Solvent' /\ BookExact'
  <2>1. Solvent'
    BY <1>1 DEF Solvent, DepositedEver, publicVars, siteVars
  <2>2. BookExact'
    BY <1>1, Amounts64, MoreFlow, SMT DEF publicVars, siteVars
  <2> QED BY <2>1, <2>2
<1>2. ASSUME NEW o \in Owners, NEW amount \in Amounts, DepositPrivate(o, amount)
      PROVE  Solvent' /\ BookExact'
  <2>1. /\ amount \in Nat /\ DepositedEver + amount <= MaxFlow
        /\ shielded'.total_in = SatAdd(shielded.total_in, amount)
        /\ shielded'.total_out = shielded.total_out
        /\ UNCHANGED <<publicVars, siteVars>>
    BY <1>2, DepositPrivateTotals
  <2>2. MaxFlow \in Nat /\ MaxFlow <= U64Max
    BY BoundsAssumption, U64MaxAssumption, SMT
  <2>3. shielded'.total_in = shielded.total_in + amount
    BY <2>1, <2>2, Amounts64, U64MaxAssumption, SMT DEF SatAdd, DepositedEver
  <2>4. /\ shielded'.total_out <= shielded'.total_in
        /\ vault.total_in + shielded'.total_in <= MaxFlow
    BY <2>1, <2>2, <2>3, Amounts64, SMT DEF Solvent, DepositedEver
  <2> QED BY <1>1, <2>1, <2>4
<1>3. ASSUME NEW o \in Owners, NEW dest \in Owners, NEW group \in Groups,
             NEW shares \in 1 .. private_shares[o], OpenExit(o, dest, shares, group)
      PROVE  Solvent' /\ BookExact'
  <2>1. PICK assets \in Nat :
          /\ UNCHANGED <<publicVars, siteVars>>
          /\ assets <= Held
          /\ shielded'.total_in = shielded.total_in
          /\ shielded'.total_out = SatAdd(shielded.total_out, assets)
    BY <1>3, OpenExitTotals
  <2>2. Held = shielded.total_in - shielded.total_out
    BY Amounts64, SMT DEF Held, SatSub, Solvent
  <2>3. shielded'.total_out <= shielded'.total_in
    BY <2>1, <2>2, Amounts64, U64MaxAssumption, SMT DEF SatAdd, U64
  <2>4. vault.total_in + shielded'.total_in <= MaxFlow
    BY <2>1 DEF Solvent, DepositedEver
  <2> QED BY <1>1, <2>1, <2>3, <2>4
<1> QED BY <1>2, <1>3 DEF PrivateTrade, RedeemPrivate, RedeemPrivateTo

\* Moving the aggregate: what Solana learns only adds to what it knew.
LEMMA HostingExact ==
    ASSUME TypeOK, InOrder, Solvent, BookExact, Hosting
    PROVE  Solvent' /\ BookExact'
<1>0. \A a \in {vault, shielded, baseShielded} :
        a.total_in <= a.total_in /\ a.total_out <= a.total_out
  BY Amounts64, SMT
<1>1. UNCHANGED publicVars
  BY DEF Hosting, CommitShielded, UndelegateShielded, LandShielded, DelegateShielded
<1>2. /\ shielded' \in {shielded, baseShielded} /\ shielded'.total_in = shielded.total_in
      /\ baseShielded' \in {baseShielded} \union settling
      /\ settling' \subseteq {shielded} \union settling
  BY DEF Hosting, CommitShielded, UndelegateShielded, LandShielded, DelegateShielded,
         enclaveVars, InOrder, AggregateInOrder
<1>3. Solvent'
  BY <1>1, <1>2 DEF Solvent, DepositedEver, publicVars
<1>4. /\ baseShielded.total_in <= baseShielded'.total_in
      /\ baseShielded.total_out <= baseShielded'.total_out
      /\ baseShielded'.total_in \in Nat /\ baseShielded'.total_out \in Nat
  BY <1>0, <1>2, Amounts64 DEF InOrder, AggregateInOrder
<1>5. BookExact'
  BY <1>0, <1>1, <1>4, Amounts64, MoreFlow DEF publicVars
<1> QED BY <1>3, <1>5

\* The book's own steps and the keeper's: a flow is carried from what Solana
\* had committed when it was read, and absorbed at most once.
LEMMA KeepingExact ==
    ASSUME TypeOK, InOrder, Solvent, BookExact,
           \/ Tick \/ CommitBook \/ KeeperReads \/ DropAbsorb
           \/ \E f \in flow : LandAbsorb(f)
    PROVE  Solvent' /\ BookExact'
<1>0. /\ now \in Int /\ book \in Books /\ baseBook \in Books
      /\ book.marked_in \in Nat /\ book.marked_out \in Nat
      /\ baseBook.marked_in \in Nat /\ baseBook.marked_out \in Nat
      /\ vault.total_in \in Nat /\ baseShielded.total_in \in Nat
      /\ vault.total_out \in Nat /\ baseShielded.total_out \in Nat
  BY Amounts64, BoundsAssumption, SMT DEF TypeOK
<1>1. UNCHANGED <<vault, shielded, baseShielded, settling>>
  BY DEF Tick, CommitBook, KeeperReads, DropAbsorb, LandAbsorb, siteVars, enclaveVars
<1>2. Solvent'
  BY <1>1 DEF Solvent, DepositedEver
\* The bounds within which no sum over the book saturates.
<1>3. /\ MaxFlow \in Nat /\ MaxYield \in Nat /\ MaxFlow + MaxYield <= U64Max
      /\ vault.total_in + baseShielded.total_in <= MaxFlow
      /\ vault.total_out + baseShielded.total_out
           <= vault.total_in + baseShielded.total_in
      /\ vault.total_in + baseShielded.total_in <= U64Max
  <2>1. vault.total_in + baseShielded.total_in <= MaxFlow
    BY <1>0, Amounts64, BoundsAssumption, SMT
    DEF InOrder, AggregateInOrder, Solvent, DepositedEver
  <2> QED BY <1>0, <2>1, BoundsAssumption, U64MaxAssumption, SMT DEF Solvent
<1>4. CASE Tick
  <2>1. /\ book' = Ticked(book, now) /\ Total(book'.accrued) <= MaxYield
        /\ UNCHANGED <<baseBook, flow>>
    BY <1>4 DEF Tick, WriteBook
  <2>2. book'.marked_in = book.marked_in /\ book'.marked_out = book.marked_out
    BY <1>0, <2>1, TickedGrows
  <2>3. book.marked_in <= MaxFlow
    BY <1>0, <1>3, SMT DEF BookExact, Absorbable
  <2>4. Backed(book')
    BY <1>0, <1>3, <2>1, <2>3, SettledBacked DEF BookExact, Pools
  <2> QED BY <1>1, <1>2, <2>1, <2>2, <2>4 DEF BookExact, Absorbable, Backed
<1>5. CASE CommitBook
  <2>1. baseBook' = book /\ UNCHANGED <<book, flow>>
    BY <1>5 DEF CommitBook
  <2>2. book.marked_in <= book.marked_in /\ book.marked_out <= book.marked_out
    BY <1>0, SMT
  <2> QED BY <1>1, <1>2, <2>1, <2>2 DEF BookExact, Absorbable, Backed
<1>6. CASE KeeperReads
  <2>1. /\ flow' = {[inflow  |-> Inflow(vault, baseShielded),
                     outflow |-> Outflow(vault, baseShielded)]}
        /\ UNCHANGED <<book, baseBook>>
    BY <1>6 DEF KeeperReads
  <2>2. /\ TotalIn(vault, baseShielded) = vault.total_in + baseShielded.total_in
        /\ TotalOut(vault, baseShielded) = vault.total_out + baseShielded.total_out
    BY <1>0, <1>3, U64MaxAssumption, SMT DEF TotalIn, TotalOut, SatAdd
  <2>3. Absorbable(Inflow(vault, baseShielded), Outflow(vault, baseShielded))
    BY <1>0, <1>3, <2>2, SMT DEF Inflow, Outflow, SatSub, BookExact, Absorbable
  <2>4. \A f \in flow' : Absorbable(f.inflow, f.outflow)
    BY <2>1, <2>3
  <2> QED BY <1>1, <1>2, <2>1, <2>4 DEF BookExact, Absorbable, Backed
<1>7. CASE DropAbsorb
  <2>1. flow' = {} /\ UNCHANGED <<book, baseBook>>
    BY <1>7 DEF DropAbsorb
  <2> QED BY <1>1, <1>2, <2>1 DEF BookExact, Absorbable, Backed
<1>8. ASSUME NEW f \in flow, LandAbsorb(f)
      PROVE  Solvent' /\ BookExact'
  <2> DEFINE m == f.inflow
             n == f.outflow
  <2>1. /\ book' = Absorbed(book, now, m, n) /\ Total(book'.accrued) <= MaxYield
        /\ flow' = {} /\ UNCHANGED baseBook
    BY <1>8 DEF LandAbsorb, WriteBook
  <2>2. m \in U64 /\ n \in U64 /\ m \in Nat /\ n \in Nat
    BY U64Nat DEF TypeOK
  <2>3. Absorbable(m, n)
    BY DEF BookExact
  <2> HIDE DEF m, n
  <2>4. book.marked_in + m <= MaxFlow /\ book.marked_out + n <= book.marked_in + m
    BY <1>0, <1>3, <2>2, <2>3, SMT DEF Absorbable
  <2>5. /\ Backed(book')
        /\ book'.marked_in = book.marked_in + m
        /\ book'.marked_out = book.marked_out + n
    BY <1>0, <1>3, <2>1, <2>2, <2>4, AbsorbedBacked DEF BookExact
  <2>6. Absorbable(0, 0)'
    BY <1>0, <1>1, <2>2, <2>3, <2>5, SMT DEF Absorbable
  <2>7. /\ baseBook'.marked_in <= book'.marked_in
        /\ baseBook'.marked_out <= book'.marked_out
    BY <1>0, <2>1, <2>2, <2>5, SMT DEF BookExact
  <2> QED BY <1>2, <2>1, <2>5, <2>6, <2>7 DEF BookExact, Backed
<1> QED BY <1>4, <1>5, <1>6, <1>7, <1>8

\* Every step keeps both prices exact.
LEMMA NextExact ==
    TypeOK /\ InOrder /\ Solvent /\ BookExact /\ [Next]_vars => Solvent' /\ BookExact'
<1> SUFFICES ASSUME TypeOK, InOrder, Solvent, BookExact, [Next]_vars
             PROVE  Solvent' /\ BookExact'
  OBVIOUS
<1>1. CASE PublicSide
  BY <1>1, PublicExact, KeepingExact DEF PublicSide
<1>2. CASE Paying \/ AdvanceTime \/ UNCHANGED vars
  <2>1. UNCHANGED <<publicVars, shielded, siteVars>>
    <3>1. UNCHANGED publicVars
      BY <1>2 DEF Paying, ReadExits, AbortRound, PayExit, LandPayment, DropPayment,
                  AdvanceTime, vars
    <3> QED BY <1>2, <3>1, ElsewhereKeepsAggregate
  <2> QED BY <2>1 DEF Solvent, DepositedEver, BookExact, Absorbable, Backed,
                      publicVars, siteVars
<1> QED BY <1>1, <1>2, PrivateExact, HostingExact DEF Next

\* In every execution the public and the private side can price, and price on
\* exactly the dollars in less the dollars out that each of them knows of, plus
\* the yield of the committed book.
THEOREM BothPricesExact == Spec => []BothNavsExact
<1>1. TypeOK /\ InOrder /\ Solvent /\ BookExact => BothNavsExact
  BY BothExact
<1>2. Init => TypeOK /\ InOrder /\ Solvent /\ BookExact
  BY InitType, InitInOrder, InitExact
<1>3. TypeOK /\ InOrder /\ Solvent /\ BookExact /\ [Next]_vars
        => (TypeOK /\ InOrder /\ Solvent /\ BookExact)'
  BY NextType, NextInOrder, NextExact
<1> QED BY <1>1, <1>2, <1>3, PTL DEF Spec

-----------------------------------------------------------------------------
(***************************************************************************)
(* Tickets.  What is due on a set of tickets is a sum, which a ticket      *)
(* opened adds one term to and a ticket paid takes one from.               *)
(***************************************************************************)
\* The dollars of finitely many tickets are an amount, and every ticket counts.
LEMMA DueSplit ==
    ASSUME NEW T \in SUBSET Tickets, IsFiniteSet(T), NEW t \in T
    PROVE  /\ Due(T) \in Nat /\ Due(T \ {t}) \in Nat
           /\ Due(T) = t.assets + Due(T \ {t})
<1> DEFINE f == [s \in T |-> s.assets]
           e == [s \in T \ {t} |-> s.assets]
<1>1. /\ f \in [T -> Nat] /\ f[t] = t.assets /\ [s \in T \ {t} |-> f[s]] = e
      /\ e \in [T \ {t} -> Nat]
  BY U64Nat DEF Tickets
<1>2. IsFiniteSet(T \ {t})
  BY FS_RemoveElement
<1>3. Due(T) = SumFunction(f) /\ Due(T \ {t}) = SumFunction(e)
  BY DEF Due
<1> HIDE DEF f, e
<1>4. SumFunction(f) = f[t] + SumFunction(e)
  BY <1>1, SumSplit
<1>5. SumFunction(f) \in Nat /\ SumFunction(e) \in Nat
  BY <1>1, <1>2, SumNat
<1> QED BY <1>1, <1>3, <1>4, <1>5

\* A ticket opened.
LEMMA DueOpened ==
    ASSUME NEW T \in SUBSET Tickets, IsFiniteSet(T), NEW t \in Tickets \ T
    PROVE  /\ IsFiniteSet(T \union {t})
           /\ Due(T) \in Nat /\ Due(T \union {t}) = Due(T) + t.assets
<1>1. IsFiniteSet(T \union {t})
  BY FS_AddElement
<1>2. T \union {t} \in SUBSET Tickets /\ t \in T \union {t} /\ (T \union {t}) \ {t} = T
  OBVIOUS
<1>3. Due(T) \in Nat /\ Due(T \union {t}) = t.assets + Due(T)
  BY <1>1, <1>2, DueSplit
<1>4. t.assets \in Nat
  BY U64Nat DEF Tickets
<1> QED BY <1>1, <1>3, <1>4, SMT

\* Nothing is due on no ticket.
LEMMA DueNone == Due({}) = 0
<1>1. [t \in {} |-> t.assets] \in [{} -> Nat]
  OBVIOUS
<1> QED BY <1>1, SumEmpty DEF Due

\* The tickets of one wallet.
TicketsOf(T, o) == {t \in T : t.owner = o}

\* The dollars owed: the custody has them, and they are what each wallet was
\* promised and not paid.
TicketsKept == IsFiniteSet(exits) /\ TicketsCovered /\ PaidOnce

\* At the start nobody is owed anything.
LEMMA InitKept == Init => TicketsKept
<1> SUFFICES ASSUME Init PROVE TicketsKept
  OBVIOUS
<1>1. /\ exits = {} /\ custody = 0
      /\ shielded.total_in = 0 /\ shielded.total_out = 0
      /\ \A o \in Owners : claimed[o] = 0 /\ paid[o] = 0
  BY DEF Init, Empty
<1>2. IsFiniteSet(exits) /\ Due(exits) = 0
  BY <1>1, DueNone, FS_EmptySet
<1>3. TicketsCovered
  BY <1>1, <1>2, SMT DEF TicketsCovered
<1>4. ASSUME NEW o \in Owners
      PROVE  claimed[o] = paid[o] + Due(TicketsOf(exits, o))
  <2>1. TicketsOf(exits, o) = {}
    BY <1>1 DEF TicketsOf
  <2>2. Due(TicketsOf(exits, o)) = 0
    BY <2>1, DueNone
  <2> QED BY <1>1, <2>2, SMT
<1> QED BY <1>2, <1>3, <1>4 DEF TicketsKept, PaidOnce, TicketsOf

\* What a ticket does to the dollars: it is a new one, it promises what the
\* aggregate counts as out, and that is within what the custody holds.
LEMMA OpenExitTicket ==
    ASSUME TypeOK, Solvent, NEW o \in Owners, NEW dest \in Owners, NEW group \in Groups,
           NEW shares \in 1 .. private_shares[o], OpenExit(o, dest, shares, group)
    PROVE  \E t \in Tickets \ exits :
             /\ t.owner = dest
             /\ exits' = exits \union {t}
             /\ claimed' = [claimed EXCEPT ![dest] = @ + t.assets]
             /\ shielded'.total_in = shielded.total_in
             /\ shielded'.total_out = shielded.total_out + t.assets
             /\ UNCHANGED <<custody, paid>>
<1> DEFINE assets == AssetsFor(shares, LiveNav, LiveSupply)
           t == [group |-> group, owner |-> dest, assets |-> assets]
<1>1. assets \in Nat
  BY ExitPays
<1>2. /\ assets <= Held /\ assets <= U64Max
      /\ \A s \in exits : s.group # group
      /\ exits' = exits \union {t}
      /\ shielded' = [shielded EXCEPT !.shares    = SatSub(@, shares),
                                      !.total_out = SatAdd(@, assets)]
      /\ claimed' = [claimed EXCEPT ![dest] = @ + assets]
      /\ UNCHANGED <<custody, paid>>
  BY DEF OpenExit, Fits, GroupFree
<1> HIDE DEF assets
<1>3. t \in Tickets /\ t \notin exits /\ t.owner = dest /\ t.assets = assets
  <2>1. assets \in U64
    BY <1>1, <1>2, U64MaxAssumption, SMT DEF U64
  <2> QED BY <1>2, <2>1 DEF Tickets
<1>4. /\ shielded'.total_in = shielded.total_in
      /\ shielded'.total_out = SatAdd(shielded.total_out, assets)
  BY <1>2 DEF TypeOK, Aggregates
<1>5. Held = shielded.total_in - shielded.total_out
  BY Amounts64, SMT DEF Held, SatSub, Solvent
<1>6. SatAdd(shielded.total_out, assets) = shielded.total_out + assets
  BY <1>1, <1>2, <1>5, Amounts64, U64MaxAssumption, SMT DEF SatAdd, U64
<1> HIDE DEF t
<1> QED BY <1>2, <1>3, <1>4, <1>6

\* Opening a ticket.
LEMMA OpenExitKept ==
    ASSUME TypeOK, Solvent, TicketsKept,
           NEW o \in Owners, NEW dest \in Owners, NEW group \in Groups,
           NEW shares \in 1 .. private_shares[o], OpenExit(o, dest, shares, group)
    PROVE  TicketsKept'
<1>1. PICK t \in Tickets \ exits :
        /\ t.owner = dest
        /\ exits' = exits \union {t}
        /\ claimed' = [claimed EXCEPT ![dest] = @ + t.assets]
        /\ shielded'.total_in = shielded.total_in
        /\ shielded'.total_out = shielded.total_out + t.assets
        /\ UNCHANGED <<custody, paid>>
  BY OpenExitTicket
<1>2. exits \in SUBSET Tickets /\ IsFiniteSet(exits) /\ t.assets \in Nat
  BY U64Nat DEF TypeOK, TicketsKept, Tickets
<1>3. IsFiniteSet(exits') /\ Due(exits) \in Nat /\ Due(exits') = Due(exits) + t.assets
  BY <1>1, <1>2, DueOpened
<1>4. TicketsCovered'
  <2>1. custody = shielded.total_in - shielded.total_out + Due(exits)
    BY DEF TicketsKept, TicketsCovered
  <2>2. custody' = shielded'.total_in - shielded'.total_out + Due(exits')
    BY <1>1, <1>2, <1>3, <2>1, Amounts64, SMT
  <2> QED BY <2>2 DEF TicketsCovered, Due
<1>5. ASSUME NEW q \in Owners
      PROVE  claimed'[q] = paid'[q] + Due(TicketsOf(exits', q))
  <2>1. /\ TicketsOf(exits, q) \in SUBSET Tickets /\ IsFiniteSet(TicketsOf(exits, q))
        /\ t \notin TicketsOf(exits, q)
    BY <1>2, FS_Subset DEF TicketsOf
  <2>2. claimed[q] = paid[q] + Due(TicketsOf(exits, q))
    BY DEF TicketsKept, PaidOnce, TicketsOf
  <2>3. CASE q = dest
    <3>1. TicketsOf(exits', q) = TicketsOf(exits, q) \union {t}
      BY <1>1, <2>3 DEF TicketsOf
    <3>2. /\ Due(TicketsOf(exits, q)) \in Nat
          /\ Due(TicketsOf(exits', q)) = Due(TicketsOf(exits, q)) + t.assets
      BY <2>1, <3>1, DueOpened
    <3>3. claimed'[q] = claimed[q] + t.assets /\ paid'[q] = paid[q]
          /\ paid[q] \in Nat
      BY <1>1, <2>3 DEF TypeOK
    <3> QED BY <1>2, <2>2, <3>2, <3>3, SMT
  <2>4. CASE q # dest
    <3>1. TicketsOf(exits', q) = TicketsOf(exits, q)
      BY <1>1, <2>4 DEF TicketsOf
    <3>2. claimed'[q] = claimed[q] /\ paid'[q] = paid[q]
      BY <1>1, <2>4 DEF TypeOK
    <3> QED BY <2>2, <3>1, <3>2
  <2> QED BY <2>3, <2>4
<1> QED BY <1>3, <1>4, <1>5 DEF TicketsKept, PaidOnce, TicketsOf, Due

\* A payment takes from the custody what its ticket says, and closes it.
LEMMA LandPaymentKept ==
    ASSUME TypeOK, TicketsKept, NEW p \in sent, LandPayment(p)
    PROVE  TicketsKept'
<1> DEFINE t == p.ticket
<1>1. /\ t \in exits
      /\ exits'   = exits \ {t}
      /\ custody' = custody - t.assets
      /\ paid'    = [paid EXCEPT ![t.owner] = @ + t.assets]
      /\ UNCHANGED <<shielded, claimed>>
  BY DEF LandPayment
<1> HIDE DEF t
<1>2. /\ exits \in SUBSET Tickets /\ IsFiniteSet(exits)
      /\ t.assets \in Nat /\ t.owner \in Owners
  BY <1>1, U64Nat DEF TypeOK, TicketsKept, Tickets
<1>3. /\ Due(exits) \in Nat /\ Due(exits') \in Nat /\ Due(exits) = t.assets + Due(exits')
      /\ IsFiniteSet(exits')
  BY <1>1, <1>2, DueSplit, FS_RemoveElement
<1>4. TicketsCovered'
  <2>1. custody = shielded.total_in - shielded.total_out + Due(exits)
    BY DEF TicketsKept, TicketsCovered
  <2>2. custody' = shielded'.total_in - shielded'.total_out + Due(exits')
    BY <1>1, <1>2, <1>3, <2>1, Amounts64, SMT
  <2> QED BY <2>2 DEF TicketsCovered, Due
<1>5. ASSUME NEW q \in Owners
      PROVE  claimed'[q] = paid'[q] + Due(TicketsOf(exits', q))
  <2>1. TicketsOf(exits, q) \in SUBSET Tickets /\ IsFiniteSet(TicketsOf(exits, q))
    BY <1>2, FS_Subset DEF TicketsOf
  <2>2. claimed[q] = paid[q] + Due(TicketsOf(exits, q))
    BY DEF TicketsKept, PaidOnce, TicketsOf
  <2>3. CASE q = t.owner
    <3>1. /\ TicketsOf(exits', q) = TicketsOf(exits, q) \ {t}
          /\ t \in TicketsOf(exits, q)
      BY <1>1, <2>3 DEF TicketsOf
    <3>2. /\ Due(TicketsOf(exits', q)) \in Nat
          /\ Due(TicketsOf(exits, q)) = t.assets + Due(TicketsOf(exits', q))
      BY <2>1, <3>1, DueSplit
    <3>3. claimed'[q] = claimed[q] /\ paid'[q] = paid[q] + t.assets
          /\ paid[q] \in Nat
      BY <1>1, <2>3 DEF TypeOK
    <3> QED BY <1>2, <2>2, <3>2, <3>3, SMT
  <2>4. CASE q # t.owner
    <3>1. TicketsOf(exits', q) = TicketsOf(exits, q)
      BY <1>1, <2>4 DEF TicketsOf
    <3>2. claimed'[q] = claimed[q] /\ paid'[q] = paid[q]
      BY <1>1, <1>2, <2>4 DEF TypeOK
    <3> QED BY <2>2, <3>1, <3>2
  <2> QED BY <2>3, <2>4
<1> QED BY <1>3, <1>4, <1>5 DEF TicketsKept, PaidOnce, TicketsOf, Due

\* A private deposit brings its dollars.
LEMMA DepositPrivateKept ==
    ASSUME TypeOK, Solvent, TicketsKept, NEW o \in Owners, NEW amount \in Amounts,
           DepositPrivate(o, amount)
    PROVE  TicketsKept'
<1>1. /\ amount \in Nat /\ DepositedEver + amount <= MaxFlow
      /\ shielded'.total_in = SatAdd(shielded.total_in, amount)
      /\ shielded'.total_out = shielded.total_out
  BY DepositPrivateTotals
<1>2. custody' = custody + amount /\ UNCHANGED <<exits, walletVars>>
  BY DEF DepositPrivate
<1>3. MaxFlow \in Nat /\ MaxFlow <= U64Max
  BY BoundsAssumption, U64MaxAssumption, SMT
<1>4. shielded'.total_in = shielded.total_in + amount
  BY <1>1, <1>3, Amounts64, U64MaxAssumption, SMT DEF SatAdd, DepositedEver
<1>5. TicketsCovered'
  <2>1. custody = shielded.total_in - shielded.total_out + Due(exits)
    BY DEF TicketsKept, TicketsCovered
  <2> DEFINE due == Due(exits)
  <2>2. due' = due
    BY <1>2 DEF Due
  <2>3. due \in Nat
    <3>1. CASE exits = {}
      BY <3>1, DueNone
    <3>2. CASE exits # {}
      BY <3>2, DueSplit DEF TypeOK, TicketsKept
    <3> QED BY <3>1, <3>2
  <2> HIDE DEF due
  <2>4. custody' = shielded'.total_in - shielded'.total_out + due'
    BY <1>1, <1>2, <1>4, <2>1, <2>2, <2>3, Amounts64, SMT DEF due
  <2> QED BY <2>4 DEF TicketsCovered, due
<1> QED BY <1>2, <1>5 DEF TicketsKept, PaidOnce, Due, walletVars

\* Every step keeps what is owed covered.
LEMMA NextKept ==
    TypeOK /\ InOrder /\ Solvent /\ TicketsKept /\ [Next]_vars => TicketsKept'
<1> SUFFICES ASSUME TypeOK, InOrder, Solvent, TicketsKept, [Next]_vars
             PROVE  TicketsKept'
  OBVIOUS
<1>1. ASSUME UNCHANGED <<exits, custody, walletVars>>,
             shielded'.total_in = shielded.total_in,
             shielded'.total_out = shielded.total_out
      PROVE  TicketsKept'
  BY <1>1 DEF TicketsKept, TicketsCovered, PaidOnce, Due, walletVars
<1>2. CASE PublicSide \/ Hosting \/ AdvanceTime \/ UNCHANGED vars
  <2>1. UNCHANGED <<exits, custody, walletVars>>
    BY <1>2 DEF PublicSide, Deposit, Redeem, Tick, CommitBook, KeeperReads, DropAbsorb,
                LandAbsorb, Hosting, CommitShielded, UndelegateShielded, LandShielded,
                DelegateShielded, AdvanceTime, vars, enclaveVars
  <2>2. /\ shielded'.total_in = shielded.total_in
        /\ shielded'.total_out = shielded.total_out
    <3>1. CASE Hosting
      BY <3>1 DEF Hosting, CommitShielded, UndelegateShielded, LandShielded,
                  DelegateShielded, enclaveVars, InOrder, AggregateInOrder
    <3> QED BY <1>2, <3>1, ElsewhereKeepsAggregate
  <2> QED BY <1>1, <2>1, <2>2
<1>3. CASE PrivateTrade
  BY <1>3, DepositPrivateKept, OpenExitKept
  DEF PrivateTrade, RedeemPrivate, RedeemPrivateTo
<1>4. CASE Paying
  <2>1. ASSUME ReadExits \/ AbortRound \/ (\E t \in round : PayExit(t))
                 \/ (\E p \in sent : DropPayment(p))
        PROVE  TicketsKept'
    BY <1>1, <2>1 DEF ReadExits, AbortRound, PayExit, DropPayment, enclaveVars
  <2> QED BY <1>4, <2>1, LandPaymentKept DEF Paying
<1> QED BY <1>2, <1>3, <1>4 DEF Next

\* What the price proofs keep, and the tickets with it.
LEMMA AlwaysSolvent == Spec => [](TypeOK /\ InOrder /\ Solvent /\ BookExact)
<1>1. Init => TypeOK /\ InOrder /\ Solvent /\ BookExact
  BY InitType, InitInOrder, InitExact
<1>2. TypeOK /\ InOrder /\ Solvent /\ BookExact /\ [Next]_vars
        => (TypeOK /\ InOrder /\ Solvent /\ BookExact)'
  BY NextType, NextInOrder, NextExact
<1> QED BY <1>1, <1>2, PTL DEF Spec

LEMMA AlwaysKept == Spec => []TicketsKept
  BY AlwaysSolvent, InitKept, NextKept, PTL DEF Spec

\* Whatever payments are late, lost or repeated, and whatever group ids are
\* drawn again, the private custody holds every open ticket.
THEOREM EveryTicketCovered == Spec => []TicketsCovered
<1>1. TicketsKept => TicketsCovered
  BY DEF TicketsKept
<1> QED BY <1>1, AlwaysKept, PTL

\* And every wallet has been paid exactly what it was promised, its open
\* tickets aside: settle_exit closes the ticket it matches or pays nothing.
THEOREM EveryTicketPaidOnce == Spec => []PaidOnce
<1>1. TicketsKept => PaidOnce
  BY DEF TicketsKept
<1> QED BY <1>1, AlwaysKept, PTL

-----------------------------------------------------------------------------
(***************************************************************************)
(* Shares.  deposit_private adds to the position and to the aggregate, and *)
(* either addition may saturate; what is said of shares holds as long as   *)
(* the number in existence stays below the largest u64.  The bound on the   *)
(* dollars does not give that: a share can come to be worth less than a    *)
(* dollar in the enclave (run private_worth shows how the two prices come  *)
(* apart), and a dollar then buys more than one.                           *)
(***************************************************************************)
\* No count of shares is at its limit.
SharesFit == vault.shares + shielded.shares < U64Max

\* What the counts of shares are.
LEMMA SharesType ==
    ASSUME TypeOK
    PROVE  /\ private_shares \in [Owners -> Nat] /\ IsFiniteSet(Owners)
           /\ vault.shares \in Nat /\ shielded.shares \in Nat
           /\ vault.shares <= U64Max /\ shielded.shares <= U64Max
<1>1. vault.shares \in U64 /\ shielded.shares \in U64
  BY DEF TypeOK, Aggregates
<1>2. \A o \in Owners : private_shares[o] \in Nat
  BY U64Nat DEF TypeOK
<1>3. private_shares \in [Owners -> Nat]
  BY <1>2 DEF TypeOK
<1> QED BY <1>1, <1>3, OwnersAssumption, U64MaxAssumption, SMT DEF U64

\* At the start there are none.
LEMMA InitSum == Init => SharesAreThePositions
<1> SUFFICES ASSUME Init PROVE SharesAreThePositions
  OBVIOUS
<1>1. SumFunction(private_shares) = 0
  BY SumZero, OwnersAssumption DEF Init
<1> QED BY <1>1 DEF Init, Empty, SharesAreThePositions

\* What a private deposit does to the shares, if they fit afterwards.
LEMMA DepositPrivateShares ==
    ASSUME TypeOK, SharesAreThePositions, SharesFit',
           NEW o \in Owners, NEW amount \in Amounts, DepositPrivate(o, amount)
    PROVE  LET shares == SharesFor(amount, LiveNav, LiveSupply)
           IN  /\ LiveNav \in Nat /\ LiveSupply \in Nat /\ shares \in Nat
               /\ private_shares' =
                    [private_shares EXCEPT ![o] = private_shares[o] + shares]
               /\ shielded'.shares = shielded.shares + shares
               /\ UNCHANGED vault
<1> DEFINE shares == SharesFor(amount, LiveNav, LiveSupply)
<1>1. LiveNav \in Nat /\ LiveSupply \in Nat
  BY NavType DEF TypeOK, DepositPrivate, LiveCovered, LiveNav, LiveSupply
<1>2. amount \in Nat /\ shares \in Nat
  BY <1>1, AmountsAssumption, ConversionsType
<1>3. /\ private_shares' = [private_shares EXCEPT ![o] = SatAdd(@, shares)]
      /\ shielded' = [shielded EXCEPT !.shares   = SatAdd(@, shares),
                                      !.total_in = SatAdd(@, amount)]
      /\ UNCHANGED publicVars
  BY DEF DepositPrivate
<1> HIDE DEF shares
<1>4. shielded'.shares = SatAdd(shielded.shares, shares) /\ UNCHANGED vault
  BY <1>3 DEF TypeOK, Aggregates, publicVars
<1>5. shielded'.shares = shielded.shares + shares /\ shielded.shares + shares < U64Max
  BY <1>2, <1>4, SharesType, U64MaxAssumption, SMT DEF SharesFit, SatAdd
<1>6. private_shares[o] <= shielded.shares /\ private_shares[o] \in Nat
  BY SharesType, SumBound DEF SharesAreThePositions
<1>7. SatAdd(private_shares[o], shares) = private_shares[o] + shares
  BY <1>2, <1>5, <1>6, SharesType, U64MaxAssumption, SMT DEF SatAdd
<1> QED BY <1>1, <1>2, <1>3, <1>4, <1>5, <1>7 DEF shares

\* And a ticket: no owner has more than the aggregate, so nothing is cut off.
LEMMA OpenExitShares ==
    ASSUME TypeOK, SharesAreThePositions,
           NEW o \in Owners, NEW dest \in Owners, NEW group \in Groups,
           NEW shares \in 1 .. private_shares[o], OpenExit(o, dest, shares, group)
    PROVE  /\ shares \in Nat /\ shares <= private_shares[o]
           /\ private_shares[o] <= shielded.shares
           /\ private_shares' =
                [private_shares EXCEPT ![o] = private_shares[o] - shares]
           /\ shielded'.shares = shielded.shares - shares
           /\ UNCHANGED vault
<1> DEFINE assets == AssetsFor(shares, LiveNav, LiveSupply)
<1>1. shares \in Nat /\ shares <= private_shares[o]
  BY ExitPays
<1>2. /\ private_shares' = [private_shares EXCEPT ![o] = @ - shares]
      /\ shielded' = [shielded EXCEPT !.shares    = SatSub(@, shares),
                                      !.total_out = SatAdd(@, assets)]
      /\ UNCHANGED publicVars
  BY DEF OpenExit
<1> HIDE DEF assets
<1>3. shielded'.shares = SatSub(shielded.shares, shares) /\ UNCHANGED vault
  BY <1>2 DEF TypeOK, Aggregates, publicVars
<1>4. private_shares[o] <= shielded.shares /\ private_shares[o] \in Nat
  BY SharesType, SumBound DEF SharesAreThePositions
<1>5. SatSub(shielded.shares, shares) = shielded.shares - shares
  BY <1>1, <1>4, SharesType, SMT DEF SatSub
<1> QED BY <1>1, <1>2, <1>3, <1>4, <1>5

\* A step that does not saturate keeps the sum.
LEMMA NextSum ==
    TypeOK /\ InOrder /\ SharesAreThePositions /\ SharesFit' /\ [Next]_vars
      => SharesAreThePositions'
<1> SUFFICES ASSUME TypeOK, InOrder, SharesAreThePositions, SharesFit', [Next]_vars
             PROVE  SharesAreThePositions'
  OBVIOUS
<1>1. ASSUME UNCHANGED private_shares, shielded'.shares = shielded.shares
      PROVE  SharesAreThePositions'
  BY <1>1 DEF SharesAreThePositions
<1>2. CASE PublicSide \/ Paying \/ AdvanceTime \/ UNCHANGED vars
  <2>1. UNCHANGED private_shares
    BY <1>2 DEF PublicSide, Deposit, Redeem, Tick, CommitBook, KeeperReads, DropAbsorb,
                LandAbsorb, Paying, ReadExits, AbortRound, PayExit, LandPayment,
                DropPayment, AdvanceTime, vars, enclaveVars
  <2> QED BY <1>1, <1>2, <2>1, ElsewhereKeepsAggregate
<1>3. CASE Hosting
  BY <1>1, <1>3 DEF Hosting, CommitShielded, UndelegateShielded, LandShielded,
                    DelegateShielded, enclaveVars, InOrder, AggregateInOrder
<1>4. ASSUME NEW o \in Owners, NEW v \in Nat,
             private_shares' = [private_shares EXCEPT ![o] = v],
             shielded'.shares = shielded.shares - private_shares[o] + v
      PROVE  SharesAreThePositions'
  <2>1. SumFunction([private_shares EXCEPT ![o] = v])
          = SumFunction(private_shares) - private_shares[o] + v
    BY SharesType, SumExcept
  <2> QED BY <1>4, <2>1 DEF SharesAreThePositions
<1>5. ASSUME NEW o \in Owners, NEW amount \in Amounts, DepositPrivate(o, amount)
      PROVE  SharesAreThePositions'
  <2> DEFINE shares == SharesFor(amount, LiveNav, LiveSupply)
  <2>1. /\ shares \in Nat
        /\ private_shares' =
             [private_shares EXCEPT ![o] = private_shares[o] + shares]
        /\ shielded'.shares = shielded.shares + shares
    BY <1>5, DepositPrivateShares
  <2> HIDE DEF shares
  <2>2. /\ private_shares[o] + shares \in Nat
        /\ shielded'.shares
             = shielded.shares - private_shares[o] + (private_shares[o] + shares)
    BY <2>1, SharesType, SMT
  <2> QED BY <1>4, <2>1, <2>2
<1>6. ASSUME NEW o \in Owners, NEW dest \in Owners, NEW group \in Groups,
             NEW shares \in 1 .. private_shares[o], OpenExit(o, dest, shares, group)
      PROVE  SharesAreThePositions'
  <2>1. /\ shares \in Nat /\ shares <= private_shares[o]
        /\ private_shares' =
             [private_shares EXCEPT ![o] = private_shares[o] - shares]
        /\ shielded'.shares = shielded.shares - shares
    BY <1>6, OpenExitShares
  <2>2. /\ private_shares[o] - shares \in Nat
        /\ shielded'.shares
             = shielded.shares - private_shares[o] + (private_shares[o] - shares)
    BY <2>1, SharesType, SMT
  <2> QED BY <1>4, <2>1, <2>2
<1>7. CASE PrivateTrade
  BY <1>5, <1>6, <1>7 DEF PrivateTrade, RedeemPrivate, RedeemPrivateTo
<1> QED BY <1>2, <1>3, <1>7 DEF Next

\* The aggregate is the sum of the positions in every execution in which no
\* count of shares reaches its limit: redeem_private never finds an owner with
\* more shares than the aggregate, whatever the account went through.
THEOREM AggregateSumsPositions == Spec /\ []SharesFit => []SharesAreThePositions
  BY AlwaysSolvent, InitSum, NextSum, PTL DEF Spec

-----------------------------------------------------------------------------
(***************************************************************************)
(* The private price.                                                      *)
(***************************************************************************)
\* Buying x shares for a dollars at no less than the price leaves it no lower.
LEMMA BuyingKeeps ==
    ASSUME NEW N \in Nat, NEW S \in Nat, NEW a \in Nat, S > 0,
           SharesFor(a, N, S) \in Nat
    PROVE  (N + a) * S >= N * (S + SharesFor(a, N, S))
<1> DEFINE x == SharesFor(a, N, S)
<1>1. CASE N = 0
  <2>1. x = a
    BY <1>1 DEF SharesFor
  <2> QED BY <1>1, <2>1, SMT
<1>2. CASE N > 0
  <2>1. a * S \in Nat
    BY MulNat
  <2>2. x = (a * S) \div N
    BY <1>2, SMT DEF SharesFor
  <2>3. x * N <= a * S
    BY <1>2, <2>1, <2>2, DivFloor
  <2> HIDE DEF x
  <2>4. (N + a) * S = N * S + a * S /\ N * (S + x) = N * S + x * N
    BY SMT DEF x
  <2> QED BY <2>1, <2>3, <2>4, SMT DEF x
<1> QED BY <1>1, <1>2, SMT

\* Selling x shares for what they are worth, rounded down, does too.
LEMMA SellingKeeps ==
    ASSUME NEW N \in Nat, NEW S \in Nat, NEW x \in Nat, S > 0,
           AssetsFor(x, N, S) \in Nat
    PROVE  (N - AssetsFor(x, N, S)) * S >= N * (S - x)
<1> DEFINE a == AssetsFor(x, N, S)
<1>1. x * N \in Nat /\ a = (x * N) \div S
  BY MulNat DEF AssetsFor
<1>2. a * S <= x * N
  BY <1>1, DivFloor
<1> HIDE DEF a
<1>3. (N - a) * S = N * S - a * S /\ N * (S - x) = N * S - x * N
  BY SMT DEF a
<1>4. N * S \in Nat /\ a * S \in Nat
  BY SMT DEF a
<1> QED BY <1>1, <1>2, <1>3, <1>4, SMT DEF a

\* A private deposit or ticket does not lower the price the enclave gives next.
LEMMA TradeKeepsPrice ==
    ASSUME TypeOK, Solvent, BothNavsExact, BothNavsExact', SharesAreThePositions,
           SharesFit, SharesFit', PrivateTrade, LiveSupply > 0
    PROVE  LiveNav' * LiveSupply >= LiveNav * LiveSupply'
<1>0. LiveSupply = vault.shares + shielded.shares
  <2>1. LiveSupply = SatAdd(vault.shares, shielded.shares)
    BY DEF LiveSupply, Supply
  <2> QED BY <2>1, SharesType, U64MaxAssumption, SMT DEF SatAdd, SharesFit
<1>1. ASSUME NEW m \in Nat, UNCHANGED vault, shielded'.shares = m
      PROVE  LiveSupply' = vault.shares + m
  <2>1. vault'.shares = vault.shares /\ vault.shares + m < U64Max
    BY <1>1 DEF SharesFit
  <2>2. LiveSupply' = SatAdd(vault.shares, m)
    BY <1>1 DEF LiveSupply, Supply
  <2> QED BY <2>1, <2>2, SharesType, U64MaxAssumption, SMT DEF SatAdd
<1>2. /\ LiveNav \in Nat /\ LiveSupply \in Nat
  BY NavType DEF TypeOK, BothNavsExact, LiveCovered, LiveNav, LiveSupply
<1>3. ASSUME NEW o \in Owners, NEW amount \in Amounts, DepositPrivate(o, amount)
      PROVE  LiveNav' * LiveSupply >= LiveNav * LiveSupply'
  <2> DEFINE shares == SharesFor(amount, LiveNav, LiveSupply)
  <2>1. /\ shares \in Nat /\ UNCHANGED vault
        /\ shielded'.shares = shielded.shares + shares
    BY <1>3, DepositPrivateShares
  <2>2. (LiveNav + amount) * LiveSupply >= LiveNav * (LiveSupply + shares)
    BY <1>2, <2>1, AmountsAssumption, BuyingKeeps
  <2> HIDE DEF shares
  <2>3. LiveSupply' = LiveSupply + shares
    <3>1. shielded.shares + shares \in Nat
      BY <2>1, SharesType
    <3>2. LiveSupply' = vault.shares + (shielded.shares + shares)
      BY <1>1, <2>1, <3>1
    <3> QED BY <1>0, <2>1, <3>2, SharesType, SMT
  <2>4. LiveNav' = LiveNav + amount
    <3>1. /\ amount \in Nat /\ DepositedEver + amount <= MaxFlow
          /\ shielded'.total_in = SatAdd(shielded.total_in, amount)
          /\ shielded'.total_out = shielded.total_out
          /\ UNCHANGED publicVars
      BY <1>3, DepositPrivateTotals
    <3>2. MaxFlow \in Nat /\ MaxFlow <= U64Max
      BY BoundsAssumption, U64MaxAssumption, SMT
    <3>3. shielded'.total_in = shielded.total_in + amount
      BY <3>1, <3>2, Amounts64, U64MaxAssumption, SMT DEF SatAdd, DepositedEver
    <3> DEFINE yield == Total(baseBook.accrued)
    <3>4. yield' = yield /\ yield \in Nat /\ UNCHANGED vault
      <4>1. baseBook.accrued \in [Pools -> U64] /\ UNCHANGED <<vault, baseBook>>
        BY <3>1 DEF publicVars, TypeOK, Books
      <4>2. baseBook.accrued \in [Pools -> Nat]
        BY <4>1, U64Nat
      <4> QED BY <4>1, <4>2, TotalNat
    <3>5. /\ LiveNav = vault.total_in + shielded.total_in
                         - vault.total_out - shielded.total_out + yield
          /\ LiveNav' = vault'.total_in + shielded'.total_in
                          - vault'.total_out - shielded'.total_out + yield'
      BY DEF BothNavsExact
    <3> HIDE DEF yield
    <3> QED BY <3>1, <3>3, <3>4, <3>5, Amounts64, SMT
  <2> QED BY <2>2, <2>3, <2>4
<1>4. ASSUME NEW o \in Owners, NEW dest \in Owners, NEW group \in Groups,
             NEW shares \in 1 .. private_shares[o], OpenExit(o, dest, shares, group)
      PROVE  LiveNav' * LiveSupply >= LiveNav * LiveSupply'
  <2> DEFINE assets == AssetsFor(shares, LiveNav, LiveSupply)
  <2>1. /\ shares \in Nat /\ shares <= shielded.shares /\ UNCHANGED vault
        /\ shielded'.shares = shielded.shares - shares
    BY <1>4, OpenExitShares, SharesType, SMT
  <2>2. assets \in Nat
    BY <1>4, ExitPays
  <2>3. (LiveNav - assets) * LiveSupply >= LiveNav * (LiveSupply - shares)
    BY <1>2, <2>1, <2>2, SellingKeeps
  <2>4. LiveSupply' = LiveSupply - shares
    <3>1. shielded.shares - shares \in Nat
      BY <2>1, SharesType, SMT
    <3>2. LiveSupply' = vault.shares + (shielded.shares - shares)
      BY <1>1, <2>1, <3>1
    <3> QED BY <1>0, <2>1, <3>2, SharesType, SMT
  <2>5. LiveNav' = LiveNav - assets
    <3>1. /\ assets <= Held /\ UNCHANGED publicVars
          /\ shielded' = [shielded EXCEPT !.shares    = SatSub(@, shares),
                                          !.total_out = SatAdd(@, assets)]
      BY <1>4 DEF OpenExit
    <3> HIDE DEF assets
    <3>2. /\ shielded'.total_in = shielded.total_in
          /\ shielded'.total_out = SatAdd(shielded.total_out, assets)
      BY <3>1 DEF TypeOK, Aggregates
    <3>3. Held = shielded.total_in - shielded.total_out
      BY Amounts64, SMT DEF Held, SatSub, Solvent
    <3>4. shielded'.total_out = shielded.total_out + assets
      BY <2>2, <3>1, <3>2, <3>3, Amounts64, U64MaxAssumption, SMT DEF SatAdd, U64
    <3> DEFINE yield == Total(baseBook.accrued)
    <3>5. yield' = yield /\ yield \in Nat /\ UNCHANGED vault
      <4>1. baseBook.accrued \in [Pools -> U64] /\ UNCHANGED <<vault, baseBook>>
        BY <3>1 DEF publicVars, TypeOK, Books
      <4>2. baseBook.accrued \in [Pools -> Nat]
        BY <4>1, U64Nat
      <4> QED BY <4>1, <4>2, TotalNat
    <3>6. /\ LiveNav = vault.total_in + shielded.total_in
                         - vault.total_out - shielded.total_out + yield
          /\ LiveNav' = vault'.total_in + shielded'.total_in
                          - vault'.total_out - shielded'.total_out + yield'
      BY DEF BothNavsExact
    <3> HIDE DEF yield
    <3> QED BY <2>2, <3>2, <3>4, <3>5, <3>6, Amounts64, SMT
  <2> QED BY <2>3, <2>4, <2>5
<1> QED BY <1>3, <1>4 DEF PrivateTrade, RedeemPrivate, RedeemPrivateTo

\* No private deposit or redemption lowers the price the enclave gives the next
\* one, in any execution in which no count of shares reaches its limit.
THEOREM PrivatePriceKept == Spec /\ []SharesFit => PrivateTradesKeepThePrice
<1>1. /\ TypeOK /\ InOrder /\ Solvent /\ BookExact
      /\ (TypeOK /\ InOrder /\ Solvent /\ BookExact)'
      /\ SharesFit /\ SharesFit' /\ SharesAreThePositions
      => [(PrivateTrade /\ LiveSupply > 0 /\ LiveSupply' > 0)
            => LiveNav' * LiveSupply >= LiveNav * LiveSupply']_vars
  <2>1. TypeOK /\ InOrder /\ Solvent /\ BookExact => BothNavsExact
    BY BothExact
  <2>2. (TypeOK /\ InOrder /\ Solvent /\ BookExact)' => BothNavsExact'
    BY <2>1, PTL
  <2> QED BY <2>1, <2>2, TradeKeepsPrice
<1> QED BY <1>1, AlwaysSolvent, AggregateSumsPositions, PTL
        DEF PrivateTradesKeepThePrice

=============================================================================
