-------------------------- MODULE PublicVaultProofs --------------------------
(***************************************************************************)
(* Theorems about PublicVault for any number of depositors, any weights,   *)
(* rates, amounts and bounds.                                              *)
(*                                                                         *)
(* The marks of a book move in one place only, LandAbsorb, by what the     *)
(* keeper computed some time before.  That they stay behind the vault      *)
(* rests on a chain: what is under way fits on top of what the book has    *)
(* marked, because the keeper read the book when nothing was under way,    *)
(* and Solana's copy and every scheduled commit are earlier states of the  *)
(* same book.  The chain is the invariant `FlowCarriedOnce`.               *)
(***************************************************************************)
EXTENDS PublicVault, PoolBookProofs

-----------------------------------------------------------------------------
\* The aggregates private depositors left empty add nothing.
LEMMA NoPrivateType ==
    ASSUME NEW x \in U64
    PROVE  SatAdd(x, 0) = x
  BY U64MaxAssumption, SMT DEF SatAdd, U64

\* What pricing needs of the marks, without the private aggregate.
LEMMA CoveredMeans ==
    ASSUME NEW v \in VaultType, NEW b \in Books
    PROVE  MarksCovered(v, b, NoPrivateFlow)
             <=> b.marked_in <= v.total_in /\ b.marked_out <= v.total_out
<1>1. v.total_in \in U64 /\ v.total_out \in U64
  BY DEF VaultType
<1>2. SatAdd(v.total_in, 0) = v.total_in /\ SatAdd(v.total_out, 0) = v.total_out
  BY <1>1, NoPrivateType
<1> QED BY <1>2 DEF MarksCovered, TotalIn, TotalOut, NoPrivateFlow

\* The value and the supply pricing works with are amounts.
LEMMA PriceType ==
    ASSUME TypeOK, BaseCovered
    PROVE  BaseNav \in Nat /\ BaseSupply \in Nat
<1>1. /\ vault.total_in \in Nat /\ vault.total_out \in Nat /\ vault.shares \in U64
      /\ baseBook.marked_in \in Nat /\ baseBook.marked_out \in Nat
      /\ baseBook.nav \in Nat
  BY U64Nat DEF TypeOK, VaultType, Books
<1>2. BaseSupply \in Nat
  BY <1>1, NoPrivateType, U64Nat DEF BaseSupply, Supply, NoPrivateFlow
<1> DEFINE in  == TotalIn(vault, NoPrivateFlow) - baseBook.marked_in
           out == TotalOut(vault, NoPrivateFlow) - baseBook.marked_out
<1>3. in \in Nat /\ out \in Nat
  BY <1>1, U64MaxAssumption, SMT
  DEF BaseCovered, MarksCovered, TotalIn, TotalOut, SatAdd, NoPrivateFlow
<1> HIDE DEF in, out
<1>4. SatAdd(baseBook.nav, in) \in Nat
  BY <1>1, <1>3, U64MaxAssumption, SMT DEF SatAdd
<1>5. SatSub(SatAdd(baseBook.nav, in), out) \in Nat
  BY <1>3, <1>4, SMT DEF SatSub
<1> QED BY <1>2, <1>5 DEF BaseNav, Nav, in, out

\* Both conversions give amounts.
LEMMA ConversionType ==
    ASSUME NEW a \in Nat, NEW n \in Nat, NEW s \in Nat
    PROVE  /\ SharesFor(a, n, s) \in Nat
           /\ s > 0 => AssetsFor(a, n, s) \in Nat
<1>1. a * s \in Nat /\ a * n \in Nat
  BY MulNat
<1>2. n > 0 => (a * s) \div n \in Nat
  BY <1>1, DivFloor
<1>3. s > 0 => (a * n) \div s \in Nat
  BY <1>1, DivFloor
<1> QED BY <1>2, <1>3, SMT DEF SharesFor, AssetsFor

-----------------------------------------------------------------------------
(***************************************************************************)
(* Types.                                                                  *)
(***************************************************************************)
\* The accounts as they are created are well typed.
LEMMA InitType == Init => TypeOK
<1> SUFFICES ASSUME Init PROVE TypeOK
  OBVIOUS
<1>1. 0 \in U64
  BY U64MaxAssumption, SMT DEF U64
<1>2. NewBook(InitApr, 0) \in Books
  BY <1>1, AprAssumption, SMT DEF NewBook, Books
<1>3. 0 .. MaxTime \subseteq Nat /\ 0 \in 0 .. MaxTime
  BY BoundsAssumption, SMT
<1>4. /\ vault \in VaultType /\ keeper \in KeeperType
  BY <1>1 DEF Init, VaultType, KeeperType, Idle
<1>5. agyld \in [Users -> Nat] /\ custody \in Nat
  BY SMT DEF Init
<1>6. book \in Books /\ baseBook \in Books /\ now \in 0 .. MaxTime
  BY <1>2, <1>3 DEF Init
<1>7. /\ site \in Sites /\ settling \subseteq Books
      /\ inflight \subseteq AbsorbType /\ migrated \in BOOLEAN
  BY DEF Init, Sites
<1> QED BY <1>4, <1>5, <1>6, <1>7 DEF TypeOK

\* A deposit keeps the types: shares and dollars stay within u64.
LEMMA DepositType ==
    ASSUME TypeOK, NEW u \in Users, NEW amount \in Amounts, Deposit(u, amount)
    PROVE  TypeOK'
<1> DEFINE shares == SharesFor(amount, BaseNav, BaseSupply)
<1>1. amount \in Nat
  BY AmountsAssumption
<1>2. shares \in Nat
  BY <1>1, PriceType, ConversionType DEF Deposit
<1> HIDE DEF shares
<1>3. /\ vault' = [vault EXCEPT !.shares   = SatAdd(@, shares),
                                !.total_in = SatAdd(@, amount)]
      /\ custody' = custody + amount
      /\ agyld' = [agyld EXCEPT ![u] = @ + shares]
      /\ UNCHANGED <<bookVars, keeperVars, now>>
  BY DEF Deposit, shares
<1>4. vault' \in VaultType
  <2>1. /\ SatAdd(vault.shares, shares) \in U64
        /\ SatAdd(vault.total_in, amount) \in U64
    BY <1>1, <1>2, SatType DEF TypeOK, VaultType
  <2> QED BY <1>3, <2>1 DEF TypeOK, VaultType
<1>5. custody' \in Nat
  BY <1>1, <1>3, SMT DEF TypeOK
<1>6. agyld' \in [Users -> Nat]
  BY <1>2, <1>3, SMT DEF TypeOK
<1> QED BY <1>3, <1>4, <1>5, <1>6 DEF TypeOK, bookVars, keeperVars

\* What a redemption pays is an amount.
LEMMA RedeemPaysNat ==
    ASSUME TypeOK, NEW u \in Users, NEW shares \in 1 .. agyld[u], Redeem(u, shares)
    PROVE  AssetsFor(shares, BaseNav, BaseSupply) \in Nat
<1>1. agyld[u] \in Nat /\ shares \in Nat /\ shares > 0
  BY SMT DEF TypeOK
<1>2. vault.shares \in U64 /\ vault.shares \in Nat /\ vault.shares >= shares
  BY U64Nat DEF TypeOK, VaultType, Redeem
<1>3. BaseSupply = vault.shares
  BY <1>2, NoPrivateType DEF BaseSupply, Supply, NoPrivateFlow
<1>4. BaseSupply > 0
  BY <1>1, <1>2, <1>3, SMT
<1> QED BY <1>1, <1>4, PriceType, ConversionType DEF Redeem

\* A redemption keeps the types: nobody's balance goes below zero.
LEMMA RedeemType ==
    ASSUME TypeOK, NEW u \in Users, NEW shares \in 1 .. agyld[u], Redeem(u, shares)
    PROVE  TypeOK'
<1> DEFINE assets == AssetsFor(shares, BaseNav, BaseSupply)
<1>1. agyld[u] \in Nat /\ shares \in Nat
  BY SMT DEF TypeOK
<1>2. vault.shares \in U64 /\ vault.total_out \in U64
  BY DEF TypeOK, VaultType
<1>3. assets \in Nat
  BY RedeemPaysNat
<1> HIDE DEF assets
<1>4. /\ vault' = [vault EXCEPT !.shares    = SatSub(@, shares),
                                !.total_out = SatAdd(@, assets)]
      /\ custody' = custody - assets /\ assets <= custody
      /\ agyld' = [agyld EXCEPT ![u] = @ - shares] /\ agyld[u] >= shares
      /\ UNCHANGED <<bookVars, keeperVars, now>>
  BY DEF Redeem, assets
<1>5. vault' \in VaultType
  <2>1. /\ SatSub(vault.shares, shares) \in U64
        /\ SatAdd(vault.total_out, assets) \in U64
    BY <1>1, <1>2, <1>3, SatType
  <2> QED BY <1>4, <2>1 DEF TypeOK, VaultType
<1>6. custody' \in Nat
  BY <1>3, <1>4, SMT DEF TypeOK
<1>7. agyld' \in [Users -> Nat]
  BY <1>1, <1>4, SMT DEF TypeOK
<1> QED BY <1>4, <1>5, <1>6, <1>7 DEF TypeOK, bookVars, keeperVars

\* A write keeps both copies of the book books.
LEMMA WriteType ==
    ASSUME TypeOK, NEW b \in Books, WriteBook(b)
    PROVE  book' \in Books /\ baseBook' \in Books
  BY SMT DEF WriteBook, TypeOK

\* The keeper's arithmetic never leaves the u64 either.
LEMMA FlowType ==
    ASSUME TypeOK
    PROVE  Inflow \in U64 /\ Outflow \in U64
<1>1. /\ keeper.total_in \in U64 /\ keeper.marked_in \in Nat
      /\ keeper.total_out \in U64 /\ keeper.marked_out \in Nat
  BY U64Nat DEF TypeOK, KeeperType
<1> QED BY <1>1, SatType DEF Inflow, Outflow

\* The keeper's reads, its absorbs and their fate keep the types.
LEMMA KeeperType_ ==
    ASSUME TypeOK, KeeperReadVault \/ KeeperReadBook \/ KeeperRestart \/ KeeperAct
    PROVE  TypeOK'
<1>0. Idle \in KeeperType
  BY U64MaxAssumption, SMT DEF Idle, KeeperType, U64
<1>1. CASE KeeperReadVault
  BY <1>1 DEF KeeperReadVault, TypeOK, KeeperType, VaultType, solanaVars, bookVars
<1>2. CASE KeeperReadBook
  BY <1>2 DEF KeeperReadBook, TypeOK, KeeperType, Books, solanaVars, bookVars
<1>3. CASE KeeperRestart
  BY <1>0, <1>3 DEF KeeperRestart, TypeOK, solanaVars, bookVars
<1>4. CASE KeeperAct
  <2>1. inflight' \subseteq AbsorbType
    <3>1. CASE Inflow = 0 /\ Outflow = 0
      BY <1>4, <3>1 DEF KeeperAct, TypeOK
    <3>2. CASE ~(Inflow = 0 /\ Outflow = 0)
      <4>1. PICK id \in 1 .. MaxInflight :
              inflight' = inflight \union
                            {[id |-> id, inflow |-> Inflow, outflow |-> Outflow]}
        BY <1>4, <3>2 DEF KeeperAct
      <4>2. [id |-> id, inflow |-> Inflow, outflow |-> Outflow] \in AbsorbType
        BY FlowType DEF AbsorbType
      <4> QED BY <4>1, <4>2 DEF TypeOK
    <3> QED BY <3>1, <3>2
  <2> QED BY <1>0, <1>4, <2>1 DEF KeeperAct, TypeOK, solanaVars, bookVars
<1> QED BY <1>1, <1>2, <1>3, <1>4

\* Every step of the system keeps every variable within its type.
LEMMA NextType == TypeOK /\ [Next]_vars => TypeOK'
<1> SUFFICES ASSUME TypeOK, [Next]_vars PROVE TypeOK'
  OBVIOUS
<1>0. now \in Int
  BY BoundsAssumption, SMT DEF TypeOK
<1>1. ASSUME NEW u \in Users, NEW amount \in Amounts, Deposit(u, amount)
      PROVE  TypeOK'
  BY <1>1, DepositType
<1>2. ASSUME NEW u \in Users, NEW shares \in 1 .. agyld[u], Redeem(u, shares)
      PROVE  TypeOK'
  BY <1>2, RedeemType
<1>3. ASSUME NEW amount \in Amounts, TopUp(amount)
      PROVE  TypeOK'
  <2>1. custody' \in Nat
    BY <1>3, AmountsAssumption, SMT DEF TopUp, TypeOK
  <2> QED BY <1>3, <2>1 DEF TopUp, TypeOK, bookVars, keeperVars
<1>4. CASE Tick
  <2>1. book' \in Books /\ baseBook' \in Books
    BY <1>0, <1>4, TickedGrows, WriteType DEF Tick, TypeOK
  <2> QED BY <1>4, <2>1 DEF Tick, TypeOK, solanaVars, keeperVars
<1>5. ASSUME NEW i \in Pools, NEW apr_bps \in Rates, SetApr(i, apr_bps)
      PROVE  TypeOK'
  <2>1. apr_bps \in Nat
    BY AmountsAssumption
  <2>2. book' \in Books /\ baseBook' \in Books
    BY <1>0, <1>5, <2>1, RepricedGrows, WriteType DEF SetApr, TypeOK
  <2> QED BY <1>5, <2>2 DEF SetApr, TypeOK, solanaVars, keeperVars
<1>6. CASE CommitBook
  BY <1>6 DEF CommitBook, TypeOK, solanaVars, keeperVars
<1>7. CASE UndelegateBook
  BY <1>7 DEF UndelegateBook, TypeOK, solanaVars, keeperVars, Sites
<1>8. CASE LandCommit
  BY <1>8, SMT DEF LandCommit, TypeOK, solanaVars, keeperVars, Sites
<1>9. CASE DelegateBook
  BY <1>9 DEF DelegateBook, TypeOK, solanaVars, keeperVars, Sites
<1>10. CASE LoseDelegation
  BY <1>10 DEF LoseDelegation, TypeOK, solanaVars, keeperVars, Sites
<1>11. CASE MigrateBook
  <2>1. Idle \in KeeperType
    BY U64MaxAssumption, SMT DEF Idle, KeeperType, U64
  <2> QED BY <1>11, <2>1 DEF MigrateBook, TypeOK, solanaVars, Sites
<1>12. CASE KeeperReadVault \/ KeeperReadBook \/ KeeperRestart \/ KeeperAct
  BY <1>12, KeeperType_
<1>13. ASSUME NEW t \in inflight, LandAbsorb(t)
       PROVE  TypeOK'
  <2>1. t.inflow \in U64 /\ t.outflow \in U64
    BY DEF TypeOK, AbsorbType
  <2>2. book' \in Books /\ baseBook' \in Books
    BY <1>0, <1>13, <2>1, AbsorbedGrows, WriteType DEF LandAbsorb, TypeOK
  <2> QED BY <1>13, <2>2 DEF LandAbsorb, TypeOK, solanaVars
<1>14. ASSUME NEW t \in inflight, DropAbsorb(t)
       PROVE  TypeOK'
  BY <1>14 DEF DropAbsorb, TypeOK, solanaVars, bookVars
<1>15. CASE AdvanceTime
  <2>1. now' \in 0 .. MaxTime
    BY <1>15, BoundsAssumption, SMT DEF AdvanceTime, TypeOK
  <2> QED BY <1>15, <2>1 DEF AdvanceTime, TypeOK, solanaVars, bookVars, keeperVars
<1>16. CASE UNCHANGED vars
  BY <1>16 DEF vars, TypeOK, solanaVars, bookVars, keeperVars
<1> QED BY <1>1, <1>2, <1>3, <1>4, <1>5, <1>6, <1>7, <1>8, <1>9, <1>10, <1>11,
           <1>12, <1>13, <1>14, <1>15, <1>16
        DEF Next, Depositors, Hosting, Keeping

\* Every variable keeps its type, and no custody balance or agYLD balance goes
\* negative, in every execution.
THEOREM TypeCorrect == Spec => []TypeOK
  BY InitType, NextType, PTL DEF Spec

-----------------------------------------------------------------------------
(***************************************************************************)
(* The committed copy only moves forward.                                  *)
(***************************************************************************)

\* Reaches is an order on books.
LEMMA ReachesOrder ==
    /\ \A b \in Books : Reaches(b, b)
    /\ \A b, c, d \in Books : Reaches(b, c) /\ Reaches(c, d) => Reaches(b, d)
<1>1. \A b \in Books :
        /\ b.marked_in \in Nat /\ b.marked_out \in Nat /\ b.last_ts \in Int
        /\ \A i \in Pools : b.accrued[i] \in Nat
  BY U64Nat DEF Books
<1>2. ASSUME NEW b \in Books PROVE Reaches(b, b)
  BY <1>1, SMT DEF Reaches
<1>3. ASSUME NEW b \in Books, NEW c \in Books, NEW d \in Books,
             Reaches(b, c), Reaches(c, d)
      PROVE  Reaches(b, d)
  <2>1. /\ b.marked_in <= d.marked_in /\ b.marked_out <= d.marked_out
        /\ b.last_ts <= d.last_ts
    BY <1>1, <1>3, SMT DEF Reaches
  <2>2. \A i \in Pools : b.accrued[i] <= d.accrued[i]
    BY <1>1, <1>3, SMT DEF Reaches
  <2> QED BY <2>1, <2>2 DEF Reaches
<1> QED BY <1>2, <1>3

\* Writing a later book keeps the copies in order and moves Solana's, if it
\* moves it at all, forward.
LEMMA WriteInOrder ==
    ASSUME TypeOK, CopiesInOrder, NEW b \in Books, WriteBook(b),
           Grown(book, b), b.last_ts = now,
           UNCHANGED <<settling, site, now>>
    PROVE  CopiesInOrder' /\ Reaches(baseBook, baseBook')
<1>1. Reaches(book, b)
  BY DEF Grown, Reaches, CopiesInOrder
<1>2. /\ baseBook \in Books /\ book \in Books /\ settling \subseteq Books
      /\ now \in Nat
  BY BoundsAssumption, SMT DEF TypeOK
<1>3. /\ book' = b
      /\ baseBook' = IF site = "solana" THEN b ELSE baseBook
  BY DEF WriteBook
<1>4. Reaches(baseBook, b) /\ \A c \in settling : Reaches(c, b)
  BY <1>1, <1>2, ReachesOrder DEF CopiesInOrder
<1>5. CASE site = "solana"
  <2>1. settling' = {}
    BY <1>5 DEF CopiesInOrder
  <2>2. Reaches(b, b) /\ b.last_ts <= now
    BY <1>2, ReachesOrder, SMT
  <2> QED BY <1>3, <1>4, <1>5, <2>1, <2>2 DEF CopiesInOrder
<1>6. CASE site # "solana"
  <2>1. b.last_ts <= now
    BY <1>2, SMT
  <2> QED BY <1>2, <1>3, <1>4, <1>6, <2>1, ReachesOrder DEF CopiesInOrder
<1> QED BY <1>5, <1>6

\* At the start both copies of the book are one.
LEMMA InitInOrder == Init => CopiesInOrder
<1> SUFFICES ASSUME Init PROVE CopiesInOrder
  OBVIOUS
<1>1. book \in Books
  BY InitType DEF TypeOK
<1>2. book.last_ts <= now
  BY SMT DEF Init, NewBook
<1> QED BY <1>1, <1>2, ReachesOrder DEF Init, CopiesInOrder

\* Every step keeps the copies in order and never takes Solana's back.
LEMMA NextInOrder ==
    TypeOK /\ CopiesInOrder /\ [Next]_vars
      => CopiesInOrder' /\ Reaches(baseBook, baseBook')
<1> SUFFICES ASSUME TypeOK, CopiesInOrder, [Next]_vars
             PROVE  CopiesInOrder' /\ Reaches(baseBook, baseBook')
  OBVIOUS
<1>0. /\ baseBook \in Books /\ book \in Books /\ settling \subseteq Books
      /\ now \in Nat
      /\ Reaches(baseBook, baseBook) /\ Reaches(book, book)
  BY BoundsAssumption, ReachesOrder, SMT DEF TypeOK
<1>1. ASSUME UNCHANGED <<bookVars, now>>
      PROVE  CopiesInOrder' /\ Reaches(baseBook, baseBook')
  BY <1>0, <1>1 DEF CopiesInOrder, bookVars
<1>2. ASSUME Depositors PROVE UNCHANGED <<bookVars, now>>
  BY <1>2 DEF Depositors, Deposit, Redeem, TopUp
<1>3. CASE Tick
  BY <1>0, <1>3, TickedGrows, WriteInOrder DEF Tick
<1>4. ASSUME NEW i \in Pools, NEW apr_bps \in Rates, SetApr(i, apr_bps)
      PROVE  CopiesInOrder' /\ Reaches(baseBook, baseBook')
  BY <1>0, <1>4, AmountsAssumption, RepricedGrows, WriteInOrder DEF SetApr
<1>5. CASE CommitBook \/ UndelegateBook
  BY <1>0, <1>5 DEF CommitBook, UndelegateBook, CopiesInOrder
<1>6. CASE LandCommit
  <2>1. PICK b \in settling : baseBook' = b
    BY <1>6 DEF LandCommit
  <2> QED BY <1>6, <2>1 DEF LandCommit, CopiesInOrder
<1>7. CASE DelegateBook
  BY <1>0, <1>7 DEF DelegateBook, CopiesInOrder
<1>8. CASE LoseDelegation
  BY <1>0, <1>8 DEF LoseDelegation, CopiesInOrder
<1>9. CASE MigrateBook
  <2>1. baseBook.last_ts <= book.last_ts /\ book.last_ts <= now
    BY DEF CopiesInOrder, Reaches
  <2>2. baseBook.last_ts <= now
    BY <1>0, <2>1, SMT DEF Books
  <2> QED BY <1>0, <1>9, <2>2 DEF MigrateBook, CopiesInOrder
<1>10. ASSUME KeeperReadVault \/ KeeperReadBook \/ KeeperAct \/ KeeperRestart
       PROVE  UNCHANGED <<bookVars, now>>
  BY <1>10 DEF KeeperReadVault, KeeperReadBook, KeeperAct, KeeperRestart
<1>11. ASSUME NEW t \in inflight, LandAbsorb(t)
       PROVE  CopiesInOrder' /\ Reaches(baseBook, baseBook')
  <2>1. t.inflow \in U64 /\ t.outflow \in U64
    BY DEF TypeOK, AbsorbType
  <2> QED BY <1>0, <1>11, <2>1, AbsorbedGrows, WriteInOrder DEF LandAbsorb
<1>12. ASSUME NEW t \in inflight, DropAbsorb(t)
       PROVE  UNCHANGED <<bookVars, now>>
  BY <1>12 DEF DropAbsorb
<1>13. CASE AdvanceTime
  <2>1. book.last_ts \in Int /\ book.last_ts <= now
    BY <1>0 DEF Books, CopiesInOrder
  <2>2. book.last_ts <= now'
    BY <1>0, <1>13, <2>1, SMT DEF AdvanceTime
  <2> QED BY <1>0, <1>13, <2>2 DEF AdvanceTime, CopiesInOrder, bookVars
<1>14. CASE UNCHANGED vars
  BY <1>1, <1>14 DEF vars
<1> QED BY <1>1, <1>2, <1>3, <1>4, <1>5, <1>6, <1>7, <1>8, <1>9, <1>10, <1>11,
           <1>12, <1>13, <1>14
        DEF Next, Hosting, Keeping

\* No commit, undelegation or migration takes back what Solana's copy of the
\* book has marked or accrued.
THEOREM CommittedForward == Spec => CommittedNeverRegresses
<1>1. Init => TypeOK /\ CopiesInOrder
  BY InitType, InitInOrder
<1>2. TypeOK /\ CopiesInOrder /\ [Next]_vars
        => (TypeOK /\ CopiesInOrder)' /\ [Reaches(baseBook, baseBook')]_vars
  BY NextType, NextInOrder
<1> QED BY <1>1, <1>2, PTL DEF Spec, CommittedNeverRegresses

-----------------------------------------------------------------------------
(***************************************************************************)
(* No flow is absorbed twice.                                              *)
(***************************************************************************)
FlowInv == VaultAhead /\ KeeperFresh /\ FlightFits

\* At the start nothing is read or under way.
LEMMA InitFlow == Init => FlowInv
<1> SUFFICES ASSUME Init PROVE FlowInv
  OBVIOUS
<1>1. VaultAhead
  BY SMT DEF Init, NewBook, VaultAhead
<1> QED BY <1>1 DEF Init, Idle, FlowInv, KeeperFresh, FlightFits

\* What the invariant speaks of are numbers.
LEMMA FlowNumbers ==
    ASSUME TypeOK
    PROVE  /\ vault.total_in \in U64 /\ vault.total_out \in U64
           /\ book.marked_in \in U64 /\ book.marked_out \in U64
           /\ keeper.total_in \in U64 /\ keeper.total_out \in U64
           /\ keeper.marked_in \in U64 /\ keeper.marked_out \in U64
           /\ \A t \in inflight : t.inflow \in U64 /\ t.outflow \in U64
  BY DEF TypeOK, VaultType, KeeperType, AbsorbType, Books

\* The vault's totals only grow, and nothing else of the invariant depends on
\* them from above.
LEMMA VaultGrowsKeepsFlow ==
    ASSUME TypeOK, FlowInv, vault' \in VaultType,
           vault.total_in <= vault'.total_in, vault.total_out <= vault'.total_out,
           book'.marked_in = book.marked_in, book'.marked_out = book.marked_out,
           UNCHANGED <<keeper, inflight>>
    PROVE  FlowInv'
<1>1. vault'.total_in \in Nat /\ vault'.total_out \in Nat
  BY U64Nat DEF VaultType
<1>2. /\ vault.total_in \in Nat /\ vault.total_out \in Nat
      /\ book.marked_in \in Nat /\ book.marked_out \in Nat
      /\ keeper.total_in \in Nat /\ keeper.total_out \in Nat
      /\ \A t \in inflight : t.inflow \in Nat /\ t.outflow \in Nat
  BY FlowNumbers, U64Nat
<1>3. VaultAhead'
  BY <1>1, <1>2, SMT DEF FlowInv, VaultAhead
<1>4. KeeperFresh'
  BY <1>1, <1>2, SMT DEF FlowInv, KeeperFresh
<1>5. FlightFits'
  BY <1>1, <1>2, SMT DEF FlowInv, FlightFits
<1> QED BY <1>3, <1>4, <1>5 DEF FlowInv

\* A deposit and a redemption make the vault's totals grow.
LEMMA DepositorsFlow ==
    ASSUME TypeOK, FlowInv, Depositors
    PROVE  FlowInv'
<1>0. /\ vault \in VaultType
      /\ vault.total_in \in Nat /\ vault.total_out \in Nat
      /\ vault.total_in \in U64 /\ vault.total_out \in U64
  BY FlowNumbers, U64Nat DEF TypeOK
<1>1. ASSUME NEW u \in Users, NEW amount \in Amounts, Deposit(u, amount)
      PROVE  FlowInv'
  <2> DEFINE shares == SharesFor(amount, BaseNav, BaseSupply)
  <2>1. vault' \in VaultType
    BY <1>1, DepositType DEF TypeOK
  <2> HIDE DEF shares
  <2>2. vault' = [vault EXCEPT !.shares   = SatAdd(@, shares),
                               !.total_in = SatAdd(@, amount)]
    BY <1>1 DEF Deposit, shares
  <2>3. vault'.total_in = SatAdd(vault.total_in, amount)
        /\ vault'.total_out = vault.total_out
    BY <1>0, <2>2 DEF VaultType
  <2>4. vault.total_in <= vault'.total_in /\ vault.total_out <= vault'.total_out
    BY <1>0, <2>3, AmountsAssumption, SatType, SMT
  <2>5. UNCHANGED <<book, keeper, inflight>>
    BY <1>1 DEF Deposit, bookVars, keeperVars
  <2> QED BY <2>1, <2>4, <2>5, VaultGrowsKeepsFlow
<1>2. ASSUME NEW u \in Users, NEW shares \in 1 .. agyld[u], Redeem(u, shares)
      PROVE  FlowInv'
  <2> DEFINE assets == AssetsFor(shares, BaseNav, BaseSupply)
  <2>1. vault' \in VaultType
    BY <1>2, RedeemType DEF TypeOK
  <2>2. vault' = [vault EXCEPT !.shares    = SatSub(@, shares),
                               !.total_out = SatAdd(@, assets)]
    BY <1>2 DEF Redeem
  <2>3. assets \in Nat
    BY <1>2, RedeemPaysNat
  <2> HIDE DEF assets
  <2>4. vault'.total_out = SatAdd(vault.total_out, assets)
        /\ vault'.total_in = vault.total_in
    BY <1>0, <2>2 DEF VaultType
  <2>5. vault.total_in <= vault'.total_in /\ vault.total_out <= vault'.total_out
    BY <1>0, <2>3, <2>4, SatType, SMT
  <2>6. UNCHANGED <<book, keeper, inflight>>
    BY <1>2 DEF Redeem, bookVars, keeperVars
  <2> QED BY <2>1, <2>5, <2>6, VaultGrowsKeepsFlow
<1>3. ASSUME NEW amount \in Amounts, TopUp(amount)
      PROVE  FlowInv'
  BY <1>3 DEF TopUp, bookVars, keeperVars, FlowInv, VaultAhead, KeeperFresh,
             FlightFits
<1> QED BY <1>1, <1>2, <1>3 DEF Depositors

\* A round of the keeper: what it sends fits, because it read the book with
\* nothing under way and the vault only gained since.
LEMMA KeeperFlow ==
    ASSUME TypeOK, FlowInv, PromptLanding = TRUE,
           KeeperReadVault \/ KeeperReadBook \/ KeeperAct \/ KeeperRestart
    PROVE  FlowInv'
<1>0. /\ vault.total_in \in Nat /\ vault.total_out \in Nat
      /\ book.marked_in \in Nat /\ book.marked_out \in Nat
      /\ keeper.total_in \in Nat /\ keeper.total_out \in Nat
      /\ keeper.marked_in \in Nat /\ keeper.marked_out \in Nat
  BY FlowNumbers, U64Nat
<1>1. CASE KeeperReadVault
  <2>1. /\ keeper'.got = keeper.got \union {"vault"}
        /\ keeper'.total_in = vault.total_in /\ keeper'.total_out = vault.total_out
        /\ keeper'.marked_in = keeper.marked_in
        /\ keeper'.marked_out = keeper.marked_out
        /\ UNCHANGED <<vault, book, inflight>>
    BY <1>1 DEF KeeperReadVault, TypeOK, KeeperType, solanaVars, bookVars
  <2>2. KeeperFresh'
    BY <1>0, <2>1, SMT DEF FlowInv, KeeperFresh
  <2> QED BY <2>1, <2>2 DEF FlowInv, VaultAhead, FlightFits
<1>2. CASE KeeperReadBook
  <2>1. /\ keeper'.got = keeper.got \union {"book"}
        /\ keeper'.marked_in = book.marked_in
        /\ keeper'.marked_out = book.marked_out
        /\ keeper'.total_in = keeper.total_in /\ keeper'.total_out = keeper.total_out
        /\ UNCHANGED <<vault, book, inflight>>
        /\ inflight = {}
    BY <1>2 DEF KeeperReadBook, TypeOK, KeeperType, solanaVars, bookVars
  <2>2. KeeperFresh'
    BY <2>1 DEF FlowInv, KeeperFresh
  <2> QED BY <2>1, <2>2 DEF FlowInv, VaultAhead, FlightFits
<1>3. CASE KeeperRestart
  BY <1>3 DEF KeeperRestart, Idle, FlowInv, VaultAhead, KeeperFresh, FlightFits,
             solanaVars, bookVars
<1>4. CASE KeeperAct
  <2>1. keeper' = Idle /\ UNCHANGED <<vault, book>>
    BY <1>4 DEF KeeperAct, solanaVars, bookVars
  <2>2. /\ inflight = {}
        /\ keeper.marked_in = book.marked_in /\ keeper.marked_out = book.marked_out
        /\ keeper.total_in <= vault.total_in /\ keeper.total_out <= vault.total_out
    BY <1>4 DEF KeeperAct, FlowInv, KeeperFresh
  <2>3. /\ book.marked_in + Inflow <= vault.total_in
        /\ book.marked_out + Outflow <= vault.total_out
    BY <1>0, <2>2, SMT DEF Inflow, Outflow, SatSub, FlowInv, VaultAhead
  <2>4. /\ \A t, s \in inflight' : t = s
        /\ \A t \in inflight' : t.inflow = Inflow /\ t.outflow = Outflow
    <3>1. CASE Inflow = 0 /\ Outflow = 0
      BY <1>4, <2>2, <3>1 DEF KeeperAct
    <3>2. CASE ~(Inflow = 0 /\ Outflow = 0)
      <4>1. PICK id \in 1 .. MaxInflight :
              inflight' = inflight \union
                            {[id |-> id, inflow |-> Inflow, outflow |-> Outflow]}
        BY <1>4, <3>2 DEF KeeperAct
      <4> QED BY <2>2, <4>1
    <3> QED BY <3>1, <3>2
  <2>5. FlightFits'
    BY <2>1, <2>3, <2>4 DEF FlightFits
  <2> QED BY <2>1, <2>5 DEF FlowInv, VaultAhead, KeeperFresh, Idle
<1> QED BY <1>1, <1>2, <1>3, <1>4

\* Landing an absorb moves the marks by what the vault had left over.
LEMMA LandAbsorbFlow ==
    ASSUME TypeOK, FlowInv, NEW t \in inflight, LandAbsorb(t)
    PROVE  FlowInv'
<1>1. /\ t.inflow \in U64 /\ t.outflow \in U64
      /\ book.marked_in \in U64 /\ book.marked_out \in U64
      /\ vault.total_in \in U64 /\ vault.total_out \in U64
  BY FlowNumbers
<1>2. now \in Int /\ book \in Books
  BY BoundsAssumption, SMT DEF TypeOK
<1>3. /\ book' = Absorbed(book, now, t.inflow, t.outflow)
      /\ inflight' = inflight \ {t}
      /\ UNCHANGED <<vault, keeper>>
  BY DEF LandAbsorb, WriteBook, solanaVars
<1>4. /\ book'.marked_in = SatAdd(book.marked_in, t.inflow)
      /\ book'.marked_out = SatAdd(book.marked_out, t.outflow)
  <2> DEFINE c == Absorbed(book, now, t.inflow, t.outflow)
  <2>1. /\ c.marked_in = SatAdd(book.marked_in, t.inflow)
        /\ c.marked_out = SatAdd(book.marked_out, t.outflow)
    BY <1>1, <1>2, AbsorbedGrows
  <2> QED BY <1>3, <2>1
<1>5. /\ book.marked_in + t.inflow <= vault.total_in
      /\ book.marked_out + t.outflow <= vault.total_out
      /\ \A s \in inflight : s = t
  BY DEF FlowInv, FlightFits
<1>6. VaultAhead'
  BY <1>1, <1>3, <1>4, <1>5, U64MaxAssumption, SMT DEF VaultAhead, SatAdd, U64
<1>7. inflight' = {}
  BY <1>3, <1>5
<1>8. "book" \notin keeper.got
  BY DEF FlowInv, KeeperFresh
<1>9. KeeperFresh'
  BY <1>3, <1>8 DEF FlowInv, KeeperFresh
<1> QED BY <1>6, <1>7, <1>9 DEF FlowInv, FlightFits

\* Every step keeps the strengthened invariant, if absorbs land promptly.
LEMMA NextFlow ==
    TypeOK /\ CopiesInOrder /\ FlowInv /\ PromptLanding = TRUE /\ [Next]_vars
      => FlowInv'
<1> SUFFICES ASSUME TypeOK, CopiesInOrder, FlowInv, PromptLanding = TRUE, [Next]_vars
             PROVE  FlowInv'
  OBVIOUS
<1>0. /\ vault \in VaultType /\ book \in Books /\ baseBook \in Books
      /\ now \in Int
      /\ vault.total_in \in Nat /\ vault.total_out \in Nat
      /\ vault.total_in <= vault.total_in /\ vault.total_out <= vault.total_out
  BY FlowNumbers, U64Nat, BoundsAssumption, SMT DEF TypeOK
\* A step that leaves the vault, the marks, the keeper and the flight alone.
<1>1. ASSUME UNCHANGED <<vault, keeper, inflight>>,
             book'.marked_in = book.marked_in, book'.marked_out = book.marked_out
      PROVE  FlowInv'
  BY <1>1 DEF FlowInv, VaultAhead, KeeperFresh, FlightFits
<1>2. CASE Depositors
  BY <1>2, DepositorsFlow
<1>3. CASE Tick
  <2>1. book' = Ticked(book, now) /\ UNCHANGED <<vault, keeper, inflight>>
    BY <1>3 DEF Tick, WriteBook, solanaVars, keeperVars
  <2> QED BY <1>0, <1>1, <2>1, TickedGrows
<1>4. ASSUME NEW i \in Pools, NEW apr_bps \in Rates, SetApr(i, apr_bps)
      PROVE  FlowInv'
  <2>1. /\ book' = Repriced(book, now, i, apr_bps)
        /\ UNCHANGED <<vault, keeper, inflight>>
    BY <1>4 DEF SetApr, WriteBook, solanaVars, keeperVars
  <2> QED BY <1>0, <1>1, <2>1, AmountsAssumption, RepricedGrows
<1>5. ASSUME CommitBook \/ UndelegateBook \/ LandCommit \/ DelegateBook
               \/ LoseDelegation
      PROVE  UNCHANGED <<vault, book, keeper, inflight>>
  BY <1>5 DEF CommitBook, UndelegateBook, LandCommit, DelegateBook,
              LoseDelegation, solanaVars, keeperVars
<1>6. CASE MigrateBook
  <2>1. /\ book' = baseBook /\ keeper' = Idle /\ inflight' = {}
        /\ vault' = vault
    BY <1>6 DEF MigrateBook, solanaVars
  <2>2. /\ baseBook.marked_in <= book.marked_in
        /\ baseBook.marked_out <= book.marked_out
        /\ baseBook.marked_in \in Nat /\ baseBook.marked_out \in Nat
        /\ book.marked_in \in Nat /\ book.marked_out \in Nat
    BY U64Nat DEF CopiesInOrder, Reaches, TypeOK, Books
  <2>3. VaultAhead'
    BY <1>0, <2>1, <2>2, SMT DEF FlowInv, VaultAhead
  <2> QED BY <2>1, <2>3 DEF FlowInv, KeeperFresh, FlightFits, Idle
<1>7. CASE KeeperReadVault \/ KeeperReadBook \/ KeeperAct \/ KeeperRestart
  BY <1>7, KeeperFlow
<1>8. ASSUME NEW t \in inflight, LandAbsorb(t)
      PROVE  FlowInv'
  BY <1>8, LandAbsorbFlow
<1>9. ASSUME NEW t \in inflight, DropAbsorb(t)
      PROVE  FlowInv'
  BY <1>9 DEF DropAbsorb, FlowInv, VaultAhead, KeeperFresh, FlightFits,
             solanaVars, bookVars
<1>10. CASE AdvanceTime \/ UNCHANGED vars
  BY <1>1, <1>10 DEF AdvanceTime, vars, solanaVars, bookVars, keeperVars
<1> QED BY <1>1, <1>2, <1>3, <1>4, <1>5, <1>6, <1>7, <1>8, <1>9, <1>10
        DEF Next, Hosting, Keeping

\* The two copies are both behind the vault.
LEMMA FlowCovers ==
    ASSUME TypeOK, CopiesInOrder, FlowInv
    PROVE  BookNotAhead
<1>1. /\ vault \in VaultType /\ book \in Books /\ baseBook \in Books
      /\ \A b \in {book, baseBook} : b.marked_in \in Nat /\ b.marked_out \in Nat
      /\ vault.total_in \in Nat /\ vault.total_out \in Nat
  BY U64Nat, FlowNumbers DEF TypeOK, Books
<1>2. baseBook.marked_in <= vault.total_in /\ baseBook.marked_out <= vault.total_out
  BY <1>1, SMT DEF CopiesInOrder, Reaches, FlowInv, VaultAhead
<1> QED BY <1>1, <1>2, CoveredMeans DEF BookNotAhead, FlowInv, VaultAhead

\* The strengthened invariant, of every execution in which an absorb lands or
\* expires before the keeper reads the book again.
THEOREM FlowInvariant ==
    ASSUME PromptLanding = TRUE
    PROVE  Spec => []FlowCarriedOnce
<1>1. Init => TypeOK /\ CopiesInOrder /\ FlowInv
  BY InitType, InitInOrder, InitFlow
<1>2. TypeOK /\ CopiesInOrder /\ FlowInv /\ [Next]_vars
        => (TypeOK /\ CopiesInOrder /\ FlowInv)'
  BY NextType, NextInOrder, NextFlow
<1>3. CopiesInOrder /\ FlowInv => FlowCarriedOnce
  BY DEF FlowInv, FlowCarriedOnce
<1> QED BY <1>1, <1>2, <1>3, PTL DEF Spec

\* No flow is absorbed twice and pricing never fails with BookAheadOfVault, in
\* every such execution.
THEOREM NeverAheadOfVault ==
    ASSUME PromptLanding = TRUE
    PROVE  Spec => []BookNotAhead
<1>1. FlowCarriedOnce /\ TypeOK => BookNotAhead
  BY FlowCovers DEF FlowInv, FlowCarriedOnce
<1> QED BY <1>1, TypeCorrect, FlowInvariant, PTL

=============================================================================
