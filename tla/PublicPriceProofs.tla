--------------------------- MODULE PublicPriceProofs ---------------------------
(***************************************************************************)
(* What a public share is worth, for any depositors, weights, rates,       *)
(* amounts and bounds: never below par, never less than before, and the    *)
(* whole implements FairVault, with a custody that anybody may top up, so  *)
(* that yield is paid out of it and the pools are asked for more than they *)
(* hold.  Where nobody tops it up the price is exact as well.              *)
(*                                                                         *)
(* All of it under `PromptLanding`, without which the book can run ahead   *)
(* of the vault (run `public_vault_late`).                                 *)
(***************************************************************************)
EXTENDS PublicVaultProofs

-----------------------------------------------------------------------------
(***************************************************************************)
(* The invariant.                                                          *)
(***************************************************************************)
\* No more dollars leave than came in, by a deposit or without one.
CashBound ==
    /\ custody + vault.total_out <= vault.total_in + MaxTopUp
    /\ vault.total_in <= MaxFlow

\* Every copy of the book says what its pools and their yield come to, and they
\* hold no more than was put in.
BooksSound ==
    \A b \in {book, baseBook} \union settling :
      Sound(b) /\ Total(b.accrued) <= MaxYield

\* A later copy adds no less to the vault's flow than an earlier one.
WorthInOrder ==
    /\ Worth(baseBook) <= Worth(book)
    /\ \A b \in settling : Worth(baseBook) <= Worth(b) /\ Worth(b) <= Worth(book)

\* What Solana prices on, as a number that is not cut off at zero.
Value == Worth(baseBook) + vault.total_in - vault.total_out

\* What is proved of the flow without a word about dollars.
Carried == TypeOK /\ CopiesInOrder /\ FlowInv

\* What is said of the books, and what they rest on.
Accounted == Carried /\ CashBound /\ BooksSound /\ WorthInOrder

PriceInv == Accounted /\ vault.shares <= Value

\* The amounts the proofs below calculate with.
LEMMA Numbers ==
    ASSUME TypeOK
    PROVE  /\ vault.total_in \in Nat /\ vault.total_out \in Nat /\ vault.shares \in Nat
           /\ vault.shares \in U64 /\ vault.total_out \in U64
           /\ keeper.total_in \in Nat /\ keeper.total_out \in Nat
           /\ keeper.marked_in \in Nat /\ keeper.marked_out \in Nat
           /\ custody \in Nat /\ now \in Int /\ book \in Books /\ baseBook \in Books
           /\ book.marked_in \in Nat /\ book.marked_out \in Nat
           /\ Total(baseBook.accrued) \in Nat
           /\ \A t \in inflight :
                /\ t.inflow \in Nat /\ t.outflow \in Nat
                /\ t.inflow \in U64 /\ t.outflow \in U64
<1>1. now \in Int
  BY BoundsAssumption, SMT DEF TypeOK
<1>2. vault.shares \in U64 /\ custody \in Nat /\ book \in Books /\ baseBook \in Books
  BY DEF TypeOK, VaultType
<1>3. baseBook.accrued \in [Pools -> Nat]
  BY <1>2, U64Nat DEF Books
<1> QED BY <1>1, <1>2, <1>3, FlowNumbers, U64Nat, TotalNat

\* The bounds within which no sum saturates.
LEMMA Room == /\ MaxFlow \in Nat /\ MaxYield \in Nat /\ MaxTopUp \in Nat
              /\ MaxFlow + MaxYield <= U64Max /\ MaxFlow + MaxTopUp <= U64Max
              /\ MaxFlow <= U64Max
  BY BoundsAssumption, U64MaxAssumption, SMT

\* The carried flow is carried on.
LEMMA NextCarried ==
    ASSUME PromptLanding = TRUE, Carried, [Next]_vars
    PROVE  Carried'
  BY NextType, NextInOrder, NextFlow DEF Carried

\* Nobody but a depositor touches the vault or its custody.
LEMMA OnlyDepositors ==
    ASSUME [Next]_vars, ~Depositors
    PROVE  UNCHANGED <<vault, custody>>
  BY DEF Next, Tick, SetApr, Hosting, CommitBook, UndelegateBook, LandCommit,
         DelegateBook, LoseDelegation, MigrateBook, Keeping, KeeperReadVault,
         KeeperReadBook, KeeperAct, KeeperRestart, LandAbsorb, DropAbsorb,
         AdvanceTime, vars, solanaVars

\* A deposit takes in its amount and nothing else.
LEMMA DepositTotals ==
    ASSUME TypeOK, CashBound, NEW u \in Users, NEW amount \in Amounts, Deposit(u, amount)
    PROVE  /\ amount \in Nat /\ amount > 0
           /\ vault'.total_in = vault.total_in + amount
           /\ vault'.total_out = vault.total_out
           /\ vault'.total_in <= MaxFlow
           /\ custody' = custody + amount
           /\ vault'.shares
                = SatAdd(vault.shares, SharesFor(amount, BaseNav, BaseSupply))
           /\ UNCHANGED <<bookVars, keeperVars>>
<1> DEFINE shares == SharesFor(amount, BaseNav, BaseSupply)
<1>1. amount \in Nat /\ amount > 0 /\ vault.total_in + amount <= MaxFlow
      /\ custody' = custody + amount /\ UNCHANGED <<bookVars, keeperVars>>
  BY AmountsAssumption DEF Deposit
<1>2. vault' = [vault EXCEPT !.shares   = SatAdd(@, shares),
                             !.total_in = SatAdd(@, amount)]
  BY DEF Deposit
<1> HIDE DEF shares
<1>3. /\ vault'.total_in = SatAdd(vault.total_in, amount)
      /\ vault'.total_out = vault.total_out
      /\ vault'.shares = SatAdd(vault.shares, shares)
  BY <1>2 DEF TypeOK, VaultType
<1>4. SatAdd(vault.total_in, amount) = vault.total_in + amount
  BY <1>1, Numbers, Room, U64MaxAssumption, SMT DEF SatAdd
<1> QED BY <1>1, <1>3, <1>4 DEF shares

\* A redemption pays out what it counts as paid, and no more than there is.
LEMMA RedeemTotals ==
    ASSUME TypeOK, CashBound, NEW u \in Users, NEW shares \in 1 .. agyld[u],
           Redeem(u, shares)
    PROVE  \E assets \in Nat :
             /\ assets = AssetsFor(shares, BaseNav, BaseSupply)
             /\ shares \in Nat /\ shares > 0 /\ shares <= vault.shares
             /\ assets <= custody /\ custody' = custody - assets
             /\ vault'.total_in = vault.total_in
             /\ vault'.total_out = vault.total_out + assets
             /\ vault'.shares = vault.shares - shares
             /\ UNCHANGED <<bookVars, keeperVars>>
<1> DEFINE assets == AssetsFor(shares, BaseNav, BaseSupply)
<1>1. assets \in Nat
  BY RedeemPaysNat
<1>2. shares \in Nat /\ shares > 0
  BY SMT DEF TypeOK
<1>3. vault' = [vault EXCEPT !.shares    = SatSub(@, shares),
                             !.total_out = SatAdd(@, assets)]
  BY DEF Redeem
<1>4. /\ assets <= custody /\ custody' = custody - assets /\ vault.shares >= shares
      /\ UNCHANGED <<bookVars, keeperVars>>
  BY DEF Redeem
<1> HIDE DEF assets
<1>5. /\ vault'.total_in = vault.total_in
      /\ vault'.total_out = SatAdd(vault.total_out, assets)
      /\ vault'.shares = SatSub(vault.shares, shares)
  BY <1>3 DEF TypeOK, VaultType
<1>6. shares <= vault.shares /\ SatSub(vault.shares, shares) = vault.shares - shares
  BY <1>2, <1>4, Numbers, SMT DEF SatSub
<1>7. SatAdd(vault.total_out, assets) = vault.total_out + assets
  BY <1>1, <1>4, Numbers, Room, U64MaxAssumption, SMT DEF SatAdd, CashBound
<1> QED BY <1>1, <1>2, <1>4, <1>5, <1>6, <1>7 DEF assets

\* No step adds or takes a dollar that is not counted.
LEMMA NextBound ==
    ASSUME TypeOK, CashBound, [Next]_vars
    PROVE  CashBound'
<1>1. ASSUME NEW u \in Users, NEW amount \in Amounts, Deposit(u, amount)
      PROVE  CashBound'
  BY <1>1, DepositTotals, Numbers, Room, SMT DEF CashBound
<1>2. ASSUME NEW u \in Users, NEW shares \in 1 .. agyld[u], Redeem(u, shares)
      PROVE  CashBound'
  <2>1. PICK assets \in Nat :
          /\ assets <= custody /\ custody' = custody - assets
          /\ vault'.total_in = vault.total_in
          /\ vault'.total_out = vault.total_out + assets
    BY <1>2, RedeemTotals
  <2> QED BY <2>1, Numbers, Room, SMT DEF CashBound
<1>3. ASSUME NEW amount \in Amounts, TopUp(amount)
      PROVE  CashBound'
  <2>1. /\ amount \in Nat /\ custody' = custody + amount /\ UNCHANGED vault
        /\ custody + vault.total_out + amount <= vault.total_in + MaxTopUp
    BY <1>3, AmountsAssumption DEF TopUp
  <2>2. custody' + vault.total_out <= vault.total_in + MaxTopUp
    BY <2>1, Numbers, Room, SMT
  <2> QED BY <2>1, <2>2 DEF CashBound
<1>4. ASSUME UNCHANGED <<vault, custody>>
      PROVE  CashBound'
  BY <1>4 DEF CashBound
<1> QED BY <1>1, <1>2, <1>3, <1>4, OnlyDepositors DEF Depositors

-----------------------------------------------------------------------------
(***************************************************************************)
(* The books.                                                              *)
(***************************************************************************)
\* What a step does to the books: they stay what they should be, and Solana's
\* copy is worth no less than before.
BooksMoveOn == BooksSound' /\ WorthInOrder' /\ Worth(baseBook) <= Worth(baseBook')

\* Every copy is worth a number.
LEMMA WorthInt ==
    ASSUME TypeOK, BooksSound
    PROVE  \A b \in {book, baseBook} \union settling : Worth(b) \in Int
  BY SoundNumbers DEF BooksSound, TypeOK

\* Writing a book that is worth more, and nothing else.
LEMMA WriteSound ==
    ASSUME Accounted, NEW b \in Books, WriteBook(b), Sound(b), Worth(book) <= Worth(b),
           UNCHANGED settling
    PROVE  BooksMoveOn
<1>1. /\ book' = b /\ baseBook' = (IF site = "solana" THEN b ELSE baseBook)
      /\ Total(b.accrued) <= MaxYield /\ settling' = settling
      /\ site = "solana" => settling = {}
  BY DEF WriteBook, Accounted, Carried, CopiesInOrder
<1>2. BooksSound'
  BY <1>1 DEF BooksSound, Accounted
<1>3. /\ Worth(b) \in Int /\ Worth(book) \in Int /\ Worth(baseBook) \in Int
      /\ \A c \in settling : Worth(c) \in Int
  BY WorthInt, SoundNumbers DEF Accounted, Carried
<1>4. /\ Worth(baseBook) <= Worth(book) /\ Worth(book) <= Worth(b)
      /\ \A c \in settling : Worth(baseBook) <= Worth(c) /\ Worth(c) <= Worth(book)
  BY DEF Accounted, WorthInOrder
<1>5. /\ Worth(baseBook) <= Worth(b) /\ Worth(b) <= Worth(b)
      /\ Worth(baseBook) <= Worth(baseBook)
      /\ \A c \in settling : Worth(c) <= Worth(b)
  BY <1>3, <1>4, SMT
<1>6. CASE site = "solana"
  BY <1>1, <1>2, <1>5, <1>6 DEF BooksMoveOn, WorthInOrder
<1>7. CASE site # "solana"
  BY <1>1, <1>2, <1>4, <1>5, <1>7 DEF BooksMoveOn, WorthInOrder
<1> QED BY <1>6, <1>7

\* What has been marked leaves room for what the vault has seen.
LEMMA MarkedRoom ==
    ASSUME Accounted
    PROVE  /\ now \in Int /\ book \in Books /\ Sound(book)
           /\ book.marked_in \in Nat /\ book.marked_in <= MaxFlow
           /\ vault.total_out <= U64Max
<1>1. /\ now \in Int /\ book \in Books /\ book.marked_in \in Nat
      /\ vault.total_in \in Nat /\ vault.total_out \in U64
  BY Numbers DEF Accounted, Carried
<1>2. Sound(book) /\ book.marked_in <= vault.total_in /\ vault.total_in <= MaxFlow
  BY DEF Accounted, BooksSound, Carried, FlowInv, VaultAhead, CashBound
<1>3. book.marked_in <= MaxFlow
  BY <1>1, <1>2, Room, SMT
<1>4. vault.total_out <= U64Max
  BY <1>1, U64MaxAssumption, SMT DEF U64
<1> QED BY <1>1, <1>2, <1>3, <1>4

\* Landing an absorb: what the pools cannot give stays in what the book is worth.
LEMMA LandSound ==
    ASSUME Accounted, NEW t \in inflight, LandAbsorb(t)
    PROVE  BooksMoveOn
<1> DEFINE m == t.inflow
           n == t.outflow
           b == Absorbed(book, now, m, n)
<1>1. /\ m \in U64 /\ n \in U64 /\ m \in Nat /\ n \in Nat
      /\ book.marked_in \in Nat /\ book.marked_out \in Nat
      /\ vault.total_in \in Nat /\ vault.total_out \in Nat
  BY Numbers DEF Accounted, Carried
<1>2. WriteBook(b) /\ UNCHANGED settling
  BY DEF LandAbsorb
<1>3. /\ book.marked_in + m <= vault.total_in /\ book.marked_out + n <= vault.total_out
      /\ vault.total_in <= MaxFlow
  BY DEF Accounted, CashBound, Carried, FlowInv, FlightFits
<1>4. Total(b.accrued) <= MaxYield
  BY <1>2 DEF WriteBook
<1> HIDE DEF m, n
<1>5. book.marked_in + m <= MaxFlow /\ book.marked_out + n <= U64Max
  BY <1>1, <1>3, MarkedRoom, Room, U64MaxAssumption, SMT
<1>6. b \in Books
  BY <1>1, MarkedRoom, AbsorbedGrows
<1>7. Sound(b) /\ Worth(book) <= Worth(b)
  BY <1>1, <1>4, <1>5, MarkedRoom, Room, AbsorbedSound
<1> HIDE DEF b
<1> QED BY <1>2, <1>6, <1>7, WriteSound

\* Every step moves the books on.
LEMMA NextSound ==
    ASSUME Accounted, [Next]_vars
    PROVE  BooksMoveOn
<1>1. CASE Tick
  <2> DEFINE b == Ticked(book, now)
  <2>1. WriteBook(b) /\ Total(b.accrued) <= MaxYield /\ UNCHANGED settling
    BY <1>1 DEF Tick, WriteBook
  <2>2. b \in Books
    BY MarkedRoom, TickedGrows
  <2>3. Sound(b) /\ Worth(book) <= Worth(b)
    BY <2>1, MarkedRoom, Room, TickedSound
  <2> HIDE DEF b
  <2> QED BY <2>1, <2>2, <2>3, WriteSound
<1>2. ASSUME NEW i \in Pools, NEW apr_bps \in Rates, SetApr(i, apr_bps)
      PROVE  BooksMoveOn
  <2> DEFINE b == Repriced(book, now, i, apr_bps)
  <2>0. apr_bps \in Nat
    BY AmountsAssumption
  <2>1. WriteBook(b) /\ Total(b.accrued) <= MaxYield /\ UNCHANGED settling
    BY <1>2 DEF SetApr, WriteBook
  <2>2. b \in Books
    BY <2>0, MarkedRoom, RepricedGrows
  <2>3. Sound(b) /\ Worth(book) <= Worth(b)
    BY <2>0, <2>1, MarkedRoom, Room, RepricedSound
  <2> HIDE DEF b
  <2> QED BY <2>1, <2>2, <2>3, WriteSound
<1>3. ASSUME NEW t \in inflight, LandAbsorb(t)
      PROVE  BooksMoveOn
  BY <1>3, LandSound
<1>0. /\ Worth(book) <= Worth(book) /\ Worth(baseBook) <= Worth(baseBook)
      /\ Worth(baseBook) <= Worth(book)
      /\ BooksSound /\ \A b \in settling : Worth(baseBook) <= Worth(b) /\ Worth(b) <= Worth(book)
  <2>1. Worth(book) \in Int /\ Worth(baseBook) \in Int
    BY WorthInt DEF Accounted, Carried
  <2>2. Worth(book) <= Worth(book) /\ Worth(baseBook) <= Worth(baseBook)
    BY <2>1, SMT
  <2> QED BY <2>2 DEF Accounted, WorthInOrder
<1>4. ASSUME UNCHANGED <<book, baseBook>>, settling' \subseteq {book} \union settling
      PROVE  BooksMoveOn
  BY <1>0, <1>4 DEF BooksMoveOn, BooksSound, WorthInOrder
<1>5. CASE LandCommit
  <2>1. PICK b \in settling : baseBook' = b
    BY <1>5 DEF LandCommit
  <2>2. settling' = {} /\ book' = book
    BY <1>5 DEF LandCommit
  <2> QED BY <1>0, <2>1, <2>2 DEF BooksMoveOn, BooksSound, WorthInOrder
<1>6. CASE MigrateBook
  <2>1. book' = baseBook /\ baseBook' = baseBook /\ settling' = {}
    BY <1>6 DEF MigrateBook
  <2> QED BY <1>0, <2>1 DEF BooksMoveOn, BooksSound, WorthInOrder
<1>7. CASE Depositors
  BY <1>4, <1>7 DEF Depositors, Deposit, Redeem, TopUp, bookVars
<1>8. CASE CommitBook \/ UndelegateBook \/ DelegateBook \/ LoseDelegation
  BY <1>4, <1>8 DEF CommitBook, UndelegateBook, DelegateBook, LoseDelegation
<1>9. CASE KeeperReadVault \/ KeeperReadBook \/ KeeperAct \/ KeeperRestart
  BY <1>4, <1>9 DEF KeeperReadVault, KeeperReadBook, KeeperAct, KeeperRestart, bookVars
<1>10. ASSUME NEW t \in inflight, DropAbsorb(t)
       PROVE  BooksMoveOn
  BY <1>4, <1>10 DEF DropAbsorb, bookVars
<1>11. CASE AdvanceTime \/ UNCHANGED vars
  BY <1>4, <1>11 DEF AdvanceTime, vars, bookVars
<1> QED BY <1>1, <1>2, <1>3, <1>5, <1>6, <1>7, <1>8, <1>9, <1>10, <1>11
        DEF Next, Hosting, Keeping

-----------------------------------------------------------------------------
(***************************************************************************)
(* Trades are fair: arithmetic of one deposit and of one redemption, for a *)
(* value N and a supply S that is not above it.                            *)
(***************************************************************************)
\* A deposit buys what the price gives, rounded down, and stays at par.
LEMMA DepositFair ==
    ASSUME NEW N \in Nat, NEW S \in Nat, NEW a \in Nat, S <= N, N + a <= U64Max
    PROVE  LET s == SharesFor(a, N, S)
           IN  /\ s \in Nat
               /\ SatAdd(S, s) = S + s
               /\ S + s <= N + a
               /\ s * N <= a * S \/ S = 0
               /\ IF S = 0 \/ N = 0 THEN s = a
                                    ELSE s * N <= a * S /\ a * S < (s + 1) * N
<1> DEFINE s == SharesFor(a, N, S)
<1>1. CASE S = 0 \/ N = 0
  <2>1. s = a /\ S = 0
    BY <1>1, SMT DEF SharesFor
  <2>2. SatAdd(S, s) = S + s /\ S + s <= N + a
    BY <2>1, U64MaxAssumption, SMT DEF SatAdd
  <2> QED BY <1>1, <2>1, <2>2
<1>2. CASE ~(S = 0 \/ N = 0)
  <2>1. N > 0 /\ S > 0
    BY <1>2, SMT
  <2>2. a * S \in Nat
    BY MulNat
  <2>3. s = (a * S) \div N
    BY <1>2 DEF SharesFor
  <2>4. s \in Nat /\ s * N <= a * S /\ a * S < (s + 1) * N
    BY <2>1, <2>2, <2>3, DivFloor
  <2> HIDE DEF s
  <2>5. a * S <= a * N
    <3>1. S * a <= N * a
      BY MulMonotone
    <3> QED BY <3>1, SMT
  <2>6. s * N <= a * N
    BY <2>2, <2>4, <2>5, MulNat, SMT
  <2>7. s <= a
    BY <2>1, <2>4, <2>6, MulCancel
  <2>8. SatAdd(S, s) = S + s /\ S + s <= N + a
    BY <2>4, <2>7, U64MaxAssumption, SMT DEF SatAdd
  <2> QED BY <1>2, <2>4, <2>8 DEF s
<1> QED BY <1>1, <1>2

\* A redemption pays what the price gives, rounded down, and stays at par.
LEMMA RedeemFair ==
    ASSUME NEW N \in Nat, NEW S \in Nat, NEW s \in Nat, S <= N, s > 0, s <= S
    PROVE  LET a == AssetsFor(s, N, S)
           IN  /\ a \in Nat /\ a <= N
               /\ a * S <= s * N /\ s * N < (a + 1) * S
               /\ N * (S - s) <= (N - a) * S
               /\ S - s <= N - a
<1> DEFINE a == AssetsFor(s, N, S)
<1>1. S > 0 /\ s * N \in Nat
  BY MulNat, SMT
<1>2. a = (s * N) \div S
  BY DEF AssetsFor
<1>3. a \in Nat /\ a * S <= s * N /\ s * N < (a + 1) * S
  BY <1>1, <1>2, DivFloor
<1> HIDE DEF a
<1>4. s * N <= N * S
  <2>1. s * N <= S * N
    BY MulMonotone
  <2> QED BY <2>1, SMT
<1>5. a <= N
  <2>1. a * S <= N * S
    BY <1>1, <1>3, <1>4, MulNat, SMT
  <2> QED BY <1>1, <1>3, <2>1, MulCancel
<1>6. N * (S - s) <= (N - a) * S
  <2>1. N * (S - s) = N * S - s * N /\ (N - a) * S = N * S - a * S
    BY <1>3, SMT
  <2> DEFINE x == N * S
             y == s * N
             z == a * S
  <2>2. x \in Nat /\ y \in Nat /\ z \in Nat /\ z <= y
    BY <1>3, MulNat
  <2> HIDE DEF x, y, z
  <2>3. x - y <= x - z
    BY <2>2, SMT
  <2> QED BY <2>1, <2>3 DEF x, y, z
<1>7. S - s <= N - a
  <2>0. S - s \in Nat /\ N - a \in Nat
    BY <1>3, <1>5, SMT
  <2>1. S * (S - s) <= N * (S - s)
    BY <2>0, MulMonotone
  <2>2. (S - s) * S <= (N - a) * S
    <3>1. (S - s) * S = S * (S - s)
      BY <2>0, SMT
    <3>2. /\ S * (S - s) \in Nat /\ N * (S - s) \in Nat /\ (N - a) * S \in Nat
      BY <2>0, MulNat
    <3> QED BY <1>6, <2>1, <3>1, <3>2, SMT
  <2> QED BY <1>1, <2>0, <2>2, MulCancel
<1> QED BY <1>3, <1>5, <1>6, <1>7 DEF a

-----------------------------------------------------------------------------
(***************************************************************************)
(* Every step, as the price sees it.                                       *)
(***************************************************************************)
\* Solana's copy of the book has marked no more than the vault has seen.
LEMMA MarksSeen ==
    ASSUME Carried
    PROVE  /\ baseBook.marked_in  <= vault.total_in
           /\ baseBook.marked_out <= vault.total_out
  BY FlowCovers, CoveredMeans DEF Carried, BookNotAhead, TypeOK

\* The value is within what the amounts can hold.
ValueFits == Value \in Int /\ Value <= U64Max

LEMMA ValueRoom ==
    ASSUME Accounted
    PROVE  ValueFits
<1>1. /\ vault.total_in \in Nat /\ vault.total_out \in Nat
      /\ baseBook \in Books /\ Sound(baseBook)
      /\ Total(baseBook.accrued) <= MaxYield /\ vault.total_in <= MaxFlow
  BY Numbers DEF Accounted, Carried, BooksSound, CashBound
<1>2. /\ baseBook.marked_out \in Nat /\ Worth(baseBook) \in Int
      /\ Worth(baseBook) <= Total(baseBook.accrued) + baseBook.marked_out
      /\ Total(baseBook.accrued) \in Nat
  BY <1>1, SoundNumbers
<1>3. baseBook.marked_out <= vault.total_out
  BY MarksSeen DEF Accounted
<1>4. Value = Worth(baseBook) + vault.total_in - vault.total_out
  BY DEF Value
<1>5. Value \in Int
  BY <1>1, <1>2, <1>4, SMT
<1>6. Worth(baseBook) <= MaxYield + vault.total_out
  BY <1>1, <1>2, <1>3, Room, SMT
<1>7. Value <= MaxFlow + MaxYield
  BY <1>1, <1>2, <1>4, <1>6, Room, SMT
<1>8. Value <= U64Max
  BY <1>5, <1>7, Room, U64MaxAssumption, SMT
<1> QED BY <1>5, <1>7, <1>8 DEF ValueFits

\* And so it is after a step.
LEMMA ValueRoomNext == Accounted' => ValueFits'
<1>1. Accounted => ValueFits
  BY ValueRoom
<1> QED BY <1>1, PTL

\* Solana prices on the value, and on the vault's own supply.
Priced ==
    /\ BaseNav = Value /\ BaseSupply = vault.shares
    /\ Value \in Nat /\ vault.shares \in Nat /\ Value <= U64Max
    /\ vault.shares <= Value

LEMMA PriceIsPriced == PriceInv => Priced
<1> SUFFICES ASSUME PriceInv PROVE Priced
  OBVIOUS
<1>1. /\ vault.total_in \in Nat /\ vault.total_out \in Nat /\ vault.shares \in Nat
      /\ vault.total_in \in U64 /\ vault.total_out \in U64 /\ vault.shares \in U64
      /\ baseBook \in Books /\ Sound(baseBook) /\ vault.total_in <= MaxFlow
      /\ Total(baseBook.accrued) <= MaxYield /\ vault.shares <= Value
  BY Numbers, FlowNumbers DEF PriceInv, Accounted, Carried, BooksSound, CashBound
<1>2. /\ TotalIn(vault, NoPrivateFlow) = vault.total_in
      /\ TotalOut(vault, NoPrivateFlow) = vault.total_out
      /\ BaseSupply = vault.shares
  BY <1>1, NoPrivateType DEF TotalIn, TotalOut, BaseSupply, Supply, NoPrivateFlow
<1>3. /\ baseBook.marked_in <= vault.total_in /\ baseBook.marked_out <= vault.total_out
  BY MarksSeen DEF PriceInv, Accounted
<1>4. /\ baseBook.marked_in \in Nat /\ baseBook.marked_out \in Nat /\ baseBook.nav \in Int
      /\ Total(baseBook.principal) \in Nat /\ Total(baseBook.accrued) \in Nat
      /\ baseBook.nav = Total(baseBook.principal) + Total(baseBook.accrued)
      /\ Total(baseBook.principal) <= baseBook.marked_in
  BY <1>1, SoundNumbers DEF Sound
<1>5. Value = baseBook.nav - baseBook.marked_in + baseBook.marked_out
                + vault.total_in - vault.total_out
  BY DEF Value, Worth
<1>6. SatAdd(baseBook.nav, vault.total_in - baseBook.marked_in)
        = baseBook.nav + (vault.total_in - baseBook.marked_in)
  BY <1>1, <1>3, <1>4, Room, U64MaxAssumption, SMT DEF SatAdd
<1>7. Value \in Nat
  BY <1>1, <1>4, <1>5, SMT
<1>8. SatSub(baseBook.nav + (vault.total_in - baseBook.marked_in),
             vault.total_out - baseBook.marked_out) = Value
  BY <1>1, <1>3, <1>4, <1>5, <1>7, SMT DEF SatSub
<1>9. BaseNav = Value
  BY <1>2, <1>6, <1>8 DEF BaseNav, Nav
<1>10. Value <= U64Max
  BY ValueRoom DEF PriceInv, ValueFits
<1> QED BY <1>1, <1>2, <1>7, <1>9, <1>10 DEF Priced

LEMMA PricedNext == PriceInv' => Priced'
  BY PriceIsPriced, PTL

\* A deposit of a dollars.
BuysAt(a) ==
    /\ a > 0 /\ SharesFor(a, Value, vault.shares) > 0
    /\ Value' = Value + a
    /\ vault'.shares = SatAdd(vault.shares, SharesFor(a, Value, vault.shares))

\* A redemption of s shares.
SellsAt(s) ==
    /\ s > 0 /\ s <= vault.shares
    /\ Value' = Value - AssetsFor(s, Value, vault.shares)
    /\ vault'.shares = vault.shares - s

\* Anything else: yield, a top-up that no price sees, a commit, and an outflow
\* the pools could not give, which makes the book worth more.
Gains == Value <= Value' /\ vault'.shares = vault.shares

\* Every step is one of the three.
LEMMA StepPrices ==
    ASSUME PriceInv, [Next]_vars
    PROVE  (\E a \in Nat : BuysAt(a)) \/ (\E s \in Nat : SellsAt(s)) \/ Gains
<1>0. /\ TypeOK /\ CashBound /\ BooksMoveOn /\ Priced
      /\ vault.total_in \in Nat /\ vault.total_out \in Nat
      /\ Worth(baseBook) \in Int /\ Worth(baseBook') \in Int
  <2>1. TypeOK /\ TypeOK' /\ BooksSound /\ BooksMoveOn /\ CashBound
    BY NextSound, NextType DEF PriceInv, Accounted, Carried
  <2>2. Worth(baseBook) \in Int
    BY <2>1, WorthInt
  <2>3. baseBook' \in Books /\ Sound(baseBook')
    BY <2>1 DEF BooksMoveOn, BooksSound, TypeOK
  <2> QED BY <2>1, <2>2, <2>3, SoundNumbers, Numbers, PriceIsPriced
<1>1. ASSUME NEW u \in Users, NEW amount \in Amounts, Deposit(u, amount)
      PROVE  \E a \in Nat : BuysAt(a)
  <2>1. /\ amount \in Nat /\ amount > 0
        /\ vault'.total_in = vault.total_in + amount
        /\ vault'.total_out = vault.total_out
        /\ vault'.shares = SatAdd(vault.shares, SharesFor(amount, BaseNav, BaseSupply))
        /\ baseBook' = baseBook
    BY <1>0, <1>1, DepositTotals DEF bookVars
  <2>2. SharesFor(amount, BaseNav, BaseSupply) > 0
    BY <1>1 DEF Deposit
  <2>3. Value' = Worth(baseBook) + (vault.total_in + amount) - vault.total_out
    BY <2>1 DEF Value
  <2>4. Value' = Value + amount
    BY <1>0, <2>1, <2>3, SMT DEF Value
  <2> QED BY <1>0, <2>1, <2>2, <2>4 DEF Priced, BuysAt
<1>2. ASSUME NEW u \in Users, NEW shares \in 1 .. agyld[u], Redeem(u, shares)
      PROVE  \E s \in Nat : SellsAt(s)
  <2>1. PICK assets \in Nat :
          /\ assets = AssetsFor(shares, BaseNav, BaseSupply)
          /\ shares \in Nat /\ shares > 0 /\ shares <= vault.shares
          /\ vault'.total_in = vault.total_in
          /\ vault'.total_out = vault.total_out + assets
          /\ vault'.shares = vault.shares - shares
          /\ UNCHANGED bookVars
    BY <1>0, <1>2, RedeemTotals
  <2>2. Value' = Worth(baseBook) + vault.total_in - (vault.total_out + assets)
    BY <2>1 DEF Value, bookVars
  <2>3. Value' = Value - assets
    BY <1>0, <2>1, <2>2, SMT DEF Value
  <2> QED BY <1>0, <2>1, <2>3 DEF Priced, SellsAt
<1>3. ASSUME UNCHANGED vault
      PROVE  Gains
  <2>1. Worth(baseBook) <= Worth(baseBook')
    BY <1>0 DEF BooksMoveOn
  <2>2. Value' = Worth(baseBook') + vault.total_in - vault.total_out
    BY <1>3 DEF Value
  <2>3. Value <= Value'
    BY <1>0, <2>1, <2>2, SMT DEF Value
  <2> QED BY <1>3, <2>3 DEF Gains
<1>4. ASSUME NEW amount \in Amounts, TopUp(amount)
      PROVE  UNCHANGED vault
  BY <1>4 DEF TopUp
<1> QED BY <1>1, <1>2, <1>3, <1>4, OnlyDepositors DEF Depositors

\* No step takes the supply above the value.
LEMMA StepAtPar ==
    ASSUME PriceInv, [Next]_vars, Value' \in Int, Value' <= U64Max
    PROVE  vault'.shares <= Value'
<1>0. Value \in Nat /\ vault.shares \in Nat /\ vault.shares <= Value
  BY PriceIsPriced DEF Priced
<1>1. ASSUME NEW a \in Nat, BuysAt(a) PROVE vault'.shares <= Value'
  <2>1. Value + a <= U64Max
    BY <1>0, <1>1, SMT DEF BuysAt
  <2> DEFINE s == SharesFor(a, Value, vault.shares)
  <2>2. SatAdd(vault.shares, s) = vault.shares + s /\ vault.shares + s <= Value + a
    BY <1>0, <2>1, DepositFair
  <2>3. vault'.shares = SatAdd(vault.shares, s) /\ Value' = Value + a
    BY <1>1 DEF BuysAt
  <2> QED BY <2>2, <2>3
<1>2. ASSUME NEW s \in Nat, SellsAt(s) PROVE vault'.shares <= Value'
  <2>1. s > 0 /\ s <= vault.shares
    BY <1>2 DEF SellsAt
  <2>2. vault.shares - s <= Value - AssetsFor(s, Value, vault.shares)
    BY <1>0, <2>1, RedeemFair
  <2> QED BY <1>2, <2>2 DEF SellsAt
<1>3. CASE Gains
  BY <1>0, <1>3, SMT DEF Gains
<1> QED BY <1>1, <1>2, <1>3, StepPrices

-----------------------------------------------------------------------------
(***************************************************************************)
(* The theorems.                                                           *)
(***************************************************************************)
\* The accounts as they are created.
LEMMA InitPrice == Init => PriceInv /\ Value = 0 /\ vault.shares = 0
<1> SUFFICES ASSUME Init PROVE PriceInv /\ Value = 0 /\ vault.shares = 0
  OBVIOUS
<1>1. Carried
  BY InitType, InitInOrder, InitFlow DEF Carried
<1>2. CashBound
  BY Room, SMT DEF Init, CashBound
<1>3. /\ book.nav = 0 /\ book.marked_in = 0 /\ book.marked_out = 0
      /\ Total(book.principal) = 0 /\ Total(book.accrued) = 0
      /\ baseBook = book /\ settling = {} /\ vault.shares = 0
      /\ vault.total_in = 0 /\ vault.total_out = 0
  BY SMT DEF Init, NewBook, Total, Pools
<1>4. Sound(book) /\ Total(book.accrued) <= MaxYield
  BY <1>3, Room, SMT DEF Sound
<1>5. Worth(book) = 0
  BY <1>3, SMT DEF Worth
<1>6. BooksSound /\ WorthInOrder
  <2>1. Worth(baseBook) <= Worth(book)
    BY <1>3, <1>5, SMT
  <2> QED BY <1>3, <1>4, <2>1 DEF BooksSound, WorthInOrder
<1>7. Value = 0
  BY <1>3, <1>5, SMT DEF Value
<1>8. vault.shares <= Value
  BY <1>3, <1>7, SMT
<1> QED BY <1>1, <1>2, <1>3, <1>6, <1>7, <1>8 DEF PriceInv, Accounted

\* The invariant is inductive.
LEMMA NextPrice ==
    ASSUME PromptLanding = TRUE, PriceInv, [Next]_vars
    PROVE  PriceInv'
<1>1. Carried'
  BY NextCarried DEF PriceInv, Accounted
<1>2. CashBound'
  BY NextBound DEF PriceInv, Accounted, Carried
<1>3. BooksSound' /\ WorthInOrder'
  BY NextSound DEF PriceInv, BooksMoveOn
<1>4. Accounted'
  BY <1>1, <1>2, <1>3 DEF Accounted
<1>5. Value' \in Int /\ Value' <= U64Max
  BY <1>4, ValueRoomNext DEF ValueFits
<1>6. vault'.shares <= Value'
  BY <1>5, StepAtPar
<1> QED BY <1>4, <1>6 DEF PriceInv

LEMMA AlwaysPriced ==
    ASSUME PromptLanding = TRUE
    PROVE  Spec => []PriceInv
<1>1. PriceInv /\ [Next]_vars => PriceInv'
  BY NextPrice
<1>2. Init => PriceInv
  BY InitPrice
<1> QED BY <1>1, <1>2, PTL DEF Spec

\* Every share is worth at least the dollar it stands for, in every execution,
\* through any sequence of trades, yield, commits and top-ups (deposit, redeem,
\* nav_for_pricing).
THEOREM CoveredAtPar ==
    ASSUME PromptLanding = TRUE
    PROVE  Spec => []SharesCoveredAtPar
<1>1. PriceInv => SharesCoveredAtPar
  BY PriceIsPriced DEF Priced, SharesCoveredAtPar
<1> QED BY <1>1, AlwaysPriced, PTL

\* No step lowers the price: neither a trade, nor a commit, nor a new book.
LEMMA StepPriceUp ==
    ASSUME PriceInv, PriceInv', [Next]_vars
    PROVE  BaseSupply > 0 => BaseNav' * BaseSupply >= BaseNav * BaseSupply'
<1> DEFINE N == Value
           S == vault.shares
<1>0. /\ N \in Nat /\ S \in Nat /\ S <= N /\ N \in Nat
      /\ BaseNav = N /\ BaseSupply = S
  BY PriceIsPriced DEF Priced
<1>p. /\ N' \in Nat /\ S' \in Nat /\ N' <= U64Max
      /\ BaseNav' = N' /\ BaseSupply' = S'
  BY PricedNext DEF Priced
<1> SUFFICES ASSUME S > 0 PROVE N' * S >= N * S'
  BY <1>0, <1>p
<1>1. ASSUME NEW a \in Nat, BuysAt(a) PROVE N' * S >= N * S'
  <2> DEFINE s == SharesFor(a, N, S)
  <2>0. N' = N + a /\ S' = SatAdd(S, s) /\ N + a <= U64Max
    BY <1>1, <1>p DEF BuysAt
  <2>1. s \in Nat /\ SatAdd(S, s) = S + s /\ (s * N <= a * S \/ S = 0)
    BY <1>0, <2>0, DepositFair
  <2> HIDE DEF N, S, s
  <2>2. /\ N' * S = N * S + a * S /\ N * S' = N * S + s * N
    BY <1>0, <2>0, <2>1, SMT
  <2>3. N * S \in Nat /\ a * S \in Nat /\ s * N \in Nat
    BY <1>0, <2>1, MulNat
  <2>4. s * N <= a * S
    BY <1>0, <2>1, SMT
  <2> QED BY <2>2, <2>3, <2>4, SMT
<1>2. ASSUME NEW s \in Nat, SellsAt(s) PROVE N' * S >= N * S'
  <2>1. /\ N' = N - AssetsFor(s, N, S) /\ S' = S - s
        /\ N * (S - s) <= (N - AssetsFor(s, N, S)) * S
    BY <1>0, <1>2, RedeemFair DEF SellsAt
  <2>2. N * S' <= N' * S
    BY <2>1
  <2>3. N * S' \in Nat /\ N' * S \in Nat
    BY <1>0, <1>p, MulNat
  <2> HIDE DEF N, S
  <2> QED BY <2>2, <2>3, SMT
<1>3. ASSUME Gains PROVE N' * S >= N * S'
  <2>1. N <= N' /\ S' = S
    BY <1>3 DEF Gains
  <2> HIDE DEF N, S
  <2>2. N * S <= N' * S
    BY <1>0, <1>p, <2>1, MulMonotone
  <2>3. N * S \in Nat /\ N' * S \in Nat
    BY <1>0, <1>p, MulNat
  <2>4. N * S' = N * S
    BY <2>1
  <2> QED BY <2>2, <2>3, <2>4, SMT
<1> QED BY <1>1, <1>2, <1>3, StepPrices

\* The price of a share somebody holds never falls, in any execution, whatever
\* is topped up and paid out (deposit, redeem, absorb, defund, commit_book).
THEOREM PriceNeverFalls ==
    ASSUME PromptLanding = TRUE
    PROVE  Spec => SharePriceNeverFalls
<1>1. PriceInv /\ PriceInv' /\ [Next]_vars
        => [BaseSupply > 0 /\ BaseSupply' > 0
              => BaseNav' * BaseSupply >= BaseNav * BaseSupply']_vars
  BY StepPriceUp
<1> QED BY <1>1, AlwaysPriced, PTL DEF Spec, SharePriceNeverFalls

\* A step is a fair deposit, a fair redemption, a gain, or invisible.
LEMMA StepFair ==
    ASSUME PriceInv, PriceInv', [Next]_vars
    PROVE  [Fair!Next]_(Fair!vars)
<1> DEFINE N == Value
           S == vault.shares
<1>0. N \in Nat /\ S \in Nat /\ S <= N /\ BaseNav = N /\ BaseSupply = S
  BY PriceIsPriced DEF Priced
<1>p. /\ N' \in Nat /\ S' \in Nat /\ N' <= U64Max
      /\ BaseNav' = N' /\ BaseSupply' = S'
  BY PricedNext DEF Priced
<1>1. ASSUME NEW a \in Nat, BuysAt(a) PROVE Fair!Deposit
  <2> DEFINE s == SharesFor(a, N, S)
  <2>0. N' = N + a /\ S' = SatAdd(S, s) /\ N + a <= U64Max /\ a > 0 /\ s > 0
    BY <1>1, <1>p DEF BuysAt
  <2>1. /\ s \in Nat /\ SatAdd(S, s) = S + s
        /\ IF S = 0 \/ N = 0 THEN s = a ELSE s * N <= a * S /\ a * S < (s + 1) * N
    BY <1>0, <2>0, DepositFair
  <2> HIDE DEF N, S, s
  <2>2. N' - N = a /\ S' - S = s
    BY <1>0, <2>0, <2>1, SMT
  <2> QED BY <1>0, <1>p, <2>0, <2>1, <2>2 DEF Fair!Deposit
<1>2. ASSUME NEW s \in Nat, SellsAt(s) PROVE Fair!Redeem
  <2> DEFINE a == AssetsFor(s, N, S)
  <2>1. /\ N' = N - a /\ S' = S - s /\ s > 0 /\ a \in Nat
        /\ a * S <= s * N /\ s * N < (a + 1) * S
    BY <1>0, <1>2, RedeemFair DEF SellsAt
  <2> HIDE DEF N, S, a
  <2>2. N - N' = a /\ S - S' = s /\ a >= 0
    BY <1>0, <2>1, SMT
  <2> QED BY <1>0, <1>p, <2>1, <2>2 DEF Fair!Redeem
<1>3. ASSUME Gains
      PROVE  \/ BaseNav' > BaseNav /\ BaseSupply' = BaseSupply
             \/ UNCHANGED <<BaseNav, BaseSupply>>
  <2>1. N <= N' /\ S' = S
    BY <1>3 DEF Gains
  <2> HIDE DEF N, S
  <2>2. N' = N \/ N' > N
    BY <1>0, <1>p, <2>1, SMT
  <2> QED BY <1>0, <1>p, <2>1, <2>2
<1>4. BaseNav' \in Nat /\ BaseSupply' \in Nat
  BY <1>p
<1> QED BY <1>1, <1>2, <1>3, <1>4, StepPrices DEF Fair!Next, Fair!Yield, Fair!vars

\* The program, seen from Solana, implements a vault that trades shares at a
\* fair price and otherwise only gains value (deposit, redeem, nav_for_pricing).
THEOREM ImplementsFairVault ==
    ASSUME PromptLanding = TRUE
    PROVE  Spec => TradesFairly
<1>1. PriceInv /\ PriceInv' /\ [Next]_vars => [Fair!Next]_(Fair!vars)
  BY StepFair
<1>2. Init => Fair!Init
  BY InitPrice, PriceIsPriced DEF Priced, Fair!Init
<1> QED BY <1>1, <1>2, AlwaysPriced, PTL DEF Spec, TradesFairly, Fair!Spec

-----------------------------------------------------------------------------
(***************************************************************************)
(* Where nobody tops up the custody, no more dollars leave than came in by *)
(* deposits, every outflow is in the pools when the book is told of it,    *)
(* and the price is exact.                                                 *)
(***************************************************************************)
\* Dollars in are dollars out or dollars here, and what the keeper has read of
\* them is a state the vault was in.
CashExact ==
    /\ custody + vault.total_out = vault.total_in
    /\ vault.total_in <= MaxFlow
    /\ "vault" \in keeper.got => keeper.total_out <= keeper.total_in

\* Every copy of the book holds what it has marked, and will hold what the
\* absorb under way takes.
BooksExact ==
    /\ \A b \in {book, baseBook} \union settling :
         Backed(b) /\ Total(b.accrued) <= MaxYield
    /\ \A t \in inflight : book.marked_out + t.outflow <= book.marked_in + t.inflow

ExactInv == PriceInv /\ CashExact /\ BooksExact

\* Without top-ups, no step adds or takes a dollar that is not counted.
LEMMA NextCash ==
    ASSUME TypeOK, CashBound, CashExact, MaxTopUp = 0, [Next]_vars
    PROVE  CashExact'
<1>1. CASE Depositors
  <2>1. ASSUME NEW u \in Users, NEW amount \in Amounts, Deposit(u, amount)
        PROVE  CashExact'
    <3>1. custody' + vault'.total_out = vault'.total_in /\ vault'.total_in <= MaxFlow
      BY <2>1, DepositTotals, Numbers, SMT DEF CashExact
    <3>2. UNCHANGED keeper
      BY <2>1 DEF Deposit, keeperVars
    <3> QED BY <3>1, <3>2 DEF CashExact
  <2>2. ASSUME NEW u \in Users, NEW shares \in 1 .. agyld[u], Redeem(u, shares)
        PROVE  CashExact'
    <3>1. PICK assets \in Nat :
            /\ assets <= custody /\ custody' = custody - assets
            /\ vault'.total_in = vault.total_in
            /\ vault'.total_out = vault.total_out + assets
            /\ UNCHANGED keeperVars
      BY <2>2, RedeemTotals
    <3>2. custody' + vault'.total_out = vault'.total_in
      BY <3>1, Numbers, SMT DEF CashExact
    <3> QED BY <3>1, <3>2 DEF CashExact, keeperVars
  <2>3. ASSUME NEW amount \in Amounts, TopUp(amount)
        PROVE  FALSE
    BY <2>3, AmountsAssumption, Numbers, SMT DEF TopUp, CashExact
  <2> QED BY <1>1, <2>1, <2>2, <2>3 DEF Depositors
<1>2. CASE KeeperReadVault
  <2>1. /\ keeper'.total_in = vault.total_in /\ keeper'.total_out = vault.total_out
        /\ UNCHANGED solanaVars
    BY <1>2 DEF KeeperReadVault, TypeOK, KeeperType
  <2>2. vault.total_out <= vault.total_in
    BY Numbers, SMT DEF CashExact
  <2> QED BY <2>1, <2>2 DEF CashExact, solanaVars
<1>3. CASE KeeperReadBook
  <2>1. /\ keeper'.total_in = keeper.total_in /\ keeper'.total_out = keeper.total_out
        /\ "vault" \in keeper'.got <=> "vault" \in keeper.got
        /\ UNCHANGED solanaVars
    BY <1>3 DEF KeeperReadBook, TypeOK, KeeperType
  <2> QED BY <2>1 DEF CashExact, solanaVars
<1>4. ASSUME keeper' \in {keeper, Idle}, UNCHANGED solanaVars
      PROVE  CashExact'
  BY <1>4 DEF CashExact, solanaVars, Idle
<1>5. ASSUME \/ Tick
             \/ \E i \in Pools, apr_bps \in Rates : SetApr(i, apr_bps)
             \/ Hosting \/ KeeperAct \/ KeeperRestart
             \/ \E t \in inflight : LandAbsorb(t) \/ DropAbsorb(t)
             \/ AdvanceTime \/ UNCHANGED vars
      PROVE  keeper' \in {keeper, Idle} /\ UNCHANGED solanaVars
  BY <1>5 DEF Tick, SetApr, Hosting, CommitBook, UndelegateBook, LandCommit,
              DelegateBook, LoseDelegation, MigrateBook, KeeperAct, KeeperRestart,
              LandAbsorb, DropAbsorb, AdvanceTime, vars, solanaVars, keeperVars
<1> QED BY <1>1, <1>2, <1>3, <1>4, <1>5 DEF Next, Keeping

\* Writing a backed book leaves every copy backed.
LEMMA WriteExact ==
    ASSUME TypeOK, BooksExact, NEW b \in Books, WriteBook(b), Backed(b),
           UNCHANGED settling
    PROVE  \A c \in {book', baseBook'} \union settling' :
             Backed(c) /\ Total(c.accrued) <= MaxYield
  BY DEF WriteBook, BooksExact

\* What the keeper sends, the pools can give: whatever it read of the vault
\* was solvent, and so is the book.
LEMMA SendExact ==
    ASSUME Carried, CashExact, BooksExact, KeeperAct
    PROVE  BooksExact'
<1>1. UNCHANGED <<book, baseBook, settling>>
  BY DEF KeeperAct, bookVars
<1>2. /\ inflight = {} /\ keeper.total_out <= keeper.total_in
      /\ keeper.marked_in = book.marked_in /\ keeper.marked_out = book.marked_out
  BY DEF KeeperAct, Carried, FlowInv, KeeperFresh, CashExact
<1>3. book.marked_out <= book.marked_in
  <2>1. Backed(book) /\ Total(book.principal) \in Nat
    BY U64Nat, TotalNat DEF BooksExact, Carried, TypeOK, Books
  <2> QED BY <2>1, Numbers, SMT DEF Backed, Carried
<1>4. book.marked_out + Outflow <= book.marked_in + Inflow
  BY <1>2, <1>3, Numbers, SMT DEF Inflow, Outflow, SatSub, Carried
<1>5. \A t \in inflight' : t.inflow = Inflow /\ t.outflow = Outflow
  <2>1. CASE Inflow = 0 /\ Outflow = 0
    BY <1>2, <2>1 DEF KeeperAct
  <2>2. CASE ~(Inflow = 0 /\ Outflow = 0)
    <3>1. PICK id \in 1 .. MaxInflight :
            inflight' = inflight \union
                          {[id |-> id, inflow |-> Inflow, outflow |-> Outflow]}
      BY <2>2 DEF KeeperAct
    <3> QED BY <1>2, <3>1
  <2> QED BY <2>1, <2>2
<1> QED BY <1>1, <1>4, <1>5 DEF BooksExact, Backed

\* Landing an absorb leaves the book backed: the flow fits and is covered.
LEMMA LandExact ==
    ASSUME Carried, CashExact, BooksExact, NEW t \in inflight, LandAbsorb(t)
    PROVE  BooksExact'
<1> DEFINE m == t.inflow
           n == t.outflow
           b == Absorbed(book, now, m, n)
<1>1. /\ m \in U64 /\ n \in U64 /\ m \in Nat /\ n \in Nat
      /\ now \in Int /\ book \in Books /\ book.marked_in \in Nat
      /\ vault.total_in \in Nat
  BY Numbers DEF Carried
<1>2. /\ WriteBook(b) /\ inflight' = inflight \ {t} /\ UNCHANGED settling
  BY DEF LandAbsorb
<1>3. /\ book.marked_in + m <= vault.total_in
      /\ \A s \in inflight : s = t
      /\ book.marked_out + n <= book.marked_in + m
  BY DEF Carried, FlowInv, FlightFits, BooksExact
<1>4. Total(b.accrued) <= MaxYield /\ Backed(book)
  BY <1>2 DEF WriteBook, BooksExact
<1> HIDE DEF m, n
<1>5. book.marked_in + m <= MaxFlow
  BY <1>1, <1>3, Room, SMT DEF CashExact
<1>6. b \in Books
  BY <1>1, AbsorbedGrows
<1>7. Backed(b)
  BY <1>1, <1>3, <1>4, <1>5, Room, AbsorbedBacked
<1> HIDE DEF b
<1>8. \A c \in {book', baseBook'} \union settling' :
        Backed(c) /\ Total(c.accrued) <= MaxYield
  BY <1>2, <1>6, <1>7, WriteExact DEF Carried
<1>9. inflight' = {}
  BY <1>2, <1>3
<1> QED BY <1>8, <1>9 DEF BooksExact

\* Every step leaves every copy backed.
LEMMA NextBooks ==
    ASSUME Carried, CashExact, BooksExact, [Next]_vars
    PROVE  BooksExact'
<1>0. /\ now \in Int /\ book \in Books /\ Backed(book)
      /\ book.marked_in \in Nat /\ vault.total_in \in Nat
  BY Numbers DEF Carried, BooksExact
<1>1. book.marked_in <= MaxFlow
  BY <1>0, Room, SMT DEF Carried, FlowInv, VaultAhead, CashExact
<1>2. ASSUME NEW b \in Books, WriteBook(b), Backed(b), UNCHANGED <<settling, inflight>>,
             b.marked_in = book.marked_in, b.marked_out = book.marked_out
      PROVE  BooksExact'
  <2>1. \A c \in {book', baseBook'} \union settling' :
          Backed(c) /\ Total(c.accrued) <= MaxYield
    BY <1>2, WriteExact DEF Carried
  <2>2. book'.marked_in = book.marked_in /\ book'.marked_out = book.marked_out
    BY <1>2 DEF WriteBook
  <2> QED BY <1>2, <2>1, <2>2 DEF BooksExact
<1>3. CASE Tick
  <2> DEFINE b == Ticked(book, now)
  <2>1. /\ WriteBook(b) /\ Total(b.accrued) <= MaxYield
        /\ UNCHANGED <<settling, inflight>>
    BY <1>3 DEF Tick, WriteBook, keeperVars
  <2>2. /\ b \in Books
        /\ b.marked_in = book.marked_in /\ b.marked_out = book.marked_out
    BY <1>0, TickedGrows
  <2>3. Backed(b)
    BY <1>0, <1>1, <2>1, Room, SettledBacked DEF Pools
  <2> HIDE DEF b
  <2> QED BY <1>2, <2>1, <2>2, <2>3
<1>4. ASSUME NEW i \in Pools, NEW apr_bps \in Rates, SetApr(i, apr_bps)
      PROVE  BooksExact'
  <2> DEFINE b == Repriced(book, now, i, apr_bps)
  <2>0. apr_bps \in Nat /\ now \in Int /\ book \in Books
    BY <1>0, AmountsAssumption
  <2>1. /\ WriteBook(b) /\ Total(b.accrued) <= MaxYield
        /\ UNCHANGED <<settling, inflight>>
    BY <1>4 DEF SetApr, WriteBook, keeperVars
  <2>2. /\ b \in Books
        /\ b.marked_in = book.marked_in /\ b.marked_out = book.marked_out
    BY <2>0, RepricedGrows
  <2>3. Backed(b)
    BY <1>0, <1>1, <2>0, <2>1, Room, SettledBacked
  <2> HIDE DEF b
  <2> QED BY <1>2, <2>1, <2>2, <2>3
<1>5. ASSUME NEW t \in inflight, LandAbsorb(t)
      PROVE  BooksExact'
  BY <1>5, LandExact
<1>6. CASE KeeperAct
  BY <1>6, SendExact
<1>7. ASSUME UNCHANGED book, inflight' \subseteq inflight,
             {baseBook'} \union settling' \subseteq {book, baseBook} \union settling
      PROVE  BooksExact'
  BY <1>7 DEF BooksExact
<1>8. CASE Depositors
  BY <1>7, <1>8 DEF Depositors, Deposit, Redeem, TopUp, bookVars, keeperVars
<1>9. CASE CommitBook \/ UndelegateBook \/ LandCommit \/ DelegateBook \/ LoseDelegation
  BY <1>7, <1>9 DEF CommitBook, UndelegateBook, LandCommit, DelegateBook,
                    LoseDelegation, keeperVars
<1>10. CASE MigrateBook
  <2>1. book' = baseBook /\ baseBook' = baseBook /\ settling' = {} /\ inflight' = {}
    BY <1>10 DEF MigrateBook
  <2> QED BY <2>1 DEF BooksExact
<1>11. CASE KeeperReadVault \/ KeeperReadBook \/ KeeperRestart
  BY <1>7, <1>11 DEF KeeperReadVault, KeeperReadBook, KeeperRestart, bookVars
<1>12. ASSUME NEW t \in inflight, DropAbsorb(t)
       PROVE  BooksExact'
  BY <1>7, <1>12 DEF DropAbsorb, bookVars
<1>13. CASE AdvanceTime \/ UNCHANGED vars
  BY <1>7, <1>13 DEF AdvanceTime, vars, bookVars, keeperVars
<1> QED BY <1>3, <1>4, <1>5, <1>6, <1>8, <1>9, <1>10, <1>11, <1>12, <1>13
        DEF Next, Hosting, Keeping

\* At the start nothing is under way and every book is empty.
LEMMA InitExact == Init => ExactInv
<1> SUFFICES ASSUME Init PROVE ExactInv
  OBVIOUS
<1>1. CashExact
  BY Room, SMT DEF Init, Idle, CashExact
<1>2. /\ book.nav = 0 /\ book.marked_in = 0 /\ book.marked_out = 0
      /\ Total(book.principal) = 0 /\ Total(book.accrued) = 0
      /\ baseBook = book /\ settling = {} /\ inflight = {}
  BY SMT DEF Init, NewBook, Total, Pools
<1>3. Backed(book) /\ Total(book.accrued) <= MaxYield
  BY <1>2, Room, SMT DEF Backed
<1> QED BY <1>1, <1>2, <1>3, InitPrice DEF ExactInv, BooksExact

\* A backed book adds its yield to the vault's flow, and nothing else.
LEMMA PriceExact ==
    ASSUME ExactInv
    PROVE  NavExact
<1>1. /\ vault.total_in \in Nat /\ vault.total_out \in Nat
      /\ baseBook \in Books /\ Sound(baseBook) /\ Backed(baseBook)
  BY Numbers DEF ExactInv, PriceInv, Accounted, Carried, BooksSound, BooksExact
<1>2. /\ Worth(baseBook) = Total(baseBook.principal) + Total(baseBook.accrued)
                              - baseBook.marked_in + baseBook.marked_out
      /\ baseBook.marked_in \in Nat /\ baseBook.marked_out \in Nat
      /\ Total(baseBook.accrued) \in Nat
      /\ Total(baseBook.principal) = baseBook.marked_in - baseBook.marked_out
  BY <1>1, SoundNumbers DEF Backed
<1>3. Worth(baseBook) = Total(baseBook.accrued)
  BY <1>2, SMT
<1>4. BaseNav = Value
  BY PriceIsPriced DEF Priced, ExactInv
<1>5. Value = vault.total_in - vault.total_out + Total(baseBook.accrued)
  BY <1>1, <1>2, <1>3, SMT DEF Value
<1> QED BY <1>4, <1>5 DEF NavExact

\* Deposits and redemptions are priced on exactly the dollars in, less the
\* dollars out, plus the yield of the committed book, in every execution
\* without top-ups (nav_for_pricing).
THEOREM NavIsExact ==
    ASSUME PromptLanding = TRUE, MaxTopUp = 0
    PROVE  Spec => []NavExact
<1>1. ExactInv /\ [Next]_vars => ExactInv'
  BY NextPrice, NextCash, NextBooks DEF ExactInv, PriceInv, Accounted, Carried
<1>2. ExactInv => NavExact
  BY PriceExact
<1> QED BY <1>1, <1>2, InitExact, PTL DEF Spec

=============================================================================
