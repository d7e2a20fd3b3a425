--------------------------- MODULE LendingBookProofs ---------------------------
(***************************************************************************)
(* Theorems about LendingBook for any hosts, weights, rates and flows: the *)
(* pools hold what the marks say is deployed, and, when the hosts' clocks  *)
(* agree, no pool is credited more than it earned or loses more than       *)
(* rounding; and the closed forms of PoolBook are the program's loops.     *)
(***************************************************************************)
EXTENDS MCPoolLoops, PoolBookProofs

-----------------------------------------------------------------------------
(***************************************************************************)
(* Types.                                                                  *)
(***************************************************************************)
\* A host's clock shows a whole number.
LEMMA ClockInt ==
    ASSUME TypeOK
    PROVE  Clock \in Int /\ now \in Nat /\ ClockLag[host] \in Nat
  BY LagAssumption, FlowAssumption, SMT DEF TypeOK, Clock

\* The book as init_book writes it.
LEMMA InitType == Init => TypeOK
<1> SUFFICES ASSUME Init PROVE TypeOK
  OBVIOUS
<1>1. 0 \in U64 /\ 0 \in 0 .. MaxTime /\ Clock \in Int
  BY U64MaxAssumption, LagAssumption, FlowAssumption, SMT DEF U64, Init, Clock
<1>2. book \in Books
  BY <1>1, RateAssumption DEF Init, NewBook, Books
<1> QED BY <1>1, <1>2, LagAssumption DEF Init, TypeOK

\* What the instructions do to the book, from where its host's clock stands.
\* They differ in what they do to the pools; all of them settle first.
Instruction ==
    \/ Tick
    \/ \E inflow, outflow \in Flows : Absorb(inflow, outflow)
    \/ \E i \in Pools, apr_bps \in Rates : SetApr(i, apr_bps)

\* An instruction leaves a book, accrued to the clock it was run by.
LEMMA InstructionSettles ==
    ASSUME TypeOK, Instruction
    PROVE  /\ book' \in Books
           /\ book'.accrued = Accrue(book, Clock).accrued
           /\ book'.last_ts = Clock
           /\ UNCHANGED <<host, now, due>>
<1>0. book \in Books /\ Clock \in Int /\ 1 \in Pools /\ 0 \in Nat
  BY ClockInt, SMT DEF TypeOK, Pools
<1>1. CASE Tick
  <2>1. book' = Ticked(book, Clock) /\ UNCHANGED <<host, now, due>>
    BY <1>1 DEF Tick
  <2>2. Ticked(book, Clock).accrued = Accrue(book, Clock).accrued
    BY <1>0, SettledPools
  <2> QED BY <1>0, <2>1, <2>2, TickedGrows
<1>2. ASSUME NEW inflow \in Flows, NEW outflow \in Flows, Absorb(inflow, outflow)
      PROVE  /\ book' \in Books
             /\ book'.accrued = Accrue(book, Clock).accrued
             /\ book'.last_ts = Clock
             /\ UNCHANGED <<host, now, due>>
  <2>1. book' = Absorbed(book, Clock, inflow, outflow) /\ UNCHANGED <<host, now, due>>
    BY <1>2 DEF Absorb
  <2>2. inflow \in U64 /\ outflow \in U64
    <3>1. inflow \in Nat /\ outflow \in Nat
      BY FlowAssumption
    <3>2. book.marked_in \in Nat /\ book.marked_out \in Nat
      BY <1>0, U64Nat DEF Books
    <3>3. book.marked_in + inflow <= MaxFlow /\ book.marked_out + outflow <= MaxFlow
      BY <1>2 DEF Absorb
    <3> QED BY <3>1, <3>2, <3>3, BoundAssumption, U64MaxAssumption, SMT DEF U64
  <2>3. Absorbed(book, Clock, inflow, outflow).accrued = Accrue(book, Clock).accrued
    BY <1>0, <2>2, AbsorbedPools
  <2>4. /\ Absorbed(book, Clock, inflow, outflow) \in Books
        /\ Absorbed(book, Clock, inflow, outflow).last_ts = Clock
    BY <1>0, <2>2, AbsorbedGrows
  <2> QED BY <2>1, <2>3, <2>4
<1>3. ASSUME NEW i \in Pools, NEW apr_bps \in Rates, SetApr(i, apr_bps)
      PROVE  /\ book' \in Books
             /\ book'.accrued = Accrue(book, Clock).accrued
             /\ book'.last_ts = Clock
             /\ UNCHANGED <<host, now, due>>
  <2>1. book' = Repriced(book, Clock, i, apr_bps) /\ UNCHANGED <<host, now, due>>
    BY <1>3 DEF SetApr
  <2>2. apr_bps \in Nat
    BY RateAssumption
  <2>3. Repriced(book, Clock, i, apr_bps).accrued = Accrue(book, Clock).accrued
    BY <1>0, <2>2, SettledPools
  <2>4. /\ Repriced(book, Clock, i, apr_bps) \in Books
        /\ Repriced(book, Clock, i, apr_bps).last_ts = Clock
    BY <1>0, <2>2, RepricedGrows
  <2> QED BY <2>1, <2>3, <2>4
<1> QED BY <1>1, <1>2, <1>3 DEF Instruction

\* What a pool earns in a second.
LEMMA EarnsNat ==
    ASSUME TypeOK, NEW i \in Pools
    PROVE  book.principal[i] * book.apr[i] \in Nat
<1>1. book.principal[i] \in Nat /\ book.apr[i] \in Nat
  BY U64Nat DEF TypeOK, Books
<1> QED BY <1>1, MulNat

\* Every step keeps the types.
LEMMA NextType == TypeOK /\ [Next]_vars => TypeOK'
<1> SUFFICES ASSUME TypeOK, [Next]_vars PROVE TypeOK'
  OBVIOUS
<1>1. CASE Instruction
  BY <1>1, InstructionSettles DEF TypeOK
<1>2. ASSUME NEW h \in Hosts, MoveTo(h)
      PROVE  TypeOK'
  BY <1>2 DEF MoveTo, TypeOK
<1>3. CASE AdvanceTime
  <2>1. now' \in 0 .. MaxTime
    BY <1>3, FlowAssumption, SMT DEF AdvanceTime, TypeOK
  <2>2. \A i \in Pools : due[i] + book.principal[i] * book.apr[i] \in Nat
    <3> TAKE i \in Pools
    <3>1. due[i] \in Nat /\ book.principal[i] * book.apr[i] \in Nat
      BY EarnsNat DEF TypeOK
    <3> DEFINE x == book.principal[i] * book.apr[i]
    <3> HIDE DEF x
    <3>2. due[i] + x \in Nat
      BY <3>1, SMT DEF x
    <3> QED BY <3>2 DEF x
  <2>3. due' \in [Pools -> Nat]
    BY <1>3, <2>2 DEF AdvanceTime
  <2> QED BY <1>3, <2>1, <2>3 DEF AdvanceTime, TypeOK
<1>4. CASE UNCHANGED vars
  BY <1>4 DEF vars, TypeOK
<1> QED BY <1>1, <1>2, <1>3, <1>4 DEF Next, Instruction

\* Every variable keeps its type, in every execution.
THEOREM TypeCorrect == Spec => []TypeOK
  BY InitType, NextType, PTL DEF Spec

-----------------------------------------------------------------------------
(***************************************************************************)
(* What was credited was earned.                                           *)
(***************************************************************************)
\* What pool i has earned since the book was last accrued.
Unsettled(i) == book.principal[i] * book.apr[i] * (Clock - book.last_ts)

\* The book is not ahead of its host's clock, and what each pool was credited
\* and what it has earned since are within what it has earned in all.
Earned ==
    /\ book.last_ts <= Clock
    /\ \A i \in Pools : book.accrued[i] * YieldUnit + Unsettled(i) <= due[i]

\* A cast takes nothing but high bits.
LEMMA CastBelow ==
    ASSUME NEW n \in Nat
    PROVE  AsU64(n) \in Nat /\ AsU64(n) <= n
  BY U64MaxAssumption, SMT DEF AsU64

\* accrue credits no more than what was earned since.
LEMMA AccrueEarned ==
    ASSUME NEW b \in Books, NEW t \in Int, b.last_ts <= t, NEW i \in Pools, NEW d \in Nat,
           b.accrued[i] * YieldUnit + b.principal[i] * b.apr[i] * (t - b.last_ts) <= d
    PROVE  Accrue(b, t).accrued[i] * YieldUnit <= d
<1> DEFINE n == b.principal[i] * b.apr[i] * (t - b.last_ts)
           q == Pending(b, i, t)
           A == b.accrued[i]
<1>1. A \in Nat /\ A \in U64 /\ YieldUnit \in Nat /\ YieldUnit > 0 /\ n \in Nat
  <2>1. /\ b.principal[i] \in Nat /\ b.apr[i] \in Nat /\ t - b.last_ts \in Nat
        /\ A \in U64 /\ A \in Nat
    BY U64Nat, SMT DEF Books
  <2> QED BY <2>1, MulNat, YieldUnitAssumption, SMT
<1>2. A * YieldUnit \in Nat /\ A * YieldUnit + n <= d
  BY <1>1, MulNat
<1>3. CASE t <= b.last_ts
  <2>1. Accrue(b, t).accrued[i] = A
    BY <1>3 DEF Accrue
  <2> HIDE DEF n, A
  <2>2. A * YieldUnit <= d
    BY <1>1, <1>2, SMT
  <2> QED BY <2>1, <2>2
<1>4. CASE ~(t <= b.last_ts)
  <2>1. q = n \div YieldUnit
    BY DEF Pending
  <2>2. Accrue(b, t).accrued[i] = SatAdd(A, AsU64(q))
    BY <1>4 DEF Accrue, Books
  <2> HIDE DEF n, q, A
  <2>3. q \in Nat /\ q * YieldUnit <= n
    BY <1>1, <2>1, DivFloor
  <2>4. SatAdd(A, AsU64(q)) \in Nat /\ SatAdd(A, AsU64(q)) <= A + q
    BY <1>1, <2>3, CastBelow, U64MaxAssumption, SMT DEF SatAdd
  <2>5. SatAdd(A, AsU64(q)) * YieldUnit <= (A + q) * YieldUnit
    BY <1>1, <2>3, <2>4, MulMonotone, SMT
  <2>6. (A + q) * YieldUnit = A * YieldUnit + q * YieldUnit
    BY <1>1, <2>3, SMT
  <2>7. SatAdd(A, AsU64(q)) * YieldUnit <= d
    <3>1. q * YieldUnit \in Nat /\ SatAdd(A, AsU64(q)) * YieldUnit \in Nat
      BY <1>1, <2>3, <2>4, MulNat
    <3> QED BY <1>1, <1>2, <2>3, <2>5, <2>6, <3>1, SMT
  <2> QED BY <2>2, <2>7
<1> QED BY <1>3, <1>4

\* A product with nothing is nothing.
LEMMA NothingSince ==
    ASSUME NEW p \in Nat, NEW t \in Int
    PROVE  p * (t - t) = 0
  BY SMT

\* At the start nothing is credited or earned.
LEMMA InitEarned == Init => Earned
<1> SUFFICES ASSUME Init PROVE Earned
  OBVIOUS
<1>1. TypeOK /\ book.last_ts = Clock /\ Clock \in Int
  BY InitType, ClockInt DEF Init, NewBook, Clock
<1>2. book.last_ts <= Clock
  BY <1>1, SMT
<1>3. ASSUME NEW i \in Pools
      PROVE  book.accrued[i] * YieldUnit + Unsettled(i) <= due[i]
  <2>1. book.accrued[i] = 0 /\ due[i] = 0
    BY DEF Init, NewBook
  <2>2. Unsettled(i) = 0
    BY <1>1, EarnsNat, NothingSince DEF Unsettled
  <2> QED BY <2>1, <2>2, YieldUnitAssumption, SMT
<1> QED BY <1>2, <1>3 DEF Earned

\* When the clocks agree, every step keeps it.
LEMMA NextEarned ==
    ASSUME \A g, h \in Hosts : ClockLag[g] = ClockLag[h],
           TypeOK, TypeOK', Earned, [Next]_vars
    PROVE  Earned'
<1>0. Clock \in Int /\ book \in Books /\ book.last_ts \in Int /\ now \in Nat
  BY ClockInt DEF TypeOK, Books
<1>1. CASE Instruction
  <2>1. /\ book'.accrued = Accrue(book, Clock).accrued
        /\ book'.last_ts = Clock /\ Clock' = Clock /\ due' = due
    BY <1>1, InstructionSettles DEF Clock
  <2>2. book'.last_ts <= Clock'
    BY <1>0, <2>1, SMT
  <2>3. ASSUME NEW i \in Pools
        PROVE  book'.accrued[i] * YieldUnit
                 + book'.principal[i] * book'.apr[i] * (Clock' - book'.last_ts) <= due'[i]
    <3>1. due[i] \in Nat
      BY DEF TypeOK
    <3>2. book'.accrued[i] * YieldUnit <= due[i]
      BY <1>0, <2>1, <3>1, AccrueEarned DEF Earned, Unsettled
    <3>3. book'.principal[i] * book'.apr[i] * (Clock' - book'.last_ts) = 0
      <4>1. book'.principal[i] \in Nat /\ book'.apr[i] \in Nat
        BY U64Nat DEF TypeOK, Books
      <4>2. book'.principal[i] * book'.apr[i] \in Nat
        BY <4>1, MulNat
      <4> QED BY <1>0, <2>1, <4>2, NothingSince
    <3>4. book'.accrued[i] * YieldUnit \in Nat
      <4>1. book'.accrued[i] \in Nat
        BY U64Nat DEF TypeOK, Books
      <4> QED BY <4>1, YieldUnitAssumption, MulNat
    <3> DEFINE x == book'.accrued[i] * YieldUnit
    <3> HIDE DEF x
    <3>5. x + 0 <= due[i]
      BY <3>1, <3>2, <3>4, SMT DEF x
    <3> QED BY <2>1, <3>3, <3>5 DEF x
  <2> QED BY <2>2, <2>3 DEF Earned, Unsettled
<1>2. ASSUME NEW h \in Hosts, MoveTo(h)
      PROVE  Earned'
  <2>1. /\ host' = h /\ UNCHANGED <<book, now, due>>
        /\ ClockLag[host'] = ClockLag[host]
    BY <1>2 DEF MoveTo, TypeOK
  <2>2. Clock' = Clock
    BY <2>1 DEF Clock
  <2> QED BY <2>1, <2>2 DEF Earned, Unsettled
<1>3. CASE AdvanceTime
  <2>1. /\ UNCHANGED <<book, host>> /\ now' = now + 1
        /\ \A i \in Pools : due'[i] = due[i] + book.principal[i] * book.apr[i]
    BY <1>3 DEF AdvanceTime
  <2>2. Clock' = Clock + 1
    BY <2>1, ClockInt, SMT DEF Clock
  <2>3. book'.last_ts <= Clock'
    BY <1>0, <2>1, <2>2, SMT DEF Earned
  <2>4. ASSUME NEW i \in Pools
        PROVE  book.accrued[i] * YieldUnit
                 + book.principal[i] * book.apr[i] * (Clock' - book.last_ts) <= due'[i]
    <3> DEFINE x == book.principal[i] * book.apr[i]
               k == Clock - book.last_ts
               y == book.accrued[i] * YieldUnit
    <3>1. x \in Nat /\ due[i] \in Nat
      BY EarnsNat DEF TypeOK
    <3>2. k \in Nat /\ Clock' - book.last_ts = k + 1
      BY <1>0, <2>2, SMT DEF Earned
    <3>3. y \in Nat
      <4>1. book.accrued[i] \in Nat
        BY U64Nat DEF TypeOK, Books
      <4> QED BY <4>1, YieldUnitAssumption, MulNat
    <3>4. y + x * k <= due[i]
      BY DEF Earned, Unsettled
    <3>5. due'[i] = due[i] + x
      BY <2>1
    <3> HIDE DEF x, k, y
    <3>6. x * (k + 1) = x * k + x /\ x * k \in Nat
      BY <3>1, <3>2, MulNat, SMT
    <3>7. y + x * (k + 1) <= due[i] + x
      BY <3>1, <3>3, <3>4, <3>6, SMT
    <3> QED BY <3>2, <3>5, <3>7 DEF x, y
  <2> QED BY <2>1, <2>3, <2>4 DEF Earned, Unsettled
<1>4. CASE UNCHANGED vars
  BY <1>4 DEF vars, Earned, Unsettled, Clock
<1> QED BY <1>1, <1>2, <1>3, <1>4 DEF Next, Instruction

\* When the hosts' clocks agree no pool is credited more than its principal
\* earned at its rates, whatever the order and number of instructions and
\* however often the book moves.
THEOREM OnlyEarnedIsCredited ==
    ASSUME \A g, h \in Hosts : ClockLag[g] = ClockLag[h]
    PROVE  Spec => []NeverOverAccrues
<1>1. TypeOK /\ Earned => NeverOverAccrues
  <2> SUFFICES ASSUME TypeOK, Earned, NEW i \in Pools
               PROVE  book.accrued[i] * YieldUnit <= due[i]
    BY DEF NeverOverAccrues
  <2> DEFINE x == book.principal[i] * book.apr[i]
             k == Clock - book.last_ts
             y == book.accrued[i] * YieldUnit
  <2>1. k \in Nat
    BY ClockInt, SMT DEF Earned, TypeOK, Books
  <2>2. x \in Nat /\ due[i] \in Nat
    BY EarnsNat DEF TypeOK
  <2>3. y \in Nat
    <3>1. book.accrued[i] \in Nat
      BY U64Nat DEF TypeOK, Books
    <3> QED BY <3>1, YieldUnitAssumption, MulNat
  <2>4. y + x * k <= due[i]
    BY DEF Earned, Unsettled
  <2> HIDE DEF x, k, y
  <2>5. x * k \in Nat
    BY <2>1, <2>2, MulNat
  <2>6. y <= due[i]
    BY <2>2, <2>3, <2>4, <2>5, SMT
  <2> QED BY <2>6 DEF y
<1>2. TypeOK /\ Earned /\ [Next]_vars => (TypeOK /\ Earned)'
  BY NextType, NextEarned
<1> QED BY <1>1, <1>2, InitType, InitEarned, PTL DEF Spec

-----------------------------------------------------------------------------
(***************************************************************************)
(* What was earned was credited, but for rounding.                         *)
(***************************************************************************)
\* What each pool has earned fits a u64, so its accrued balance never
\* saturates.
EarningsFit == \A i \in Pools : Fits(due[i] \div YieldUnit)

\* When the book was last accrued, in real seconds.
Age == book.last_ts + ClockLag[host]

\* What each pool was credited and what it has earned since fall short of what
\* it has earned in all by less than a unit for each second accrued.
Credited ==
    /\ Age >= 0
    /\ \A i \in Pools :
         due[i] <= book.accrued[i] * YieldUnit + Unsettled(i) + Age * (YieldUnit - 1)

\* accrue loses less than one unit, and only when the clock has moved.
LEMMA AccrueLoses ==
    ASSUME NEW b \in Books, NEW t \in Int, b.last_ts <= t, NEW i \in Pools,
           NEW d \in Nat, Fits(d \div YieldUnit), NEW e \in Nat,
           b.accrued[i] * YieldUnit + b.principal[i] * b.apr[i] * (t - b.last_ts) <= d,
           d <= b.accrued[i] * YieldUnit + b.principal[i] * b.apr[i] * (t - b.last_ts) + e
    PROVE  d <= Accrue(b, t).accrued[i] * YieldUnit + e + (t - b.last_ts) * (YieldUnit - 1)
<1> DEFINE n == b.principal[i] * b.apr[i] * (t - b.last_ts)
           q == Pending(b, i, t)
           A == b.accrued[i]
           dt == t - b.last_ts
           U == YieldUnit
<1>1. /\ A \in Nat /\ U \in Nat /\ U > 0 /\ n \in Nat /\ dt \in Nat
      /\ b.principal[i] \in Nat /\ b.apr[i] \in Nat
  <2>1. /\ b.principal[i] \in Nat /\ b.apr[i] \in Nat /\ dt \in Nat /\ A \in Nat
    BY U64Nat, SMT DEF Books
  <2> QED BY <2>1, MulNat, YieldUnitAssumption, SMT
<1>2. /\ A * U \in Nat /\ A * U + n <= d /\ d <= A * U + n + e
  BY <1>1, MulNat
<1>3. CASE t <= b.last_ts
  <2>1. Accrue(b, t).accrued[i] = A
    BY <1>3 DEF Accrue
  <2>2. dt = 0
    BY <1>3, SMT DEF Books
  <2>3. n = 0
    <3>1. b.principal[i] * b.apr[i] \in Nat
      BY <1>1, MulNat
    <3> QED BY <2>2, <3>1, SMT
  <2> HIDE DEF n, A, dt, U
  <2>4. dt * (U - 1) = 0
    BY <1>1, <2>2, SMT
  <2>5. d <= A * U + e + dt * (U - 1)
    BY <1>1, <1>2, <2>3, <2>4, SMT
  <2> QED BY <2>1, <2>5 DEF A, dt, U
<1>4. CASE ~(t <= b.last_ts)
  <2>1. q = n \div U
    BY DEF Pending
  <2>2. Accrue(b, t).accrued[i] = SatAdd(A, AsU64(q))
    BY <1>4 DEF Accrue, Books
  <2>3. dt >= 1
    BY <1>4, SMT DEF Books
  <2> HIDE DEF n, q, A, dt, U
  <2>4. q \in Nat /\ q * U <= n /\ n < (q + 1) * U
    BY <1>1, <2>1, DivFloor
  <2> DEFINE D == d \div U
  <2>5. D \in Nat /\ d < (D + 1) * U /\ D <= U64Max
    BY <1>1, DivFloor DEF Fits, U
  <2> HIDE DEF D
  <2>6. (A + q) * U = A * U + q * U /\ (q + 1) * U = q * U + U /\ q * U \in Nat
    BY <1>1, <2>4, MulNat, SMT
  <2>7. A + q <= D
    <3>1. (A + q) * U < (D + 1) * U
      <4>1. (A + q) * U <= d
        BY <1>1, <1>2, <2>4, <2>6, SMT
      <4>2. (A + q) * U \in Nat /\ (D + 1) * U \in Nat
        BY <1>1, <2>4, <2>5, MulNat, SMT
      <4> QED BY <2>5, <4>1, <4>2, SMT
    <3>2. CASE D + 1 <= A + q
      <4>1. (D + 1) * U <= (A + q) * U
        BY <1>1, <2>4, <2>5, <3>2, MulMonotone, SMT
      <4>2. (A + q) * U \in Nat /\ (D + 1) * U \in Nat
        BY <1>1, <2>4, <2>5, MulNat, SMT
      <4> QED BY <3>1, <4>1, <4>2, SMT
    <3> QED BY <1>1, <2>4, <2>5, <3>2, SMT
  <2>8. SatAdd(A, AsU64(q)) = A + q
    <3>1. q <= U64Max /\ A + q <= U64Max
      BY <1>1, <2>4, <2>5, <2>7, U64MaxAssumption, SMT
    <3>2. AsU64(q) = q
      BY <2>4, <3>1, U64MaxAssumption, SMT DEF AsU64
    <3> QED BY <3>1, <3>2 DEF SatAdd
  <2>9. U - 1 <= dt * (U - 1) /\ dt * (U - 1) \in Nat
    <3>1. U - 1 \in Nat /\ 1 \in Nat /\ 1 * (U - 1) = U - 1
      BY <1>1, SMT
    <3>2. 1 * (U - 1) <= dt * (U - 1)
      BY <1>1, <2>3, <3>1, MulMonotone
    <3> QED BY <1>1, <3>1, <3>2, MulNat
  <2> DEFINE au == A * U
             qu == q * U
             l  == dt * (U - 1)
  <2>10. d <= au + qu + e + l
    <3>1. /\ au \in Nat /\ qu \in Nat /\ l \in Nat /\ d <= au + n + e
          /\ n < qu + U /\ U - 1 <= l
      BY <1>2, <2>4, <2>6, <2>9
    <3> HIDE DEF au, qu, l
    <3> QED BY <1>1, <3>1, SMT
  <2>11. d <= (A + q) * U + e + dt * (U - 1)
    BY <2>6, <2>10
  <2> QED BY <2>2, <2>8, <2>11 DEF A, dt, U
<1> QED BY <1>3, <1>4

\* At the start nothing is owed.
LEMMA InitCredited == Init => Credited
<1> SUFFICES ASSUME Init PROVE Credited
  OBVIOUS
<1>1. TypeOK /\ book.last_ts = Clock /\ Clock \in Int
  BY InitType, ClockInt DEF Init, NewBook, Clock
<1>2. Age = 0
  <2>1. book.last_ts = 0 - ClockLag[host] /\ ClockLag[host] \in Nat
    BY <1>1, ClockInt DEF Init, Clock
  <2> QED BY <2>1, SMT DEF Age
<1>3. ASSUME NEW i \in Pools
      PROVE  due[i] <= book.accrued[i] * YieldUnit + Unsettled(i) + Age * (YieldUnit - 1)
  <2>1. book.accrued[i] = 0 /\ due[i] = 0
    BY DEF Init, NewBook
  <2>2. Unsettled(i) = 0
    BY <1>1, EarnsNat, NothingSince DEF Unsettled
  <2> QED BY <1>2, <2>1, <2>2, YieldUnitAssumption, SMT
<1> QED BY <1>2, <1>3, SMT DEF Credited

\* While what was earned fits, every step keeps it.
LEMMA NextCredited ==
    ASSUME \A g, h \in Hosts : ClockLag[g] = ClockLag[h],
           TypeOK, TypeOK', Earned, Credited, EarningsFit, [Next]_vars
    PROVE  Credited'
<1> DEFINE U1 == YieldUnit - 1
<1>0. /\ Clock \in Int /\ book \in Books /\ book.last_ts \in Int /\ now \in Nat
      /\ ClockLag[host] \in Nat /\ Age \in Nat /\ Clock + ClockLag[host] = now
  <2>1. Clock \in Int /\ book.last_ts \in Int /\ now \in Nat /\ ClockLag[host] \in Nat
    BY ClockInt DEF TypeOK, Books
  <2> QED BY <2>1, SMT DEF Credited, Age, Clock, TypeOK
<1>u. U1 \in Nat
  BY YieldUnitAssumption, SMT
<1>1. CASE Instruction
  <2>1. /\ book'.accrued = Accrue(book, Clock).accrued
        /\ book'.last_ts = Clock /\ host' = host /\ Clock' = Clock /\ due' = due
    BY <1>1, InstructionSettles DEF Clock
  <2>2. Age' = now /\ Age' >= 0
    <3>1. Age' = Clock + ClockLag[host]
      BY <2>1 DEF Age
    <3> QED BY <1>0, <3>1, SMT
  <2>3. ASSUME NEW i \in Pools
        PROVE  due'[i] <= book'.accrued[i] * YieldUnit
                 + book'.principal[i] * book'.apr[i] * (Clock' - book'.last_ts)
                 + Age' * U1
    <3> DEFINE e  == Age * U1
               dt == Clock - book.last_ts
               x  == book'.accrued[i] * YieldUnit
    <3>1. due[i] \in Nat /\ Fits(due[i] \div YieldUnit) /\ e \in Nat
      BY <1>0, <1>u, MulNat DEF TypeOK, EarningsFit
    <3>2. book.last_ts <= Clock /\ dt \in Nat
      BY <1>0, SMT DEF Earned
    <3>3. due[i] <= book'.accrued[i] * YieldUnit + e + dt * (YieldUnit - 1)
      <4> HIDE DEF e
      <4>1. /\ book.accrued[i] * YieldUnit
                 + book.principal[i] * book.apr[i] * (Clock - book.last_ts) <= due[i]
            /\ due[i] <= book.accrued[i] * YieldUnit
                 + book.principal[i] * book.apr[i] * (Clock - book.last_ts) + e
        BY DEF Earned, Credited, Unsettled, e
      <4>2. due[i] <= Accrue(book, Clock).accrued[i] * YieldUnit + e
                        + (Clock - book.last_ts) * (YieldUnit - 1)
        BY <1>0, <3>1, <3>2, <4>1, AccrueLoses
      <4> QED BY <2>1, <4>2
    <3>4. Age * U1 + dt * U1 = now * U1
      <4>1. Age + dt = now
        BY <1>0, SMT DEF Age
      <4> HIDE DEF dt, U1
      <4>2. (Age + dt) * U1 = Age * U1 + dt * U1
        BY <1>0, <1>u, <3>2, SMT
      <4> QED BY <4>1, <4>2
    <3>5. book'.principal[i] * book'.apr[i] * (Clock' - book'.last_ts) = 0
      <4>1. book'.principal[i] \in Nat /\ book'.apr[i] \in Nat
        BY U64Nat DEF TypeOK, Books
      <4>2. book'.principal[i] * book'.apr[i] \in Nat
        BY <4>1, MulNat
      <4> QED BY <1>0, <2>1, <4>2, NothingSince
    <3>6. x \in Nat
      <4>1. book'.accrued[i] \in Nat
        BY U64Nat DEF TypeOK, Books
      <4> QED BY <4>1, YieldUnitAssumption, MulNat
    <3> DEFINE l == dt * U1
               m == now * U1
    <3>7. l \in Nat /\ m \in Nat
      BY <1>0, <1>u, <3>2, MulNat
    <3>8. due[i] <= x + e + l /\ e + l = m
      BY <3>3, <3>4
    <3> HIDE DEF x, e, l, m
    <3>9. due[i] <= x + 0 + m
      BY <3>1, <3>6, <3>7, <3>8, SMT
    <3> QED BY <2>1, <2>2, <3>5, <3>9 DEF x, m
  <2> QED BY <2>2, <2>3 DEF Credited, Unsettled
<1>2. ASSUME NEW h \in Hosts, MoveTo(h)
      PROVE  Credited'
  <2>1. /\ host' = h /\ UNCHANGED <<book, now, due>>
        /\ ClockLag[host'] = ClockLag[host]
    BY <1>2 DEF MoveTo, TypeOK
  <2>2. Clock' = Clock /\ Age' = Age
    BY <2>1 DEF Clock, Age
  <2> QED BY <2>1, <2>2 DEF Credited, Unsettled
<1>3. CASE AdvanceTime
  <2>1. /\ UNCHANGED <<book, host>> /\ now' = now + 1
        /\ \A i \in Pools : due'[i] = due[i] + book.principal[i] * book.apr[i]
    BY <1>3 DEF AdvanceTime
  <2>2. Clock' = Clock + 1 /\ Age' = Age
    BY <2>1, ClockInt, SMT DEF Clock, Age
  <2>3. ASSUME NEW i \in Pools
        PROVE  due'[i] <= book.accrued[i] * YieldUnit
                 + book.principal[i] * book.apr[i] * (Clock' - book.last_ts) + Age * U1
    <3> DEFINE x == book.principal[i] * book.apr[i]
               k == Clock - book.last_ts
               y == book.accrued[i] * YieldUnit
               e == Age * U1
    <3>1. x \in Nat /\ due[i] \in Nat
      BY EarnsNat DEF TypeOK
    <3>2. k \in Nat /\ Clock' - book.last_ts = k + 1
      BY <1>0, <2>2, SMT DEF Earned
    <3>3. y \in Nat /\ e \in Nat
      <4>1. book.accrued[i] \in Nat
        BY U64Nat DEF TypeOK, Books
      <4> QED BY <1>0, <1>u, <4>1, YieldUnitAssumption, MulNat
    <3>4. due[i] <= y + x * k + e
      BY DEF Credited, Unsettled
    <3>5. due'[i] = due[i] + x
      BY <2>1
    <3> HIDE DEF x, k, y, e
    <3>6. x * (k + 1) = x * k + x /\ x * k \in Nat
      BY <3>1, <3>2, MulNat, SMT
    <3>7. due[i] + x <= y + x * (k + 1) + e
      BY <3>1, <3>3, <3>4, <3>6, SMT
    <3> QED BY <3>2, <3>5, <3>7 DEF x, y, e
  <2> QED BY <2>1, <2>2, <2>3 DEF Credited, Unsettled
<1>4. CASE UNCHANGED vars
  BY <1>4 DEF vars, Credited, Unsettled, Clock, Age
<1> QED BY <1>1, <1>2, <1>3, <1>4 DEF Next, Instruction

\* When the hosts' clocks agree and what each pool earns fits a u64, a pool
\* accrued to the present misses less than one unit for every second: new
\* capital and new rates never reach back, old ones never stop early (accrue,
\* and last_ts in tick, absorb and set_apr).
THEOREM OnlyRoundingIsLost ==
    ASSUME \A g, h \in Hosts : ClockLag[g] = ClockLag[h]
    PROVE  Spec /\ []EarningsFit => []LossIsOnlyRounding
<1>1. TypeOK /\ Earned /\ Credited => LossIsOnlyRounding
  <2> SUFFICES ASSUME TypeOK, Earned, Credited, book.last_ts = now, NEW i \in Pools
               PROVE  due[i] - book.accrued[i] * YieldUnit <= now * (YieldUnit - 1)
    BY DEF LossIsOnlyRounding
  <2>1. Clock = book.last_ts /\ Age = now /\ Clock \in Int /\ now \in Nat
    BY ClockInt, SMT DEF Earned, Clock, Age
  <2> DEFINE x == book.principal[i] * book.apr[i]
             y == book.accrued[i] * YieldUnit
             e == now * (YieldUnit - 1)
  <2>2. Unsettled(i) = 0
    BY <2>1, EarnsNat, NothingSince DEF Unsettled
  <2>3. y \in Nat /\ e \in Nat /\ due[i] \in Nat
    <3>1. book.accrued[i] \in Nat /\ due[i] \in Nat
      BY U64Nat DEF TypeOK, Books
    <3>2. YieldUnit \in Nat /\ YieldUnit - 1 \in Nat
      BY YieldUnitAssumption, SMT
    <3> QED BY <2>1, <3>1, <3>2, MulNat
  <2>4. due[i] <= y + 0 + e
    BY <2>1, <2>2 DEF Credited
  <2> HIDE DEF y, e
  <2>5. due[i] - y <= e
    BY <2>3, <2>4, SMT
  <2> QED BY <2>5 DEF y, e
<1>2. TypeOK /\ Earned /\ Credited /\ EarningsFit /\ [Next]_vars
        => (TypeOK /\ Earned /\ Credited)'
  BY NextType, NextEarned, NextCredited
<1> QED BY <1>1, <1>2, InitType, InitEarned, InitCredited, PTL DEF Spec

-----------------------------------------------------------------------------
(***************************************************************************)
(* What was deployed is there.                                             *)
(***************************************************************************)
\* The pools hold at least what the marks leave in, and no more than was ever
\* put in: why placing more can never saturate.
Deployed ==
    /\ PrincipalCoversMarks
    /\ Total(book.principal) <= book.marked_in
    /\ book.marked_in <= MaxFlow

\* The numbers it speaks of.
LEMMA DeployedNat ==
    ASSUME TypeOK
    PROVE  /\ book \in Books /\ Clock \in Int
           /\ book.principal \in [Pools -> U64]
           /\ Total(book.principal) \in Nat
           /\ book.marked_in \in Nat /\ book.marked_out \in Nat
  BY ClockInt, U64Nat, TotalNat DEF TypeOK, Books

\* absorb places what comes in, and takes what goes out or all there is.
LEMMA AbsorbDeployed ==
    ASSUME TypeOK, Deployed, NEW inflow \in Flows, NEW outflow \in Flows,
           Absorb(inflow, outflow)
    PROVE  Deployed'
<1> DEFINE T == Total(book.principal)
           F == Fund(book.principal, inflow)
<1>1. /\ inflow \in Nat /\ outflow \in Nat
      /\ book.marked_in + inflow <= MaxFlow /\ book.marked_out + outflow <= MaxFlow
      /\ book' = Absorbed(book, Clock, inflow, outflow)
  BY FlowAssumption DEF Absorb
<1>2. /\ T \in Nat /\ book.marked_in \in Nat /\ book.marked_out \in Nat
      /\ T <= book.marked_in /\ T >= book.marked_in - book.marked_out
      /\ MaxFlow \in Nat /\ MaxFlow <= U64Max
  BY DeployedNat, BoundAssumption DEF Deployed, PrincipalCoversMarks
<1>3. inflow \in U64 /\ outflow \in U64 /\ T + inflow <= U64Max
  BY <1>1, <1>2, U64MaxAssumption, SMT DEF U64
<1>4. F \in [Pools -> U64] /\ Total(F) = T + inflow
  BY <1>1, <1>3, DeployedNat, FundTotal
<1>5. Total(Defund(F, outflow)) = SatSub(T + inflow, outflow)
  BY <1>1, <1>4, DefundTotal
<1>6. /\ book'.marked_in = SatAdd(book.marked_in, inflow)
      /\ book'.marked_out = SatAdd(book.marked_out, outflow)
  BY <1>1, <1>3, DeployedNat, AbsorbedGrows
<1>7. book'.principal = Defund(F, outflow)
  BY <1>1, <1>3, DeployedNat, AbsorbedPools
<1>8. Total(book'.principal) = SatSub(T + inflow, outflow)
  BY <1>5, <1>7
<1> HIDE DEF T, F
<1>9. /\ book'.marked_in = book.marked_in + inflow
      /\ book'.marked_out = book.marked_out + outflow
  BY <1>1, <1>2, <1>6, U64MaxAssumption, SMT DEF SatAdd
<1>10. /\ Total(book'.principal) >= book'.marked_in - book'.marked_out
       /\ Total(book'.principal) <= book'.marked_in
       /\ book'.marked_in <= MaxFlow
  BY <1>1, <1>2, <1>8, <1>9, SMT DEF SatSub
<1> QED BY <1>10 DEF Deployed, PrincipalCoversMarks

\* Every step keeps it: only absorb touches the pools or the marks.
LEMMA NextDeployed ==
    ASSUME TypeOK, Deployed, [Next]_vars
    PROVE  Deployed'
<1>0. book \in Books /\ Clock \in Int /\ 1 \in Pools /\ 0 \in Nat
  BY DeployedNat, SMT DEF Pools
<1>1. ASSUME book'.principal = book.principal, book'.marked_in = book.marked_in,
             book'.marked_out = book.marked_out
      PROVE  Deployed'
  BY <1>1 DEF Deployed, PrincipalCoversMarks
<1>2. CASE Tick
  <2>1. book' = Ticked(book, Clock)
    BY <1>2 DEF Tick
  <2>2. Ticked(book, Clock).principal = book.principal
    BY <1>0, SettledPools
  <2>3. /\ Ticked(book, Clock).marked_in = book.marked_in
        /\ Ticked(book, Clock).marked_out = book.marked_out
    BY <1>0, TickedGrows
  <2> QED BY <1>1, <2>1, <2>2, <2>3
<1>3. ASSUME NEW i \in Pools, NEW apr_bps \in Rates, SetApr(i, apr_bps)
      PROVE  Deployed'
  <2>0. book \in Books /\ Clock \in Int /\ apr_bps \in Nat
    BY <1>0, RateAssumption
  <2>1. book' = Repriced(book, Clock, i, apr_bps)
    BY <1>3 DEF SetApr
  <2>2. Repriced(book, Clock, i, apr_bps).principal = book.principal
    BY <2>0, SettledPools
  <2>3. /\ Repriced(book, Clock, i, apr_bps).marked_in = book.marked_in
        /\ Repriced(book, Clock, i, apr_bps).marked_out = book.marked_out
    BY <2>0, RepricedGrows
  <2> QED BY <1>1, <2>1, <2>2, <2>3
<1>4. ASSUME NEW h \in Hosts, MoveTo(h)
      PROVE  Deployed'
  BY <1>1, <1>4 DEF MoveTo
<1>5. CASE AdvanceTime \/ UNCHANGED vars
  BY <1>1, <1>5 DEF AdvanceTime, vars
<1> QED BY <1>2, <1>3, <1>4, <1>5, AbsorbDeployed DEF Next

\* The pools hold what the marks say is deployed, in every execution.
THEOREM DeployedCapitalIsHeld == Spec => []PrincipalCoversMarks
<1>1. Init => Deployed
  <2> SUFFICES ASSUME Init PROVE Deployed
    OBVIOUS
  <2>1. Total(book.principal) = 0 /\ book.marked_in = 0 /\ book.marked_out = 0
    BY SMT DEF Init, NewBook, Total, Pools
  <2> QED BY <2>1, BoundAssumption, SMT DEF Deployed, PrincipalCoversMarks
<1>2. TypeOK /\ Deployed /\ [Next]_vars => (TypeOK /\ Deployed)'
  BY NextType, NextDeployed
<1>3. Deployed => PrincipalCoversMarks
  BY DEF Deployed
<1> QED BY <1>1, <1>2, <1>3, InitType, PTL DEF Spec

-----------------------------------------------------------------------------
\* On every book that is reached, fund, defund and marked_value as PoolBook
\* writes them do what the program's loops over the pools do, for every
\* amount tried (fund, defund, marked_value).
THEOREM LoopsMatch == Spec => []ClosedFormsMatchLoops
<1>1. TypeOK => ClosedFormsMatchLoops
  <2> SUFFICES ASSUME TypeOK, NEW a \in Tried
               PROVE  LET b == [book EXCEPT !.principal = Fund(@, a)]
                      IN  /\ b.principal = FundLoop(book.principal, a)
                          /\ Defund(book.principal, a) = DefundLoop(book.principal, a)
                          /\ MarkedValue(b) = MarkedLoop(b)
    BY DEF ClosedFormsMatchLoops
  <2>1. a \in U64 /\ a \in Nat /\ book \in Books /\ book.principal \in [Pools -> U64]
    BY U64Nat DEF Tried, TypeOK, Books
  <2> DEFINE b == [book EXCEPT !.principal = Fund(book.principal, a)]
  <2>2. Fund(book.principal, a) \in [Pools -> U64]
    BY <2>1, PlacedType
  <2>3. b \in Books /\ b.principal = Fund(book.principal, a)
    BY <2>1, <2>2 DEF Books
  <2> HIDE DEF b
  <2>4. /\ b.principal = FundLoop(book.principal, a)
        /\ Defund(book.principal, a) = DefundLoop(book.principal, a)
        /\ MarkedValue(b) = MarkedLoop(b)
    BY <2>1, <2>3, FundIsLoop, DefundIsLoop, MarkedIsLoop
  <2> QED BY <2>4 DEF b
<1> QED BY <1>1, TypeCorrect, PTL

=============================================================================
