--------------------------- MODULE PoolBookProofs ---------------------------
(***************************************************************************)
(* Whole-number division and the bounded arithmetic of U64, and what the   *)
(* operations of the lending book preserve, for any weights and rates:     *)
(* funding loses nothing, defunding takes what it can, accrual only adds,  *)
(* and an instruction leaves a book that has grown.                        *)
(***************************************************************************)
EXTENDS PoolLoops, TLAPS

\* The quotient rounds down: the largest q with q * d <= n.
LEMMA DivFloor ==
    ASSUME NEW n \in Nat, NEW d \in Nat, d > 0
    PROVE  /\ n \div d \in Nat
           /\ (n \div d) * d <= n
           /\ n < ((n \div d) + 1) * d
  BY SMT

\* A product of two numbers is a number.
LEMMA MulNat ==
    ASSUME NEW m \in Nat, NEW n \in Nat
    PROVE  m * n \in Nat
  BY SMT

\* Multiplying by a number keeps the order.
LEMMA MulMonotone ==
    ASSUME NEW m \in Nat, NEW n \in Nat, NEW k \in Nat, m <= n
    PROVE  m * k <= n * k
  BY SMT

\* A common positive factor can be cancelled.
LEMMA MulCancel ==
    ASSUME NEW m \in Nat, NEW n \in Nat, NEW k \in Nat, k > 0, m * k <= n * k
    PROVE  m <= n
  BY SMT

\* A cast keeps a value within the width.
LEMMA AsU64Type ==
    ASSUME NEW n \in Nat
    PROVE  AsU64(n) \in U64
  BY U64MaxAssumption, SMT DEF AsU64, U64

\* Saturating operations stay within the width.
LEMMA SatType ==
    ASSUME NEW a \in U64, NEW b \in Nat
    PROVE  /\ SatAdd(a, b) \in U64
           /\ a <= SatAdd(a, b)
           /\ SatSub(a, b) \in U64
  BY U64MaxAssumption, SMT DEF SatAdd, SatSub, U64

-----------------------------------------------------------------------------

\* Four amounts add up to an amount, and each is at most the sum.
LEMMA TotalNat ==
    ASSUME NEW f \in [Pools -> Nat]
    PROVE  /\ Total(f) \in Nat
           /\ \A i \in Pools : f[i] \in Nat /\ f[i] <= Total(f)
           /\ \A i \in Pools : Below(f, i) \in Nat
  BY SMT DEF Total, Below, Pools

\* Amounts of type u64 are natural numbers.
LEMMA U64Nat ==
    /\ \A x \in U64 : x \in Nat /\ x <= U64Max
    /\ \A f \in [Pools -> U64] : f \in [Pools -> Nat]
  BY U64MaxAssumption, SMT DEF U64

\* Each weighted part is an amount, and the first three together are at most
\* the whole (fund's `placed` never passes `amount`).
LEMMA PartsFit ==
    ASSUME NEW amount \in Nat
    PROVE  /\ \A i \in Pools : WeightedPart(amount, i) \in Nat
           /\ WeightedPart(amount, 1) + WeightedPart(amount, 2)
                + WeightedPart(amount, 3) <= amount
<1> DEFINE T == Total(Weights)
<1>1. /\ Weights[1] \in Nat /\ Weights[2] \in Nat
      /\ Weights[3] \in Nat /\ Weights[4] \in Nat
      /\ T \in Nat
      /\ Weights[1] + Weights[2] + Weights[3] <= T
  BY WeightsAssumption, SMT DEF Pools, Total
<1>2. CASE T = 0
  <2>1. /\ amount \div 4 \in Nat
        /\ (amount \div 4) * 4 <= amount
    BY DivFloor
  <2> QED BY <1>2, <2>1, SMT DEF WeightedPart
<1>3. CASE T > 0
  <2>1. \A i \in Pools :
          /\ amount * Weights[i] \in Nat
          /\ (amount * Weights[i]) \div T \in Nat
          /\ ((amount * Weights[i]) \div T) * T <= amount * Weights[i]
    BY <1>1, <1>3, WeightsAssumption, MulNat, DivFloor
  <2>2. \A i \in Pools : WeightedPart(amount, i) = (amount * Weights[i]) \div T
    BY <1>3, <1>1, SMT DEF WeightedPart
  <2> DEFINE p1 == WeightedPart(amount, 1)
             p2 == WeightedPart(amount, 2)
             p3 == WeightedPart(amount, 3)
  <2>3. /\ p1 \in Nat /\ p2 \in Nat /\ p3 \in Nat
        /\ p1 * T <= amount * Weights[1]
        /\ p2 * T <= amount * Weights[2]
        /\ p3 * T <= amount * Weights[3]
    BY <2>1, <2>2 DEF Pools
  <2>4. amount * Weights[1] + amount * Weights[2] + amount * Weights[3] <= amount * T
    BY <1>1, SMT
  <2>5. (p1 + p2 + p3) * T <= amount * T
    <3> HIDE DEF T, p1, p2, p3
    <3>1. (p1 + p2 + p3) * T = p1 * T + p2 * T + p3 * T
      BY <1>1, <2>3, SMT
    <3>2. /\ p1 * T \in Nat /\ p2 * T \in Nat /\ p3 * T \in Nat
          /\ amount * Weights[1] \in Nat /\ amount * Weights[2] \in Nat
          /\ amount * Weights[3] \in Nat /\ amount * T \in Nat
      BY <1>1, <2>3, MulNat
    <3> QED BY <2>3, <2>4, <3>1, <3>2, SMT
  <2>6. p1 + p2 + p3 <= amount
    <3> HIDE DEF T, p1, p2, p3
    <3> QED BY <1>1, <1>3, <2>3, <2>5, MulCancel, SMT
  <2> QED BY <2>1, <2>2, <2>6
<1> QED BY <1>1, <1>2, <1>3, SMT

\* fund places exactly `amount`: its doc, "so nothing is lost".
LEMMA FundTotal ==
    ASSUME NEW p \in [Pools -> U64], NEW amount \in Nat,
           Total(p) + amount <= U64Max
    PROVE  /\ Fund(p, amount) \in [Pools -> U64]
           /\ Total(Fund(p, amount)) = Total(p) + amount
<1> DEFINE w1 == WeightedPart(amount, 1)
           w2 == WeightedPart(amount, 2)
           w3 == WeightedPart(amount, 3)
           F  == Fund(p, amount)
<1>1. /\ w1 \in Nat /\ w2 \in Nat /\ w3 \in Nat
      /\ w1 + w2 + w3 <= amount
  BY PartsFit DEF Pools
<1>2. /\ F = [i \in Pools |-> F[i]]
      /\ F[1] = SatAdd(p[1], w1)
      /\ F[2] = SatAdd(p[2], w2)
      /\ F[3] = SatAdd(p[3], w3)
      /\ F[4] = SatAdd(p[4], SatSub(amount, w1 + w2 + w3))
  BY <1>1, SMT DEF Fund, Below, Pools
<1>3. /\ p[1] \in U64 /\ p[2] \in U64 /\ p[3] \in U64 /\ p[4] \in U64
  BY DEF Pools
<1> HIDE DEF w1, w2, w3, F
<1>4. /\ F[1] = p[1] + w1
      /\ F[2] = p[2] + w2
      /\ F[3] = p[3] + w3
      /\ F[4] = p[4] + (amount - (w1 + w2 + w3))
  BY <1>1, <1>2, <1>3, U64MaxAssumption, SMT DEF SatAdd, SatSub, U64, Total
<1>5. Total(F) = Total(p) + amount
  BY <1>1, <1>3, <1>4, U64MaxAssumption, SMT DEF Total, U64
<1>6. /\ F[1] \in U64 /\ F[2] \in U64 /\ F[3] \in U64 /\ F[4] \in U64
  BY <1>1, <1>3, <1>4, U64MaxAssumption, SMT DEF Total, U64
<1>7. F \in [Pools -> U64]
  BY <1>2, <1>6 DEF Pools
<1> QED BY <1>5, <1>7 DEF F

\* defund takes `amount`, or everything there is if that is less.
LEMMA DefundTotal ==
    ASSUME NEW p \in [Pools -> U64], NEW amount \in Nat
    PROVE  /\ Defund(p, amount) \in [Pools -> U64]
           /\ Total(Defund(p, amount)) = SatSub(Total(p), amount)
<1> DEFINE D == Defund(p, amount)
<1>1. /\ D = [i \in Pools |-> D[i]]
      /\ D[1] = SatSub(p[1], SatSub(amount, 0))
      /\ D[2] = SatSub(p[2], SatSub(amount, p[1]))
      /\ D[3] = SatSub(p[3], SatSub(amount, p[1] + p[2]))
      /\ D[4] = SatSub(p[4], SatSub(amount, p[1] + p[2] + p[3]))
  BY U64Nat, SMT DEF Defund, Below, Pools
<1>2. /\ p[1] \in U64 /\ p[2] \in U64 /\ p[3] \in U64 /\ p[4] \in U64
  BY DEF Pools
<1> HIDE DEF D
<1> DEFINE b2 == p[1] + p[2]
           b3 == p[1] + p[2] + p[3]
           b4 == p[1] + p[2] + p[3] + p[4]
<1>3. /\ D[1] \in U64 /\ D[2] \in U64 /\ D[3] \in U64 /\ D[4] \in U64
      /\ D[1] + D[2] + D[3] + D[4] = SatSub(b4, amount)
  <2>1. CASE amount <= p[1]
    <3>1. D[1] = p[1] - amount /\ D[2] = p[2] /\ D[3] = p[3] /\ D[4] = p[4]
      BY <1>1, <1>2, <2>1, SMT DEF SatSub, U64
    <3> QED BY <1>2, <2>1, <3>1, U64MaxAssumption, SMT DEF SatSub, U64
  <2>2. CASE p[1] < amount /\ amount <= b2
    <3>1. D[1] = 0 /\ D[2] = b2 - amount /\ D[3] = p[3] /\ D[4] = p[4]
      BY <1>1, <1>2, <2>2, SMT DEF SatSub, U64
    <3> QED BY <1>2, <2>2, <3>1, U64MaxAssumption, SMT DEF SatSub, U64
  <2>3. CASE b2 < amount /\ amount <= b3
    <3>1. D[1] = 0 /\ D[2] = 0 /\ D[3] = b3 - amount /\ D[4] = p[4]
      BY <1>1, <1>2, <2>3, SMT DEF SatSub, U64
    <3> QED BY <1>2, <2>3, <3>1, U64MaxAssumption, SMT DEF SatSub, U64
  <2>4. CASE b3 < amount /\ amount <= b4
    <3>1. D[1] = 0 /\ D[2] = 0 /\ D[3] = 0 /\ D[4] = b4 - amount
      BY <1>1, <1>2, <2>4, SMT DEF SatSub, U64
    <3> QED BY <1>2, <2>4, <3>1, U64MaxAssumption, SMT DEF SatSub, U64
  <2>5. CASE b4 < amount
    <3>1. D[1] = 0 /\ D[2] = 0 /\ D[3] = 0 /\ D[4] = 0
      BY <1>1, <1>2, <2>5, SMT DEF SatSub, U64
    <3> QED BY <1>2, <2>5, <3>1, U64MaxAssumption, SMT DEF SatSub, U64
  <2> QED BY <1>2, <2>1, <2>2, <2>3, <2>4, <2>5, SMT DEF U64
<1>4. D \in [Pools -> U64]
  BY <1>1, <1>3 DEF Pools
<1> QED BY <1>3, <1>4 DEF D, Total

-----------------------------------------------------------------------------
\* A later book is one that has marked and accrued at least as much, no
\* earlier: what the instructions keep of the book they are given.
Grown(b, c) ==
    /\ b.marked_in  <= c.marked_in
    /\ b.marked_out <= c.marked_out
    /\ \A i \in Pools : b.accrued[i] <= c.accrued[i]

\* What pool i has earned is an amount, once the clock has moved on.
LEMMA PendingNat ==
    ASSUME NEW b \in Books, NEW t \in Int, t > b.last_ts, NEW i \in Pools
    PROVE  Pending(b, i, t) \in Nat
<1> DEFINE n == b.principal[i] * b.apr[i] * (t - b.last_ts)
<1>1. b.principal[i] \in Nat /\ b.apr[i] \in Nat /\ t - b.last_ts \in Nat
  BY U64Nat, SMT DEF Books
<1>2. n \in Nat
  BY <1>1, MulNat
<1> HIDE DEF n
<1>3. n \div YieldUnit \in Nat
  BY <1>2, YieldUnitAssumption, DivFloor
<1> QED BY <1>3 DEF Pending, n

\* accrue only adds yield.
LEMMA AccrueGrows ==
    ASSUME NEW b \in Books, NEW t \in Int
    PROVE  /\ Accrue(b, t) \in Books
           /\ Accrue(b, t) = [b EXCEPT !.accrued = Accrue(b, t).accrued]
           /\ \A i \in Pools : b.accrued[i] <= Accrue(b, t).accrued[i]
<1>1. CASE t <= b.last_ts
  <2>1. Accrue(b, t) = b
    BY <1>1 DEF Accrue
  <2>2. \A i \in Pools : b.accrued[i] <= b.accrued[i]
    BY U64Nat, SMT DEF Books
  <2> QED BY <2>1, <2>2 DEF Books
<1>2. CASE t > b.last_ts
  <2> DEFINE A == [i \in Pools |-> SatAdd(b.accrued[i], AsU64(Pending(b, i, t)))]
  <2>1. Accrue(b, t) = [b EXCEPT !.accrued = A]
    BY <1>2, SMT DEF Accrue, Books
  <2>2. \A i \in Pools : A[i] \in U64 /\ b.accrued[i] <= A[i]
    <3> TAKE i \in Pools
    <3>1. AsU64(Pending(b, i, t)) \in Nat
      BY <1>2, PendingNat, AsU64Type, U64Nat
    <3>2. b.accrued[i] \in U64
      BY DEF Books
    <3> QED BY <3>1, <3>2, SatType
  <2> HIDE DEF A
  <2>3. A \in [Pools -> U64]
    BY <2>2 DEF A
  <2> QED BY <2>1, <2>2, <2>3 DEF Books
<1> QED BY <1>1, <1>2, SMT DEF Books

\* The value marked on a book is an amount.
LEMMA MarkedType ==
    ASSUME NEW b \in Books
    PROVE  Marked(b) \in Books
<1>1. Total(b.principal) \in Nat /\ Total(b.accrued) \in Nat
  BY U64Nat, TotalNat DEF Books
<1>2. MarkedValue(b) \in U64
  BY <1>1, U64MaxAssumption, SMT DEF MarkedValue, SatAdd, U64
<1> QED BY <1>2 DEF Marked, Books

\* tick leaves a book that has grown.
LEMMA TickedGrows ==
    ASSUME NEW b \in Books, NEW t \in Int
    PROVE  /\ Ticked(b, t) \in Books
           /\ Grown(b, Ticked(b, t))
           /\ Ticked(b, t).last_ts = t
           /\ Ticked(b, t).marked_in = b.marked_in
           /\ Ticked(b, t).marked_out = b.marked_out
<1> DEFINE a == Accrue(b, t)
           c == [a EXCEPT !.last_ts = t]
<1>1. /\ a \in Books /\ a = [b EXCEPT !.accrued = a.accrued]
      /\ \A i \in Pools : b.accrued[i] <= a.accrued[i]
  BY AccrueGrows
<1> HIDE DEF a
<1>2. /\ c \in Books /\ c.last_ts = t /\ c.accrued = a.accrued
      /\ c.marked_in = a.marked_in /\ c.marked_out = a.marked_out
  BY <1>1 DEF Books
<1> HIDE DEF c
<1>3. Ticked(b, t) = Marked(c)
  BY DEF Ticked, c, a
<1>4. Marked(c) \in Books
  BY <1>2, MarkedType
<1>5. /\ Marked(c).last_ts = t /\ Marked(c).accrued = a.accrued
      /\ Marked(c).marked_in = a.marked_in /\ Marked(c).marked_out = a.marked_out
  BY <1>2 DEF Marked, Books
<1>6. /\ a.marked_in = b.marked_in /\ a.marked_out = b.marked_out
      /\ b.marked_in \in U64 /\ b.marked_out \in U64
  BY <1>1 DEF Books
<1>7. b.marked_in <= b.marked_in /\ b.marked_out <= b.marked_out
  BY <1>6, U64Nat, SMT
<1> QED BY <1>1, <1>3, <1>4, <1>5, <1>6, <1>7 DEF Grown

\* set_apr leaves a book that has grown.
LEMMA RepricedGrows ==
    ASSUME NEW b \in Books, NEW t \in Int, NEW j \in Pools, NEW r \in Nat
    PROVE  /\ Repriced(b, t, j, r) \in Books
           /\ Grown(b, Repriced(b, t, j, r))
           /\ Repriced(b, t, j, r).last_ts = t
           /\ Repriced(b, t, j, r).marked_in = b.marked_in
           /\ Repriced(b, t, j, r).marked_out = b.marked_out
<1> DEFINE a == Accrue(b, t)
           c == [a EXCEPT !.last_ts = t, !.apr[j] = r]
<1>1. /\ a \in Books /\ a = [b EXCEPT !.accrued = a.accrued]
      /\ \A i \in Pools : b.accrued[i] <= a.accrued[i]
  BY AccrueGrows
<1> HIDE DEF a
<1>2. /\ c \in Books /\ c.last_ts = t /\ c.accrued = a.accrued
      /\ c.marked_in = a.marked_in /\ c.marked_out = a.marked_out
  BY <1>1 DEF Books
<1> HIDE DEF c
<1>3. Repriced(b, t, j, r) = Marked(c)
  BY DEF Repriced, c, a
<1>4. Marked(c) \in Books
  BY <1>2, MarkedType
<1>5. /\ Marked(c).last_ts = t /\ Marked(c).accrued = a.accrued
      /\ Marked(c).marked_in = a.marked_in /\ Marked(c).marked_out = a.marked_out
  BY <1>2 DEF Marked, Books
<1>6. /\ a.marked_in = b.marked_in /\ a.marked_out = b.marked_out
      /\ b.marked_in \in U64 /\ b.marked_out \in U64
  BY <1>1 DEF Books
<1>7. b.marked_in <= b.marked_in /\ b.marked_out <= b.marked_out
  BY <1>6, U64Nat, SMT
<1> QED BY <1>1, <1>3, <1>4, <1>5, <1>6, <1>7 DEF Grown

\* Placing and taking any amount leaves each pool an amount.
LEMMA PlacedType ==
    ASSUME NEW p \in [Pools -> U64], NEW n \in Nat
    PROVE  /\ Fund(p, n) \in [Pools -> U64]
           /\ Defund(p, n) \in [Pools -> U64]
<1>1. \A i \in Pools : WeightedPart(n, i) \in Nat
  BY PartsFit
<1>2. WeightedPart(n, 1) + WeightedPart(n, 2) + WeightedPart(n, 3) \in Nat
  BY <1>1, SMT DEF Pools
<1> DEFINE part == [i \in Pools |-> WeightedPart(n, i)]
           give(i) == IF i = 4 THEN SatSub(n, Below(part, 4)) ELSE part[i]
<1>3. part \in [Pools -> Nat]
  BY <1>1
<1> HIDE DEF part
<1>4. Below(part, 4) \in Nat
  BY <1>3, TotalNat DEF Pools
<1>5. \A i \in Pools : give(i) \in Nat
  BY <1>3, <1>4, SMT DEF SatSub
<1>6. \A i \in Pools : SatAdd(p[i], give(i)) \in U64
  BY <1>5, SatType
<1>7. Fund(p, n) = [i \in Pools |-> SatAdd(p[i], give(i))]
  BY DEF Fund, part
<1>8. Fund(p, n) \in [Pools -> U64]
  BY <1>6, <1>7
<1> QED BY <1>8, DefundTotal

\* absorb leaves a book that has grown, and whose marks have moved by what it
\* was given.
LEMMA AbsorbedGrows ==
    ASSUME NEW b \in Books, NEW t \in Int, NEW m \in U64, NEW n \in U64
    PROVE  /\ Absorbed(b, t, m, n) \in Books
           /\ Grown(b, Absorbed(b, t, m, n))
           /\ Absorbed(b, t, m, n).last_ts = t
           /\ Absorbed(b, t, m, n).marked_in = SatAdd(b.marked_in, m)
           /\ Absorbed(b, t, m, n).marked_out = SatAdd(b.marked_out, n)
<1> DEFINE a == Accrue(b, t)
           c == [a EXCEPT !.last_ts    = t,
                          !.principal  = Defund(Fund(@, m), n),
                          !.marked_in  = SatAdd(@, m),
                          !.marked_out = SatAdd(@, n)]
<1>1. /\ a \in Books /\ a = [b EXCEPT !.accrued = a.accrued]
      /\ \A i \in Pools : b.accrued[i] <= a.accrued[i]
  BY AccrueGrows
<1>2. /\ a.marked_in = b.marked_in /\ a.marked_out = b.marked_out
      /\ b.marked_in \in U64 /\ b.marked_out \in U64
      /\ a.principal \in [Pools -> U64]
  BY <1>1 DEF Books
<1> HIDE DEF a
<1>3. /\ m \in Nat /\ n \in Nat
      /\ SatAdd(b.marked_in, m) \in U64 /\ b.marked_in <= SatAdd(b.marked_in, m)
      /\ SatAdd(b.marked_out, n) \in U64 /\ b.marked_out <= SatAdd(b.marked_out, n)
  BY <1>2, U64Nat, SatType
<1>4. Defund(Fund(a.principal, m), n) \in [Pools -> U64]
  BY <1>2, <1>3, PlacedType
<1>5. /\ c \in Books /\ c.last_ts = t /\ c.accrued = a.accrued
      /\ c.marked_in = SatAdd(b.marked_in, m)
      /\ c.marked_out = SatAdd(b.marked_out, n)
  BY <1>1, <1>2, <1>3, <1>4 DEF Books
<1> HIDE DEF c
<1>6. Absorbed(b, t, m, n) = Marked(c)
  BY DEF Absorbed, c, a
<1>7. Marked(c) \in Books
  BY <1>5, MarkedType
<1>8. /\ Marked(c).last_ts = t /\ Marked(c).accrued = a.accrued
      /\ Marked(c).marked_in = SatAdd(b.marked_in, m)
      /\ Marked(c).marked_out = SatAdd(b.marked_out, n)
  BY <1>5 DEF Marked, Books
<1> QED BY <1>1, <1>3, <1>6, <1>7, <1>8 DEF Grown

-----------------------------------------------------------------------------
(***************************************************************************)
(* Books whose value is all there: as long as no sum saturates and no      *)
(* outflow exceeds what the pools hold, the pools hold what was marked.    *)
(***************************************************************************)
Backed(b) ==
    /\ b.nav = Total(b.principal) + Total(b.accrued)
    /\ Total(b.principal) = b.marked_in - b.marked_out

\* accrue touches neither principal nor rate.
LEMMA AccrueKeeps ==
    ASSUME NEW b \in Books, NEW t \in Int
    PROVE  /\ Accrue(b, t).principal = b.principal
           /\ Accrue(b, t).apr = b.apr
  BY AccrueGrows DEF Books

\* What tick and set_apr do to the pools: accrue, and mark.
LEMMA SettledPools ==
    ASSUME NEW b \in Books, NEW t \in Int, NEW j \in Pools, NEW r \in Nat
    PROVE  /\ Ticked(b, t).principal = b.principal
           /\ Ticked(b, t).accrued = Accrue(b, t).accrued
           /\ Ticked(b, t).apr = b.apr
           /\ Ticked(b, t).nav = SatAdd(Total(b.principal), Total(Ticked(b, t).accrued))
           /\ Repriced(b, t, j, r).principal = b.principal
           /\ Repriced(b, t, j, r).accrued = Accrue(b, t).accrued
           /\ Repriced(b, t, j, r).nav
                = SatAdd(Total(b.principal), Total(Repriced(b, t, j, r).accrued))
<1> DEFINE a == Accrue(b, t)
           c == [a EXCEPT !.last_ts = t]
           d == [a EXCEPT !.last_ts = t, !.apr[j] = r]
<1>1. a \in Books /\ a.principal = b.principal /\ a.apr = b.apr
  BY AccrueGrows, AccrueKeeps
<1> HIDE DEF a
<1>2. /\ c \in Books /\ c.principal = b.principal /\ c.accrued = a.accrued
      /\ c.apr = b.apr
  BY <1>1 DEF Books
<1>3. d \in Books /\ d.principal = b.principal /\ d.accrued = a.accrued
  BY <1>1 DEF Books
<1> HIDE DEF c, d
<1>4. Ticked(b, t) = Marked(c) /\ Repriced(b, t, j, r) = Marked(d)
  BY DEF Ticked, Repriced, c, d, a
<1>5. \A e \in {c, d} :
        /\ Marked(e).principal = e.principal /\ Marked(e).accrued = e.accrued
        /\ Marked(e).apr = e.apr
        /\ Marked(e).nav = SatAdd(Total(e.principal), Total(e.accrued))
  BY <1>2, <1>3 DEF Marked, MarkedValue, Books
<1> QED BY <1>2, <1>3, <1>4, <1>5 DEF a

\* What absorb does to the pools: accrue, place and take, and mark.
LEMMA AbsorbedPools ==
    ASSUME NEW b \in Books, NEW t \in Int, NEW m \in U64, NEW n \in U64
    PROVE  /\ Absorbed(b, t, m, n).principal = Defund(Fund(b.principal, m), n)
           /\ Absorbed(b, t, m, n).accrued = Accrue(b, t).accrued
           /\ Absorbed(b, t, m, n).nav
                = SatAdd(Total(Absorbed(b, t, m, n).principal),
                         Total(Absorbed(b, t, m, n).accrued))
<1> DEFINE a == Accrue(b, t)
           p == Defund(Fund(a.principal, m), n)
           c == [a EXCEPT !.last_ts    = t,
                          !.principal  = Defund(Fund(@, m), n),
                          !.marked_in  = SatAdd(@, m),
                          !.marked_out = SatAdd(@, n)]
<1>1. a \in Books /\ a.principal = b.principal
  BY AccrueGrows, AccrueKeeps
<1> HIDE DEF a
<1>2. c.principal = p /\ c.accrued = a.accrued
  BY <1>1 DEF Books
<1>3. Absorbed(b, t, m, n) = Marked(c)
  BY DEF Absorbed, c, a
<1>4. /\ Marked(c).principal = c.principal /\ Marked(c).accrued = c.accrued
      /\ Marked(c).nav = MarkedValue(c)
  BY <1>1 DEF Marked, Books
<1> QED BY <1>1, <1>2, <1>3, <1>4 DEF MarkedValue, a

\* tick and set_apr leave the pools backed.
LEMMA SettledBacked ==
    ASSUME NEW b \in Books, Backed(b), NEW t \in Int, NEW j \in Pools, NEW r \in Nat,
           NEW M \in Nat, NEW Y \in Nat, M + Y <= U64Max, b.marked_in <= M
    PROVE  /\ Total(Ticked(b, t).accrued) <= Y => Backed(Ticked(b, t))
           /\ Total(Repriced(b, t, j, r).accrued) <= Y => Backed(Repriced(b, t, j, r))
<1>1. /\ b.marked_in \in Nat /\ b.marked_out \in Nat
      /\ Total(b.principal) \in Nat /\ Total(b.principal) <= M
  BY U64Nat, TotalNat, SMT DEF Books, Backed
<1>2. ASSUME NEW c \in Books, c.principal = b.principal,
             c.nav = SatAdd(Total(b.principal), Total(c.accrued)),
             c.marked_in = b.marked_in, c.marked_out = b.marked_out,
             Total(c.accrued) <= Y
      PROVE  Backed(c)
  <2>1. Total(c.accrued) \in Nat
    BY U64Nat, TotalNat DEF Books
  <2>2. c.nav = Total(b.principal) + Total(c.accrued)
    BY <1>1, <1>2, <2>1, U64MaxAssumption, SMT DEF SatAdd
  <2> QED BY <1>2, <2>2 DEF Backed
<1>3. Total(Ticked(b, t).accrued) <= Y => Backed(Ticked(b, t))
  <2> DEFINE c == Ticked(b, t)
  <2>1. /\ c \in Books /\ c.principal = b.principal
        /\ c.nav = SatAdd(Total(b.principal), Total(c.accrued))
        /\ c.marked_in = b.marked_in /\ c.marked_out = b.marked_out
    BY SettledPools, TickedGrows
  <2> HIDE DEF c
  <2>2. Total(c.accrued) <= Y => Backed(c)
    BY <1>2, <2>1
  <2> QED BY <2>2 DEF c
<1>4. Total(Repriced(b, t, j, r).accrued) <= Y => Backed(Repriced(b, t, j, r))
  <2> DEFINE c == Repriced(b, t, j, r)
  <2>1. /\ c \in Books
        /\ c.marked_in = b.marked_in /\ c.marked_out = b.marked_out
    BY RepricedGrows
  <2>2. /\ c.principal = b.principal
        /\ c.nav = SatAdd(Total(b.principal), Total(c.accrued))
    BY SettledPools
  <2> HIDE DEF c
  <2>3. Total(c.accrued) <= Y => Backed(c)
    BY <1>2, <2>1, <2>2
  <2> QED BY <2>3 DEF c
<1> QED BY <1>3, <1>4

\* absorb leaves the pools backed, if it takes no more than they then hold.
LEMMA AbsorbedBacked ==
    ASSUME NEW b \in Books, Backed(b), NEW t \in Int, NEW m \in U64, NEW n \in U64,
           NEW M \in Nat, NEW Y \in Nat, M + Y <= U64Max,
           b.marked_in + m <= M, b.marked_out + n <= b.marked_in + m,
           Total(Absorbed(b, t, m, n).accrued) <= Y
    PROVE  /\ Backed(Absorbed(b, t, m, n))
           /\ Absorbed(b, t, m, n).marked_in = b.marked_in + m
           /\ Absorbed(b, t, m, n).marked_out = b.marked_out + n
<1> DEFINE c == Absorbed(b, t, m, n)
           F == Fund(b.principal, m)
<1>1. /\ b.marked_in \in Nat /\ b.marked_out \in Nat /\ m \in Nat /\ n \in Nat
      /\ b.principal \in [Pools -> U64]
      /\ Total(b.principal) \in Nat
  BY U64Nat, TotalNat DEF Books
<1>2. Total(b.principal) + m <= M /\ M <= U64Max
  BY <1>1, U64MaxAssumption, SMT DEF Backed
<1>3. Total(b.principal) + m <= U64Max
  BY <1>1, <1>2, U64MaxAssumption, SMT
<1>4. F \in [Pools -> U64] /\ Total(F) = Total(b.principal) + m
  BY <1>1, <1>3, FundTotal
<1> HIDE DEF F
<1>5. Total(Defund(F, n)) = SatSub(Total(F), n)
  BY <1>1, <1>4, DefundTotal
<1>6. c \in Books /\ c.principal = Defund(F, n)
      /\ c.nav = SatAdd(Total(c.principal), Total(c.accrued))
      /\ c.marked_in = SatAdd(b.marked_in, m) /\ c.marked_out = SatAdd(b.marked_out, n)
  BY AbsorbedGrows, AbsorbedPools DEF F
<1>7. Total(c.accrued) \in Nat
  BY <1>6, U64Nat, TotalNat DEF Books
<1>8. Total(c.accrued) <= Y
  OBVIOUS
<1> HIDE DEF c
<1>9. /\ c.marked_in = b.marked_in + m /\ c.marked_out = b.marked_out + n
  BY <1>1, <1>2, <1>6, U64MaxAssumption, SMT DEF SatAdd
<1>10. Total(c.principal) = c.marked_in - c.marked_out
  BY <1>1, <1>4, <1>5, <1>6, <1>9, SMT DEF Backed, SatSub
<1>11. Total(c.principal) \in Nat /\ Total(c.principal) <= M
  BY <1>1, <1>2, <1>9, <1>10, SMT
<1>12. c.nav = Total(c.principal) + Total(c.accrued)
  BY <1>6, <1>7, <1>8, <1>11, U64MaxAssumption, SMT DEF SatAdd
<1> QED BY <1>9, <1>10, <1>12 DEF Backed, c

-----------------------------------------------------------------------------
(***************************************************************************)
(* What a book is worth when more was paid out than the pools had: defund  *)
(* drops the rest, and marked_out counts it.                               *)
(***************************************************************************)
\* The book says what its pools and their yield come to, and the pools hold no
\* more than was ever put in.
Sound(b) ==
    /\ b.nav = Total(b.principal) + Total(b.accrued)
    /\ Total(b.principal) <= b.marked_in

\* What the book adds to the vault's own flow.
Worth(b) == b.nav - b.marked_in + b.marked_out

LEMMA SoundNumbers ==
    ASSUME NEW b \in Books, Sound(b)
    PROVE  /\ b.marked_in \in Nat /\ b.marked_out \in Nat /\ b.nav \in Int
           /\ Total(b.principal) \in Nat /\ Total(b.accrued) \in Nat
           /\ Worth(b) \in Int
           /\ Worth(b) = Total(b.principal) + Total(b.accrued)
                           - b.marked_in + b.marked_out
           /\ Worth(b) <= Total(b.accrued) + b.marked_out
<1>1. /\ b.marked_in \in Nat /\ b.marked_out \in Nat
      /\ Total(b.principal) \in Nat /\ Total(b.accrued) \in Nat
  BY U64Nat, TotalNat DEF Books
<1>2. b.nav = Total(b.principal) + Total(b.accrued) /\ Total(b.principal) <= b.marked_in
  BY DEF Sound
<1>3. b.nav \in Int
  BY <1>1, <1>2, SMT
<1>4. Worth(b) = Total(b.principal) + Total(b.accrued) - b.marked_in + b.marked_out
  BY <1>1, <1>2, <1>3, SMT DEF Worth
<1> QED BY <1>1, <1>2, <1>3, <1>4, SMT

\* Yield that has grown in every pool has grown in all.
LEMMA TotalGrows ==
    ASSUME NEW f \in [Pools -> U64], NEW g \in [Pools -> U64],
           \A i \in Pools : f[i] <= g[i]
    PROVE  Total(f) <= Total(g)
  BY U64Nat, SMT DEF Total, Pools

\* tick and set_apr only add yield.
LEMMA SettledSound ==
    ASSUME NEW b \in Books, Sound(b), NEW c \in Books,
           c.principal = b.principal, Grown(b, c),
           c.nav = SatAdd(Total(b.principal), Total(c.accrued)),
           c.marked_in = b.marked_in, c.marked_out = b.marked_out,
           NEW M \in Nat, NEW Y \in Nat, M + Y <= U64Max, b.marked_in <= M,
           Total(c.accrued) <= Y
    PROVE  Sound(c) /\ Worth(b) <= Worth(c)
<1>1. /\ Total(b.principal) <= b.marked_in /\ b.marked_in \in Nat
      /\ b.marked_out \in Nat /\ Total(b.principal) \in Nat /\ Total(b.accrued) \in Nat
      /\ Worth(b) = Total(b.principal) + Total(b.accrued) - b.marked_in + b.marked_out
  BY SoundNumbers DEF Sound
<1>2. Total(c.accrued) \in Nat /\ Total(b.accrued) <= Total(c.accrued)
  <2>1. b.accrued \in [Pools -> U64] /\ c.accrued \in [Pools -> U64]
    BY DEF Books
  <2>2. \A i \in Pools : b.accrued[i] <= c.accrued[i]
    BY DEF Grown
  <2> QED BY <2>1, <2>2, TotalGrows, U64Nat, TotalNat
<1>3. c.nav = Total(b.principal) + Total(c.accrued)
  BY <1>1, <1>2, U64MaxAssumption, SMT DEF SatAdd
<1>4. Sound(c)
  BY <1>1, <1>3 DEF Sound
<1>5. Worth(c) = Total(b.principal) + Total(c.accrued) - b.marked_in + b.marked_out
  BY <1>1, <1>2, <1>3, SMT DEF Worth
<1>6. Worth(b) <= Worth(c)
  BY <1>1, <1>2, <1>5, SMT
<1> QED BY <1>4, <1>6

LEMMA TickedSound ==
    ASSUME NEW b \in Books, Sound(b), NEW t \in Int,
           NEW M \in Nat, NEW Y \in Nat, M + Y <= U64Max, b.marked_in <= M,
           Total(Ticked(b, t).accrued) <= Y
    PROVE  Sound(Ticked(b, t)) /\ Worth(b) <= Worth(Ticked(b, t))
<1> DEFINE c == Ticked(b, t)
<1>1. /\ c \in Books /\ Grown(b, c) /\ c.principal = b.principal
      /\ c.nav = SatAdd(Total(b.principal), Total(c.accrued))
      /\ c.marked_in = b.marked_in /\ c.marked_out = b.marked_out
  <2>1. /\ c.principal = b.principal
        /\ c.nav = SatAdd(Total(b.principal), Total(c.accrued))
    <3>1. PICK j \in Pools, r \in Nat : TRUE
      BY DEF Pools
    <3> QED BY <3>1, SettledPools
  <2> QED BY <2>1, TickedGrows
<1>2. Total(c.accrued) <= Y
  OBVIOUS
<1> HIDE DEF c
<1>3. Sound(c) /\ Worth(b) <= Worth(c)
  BY <1>1, <1>2, SettledSound
<1> QED BY <1>3 DEF c

LEMMA RepricedSound ==
    ASSUME NEW b \in Books, Sound(b), NEW t \in Int, NEW j \in Pools, NEW r \in Nat,
           NEW M \in Nat, NEW Y \in Nat, M + Y <= U64Max, b.marked_in <= M,
           Total(Repriced(b, t, j, r).accrued) <= Y
    PROVE  Sound(Repriced(b, t, j, r)) /\ Worth(b) <= Worth(Repriced(b, t, j, r))
<1> DEFINE c == Repriced(b, t, j, r)
<1>1. /\ c \in Books /\ Grown(b, c)
      /\ c.marked_in = b.marked_in /\ c.marked_out = b.marked_out
  BY RepricedGrows
<1>2. /\ c.principal = b.principal
      /\ c.nav = SatAdd(Total(b.principal), Total(c.accrued))
  BY SettledPools
<1>3. Total(c.accrued) <= Y
  OBVIOUS
<1> HIDE DEF c
<1>4. Sound(c) /\ Worth(b) <= Worth(c)
  BY <1>1, <1>2, <1>3, SettledSound
<1> QED BY <1>4 DEF c

\* absorb, whatever it is asked to take: what the pools cannot give stays in
\* the book's worth.
LEMMA AbsorbedSound ==
    ASSUME NEW b \in Books, Sound(b), NEW t \in Int, NEW m \in U64, NEW n \in U64,
           NEW M \in Nat, NEW Y \in Nat, M + Y <= U64Max,
           b.marked_in + m <= M, b.marked_out + n <= U64Max,
           Total(Absorbed(b, t, m, n).accrued) <= Y
    PROVE  /\ Sound(Absorbed(b, t, m, n))
           /\ Worth(b) <= Worth(Absorbed(b, t, m, n))
<1> DEFINE c == Absorbed(b, t, m, n)
           F == Fund(b.principal, m)
<1>1. /\ b.marked_in \in Nat /\ b.marked_out \in Nat /\ m \in Nat /\ n \in Nat
      /\ b.principal \in [Pools -> U64] /\ b.accrued \in [Pools -> U64]
      /\ Total(b.principal) \in Nat /\ Total(b.accrued) \in Nat
      /\ Total(b.principal) <= b.marked_in
      /\ Worth(b) = Total(b.principal) + Total(b.accrued) - b.marked_in + b.marked_out
  BY U64Nat, SoundNumbers DEF Books, Sound
<1>2. Total(b.principal) + m <= M /\ Total(b.principal) + m <= U64Max
  BY <1>1, U64MaxAssumption, SMT
<1>3. F \in [Pools -> U64] /\ Total(F) = Total(b.principal) + m
  BY <1>1, <1>2, FundTotal
<1> HIDE DEF F
<1>4. Total(Defund(F, n)) = SatSub(Total(F), n)
  BY <1>1, <1>3, DefundTotal
<1>5. /\ c \in Books /\ Grown(b, c)
      /\ c.marked_in = SatAdd(b.marked_in, m) /\ c.marked_out = SatAdd(b.marked_out, n)
  BY AbsorbedGrows
<1>6. /\ c.principal = Defund(F, n)
      /\ c.nav = SatAdd(Total(c.principal), Total(c.accrued))
  BY AbsorbedPools DEF F
<1>7. Total(c.accrued) <= Y
  OBVIOUS
<1> HIDE DEF c
<1>8. Total(c.accrued) \in Nat /\ Total(b.accrued) <= Total(c.accrued)
  <2>1. c.accrued \in [Pools -> U64] /\ \A i \in Pools : b.accrued[i] <= c.accrued[i]
    BY <1>5 DEF Books, Grown
  <2> QED BY <1>1, <2>1, TotalGrows, U64Nat, TotalNat
<1>9. /\ c.marked_in = b.marked_in + m /\ c.marked_out = b.marked_out + n
  BY <1>1, <1>5, U64MaxAssumption, SMT DEF SatAdd
<1>10. Total(c.principal) = SatSub(Total(b.principal) + m, n)
  BY <1>3, <1>4, <1>6
<1>11. /\ Total(c.principal) \in Nat /\ Total(c.principal) <= Total(b.principal) + m
       /\ Total(b.principal) + m <= Total(c.principal) + n
  BY <1>1, <1>10, SMT DEF SatSub
<1>12. c.nav = Total(c.principal) + Total(c.accrued)
  BY <1>1, <1>2, <1>6, <1>7, <1>8, <1>11, U64MaxAssumption, SMT DEF SatAdd
<1>13. Total(c.principal) <= c.marked_in
  BY <1>1, <1>9, <1>11, SMT
<1>14. Sound(c)
  BY <1>12, <1>13 DEF Sound
<1>15. Worth(c) = Total(c.principal) + Total(c.accrued)
                    - (b.marked_in + m) + (b.marked_out + n)
  BY <1>1, <1>8, <1>9, <1>11, <1>12, SMT DEF Worth
<1>16. Worth(b) <= Worth(c)
  BY <1>1, <1>8, <1>11, <1>15, SMT
<1> QED BY <1>14, <1>16 DEF c

-----------------------------------------------------------------------------
(***************************************************************************)
(* The closed forms of PoolBook are the loops of PoolLoops.                *)
(***************************************************************************)
\* A saturating sum of amounts is an amount, and a third one added saturates
\* as the whole sum does.
LEMMA SatChain ==
    ASSUME NEW a \in Nat, NEW x \in Nat, NEW y \in Nat
    PROVE  SatAdd(SatAdd(SatAdd(0, a), x), y) = SatAdd(0, a + x + y)
  BY U64MaxAssumption, SMT DEF SatAdd

\* What one iteration of fund leaves.
LEMMA FundPoolIs ==
    ASSUME NEW p \in [Pools -> U64], NEW s, s.principal = p,
           NEW i \in Pools, NEW part \in Nat
    PROVE  LET t == FundPool(s, i, part)
           IN  /\ t.principal \in [Pools -> U64]
               /\ t.principal[i] = SatAdd(p[i], part)
               /\ \A j \in Pools : j # i => t.principal[j] = p[j]
               /\ t.placed = SatAdd(s.placed, part)
<1> DEFINE t == FundPool(s, i, part)
           v == SatAdd(p[i], part)
<1>1. t.principal = [p EXCEPT ![i] = v] /\ t.placed = SatAdd(s.placed, part)
  BY DEF FundPool
<1>2. v \in U64
  BY SatType
<1> HIDE DEF t, v
<1>3. /\ t.principal \in [Pools -> U64] /\ t.principal[i] = v
      /\ \A j \in Pools : j # i => t.principal[j] = p[j]
  BY <1>1, <1>2
<1> QED BY <1>1, <1>3 DEF t, v

\* fund gives each pool what its loop gives it: `placed` never passes the
\* amount, so it is the sum of the parts.
LEMMA FundIsLoop ==
    ASSUME NEW p \in [Pools -> U64], NEW amount \in U64
    PROVE  Fund(p, amount) = FundLoop(p, amount)
<1> DEFINE w1 == WeightedPart(amount, 1)
           w2 == WeightedPart(amount, 2)
           w3 == WeightedPart(amount, 3)
           s0 == [principal |-> p, placed |-> 0]
           s1 == FundPool(s0, 1, w1)
           s2 == FundPool(s1, 2, w2)
           s3 == FundPool(s2, 3, w3)
           w4 == SatSub(amount, s3.placed)
           s4 == FundPool(s3, 4, w4)
<1>1. FundLoop(p, amount) = s4.principal
  BY DEF FundLoop
<1>2. amount \in Nat /\ amount <= U64Max
  BY U64Nat
<1>3. /\ w1 \in Nat /\ w2 \in Nat /\ w3 \in Nat /\ w1 + w2 + w3 <= amount
      /\ 1 \in Pools /\ 2 \in Pools /\ 3 \in Pools /\ 4 \in Pools
  BY <1>2, PartsFit, SMT DEF Pools
<1>4. s0.principal = p /\ s0.placed = 0
  OBVIOUS
<1> HIDE DEF w1, w2, w3, s0
<1>5. /\ s1.principal \in [Pools -> U64] /\ s1.principal[1] = SatAdd(p[1], w1)
      /\ \A j \in Pools : j # 1 => s1.principal[j] = p[j]
      /\ s1.placed = SatAdd(0, w1)
  BY <1>3, <1>4, FundPoolIs
<1> HIDE DEF s1
<1>6. /\ s2.principal \in [Pools -> U64]
      /\ s2.principal[2] = SatAdd(s1.principal[2], w2)
      /\ \A j \in Pools : j # 2 => s2.principal[j] = s1.principal[j]
      /\ s2.placed = SatAdd(s1.placed, w2)
  BY <1>3, <1>5, FundPoolIs
<1> HIDE DEF s2
<1>7. /\ s3.principal \in [Pools -> U64]
      /\ s3.principal[3] = SatAdd(s2.principal[3], w3)
      /\ \A j \in Pools : j # 3 => s3.principal[j] = s2.principal[j]
      /\ s3.placed = SatAdd(s2.placed, w3)
  BY <1>3, <1>6, FundPoolIs
<1> HIDE DEF s3
<1>8. s3.placed = w1 + w2 + w3
  <2>1. SatAdd(0, w1) = w1 /\ SatAdd(w1, w2) = w1 + w2 /\ SatAdd(w1 + w2, w3) = w1 + w2 + w3
    BY <1>2, <1>3, U64MaxAssumption, SMT DEF SatAdd
  <2> QED BY <1>5, <1>6, <1>7, <2>1
<1>9. w4 = SatSub(amount, w1 + w2 + w3) /\ w4 \in Nat
  BY <1>2, <1>3, <1>8, SMT DEF SatSub
<1> HIDE DEF w4
<1>10. /\ s4.principal \in [Pools -> U64]
       /\ s4.principal[4] = SatAdd(s3.principal[4], w4)
       /\ \A j \in Pools : j # 4 => s4.principal[j] = s3.principal[j]
  BY <1>3, <1>7, <1>9, FundPoolIs
<1> HIDE DEF s4
<1>11. /\ s4.principal[1] = SatAdd(p[1], w1) /\ s4.principal[2] = SatAdd(p[2], w2)
       /\ s4.principal[3] = SatAdd(p[3], w3) /\ s4.principal[4] = SatAdd(p[4], w4)
  <2>1. /\ s4.principal[1] = s3.principal[1] /\ s3.principal[1] = s2.principal[1]
        /\ s2.principal[1] = s1.principal[1] /\ s4.principal[2] = s3.principal[2]
        /\ s3.principal[2] = s2.principal[2] /\ s1.principal[2] = p[2]
    BY <1>5, <1>6, <1>7, <1>10, SMT DEF Pools
  <2>2. /\ s4.principal[3] = s3.principal[3] /\ s2.principal[3] = s1.principal[3]
        /\ s1.principal[3] = p[3] /\ s3.principal[4] = s2.principal[4]
        /\ s2.principal[4] = s1.principal[4] /\ s1.principal[4] = p[4]
    BY <1>5, <1>6, <1>7, <1>10, SMT DEF Pools
  <2> QED BY <1>5, <1>6, <1>7, <1>10, <2>1, <2>2
<1>12. /\ Fund(p, amount) = [i \in Pools |-> Fund(p, amount)[i]]
       /\ Fund(p, amount)[1] = SatAdd(p[1], w1)
       /\ Fund(p, amount)[2] = SatAdd(p[2], w2)
       /\ Fund(p, amount)[3] = SatAdd(p[3], w3)
       /\ Fund(p, amount)[4] = SatAdd(p[4], w4)
  <2>1. Below([i \in Pools |-> WeightedPart(amount, i)], 4) = w1 + w2 + w3
    BY SMT DEF Below, Pools, w1, w2, w3
  <2> QED BY <1>9, <2>1, SMT DEF Fund, Pools, w1, w2, w3
<1>13. \A i \in Pools : i = 1 \/ i = 2 \/ i = 3 \/ i = 4
  BY SMT DEF Pools
<1>14. \A i \in Pools : s4.principal[i] = Fund(p, amount)[i]
  BY <1>11, <1>12, <1>13
<1>15. s4.principal = [i \in Pools |-> s4.principal[i]]
  BY <1>10
<1> QED BY <1>1, <1>12, <1>14, <1>15

\* What one iteration of defund leaves, when `rem` is still to take.
LEMMA DefundPoolIs ==
    ASSUME NEW p \in [Pools -> U64], NEW s, NEW r \in Nat,
           s.principal = p, s.rem = r, NEW i \in Pools
    PROVE  LET t == DefundPool(s, i)
           IN  /\ t.principal \in [Pools -> U64]
               /\ t.principal[i] = SatSub(p[i], r)
               /\ \A j \in Pools : j # i => t.principal[j] = p[j]
               /\ t.rem = SatSub(r, p[i])
<1> DEFINE t == DefundPool(s, i)
<1>1. p[i] \in U64 /\ p[i] \in Nat
  BY U64Nat
<1>2. CASE r = 0
  <2>1. t = s
    BY <1>2 DEF DefundPool
  <2>2. SatSub(p[i], r) = p[i] /\ SatSub(r, p[i]) = r
    BY <1>1, <1>2, SMT DEF SatSub
  <2> HIDE DEF t
  <2>3. t.principal = p /\ t.rem = r
    BY <2>1
  <2> QED BY <2>2, <2>3 DEF t
<1>3. CASE r # 0
  <2> DEFINE take == IF r <= p[i] THEN r ELSE p[i]
  <2>1. t.principal = [p EXCEPT ![i] = p[i] - take] /\ t.rem = r - take
    BY <1>3 DEF DefundPool
  <2>2. /\ p[i] - take = SatSub(p[i], r) /\ r - take = SatSub(r, p[i])
        /\ SatSub(p[i], r) \in U64
    BY <1>1, U64MaxAssumption, SMT DEF SatSub, U64
  <2> HIDE DEF t, take
  <2>3. t.principal = [p EXCEPT ![i] = SatSub(p[i], r)]
    BY <2>1, <2>2
  <2>4. /\ t.principal \in [Pools -> U64] /\ t.principal[i] = SatSub(p[i], r)
        /\ \A j \in Pools : j # i => t.principal[j] = p[j]
    BY <2>2, <2>3
  <2> QED BY <2>1, <2>2, <2>4 DEF t
<1> QED BY <1>2, <1>3

\* defund takes from each pool what its loop takes.
LEMMA DefundIsLoop ==
    ASSUME NEW p \in [Pools -> U64], NEW amount \in Nat
    PROVE  Defund(p, amount) = DefundLoop(p, amount)
<1> DEFINE s0 == [principal |-> p, rem |-> amount]
           s1 == DefundPool(s0, 1)
           s2 == DefundPool(s1, 2)
           s3 == DefundPool(s2, 3)
           s4 == DefundPool(s3, 4)
<1>1. DefundLoop(p, amount) = s4.principal
  BY DEF DefundLoop
<1>2. /\ 1 \in Pools /\ 2 \in Pools /\ 3 \in Pools /\ 4 \in Pools
      /\ \A i \in Pools : i = 1 \/ i = 2 \/ i = 3 \/ i = 4
  BY SMT DEF Pools
<1>3. p[1] \in Nat /\ p[2] \in Nat /\ p[3] \in Nat /\ p[4] \in Nat
  BY <1>2, U64Nat
<1>4. s0.principal = p /\ s0.rem = amount
  OBVIOUS
<1>5. \A m, n \in Nat : SatSub(m, n) \in Nat
  BY SMT DEF SatSub
<1> HIDE DEF s0
<1>6. /\ s1.principal \in [Pools -> U64]
      /\ s1.principal[1] = SatSub(p[1], amount)
      /\ \A j \in Pools : j # 1 => s1.principal[j] = p[j]
      /\ s1.rem = SatSub(amount, p[1]) /\ s1.rem \in Nat
  <2>1. SatSub(amount, p[1]) \in Nat
    BY <1>3, <1>5
  <2> QED BY <1>2, <1>4, <2>1, DefundPoolIs
<1> HIDE DEF s1
<1>7. /\ s2.principal \in [Pools -> U64]
      /\ s2.principal[2] = SatSub(s1.principal[2], s1.rem)
      /\ \A j \in Pools : j # 2 => s2.principal[j] = s1.principal[j]
      /\ s2.rem = SatSub(s1.rem, s1.principal[2])
  BY <1>2, <1>6, DefundPoolIs
<1> HIDE DEF s2
<1>8. s1.principal[2] = p[2] /\ s1.principal[3] = p[3] /\ s1.principal[4] = p[4]
  BY <1>6, SMT DEF Pools
<1>9. s2.rem \in Nat
  <2>1. SatSub(s1.rem, p[2]) \in Nat
    BY <1>3, <1>5, <1>6
  <2> QED BY <1>7, <1>8, <2>1
<1>10. /\ s3.principal \in [Pools -> U64]
       /\ s3.principal[3] = SatSub(s2.principal[3], s2.rem)
       /\ \A j \in Pools : j # 3 => s3.principal[j] = s2.principal[j]
       /\ s3.rem = SatSub(s2.rem, s2.principal[3])
  BY <1>2, <1>7, <1>9, DefundPoolIs
<1> HIDE DEF s3
<1>11. /\ s2.principal[1] = s1.principal[1] /\ s2.principal[3] = p[3]
       /\ s2.principal[4] = p[4]
  BY <1>7, <1>8, SMT DEF Pools
<1>12. s3.rem \in Nat
  BY <1>3, <1>5, <1>9, <1>10, <1>11
<1>13. /\ s4.principal \in [Pools -> U64]
       /\ s4.principal[4] = SatSub(s3.principal[4], s3.rem)
       /\ \A j \in Pools : j # 4 => s4.principal[j] = s3.principal[j]
  BY <1>2, <1>10, <1>12, DefundPoolIs
<1> HIDE DEF s4
<1>14. /\ s3.principal[1] = s2.principal[1] /\ s3.principal[2] = s2.principal[2]
       /\ s3.principal[4] = p[4] /\ s4.principal[1] = s3.principal[1]
       /\ s4.principal[2] = s3.principal[2] /\ s4.principal[3] = s3.principal[3]
  BY <1>10, <1>11, <1>13, SMT DEF Pools
<1>15. /\ s2.rem = SatSub(amount, p[1] + p[2])
       /\ s3.rem = SatSub(amount, p[1] + p[2] + p[3])
  <2>1. \A m, x, y \in Nat : SatSub(SatSub(m, x), y) = SatSub(m, x + y)
    BY SMT DEF SatSub
  <2>2. s2.rem = SatSub(SatSub(amount, p[1]), p[2])
    BY <1>6, <1>7, <1>8
  <2>3. s2.rem = SatSub(amount, p[1] + p[2])
    BY <1>3, <2>1, <2>2
  <2>4. p[1] + p[2] \in Nat
    BY <1>3, SMT
  <2>5. s3.rem = SatSub(SatSub(amount, p[1] + p[2]), p[3])
    BY <1>10, <1>11, <2>3
  <2> QED BY <1>3, <2>1, <2>3, <2>4, <2>5
<1>16. /\ s4.principal[1] = SatSub(p[1], amount)
       /\ s4.principal[2] = SatSub(p[2], SatSub(amount, p[1]))
       /\ s4.principal[3] = SatSub(p[3], SatSub(amount, p[1] + p[2]))
       /\ s4.principal[4] = SatSub(p[4], SatSub(amount, p[1] + p[2] + p[3]))
  BY <1>6, <1>7, <1>8, <1>10, <1>11, <1>13, <1>14, <1>15
<1>17. /\ Defund(p, amount) = [i \in Pools |-> Defund(p, amount)[i]]
       /\ Defund(p, amount)[1] = SatSub(p[1], amount)
       /\ Defund(p, amount)[2] = SatSub(p[2], SatSub(amount, p[1]))
       /\ Defund(p, amount)[3] = SatSub(p[3], SatSub(amount, p[1] + p[2]))
       /\ Defund(p, amount)[4] = SatSub(p[4], SatSub(amount, p[1] + p[2] + p[3]))
  <2>1. SatSub(amount, 0) = amount
    BY SMT DEF SatSub
  <2>2. /\ Below(p, 1) = 0 /\ Below(p, 2) = p[1] /\ Below(p, 3) = p[1] + p[2]
        /\ Below(p, 4) = p[1] + p[2] + p[3]
    BY <1>3, SMT DEF Below
  <2> QED BY <1>2, <2>1, <2>2 DEF Defund
<1>18. \A i \in Pools : s4.principal[i] = Defund(p, amount)[i]
  BY <1>2, <1>16, <1>17
<1>19. s4.principal = [i \in Pools |-> s4.principal[i]]
  BY <1>13
<1> QED BY <1>1, <1>17, <1>18, <1>19

\* One saturation at the end of marked_value is a saturation at every step.
LEMMA MarkedIsLoop ==
    ASSUME NEW b \in Books
    PROVE  MarkedValue(b) = MarkedLoop(b)
<1> DEFINE p == b.principal
           a == b.accrued
<1>1. /\ p[1] \in Nat /\ p[2] \in Nat /\ p[3] \in Nat /\ p[4] \in Nat
      /\ a[1] \in Nat /\ a[2] \in Nat /\ a[3] \in Nat /\ a[4] \in Nat
  BY U64Nat, SMT DEF Books, Pools
<1>2. ASSUME NEW t \in Nat, NEW x \in Nat, NEW y \in Nat
      PROVE  SatAdd(SatAdd(SatAdd(0, t), x), y) = SatAdd(0, t + x + y) /\ t + x + y \in Nat
  BY SatChain, SMT
<1>3. MarkedValue(b) = SatAdd(p[1] + p[2] + p[3] + p[4], a[1] + a[2] + a[3] + a[4])
  BY DEF MarkedValue, Total
<1>4. MarkedLoop(b)
        = SatAdd(SatAdd(SatAdd(SatAdd(SatAdd(SatAdd(SatAdd(SatAdd(0,
            p[1]), a[1]), p[2]), a[2]), p[3]), a[3]), p[4]), a[4])
  BY DEF MarkedLoop, MarkPool
<1> HIDE DEF p, a
<1> DEFINE t1 == 0 + p[1] + a[1]
           t2 == t1 + p[2] + a[2]
           t3 == t2 + p[3] + a[3]
           t4 == t3 + p[4] + a[4]
<1>5. SatAdd(0, 0) = 0
  BY U64MaxAssumption, SMT DEF SatAdd
<1>6. SatAdd(SatAdd(0, p[1]), a[1]) = SatAdd(0, t1) /\ t1 \in Nat
  <2>1. SatAdd(SatAdd(SatAdd(0, 0), p[1]), a[1]) = SatAdd(0, t1) /\ t1 \in Nat
    BY <1>1, <1>2
  <2> QED BY <1>5, <2>1
<1> HIDE DEF t1
<1>7. SatAdd(SatAdd(SatAdd(0, t1), p[2]), a[2]) = SatAdd(0, t2) /\ t2 \in Nat
  BY <1>1, <1>2, <1>6
<1> HIDE DEF t2
<1>8. SatAdd(SatAdd(SatAdd(0, t2), p[3]), a[3]) = SatAdd(0, t3) /\ t3 \in Nat
  BY <1>1, <1>2, <1>7
<1> HIDE DEF t3
<1>9. SatAdd(SatAdd(SatAdd(0, t3), p[4]), a[4]) = SatAdd(0, t4) /\ t4 \in Nat
  BY <1>1, <1>2, <1>8
<1>10. MarkedLoop(b) = SatAdd(0, t4)
  BY <1>4, <1>6, <1>7, <1>8, <1>9
<1>11. SatAdd(0, t4) = SatAdd(p[1] + p[2] + p[3] + p[4], a[1] + a[2] + a[3] + a[4])
  BY <1>1, U64MaxAssumption, SMT DEF SatAdd, t1, t2, t3
<1> QED BY <1>3, <1>10, <1>11

=============================================================================
