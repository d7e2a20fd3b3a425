------------------------------ MODULE SumProofs ------------------------------
(***************************************************************************)
(* Sums of finite functions.  SumFunction folds its argument in an order   *)
(* CHOOSE makes up; the lemmas at the end say that the order does not      *)
(* matter: any argument can be taken out first.                            *)
(*                                                                         *)
(* The library's induction theorems speak of a predicate P(_), which the   *)
(* backends cannot instantiate.  What they do instantiate is a set, so     *)
(* induction is proved here for sets of numbers, from the fact that `<` is *)
(* well founded, and everything else goes by the size of a set.            *)
(***************************************************************************)
EXTENDS Functions, FiniteSetTheorems, WellFoundedInduction, TLAPS

\* A set of numbers that has 0, and with n also n + 1, has them all.
LEMMA Induction ==
    ASSUME NEW P, P \subseteq Nat, 0 \in P, \A n \in P : n + 1 \in P
    PROVE  P = Nat
<1> SUFFICES ASSUME Nat \ P # {} PROVE FALSE
  OBVIOUS
<1>1. PICK x \in Nat \ P : \A y \in Nat \ P : ~ (<<y, x>> \in OpToRel(<, Nat))
  BY NatLessThanWellFounded, WFMin, Zenon
<1>2. \A y \in Nat \ P : ~ (y < x)
  <2> SUFFICES ASSUME NEW y \in Nat \ P, y < x PROVE FALSE
    OBVIOUS
  <2>1. <<y, x>> \in Nat \X Nat /\ <<y, x>>[1] < <<y, x>>[2]
    OBVIOUS
  <2>2. <<y, x>> \in OpToRel(<, Nat)
    BY <2>1, Zenon DEF OpToRel
  <2> QED BY <1>1, <2>2, Zenon
<1>3. x - 1 \in Nat /\ x - 1 \in P
  BY <1>2, SMT
<1> QED BY <1>3, SMT

-----------------------------------------------------------------------------
(***************************************************************************)
(* The subsets of S with at most n elements, on which induction goes.      *)
(***************************************************************************)
Small(S, n) == {s \in SUBSET S : Cardinality(s) <= n}

\* Only the empty set has no elements.
LEMMA SmallEmpty ==
    ASSUME NEW S, IsFiniteSet(S)
    PROVE  Small(S, 0) = {{}}
<1>1. ASSUME NEW s \in Small(S, 0) PROVE s = {}
  <2>1. IsFiniteSet(s) /\ Cardinality(s) \in Nat /\ Cardinality(s) <= 0
    BY FS_Subset, FS_CardinalityType DEF Small
  <2>2. Cardinality(s) = 0
    BY <2>1, SMT
  <2> QED BY <2>1, <2>2, FS_EmptySet
<1>2. {} \in Small(S, 0)
  BY FS_EmptySet, SMT DEF Small
<1> QED BY <1>1, <1>2

\* Taking an element out leaves a smaller set.
LEMMA SmallLess ==
    ASSUME NEW S, IsFiniteSet(S), NEW n \in Nat, NEW s \in Small(S, n + 1), NEW x \in s
    PROVE  s \ {x} \in Small(S, n)
<1>1. s \in SUBSET S /\ Cardinality(s) <= n + 1
  BY DEF Small
<1>2. IsFiniteSet(s) /\ Cardinality(s) \in Nat
  BY <1>1, FS_Subset, FS_CardinalityType
<1>3. Cardinality(s \ {x}) = Cardinality(s) - 1
  BY <1>2, FS_RemoveElement
<1>4. Cardinality(s \ {x}) <= n
  BY <1>1, <1>2, <1>3, SMT
<1> QED BY <1>1, <1>4, Zenon DEF Small

\* A smaller set counts among the larger ones.
LEMMA SmallGrows ==
    ASSUME NEW S, IsFiniteSet(S), NEW n \in Nat
    PROVE  Small(S, n) \subseteq Small(S, n + 1)
<1>1. \A s \in SUBSET S : Cardinality(s) \in Nat
  BY FS_Subset, FS_CardinalityType
<1> QED BY <1>1, SMT DEF Small

\* No subset has more elements than the set.
LEMMA SmallAll ==
    ASSUME NEW S, IsFiniteSet(S)
    PROVE  Cardinality(S) \in Nat /\ Small(S, Cardinality(S)) = SUBSET S
  BY FS_Subset, FS_CardinalityType DEF Small

-----------------------------------------------------------------------------
(***************************************************************************)
(* The fold of SumFunction, a recursive function on sets of arguments.     *)
(***************************************************************************)
Pick(s) == CHOOSE x \in s : TRUE

\* g adds up f over the sets in D, as the fold does.
Adds(f, g, D) ==
    g = [s \in D |-> IF s = {} THEN 0 ELSE f[Pick(s)] + g[s \ {Pick(s)}]]

\* g is a sum of f over the subsets of S, whatever argument comes first.
Sums(f, g, S) ==
    /\ g[{}] = 0
    /\ \A s \in SUBSET S : g[s] \in Nat
    /\ \A s \in SUBSET S : \A x \in s : g[s] = f[x] + g[s \ {x}]

\* SumFunction, its definitions expanded.
LEMMA SumIs ==
    ASSUME NEW f
    PROVE  SumFunction(f) = (CHOOSE g : Adds(f, g, SUBSET DOMAIN f))[DOMAIN f]
  BY DEF SumFunction, SumFunctionOnSet, FoldFunctionOnSet, MapThenFoldSet, Pick, Adds

\* There is such a function, built up by the size of the sets.
LEMMA SumExists ==
    ASSUME NEW f, NEW S, IsFiniteSet(S)
    PROVE  \E g : Adds(f, g, SUBSET S)
<1> DEFINE P == {n \in Nat : \E g : Adds(f, g, Small(S, n))}
<1>1. 0 \in P
  <2>1. Adds(f, [s \in {{}} |-> 0], {{}})
    BY DEF Adds
  <2> QED BY <2>1, SmallEmpty
<1>2. ASSUME NEW n \in P
      PROVE  n + 1 \in P
  <2>1. PICK g : Adds(f, g, Small(S, n))
    OBVIOUS
  <2>2. n \in Nat /\ n + 1 \in Nat
    BY SMT
  <2> HIDE DEF P
  <2> DEFINE Larger == Small(S, n + 1)
             h == [s \in Larger |-> IF s = {} THEN 0 ELSE f[Pick(s)] + g[s \ {Pick(s)}]]
             k == [s \in Larger |-> IF s = {} THEN 0 ELSE f[Pick(s)] + h[s \ {Pick(s)}]]
  <2>3. \A s \in Small(S, n) : g[s] = h[s]
    <3>1. Small(S, n) \subseteq Larger
      BY <2>2, SmallGrows
    <3> QED BY <2>1, <3>1, Zenon DEF Adds
  <2>4. ASSUME NEW s \in Larger, s # {}
        PROVE  s \ {Pick(s)} \in Small(S, n)
    <3>1. Pick(s) \in s
      BY <2>4 DEF Pick
    <3> QED BY <2>2, <3>1, SmallLess
  <2>5. \A s \in Larger : s # {} => g[s \ {Pick(s)}] = h[s \ {Pick(s)}]
    BY <2>3, <2>4
  <2>6. \A s \in Larger : h[s] = k[s]
    BY <2>5, Zenon
  <2>7. h = k
    BY <2>6, Zenon
  <2>8. Adds(f, h, Larger)
    BY <2>7, Zenon DEF Adds
  <2> QED BY <2>2, <2>8, Zenon DEF P
<1> HIDE DEF P
<1>3. P = Nat
  <2>1. P \subseteq Nat
    BY DEF P
  <2> QED BY <1>1, <1>2, <2>1, Induction
<1>4. Cardinality(S) \in P /\ Small(S, Cardinality(S)) = SUBSET S
  BY <1>3, SmallAll
<1> QED BY <1>4 DEF P

\* It does not matter which argument is taken out first, again by size: taking
\* out x and then the one the fold picks is taking out the two in turn.
LEMMA SumSteps ==
    ASSUME NEW S, IsFiniteSet(S), NEW f \in [S -> Nat], NEW g, Adds(f, g, SUBSET S)
    PROVE  Sums(f, g, S)
<1>0. /\ g[{}] = 0
      /\ \A s \in SUBSET S : s # {} => g[s] = f[Pick(s)] + g[s \ {Pick(s)}]
  BY DEF Adds
<1> DEFINE Ok(s) == g[s] \in Nat /\ \A x \in s : g[s] = f[x] + g[s \ {x}]
           P == {n \in Nat : \A s \in Small(S, n) : Ok(s)}
<1>1. 0 \in P
  <2>1. Ok({})
    BY <1>0
  <2> HIDE DEF Ok
  <2> QED BY <2>1, SmallEmpty
<1>2. ASSUME NEW n \in P
      PROVE  n + 1 \in P
  <2>0. n \in Nat /\ n + 1 \in Nat /\ \A s \in Small(S, n) : Ok(s)
    BY SMT DEF P
  <2>1. ASSUME NEW s \in Small(S, n + 1)
        PROVE  Ok(s)
    <3>1. CASE s = {}
      BY <1>0, <3>1
    <3>2. CASE s # {}
      <4> DEFINE p == Pick(s)
      <4>1. p \in s /\ s \in SUBSET S
        BY <3>2 DEF Pick, Small
      <4>2. g[s] = f[p] + g[s \ {p}]
        BY <1>0, <3>2, <4>1
      <4> HIDE DEF p, P
      <4>3. \A x \in s : s \ {x} \in Small(S, n)
        BY <2>0, SmallLess
      <4>4. \A x \in s : f[x] \in Nat /\ g[s \ {x}] \in Nat
        BY <2>0, <4>1, <4>3
      <4>5. g[s] \in Nat
        BY <4>1, <4>2, <4>4, SMT
      <4>6. ASSUME NEW x \in s PROVE g[s] = f[x] + g[s \ {x}]
        <5>1. CASE x = p
          BY <4>2, <5>1
        <5>2. CASE x # p
          <6> DEFINE r == g[(s \ {p}) \ {x}]
          <6>1. p \in s \ {x} /\ x \in s \ {p} /\ (s \ {x}) \ {p} = (s \ {p}) \ {x}
            BY <4>1, <5>2
          <6>2. g[s \ {x}] = f[p] + r /\ g[s \ {p}] = f[x] + r
            BY <2>0, <4>1, <4>3, <6>1
          <6>3. r \in Nat
            <7>1. s \ {p} \in Small(S, n + 1)
              BY <2>0, <4>1, <4>3, SmallGrows
            <7> QED BY <2>0, <6>1, <7>1, SmallLess
          <6> HIDE DEF r
          <6> QED BY <4>1, <4>2, <4>4, <6>2, <6>3, SMT
        <5> QED BY <5>1, <5>2
      <4> QED BY <4>5, <4>6
    <3> QED BY <3>1, <3>2
  <2> HIDE DEF Ok
  <2> QED BY <2>0, <2>1
<1> HIDE DEF P
<1>3. P = Nat
  <2>1. P \subseteq Nat
    BY DEF P
  <2> QED BY <1>1, <1>2, <2>1, Induction
<1>4. Cardinality(S) \in P /\ Small(S, Cardinality(S)) = SUBSET S
  BY <1>3, SmallAll
<1>5. \A s \in SUBSET S : Ok(s)
  BY <1>4 DEF P
<1> QED BY <1>0, <1>5 DEF Sums

\* Sums over the same arguments are the same, whatever else is summed.
LEMMA SumUnique ==
    ASSUME NEW T, IsFiniteSet(T), NEW S, T \subseteq S,
           NEW f, NEW g, Sums(f, g, S), NEW e, NEW h, Sums(e, h, T),
           \A x \in T : e[x] = f[x]
    PROVE  g[T] = h[T]
<1> DEFINE P == {n \in Nat : \A s \in Small(T, n) : g[s] = h[s]}
<1>1. 0 \in P
  BY SmallEmpty DEF Sums
<1>2. ASSUME NEW n \in P
      PROVE  n + 1 \in P
  <2>0. n \in Nat /\ n + 1 \in Nat /\ \A s \in Small(T, n) : g[s] = h[s]
    BY SMT DEF P
  <2>1. ASSUME NEW s \in Small(T, n + 1)
        PROVE  g[s] = h[s]
    <3>1. CASE s = {}
      BY <3>1 DEF Sums
    <3>2. CASE s # {}
      <4>1. PICK x \in s : TRUE
        BY <3>2
      <4>2. s \in SUBSET T /\ s \in SUBSET S /\ x \in T
        BY DEF Small
      <4>3. g[s] = f[x] + g[s \ {x}]
        BY <4>2 DEF Sums
      <4>4. h[s] = e[x] + h[s \ {x}]
        BY <4>2 DEF Sums
      <4>5. g[s \ {x}] = h[s \ {x}]
        BY <2>0, SmallLess
      <4> QED BY <4>2, <4>3, <4>4, <4>5
    <3> QED BY <3>1, <3>2
  <2> QED BY <2>0, <2>1
<1> HIDE DEF P
<1>3. P = Nat
  <2>1. P \subseteq Nat
    BY DEF P
  <2> QED BY <1>1, <1>2, <2>1, Induction
<1>4. Cardinality(T) \in P /\ Small(T, Cardinality(T)) = SUBSET T
  BY <1>3, SmallAll
<1> QED BY <1>4 DEF P

-----------------------------------------------------------------------------
(***************************************************************************)
(* What is used elsewhere.                                                 *)
(***************************************************************************)
\* SumFunction is a sum.
LEMMA SumAdds ==
    ASSUME NEW S, IsFiniteSet(S), NEW f \in [S -> Nat]
    PROVE  \E g : Sums(f, g, S) /\ SumFunction(f) = g[S]
<1> DEFINE g == CHOOSE h : Adds(f, h, SUBSET S)
<1>1. SumFunction(f) = g[S]
  BY SumIs
<1>2. Adds(f, g, SUBSET S)
  BY SumExists
<1> HIDE DEF g
<1> QED BY <1>1, <1>2, SumSteps

\* A sum of numbers is a number.
LEMMA SumNat ==
    ASSUME NEW S, IsFiniteSet(S), NEW f \in [S -> Nat]
    PROVE  SumFunction(f) \in Nat
<1>1. PICK g : Sums(f, g, S) /\ SumFunction(f) = g[S]
  BY SumAdds
<1> QED BY <1>1 DEF Sums

\* The sum of nothing.
LEMMA SumEmpty ==
    ASSUME NEW f \in [{} -> Nat]
    PROVE  SumFunction(f) = 0
<1>1. PICK g : Sums(f, g, {}) /\ SumFunction(f) = g[{}]
  BY FS_EmptySet, SumAdds
<1> QED BY <1>1 DEF Sums

\* One argument, and the sum over the others.
LEMMA SumSplit ==
    ASSUME NEW S, IsFiniteSet(S), NEW f \in [S -> Nat], NEW x \in S
    PROVE  SumFunction(f) = f[x] + SumFunction([s \in S \ {x} |-> f[s]])
<1> DEFINE T == S \ {x}
           e == [s \in T |-> f[s]]
<1>0. IsFiniteSet(T) /\ T \subseteq S /\ e \in [T -> Nat] /\ \A s \in T : e[s] = f[s]
  BY FS_RemoveElement
<1> HIDE DEF e
<1>1. PICK g : Sums(f, g, S) /\ SumFunction(f) = g[S]
  BY SumAdds
<1>2. PICK h : Sums(e, h, T) /\ SumFunction(e) = h[T]
  BY <1>0, SumAdds
<1>3. g[T] = h[T]
  <2> HIDE DEF T
  <2> QED BY <1>0, <1>1, <1>2, SumUnique
<1>4. g[S] = f[x] + g[T]
  BY <1>1 DEF Sums
<1> QED BY <1>1, <1>2, <1>3, <1>4 DEF e

\* No argument gives more than the sum.
LEMMA SumBound ==
    ASSUME NEW S, IsFiniteSet(S), NEW f \in [S -> Nat], NEW x \in S
    PROVE  f[x] <= SumFunction(f)
<1> DEFINE e == [s \in S \ {x} |-> f[s]]
<1>1. IsFiniteSet(S \ {x}) /\ e \in [S \ {x} -> Nat]
  BY FS_RemoveElement
<1>2. SumFunction(f) = f[x] + SumFunction(e)
  BY SumSplit
<1> HIDE DEF e
<1>3. SumFunction(e) \in Nat
  BY <1>1, SumNat
<1> QED BY <1>2, <1>3, SMT

\* A sum after one of its terms has changed.
LEMMA SumExcept ==
    ASSUME NEW S, IsFiniteSet(S), NEW f \in [S -> Nat], NEW x \in S, NEW v \in Nat
    PROVE  SumFunction([f EXCEPT ![x] = v]) = SumFunction(f) - f[x] + v
<1> DEFINE g == [f EXCEPT ![x] = v]
           e == [s \in S \ {x} |-> f[s]]
<1>1. g \in [S -> Nat] /\ g[x] = v /\ [s \in S \ {x} |-> g[s]] = e
  OBVIOUS
<1>2. e \in [S \ {x} -> Nat] /\ IsFiniteSet(S \ {x})
  BY FS_RemoveElement
<1>3. SumFunction(f) = f[x] + SumFunction(e)
  BY SumSplit
<1> HIDE DEF g, e
<1>4. SumFunction(g) = v + SumFunction(e)
  BY <1>1, SumSplit
<1>5. SumFunction(e) \in Nat
  BY <1>2, SumNat
<1>6. SumFunction(g) = SumFunction(f) - f[x] + v
  BY <1>3, <1>4, <1>5, SMT
<1> QED BY <1>6 DEF g

\* Nothing but zeros adds up to zero.
LEMMA SumZero ==
    ASSUME NEW S, IsFiniteSet(S)
    PROVE  SumFunction([s \in S |-> 0]) = 0
<1> DEFINE P == {n \in Nat : \A T \in Small(S, n) : SumFunction([s \in T |-> 0]) = 0}
<1>1. 0 \in P
  <2>1. SumFunction([s \in {} |-> 0]) = 0
    BY SumEmpty
  <2> QED BY <2>1, SmallEmpty
<1>2. ASSUME NEW n \in P
      PROVE  n + 1 \in P
  <2>0. n \in Nat /\ n + 1 \in Nat
        /\ \A T \in Small(S, n) : SumFunction([s \in T |-> 0]) = 0
    BY SMT DEF P
  <2>1. ASSUME NEW T \in Small(S, n + 1)
        PROVE  SumFunction([s \in T |-> 0]) = 0
    <3>1. CASE T = {}
      BY <1>1, <3>1, SumEmpty
    <3>2. CASE T # {}
      <4> DEFINE f == [s \in T |-> 0]
      <4>1. PICK x \in T : TRUE
        BY <3>2
      <4>2. IsFiniteSet(T) /\ T \ {x} \in Small(S, n)
        BY <2>0, SmallLess, FS_Subset DEF Small
      <4>3. f \in [T -> Nat] /\ f[x] = 0 /\ [s \in T \ {x} |-> f[s]] = [s \in T \ {x} |-> 0]
        OBVIOUS
      <4> HIDE DEF f
      <4>4. SumFunction(f) = 0 + SumFunction([s \in T \ {x} |-> 0])
        BY <4>2, <4>3, SumSplit
      <4>5. SumFunction([s \in T \ {x} |-> 0]) = 0
        BY <2>0, <4>2
      <4> QED BY <4>4, <4>5 DEF f
    <3> QED BY <3>1, <3>2
  <2> QED BY <2>0, <2>1
<1> HIDE DEF P
<1>3. P = Nat
  <2>1. P \subseteq Nat
    BY DEF P
  <2> QED BY <1>1, <1>2, <2>1, Induction
<1>4. S \in Small(S, Cardinality(S)) /\ Cardinality(S) \in P
  BY <1>3, SmallAll
<1> QED BY <1>4 DEF P

=============================================================================
