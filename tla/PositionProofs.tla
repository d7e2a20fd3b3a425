--------------------------- MODULE PositionProofs ---------------------------
(***************************************************************************)
(* Theorems about Position for any keys, viewers, terms, prices, lots and  *)
(* bounds.                                                                 *)
(*                                                                         *)
(* Access: that the flag and the members follow the session key rests on   *)
(* the permission being closed whenever the position is away, since a key  *)
(* authorised on Solana reaches no permission there (`InStep`).  Ledger:   *)
(* a blend keeps the entry price in range (`Average`), and leaves what is  *)
(* on paper as it is, but for rounding the average down (`GainOnPaper`).   *)
(***************************************************************************)
EXTENDS Position, TLAPS

-----------------------------------------------------------------------------
(***************************************************************************)
(* Arithmetic.                                                             *)
(***************************************************************************)
\* A quotient is the largest number that fits.
LEMMA Quotient ==
    ASSUME NEW n \in Nat, NEW d \in Nat, d > 0
    PROVE  /\ n \div d \in Nat
           /\ (n \div d) * d <= n
           /\ n < ((n \div d) + 1) * d
  BY SMT

\* What lies between two multiples of d has a quotient between them.
LEMMA QuotientBetween ==
    ASSUME NEW n \in Nat, NEW d \in Nat, d > 0, NEW lo \in Nat, NEW hi \in Nat,
           lo * d <= n, n <= hi * d
    PROVE  n \div d \in lo .. hi
<1> DEFINE q == n \div d
<1>1. q \in Nat /\ q * d <= n /\ n < (q + 1) * d
  BY Quotient
<1> HIDE DEF q
<1>2. lo * d < (q + 1) * d /\ q * d <= hi * d
  <2>1. lo * d \in Nat /\ (q + 1) * d \in Nat /\ q * d \in Nat /\ hi * d \in Nat
    BY <1>1, SMT
  <2> QED BY <1>1, <2>1, SMT
<1>3. lo < q + 1
  <2> SUFFICES ASSUME q + 1 <= lo PROVE FALSE
    BY <1>1, SMT
  <2>1. (q + 1) * d <= lo * d
    BY <1>1, SMT
  <2> QED BY <1>1, <1>2, <2>1, SMT
<1>4. q <= hi
  <2> SUFFICES ASSUME hi + 1 <= q PROVE FALSE
    BY <1>1, SMT
  <2>1. (hi + 1) * d <= q * d
    BY <1>1, SMT
  <2>2. (hi + 1) * d = hi * d + d
    BY SMT
  <2> QED BY <1>1, <1>2, <2>1, <2>2, SMT
<1> QED BY <1>1, <1>3, <1>4, SMT DEF q

\* The average of e, weighing a, and p, weighing b, rounded down, lies between
\* any bounds of both; a weight of nothing asks nothing of its price.
LEMMA Average ==
    ASSUME NEW a \in Nat, NEW b \in Nat, a + b > 0,
           NEW e \in Nat, NEW p \in Nat, NEW lo \in Nat, NEW hi \in Nat,
           a > 0 => lo <= e /\ e <= hi,
           b > 0 => lo <= p /\ p <= hi
    PROVE  (e * a + p * b) \div (a + b) \in lo .. hi
<1>1. lo * a <= e * a /\ e * a <= hi * a
  <2>1. CASE a = 0
    BY <2>1, SMT
  <2>2. CASE a > 0
    BY <2>2, SMT
  <2> QED BY <2>1, <2>2, SMT
<1>2. lo * b <= p * b /\ p * b <= hi * b
  <2>1. CASE b = 0
    BY <2>1, SMT
  <2>2. CASE b > 0
    BY <2>2, SMT
  <2> QED BY <2>1, <2>2, SMT
<1>3. /\ lo * (a + b) = lo * a + lo * b
      /\ hi * (a + b) = hi * a + hi * b
      /\ e * a + p * b \in Nat
      /\ lo * a \in Nat /\ lo * b \in Nat /\ hi * a \in Nat /\ hi * b \in Nat
      /\ e * a \in Nat /\ p * b \in Nat
  BY SMT
<1>4. lo * (a + b) <= e * a + p * b /\ e * a + p * b <= hi * (a + b)
  BY <1>1, <1>2, <1>3, SMT
<1> QED BY <1>3, <1>4, QuotientBetween

-----------------------------------------------------------------------------
(***************************************************************************)
(* The session and the gate.                                               *)
(***************************************************************************)
\* members_args lists keys and viewers.
LEMMA MembersType ==
    ASSUME NEW key \in Keys \union {NoKey}, NEW viewers \in SUBSET Viewers
    PROVE  /\ Members(key, viewers) \subseteq Keys \union Viewers
           /\ Members(key, viewers) \intersect Keys = {key} \ {NoKey}
           /\ Members(key, viewers) \intersect Viewers = viewers
  BY KeysAssumption DEF Members

\* A step of the session or the gate is one instruction, or time.
LEMMA AccessCases ==
    ASSUME Next
    PROVE  \/ \E key \in Keys : AuthorizeSession(key)
           \/ DelegatePosition \/ UndelegatePosition \/ LandPosition
           \/ \E by \in Signers : ClosePermission(by)
           \/ \E by \in Signers, viewers \in SUBSET Viewers : InitPermission(by, viewers)
           \/ \E by \in Signers, viewers \in SUBSET Viewers, private \in BOOLEAN :
                 SetPermission(by, private, viewers)
           \/ \E key \in Keys, expiry \in 1 .. MaxTime + SESSION_TTL + Leeway :
                 RotateSession(key, expiry)
           \/ AdvanceTime
  BY DEF Next, Moving, Gating, Rotate

\* An expiry somebody may ask for is a number of seconds.
LEMMA ExpiryType ==
    ASSUME NEW expiry \in 1 .. MaxTime + SESSION_TTL + Leeway
    PROVE  expiry \in Nat
  BY TimesAssumption, SMT

\* What rotate_session makes of the members: the new key for the old one, and
\* the same viewers.
LEMMA RotatedMembers ==
    ASSUME TypeOK, NEW key \in Keys
    PROVE  LET members == Members(key, permission.members \ {session_key})
           IN  /\ members \subseteq Keys \union Viewers
               /\ members \intersect Viewers = permission.members \intersect Viewers
               /\ permission.members \intersect Keys \subseteq {session_key}
                    => members \intersect Keys = {key}
<1>1. /\ permission.members \subseteq Keys \union Viewers
      /\ session_key \in Keys \union {NoKey}
  BY DEF TypeOK, PermissionType
<1>2. session_key \notin Viewers /\ key # NoKey /\ key \notin Viewers
  BY <1>1, KeysAssumption
<1> QED BY <1>1, <1>2, KeysAssumption DEF Members

\* A new position is well typed.
LEMMA InitAccessType == Init => TypeOK
<1> SUFFICES ASSUME Init PROVE TypeOK
  OBVIOUS
<1>1. 0 \in 0 .. MaxTime /\ 0 \in Nat
  BY TimesAssumption, SMT
<1>2. NoPermission \in PermissionType
  BY SMT DEF NoPermission, PermissionType
<1> QED BY <1>1, <1>2 DEF Init, TypeOK

\* Every instruction keeps the types.
LEMMA StepAccessType ==
    ASSUME TypeOK, Next
    PROVE  TypeOK'
<1>1. ASSUME NEW key \in Keys, AuthorizeSession(key) PROVE TypeOK'
  <2>1. session_expiry' \in Nat
    BY <1>1, TimesAssumption, SMT DEF AuthorizeSession, TypeOK
  <2> QED BY <1>1, <2>1 DEF AuthorizeSession, TypeOK
<1>2. ASSUME DelegatePosition \/ UndelegatePosition \/ LandPosition PROVE TypeOK'
  BY <1>2 DEF DelegatePosition, UndelegatePosition, LandPosition, positionVars, TypeOK
<1>3. ASSUME NEW by \in Signers, ClosePermission(by) PROVE TypeOK'
  <2>1. NoPermission \in PermissionType
    BY SMT DEF NoPermission, PermissionType
  <2> QED BY <1>3, <2>1 DEF ClosePermission, TypeOK
<1>4. ASSUME NEW by \in Signers, NEW viewers \in SUBSET Viewers,
             InitPermission(by, viewers)
      PROVE  TypeOK'
  <2>1. Members(session_key, viewers) \subseteq Keys \union Viewers
    BY MembersType DEF TypeOK
  <2>2. permission' \in PermissionType
    BY <1>4, <2>1 DEF InitPermission, TypeOK, PermissionType
  <2> QED BY <1>4, <2>2 DEF InitPermission, TypeOK
<1>5. ASSUME NEW by \in Signers, NEW viewers \in SUBSET Viewers, NEW private \in BOOLEAN,
             SetPermission(by, private, viewers)
      PROVE  TypeOK'
  <2>1. Members(session_key, viewers) \subseteq Keys \union Viewers
    BY MembersType DEF TypeOK
  <2>2. permission' \in PermissionType
    BY <1>5, <2>1 DEF SetPermission, TypeOK, PermissionType
  <2> QED BY <1>5, <2>2 DEF SetPermission, TypeOK
<1>6. ASSUME NEW key \in Keys, NEW expiry \in 1 .. MaxTime + SESSION_TTL + Leeway,
             RotateSession(key, expiry)
      PROVE  TypeOK'
  <2>1. expiry \in Nat
    BY ExpiryType
  <2>2. Members(key, permission.members \ {session_key}) \subseteq Keys \union Viewers
    BY RotatedMembers
  <2>3. permission' \in PermissionType
    BY <1>6, <2>2 DEF RotateSession, TypeOK, PermissionType
  <2> QED BY <1>6, <2>1, <2>3 DEF RotateSession, TypeOK
<1>7. ASSUME AdvanceTime PROVE TypeOK'
  <2>1. now' \in 0 .. MaxTime
    BY <1>7, TimesAssumption, SMT DEF AdvanceTime, TypeOK
  <2> QED BY <1>7, <2>1 DEF AdvanceTime, positionVars, TypeOK
<1> QED BY <1>1, <1>2, <1>3, <1>4, <1>5, <1>6, <1>7, AccessCases

-----------------------------------------------------------------------------
\* The session key lives no longer than the term from now: no step but a new
\* authorisation or a rotation moves the expiry, and time only shortens it.
LEMMA StepLifetime ==
    ASSUME TypeOK, LifetimeBounded, Next
    PROVE  LifetimeBounded'
<1> USE TimesAssumption
<1>1. ASSUME NEW key \in Keys, AuthorizeSession(key) PROVE LifetimeBounded'
  BY <1>1, SMT DEF AuthorizeSession, LifetimeBounded, TypeOK
<1>2. ASSUME NEW key \in Keys, NEW expiry \in 1 .. MaxTime + SESSION_TTL + Leeway,
             RotateSession(key, expiry)
      PROVE  LifetimeBounded'
  <2>1. session_expiry' = expiry /\ expiry <= now + SESSION_TTL + Leeway /\ now' = now
    BY <1>2 DEF RotateSession, ExpiryAccepted
  <2> QED BY <2>1 DEF LifetimeBounded
<1>3. ASSUME AdvanceTime PROVE LifetimeBounded'
  BY <1>3, SMT DEF AdvanceTime, positionVars, LifetimeBounded, TypeOK
<1>4. ASSUME UNCHANGED <<session_expiry, now>> PROVE LifetimeBounded'
  BY <1>4 DEF LifetimeBounded
<1>5. ASSUME \/ DelegatePosition \/ UndelegatePosition \/ LandPosition
             \/ \E by \in Signers : ClosePermission(by)
             \/ \E by \in Signers, viewers \in SUBSET Viewers : InitPermission(by, viewers)
             \/ \E by \in Signers, viewers \in SUBSET Viewers, private \in BOOLEAN :
                   SetPermission(by, private, viewers)
      PROVE  UNCHANGED <<session_expiry, now>>
  BY <1>5 DEF DelegatePosition, UndelegatePosition, LandPosition, ClosePermission,
              InitPermission, SetPermission, positionVars
<1> QED BY <1>1, <1>2, <1>3, <1>4, <1>5, AccessCases

\* A rotation moves the expiry forward, and nothing else but an authorisation
\* moves it at all.
LEMMA StepExpiryForward ==
    ASSUME TypeOK, Next, session_expiry' < session_expiry
    PROVE  \E key \in Keys : AuthorizeSession(key)
<1>1. session_expiry \in Nat
  BY DEF TypeOK
<1>2. ASSUME NEW key \in Keys, NEW expiry \in 1 .. MaxTime + SESSION_TTL + Leeway,
             RotateSession(key, expiry)
      PROVE  FALSE
  <2>1. session_expiry' = expiry /\ expiry > session_expiry /\ expiry \in Nat
    BY <1>2, ExpiryType DEF RotateSession, ExpiryAccepted
  <2> QED BY <1>1, <2>1, SMT
<1>3. ASSUME \/ DelegatePosition \/ UndelegatePosition \/ LandPosition
             \/ \E by \in Signers : ClosePermission(by)
             \/ \E by \in Signers, viewers \in SUBSET Viewers : InitPermission(by, viewers)
             \/ \E by \in Signers, viewers \in SUBSET Viewers, private \in BOOLEAN :
                   SetPermission(by, private, viewers)
             \/ AdvanceTime
      PROVE  FALSE
  <2>1. session_expiry' = session_expiry
    BY <1>3 DEF DelegatePosition, UndelegatePosition, LandPosition, ClosePermission,
                InitPermission, SetPermission, AdvanceTime, positionVars
  <2> QED BY <1>1, <2>1, SMT
<1> QED BY <1>2, <1>3, AccessCases

\* A rotation keeps the viewers of a gated position.
LEMMA StepViewersKept ==
    ASSUME TypeOK, Rotate, is_private
    PROVE  permission'.members \intersect Viewers = permission.members \intersect Viewers
<1>1. PICK key \in Keys, expiry \in 1 .. MaxTime + SESSION_TTL + Leeway :
        RotateSession(key, expiry)
  BY DEF Rotate
<1>2. permission'.members = Members(key, permission.members \ {session_key})
  BY <1>1 DEF RotateSession, TypeOK, PermissionType
<1> QED BY <1>2, RotatedMembers

-----------------------------------------------------------------------------
(***************************************************************************)
(* The flag, the members and the session key in step.                      *)
(***************************************************************************)
\* A permission gates only if it exists, and exists only in the enclave: what
\* makes a key authorised on Solana harmless to the list of members.
AwayIsClosed ==
    /\ permission.is_private => permission.exists
    /\ site # "enclave" => ~permission.exists

InStep == AwayIsClosed /\ FlagMirrorsGate /\ SessionIsTheReader

\* A permission that is not there gates nothing.
LEMMA NoPermissionIsOpen ==
    NoPermission.exists = FALSE /\ NoPermission.is_private = FALSE
  BY DEF NoPermission

\* A new position is in step.
LEMMA InitInStep == Init => InStep
<1> SUFFICES ASSUME Init PROVE InStep
  OBVIOUS
<1>1. permission.exists = FALSE /\ permission.is_private = FALSE /\ is_private = FALSE
  BY NoPermissionIsOpen DEF Init
<1>2. AwayIsClosed
  BY <1>1, Zenon DEF AwayIsClosed
<1>3. FlagMirrorsGate
  BY <1>1, Zenon DEF FlagMirrorsGate
<1>4. SessionIsTheReader
  BY <1>1, Zenon DEF SessionIsTheReader
<1> QED BY <1>2, <1>3, <1>4 DEF InStep

\* Every instruction keeps the three in step, if the position leaves the
\* enclave with its permission closed and is not initialised again open.

LEMMA StepInStep ==
    ASSUME ClosesFirst, ~Reopens, TypeOK, InStep, Next
    PROVE  InStep'
<1>3. ASSUME NEW by \in Signers, ClosePermission(by) PROVE InStep'
  <2>1. permission' = NoPermission /\ is_private' = FALSE
    BY <1>3 DEF ClosePermission
  <2>2. permission'.exists = FALSE /\ permission'.is_private = FALSE
    BY <2>1, NoPermissionIsOpen
  <2>3. AwayIsClosed'
    BY <2>2, Zenon DEF AwayIsClosed
  <2>4. FlagMirrorsGate'
    BY <2>1, <2>2, Zenon DEF FlagMirrorsGate
  <2>5. SessionIsTheReader'
    BY <2>2, Zenon DEF SessionIsTheReader
  <2> QED BY <2>3, <2>4, <2>5 DEF InStep
<1> USE DEF InStep, AwayIsClosed, FlagMirrorsGate, SessionIsTheReader
<1>1. ASSUME NEW key \in Keys, AuthorizeSession(key) PROVE InStep'
  BY <1>1, SMT DEF AuthorizeSession
<1>2. ASSUME DelegatePosition \/ UndelegatePosition \/ LandPosition PROVE InStep'
  BY <1>2, SMT DEF DelegatePosition, UndelegatePosition, LandPosition, positionVars
<1>4. ASSUME NEW by \in Signers, NEW viewers \in SUBSET Viewers,
             InitPermission(by, viewers)
      PROVE  InStep'
  <2>1. Members(session_key, viewers) \intersect Keys = {session_key} \ {NoKey}
    BY MembersType DEF TypeOK
  <2>2. CASE permission.exists
    BY <1>4, <2>2 DEF InitPermission
  <2>3. CASE ~permission.exists
    BY <1>4, <2>1, <2>3 DEF InitPermission
  <2> QED BY <2>2, <2>3
<1>5. ASSUME NEW by \in Signers, NEW viewers \in SUBSET Viewers, NEW private \in BOOLEAN,
             SetPermission(by, private, viewers)
      PROVE  InStep'
  <2>1. Members(session_key, viewers) \intersect Keys = {session_key} \ {NoKey}
    BY MembersType DEF TypeOK
  <2> QED BY <1>5, <2>1 DEF SetPermission
<1>6. ASSUME NEW key \in Keys, NEW expiry \in 1 .. MaxTime + SESSION_TTL + Leeway,
             RotateSession(key, expiry)
      PROVE  InStep'
  <2>1. CASE ~is_private
    BY <1>6, <2>1 DEF RotateSession
  <2>2. CASE is_private
    <3>1. permission.members \intersect Keys \subseteq {session_key}
      BY <2>2
    <3>2. Members(key, permission.members \ {session_key}) \intersect Keys = {key} \ {NoKey}
      BY <3>1, RotatedMembers, KeysAssumption
    <3>3. /\ permission'.exists = permission.exists
          /\ permission'.is_private = TRUE
          /\ permission'.members = Members(key, permission.members \ {session_key})
      BY <1>6, <2>2 DEF RotateSession, TypeOK, PermissionType
    <3> QED BY <1>6, <2>2, <3>2, <3>3 DEF RotateSession
  <2> QED BY <2>1, <2>2 DEF TypeOK
<1>7. ASSUME AdvanceTime PROVE InStep'
  BY <1>7 DEF AdvanceTime, positionVars
<1> QED BY <1>1, <1>2, <1>3, <1>4, <1>5, <1>6, <1>7, AccessCases

-----------------------------------------------------------------------------
(***************************************************************************)
(* The ledger.  Each instruction that marks it counts shares in or out     *)
(* first (`Counted`); what is shown of entry price and yield follows from  *)
(* the shares counted and the price.                                       *)
(***************************************************************************)
\* Prices are numbers.
LEMMA PriceType ==
    ASSUME NEW p \in Prices
    PROVE  p \in Nat
  BY PricesAssumption

\* A ledger's shares are a number.
LEMMA SharesType ==
    ASSUME NEW l \in Ledgers
    PROVE  /\ Shares(l) \in Nat
           /\ l.shares \in Nat /\ l.private_shares \in Nat /\ l.entry_price \in Nat
           /\ l.syncs \in Nat /\ l.yield_usdc \in Nat
           /\ Shares(l) = l.shares + l.private_shares
  BY SMT DEF Ledgers, Shares

\* A larger number of the same.
LEMMA TimesMore ==
    ASSUME NEW m \in Int, NEW n \in Int, NEW k \in Nat, m <= n
    PROVE  m * k <= n * k /\ m * k \in Int /\ n * k \in Int
  BY SMT

\* What the shares of a ledger have gained on paper at price p.
OnPaper(l, p) == Shares(l) * (p - l.entry_price)

\* mark counts itself and writes what follows from the shares and the entry
\* price, and neither.
LEMMA Marked ==
    ASSUME NEW l \in Ledgers, NEW p \in Nat
    PROVE  /\ Mark(l, p) \in Ledgers
           /\ Mark(l, p).shares = l.shares
           /\ Mark(l, p).private_shares = l.private_shares
           /\ Mark(l, p).entry_price = l.entry_price
           /\ Mark(l, p).syncs = l.syncs + 1
           /\ Mark(l, p).yield_usdc
                = LET value == (Shares(l) * p) \div ONE
                      cost  == (Shares(l) * l.entry_price) \div ONE
                  IN  IF cost <= value THEN value - cost ELSE 0
<1> DEFINE value == (Shares(l) * p) \div ONE
           cost  == (Shares(l) * l.entry_price) \div ONE
           yield == IF cost <= value THEN value - cost ELSE 0
<1>1. Shares(l) * p \in Nat /\ Shares(l) * l.entry_price \in Nat
  BY SharesType, SMT
<1>2. value \in Nat /\ cost \in Nat
  BY <1>1, Quotient, PricesAssumption
<1>3. yield \in Nat
  BY <1>2, SMT
<1>4. Mark(l, p) = [l EXCEPT !.value_usdc = value, !.cost_basis = cost,
                             !.yield_usdc = yield, !.syncs = @ + 1]
  BY DEF Mark
<1> HIDE DEF value, cost, yield
<1> DEFINE one   == [l EXCEPT !.value_usdc = value]
           two   == [one EXCEPT !.cost_basis = cost]
           three == [two EXCEPT !.yield_usdc = yield]
           all   == [three EXCEPT !.syncs = @ + 1]
<1>5. /\ one \in Ledgers /\ one.shares = l.shares /\ one.syncs = l.syncs
      /\ one.private_shares = l.private_shares /\ one.entry_price = l.entry_price
  BY <1>2, SMT DEF Ledgers
<1> HIDE DEF one
<1>6. /\ two \in Ledgers /\ two.shares = l.shares /\ two.syncs = l.syncs
      /\ two.private_shares = l.private_shares /\ two.entry_price = l.entry_price
  BY <1>2, <1>5, SMT DEF Ledgers
<1> HIDE DEF two
<1>7. /\ three \in Ledgers /\ three.shares = l.shares /\ three.syncs = l.syncs
      /\ three.private_shares = l.private_shares /\ three.entry_price = l.entry_price
      /\ three.yield_usdc = yield
  BY <1>3, <1>6, SMT DEF Ledgers
<1> HIDE DEF three
<1>8. /\ all \in Ledgers /\ all.shares = l.shares /\ all.syncs = l.syncs + 1
      /\ all.private_shares = l.private_shares /\ all.entry_price = l.entry_price
      /\ all.yield_usdc = yield
  BY <1>7, SMT DEF Ledgers
<1>9. Mark(l, p) = all
  BY <1>4 DEF one, two, three
<1> QED BY <1>8, <1>9, Zenon DEF yield, value, cost

\* What mark shows as yield is what is on paper, but for rounding value and
\* cost; and nothing when that is a loss.
LEMMA ShownOnPaper ==
    ASSUME NEW l \in Ledgers, NEW p \in Nat
    PROVE  LET shown == Mark(l, p).yield_usdc
           IN  /\ OnPaper(l, p) \in Int /\ shown \in Nat
               /\ shown > 0 => shown * ONE < OnPaper(l, p) + ONE
               /\ shown * ONE > OnPaper(l, p) - ONE
<1> DEFINE N == Shares(l)
           e == l.entry_price
           value == (N * p) \div ONE
           cost  == (N * e) \div ONE
           yield == IF cost <= value THEN value - cost ELSE 0
           np == N * p
           ne == N * e
<1>1. N \in Nat /\ e \in Nat /\ ONE \in Nat /\ ONE > 0
  BY SharesType, PricesAssumption
<1>2. Mark(l, p).yield_usdc = yield
  BY Marked
<1>3. OnPaper(l, p) = N * (p - e)
  BY DEF OnPaper
<1> HIDE DEF N, e
<1>4. np \in Nat /\ ne \in Nat /\ N * (p - e) = np - ne
  BY <1>1, SMT
<1>5. /\ value \in Nat /\ value * ONE <= np /\ np < (value + 1) * ONE
      /\ cost \in Nat /\ cost * ONE <= ne /\ ne < (cost + 1) * ONE
  BY <1>1, <1>4, Quotient
<1> HIDE DEF value, cost, np, ne
<1>6. /\ (value + 1) * ONE = value * ONE + ONE /\ (cost + 1) * ONE = cost * ONE + ONE
      /\ (value - cost) * ONE = value * ONE - cost * ONE
      /\ value * ONE \in Nat /\ cost * ONE \in Nat
  BY <1>1, <1>5, SMT
<1>7. /\ yield \in Nat
      /\ yield > 0 => yield * ONE < np - ne + ONE
      /\ yield * ONE > np - ne - ONE
  <2>1. CASE cost <= value
    <3>1. yield = value - cost
      BY <2>1
    <3>2. yield * ONE = value * ONE - cost * ONE
      BY <1>6, <3>1
    <3> DEFINE vo == value * ONE
               co == cost * ONE
    <3>3. /\ vo \in Nat /\ co \in Nat /\ yield * ONE = vo - co
          /\ vo <= np /\ np < vo + ONE /\ co <= ne /\ ne < co + ONE
      BY <1>5, <1>6, <3>2
    <3> HIDE DEF vo, co
    <3> QED BY <1>1, <1>4, <1>5, <2>1, <3>1, <3>3, SMT
  <2>2. CASE ~(cost <= value)
    <3>1. yield = 0 /\ value + 1 <= cost
      BY <1>5, <2>2, SMT
    <3>2. (value + 1) * ONE <= cost * ONE
      BY <1>1, <1>5, <3>1, TimesMore
    <3> DEFINE v1 == (value + 1) * ONE
               co == cost * ONE
    <3>3. v1 \in Int /\ co \in Int /\ v1 <= co /\ np < v1 /\ co <= ne
      <4>1. v1 \in Int /\ co \in Int
        BY <1>1, <1>5, SMT
      <4> QED BY <1>5, <3>2, <4>1
    <3> HIDE DEF v1, co
    <3>4. np - ne < 0
      BY <1>4, <3>3, SMT
    <3>5. yield * ONE = 0
      BY <1>1, <3>1, SMT
    <3> HIDE DEF yield
    <3> QED BY <1>1, <1>4, <3>1, <3>4, <3>5, SMT
  <2> QED BY <2>1, <2>2
<1> HIDE DEF yield
<1> QED BY <1>2, <1>3, <1>4, <1>7

-----------------------------------------------------------------------------
(***************************************************************************)
(* The invariant of the ledger.                                            *)
(***************************************************************************)
\* The paper gain is the ghost's, but for what the blends rounded away.
GainOnPaper ==
    /\ gain <= OnPaper(ledger, marked)
    /\ OnPaper(ledger, marked) <= gain + RoundedAway

LedgerInv == LedgerTypeOK /\ EntryInRange /\ GainOnPaper /\ YieldIsPriceMoves

\* The numbers these speak of.
LEMMA LedgerNumbers ==
    ASSUME LedgerTypeOK
    PROVE  /\ ledger \in Ledgers /\ Shares(ledger) = ledger.shares + ledger.private_shares
           /\ ledger.shares \in Nat /\ ledger.private_shares \in Nat
           /\ ledger.entry_price \in Nat /\ ledger.syncs \in Nat /\ Shares(ledger) \in Nat
           /\ price \in Nat /\ lowest \in Nat /\ highest \in Nat /\ marked \in Nat
           /\ ONE \in Nat /\ ONE > 0 /\ held \in Nat /\ MaxShares \in Nat
           /\ gain \in Int
<1>1. ledger \in Ledgers /\ gain \in Int /\ MaxShares \in Nat /\ ONE \in Nat /\ ONE > 0
  BY LotsAssumption, PricesAssumption DEF LedgerTypeOK
<1>2. price \in Nat /\ lowest \in Nat /\ highest \in Nat /\ marked \in Nat
  BY PriceType DEF LedgerTypeOK
<1>3. held \in Nat
  BY <1>1, SMT DEF LedgerTypeOK
<1> QED BY <1>1, <1>2, <1>3, SharesType

\* A ledger before it is marked, with `added` shares entered and blended in, or
\* `removed` taken out at the entry price they have.
Counted(c, added, removed) ==
    /\ c \in Ledgers
    /\ added \in Nat /\ removed \in Nat /\ (added = 0 \/ removed = 0)
    /\ removed <= Shares(ledger)
    /\ Shares(c) = Shares(ledger) + added - removed
    /\ c.shares <= MaxShares /\ c.private_shares <= MaxShares
    /\ c.syncs = ledger.syncs
    /\ c.entry_price
         = IF added = 0 THEN ledger.entry_price
           ELSE (ledger.entry_price * Shares(ledger) + price * added)
                  \div (Shares(ledger) + added)

\* Then it is marked.
CountedStep(c, added, removed) ==
    /\ Counted(c, added, removed)
    /\ ledger' = Mark(c, price)
    /\ Recorded(added, removed)
    /\ UNCHANGED <<price, held>>

\* What the step leaves of the ledger.
LEMMA CountedLedger ==
    ASSUME LedgerTypeOK, NEW c, NEW added, NEW removed, CountedStep(c, added, removed)
    PROVE  /\ ledger' \in Ledgers
           /\ Shares(ledger') = Shares(c)
           /\ ledger'.entry_price = c.entry_price
           /\ ledger'.syncs = ledger.syncs + 1
           /\ ledger'.yield_usdc = Mark(c, price).yield_usdc
           /\ OnPaper(ledger', price) = OnPaper(c, price)
           /\ ledger'.shares <= MaxShares /\ ledger'.private_shares <= MaxShares
<1>1. c \in Ledgers /\ price \in Nat /\ ledger' = Mark(c, price)
  BY LedgerNumbers DEF CountedStep, Counted
<1>2. /\ ledger' \in Ledgers
      /\ ledger'.shares = c.shares /\ ledger'.private_shares = c.private_shares
      /\ ledger'.entry_price = c.entry_price /\ ledger'.syncs = c.syncs + 1
  BY <1>1, Marked
<1>3. Shares(ledger') = Shares(c)
  BY <1>2 DEF Shares
<1>4. OnPaper(ledger', price) = OnPaper(c, price)
  BY <1>2, <1>3 DEF OnPaper
<1> QED BY <1>1, <1>2, <1>3, <1>4 DEF CountedStep, Counted

\* It keeps the types.
LEMMA CountedType ==
    ASSUME LedgerTypeOK, NEW c, NEW added, NEW removed, CountedStep(c, added, removed)
    PROVE  LedgerTypeOK'
<1>1. /\ price' = price /\ held' = held /\ marked' = price
      /\ lowest' \in {lowest, price} /\ highest' \in {highest, price}
  BY DEF CountedStep, Recorded
<1>2. gain' \in Int
  <2>1. /\ gain' = gain + Shares(ledger) * (price - marked)
                        - removed * (price - ledger.entry_price)
        /\ removed \in Nat
    BY DEF CountedStep, Counted, Recorded
  <2>2. /\ Shares(ledger) * (price - marked) \in Int
        /\ removed * (price - ledger.entry_price) \in Int
    BY <2>1, LedgerNumbers, SMT
  <2> QED BY <2>1, <2>2, LedgerNumbers, SMT
<1> QED BY <1>1, <1>2, CountedLedger DEF LedgerTypeOK

\* A blended entry price stays between the bounds, which cover the price of
\* what is entered; what leaves moves neither.
LEMMA CountedInRange ==
    ASSUME LedgerTypeOK, EntryInRange, NEW c, NEW added, NEW removed,
           CountedStep(c, added, removed)
    PROVE  EntryInRange'
<1> DEFINE e == ledger.entry_price
           n == Shares(ledger)
<1>1. /\ added \in Nat /\ removed \in Nat /\ (added = 0 \/ removed = 0)
      /\ removed <= n /\ Shares(c) = n + added - removed
      /\ c.entry_price = IF added = 0 THEN e ELSE (e * n + price * added) \div (n + added)
      /\ lowest' = IF added = 0 THEN lowest
                   ELSE IF n = 0 \/ price < lowest THEN price ELSE lowest
      /\ highest' = IF added = 0 THEN highest
                    ELSE IF n = 0 \/ price > highest THEN price ELSE highest
  BY DEF CountedStep, Counted, Recorded
<1>2. /\ n \in Nat /\ e \in Nat /\ price \in Nat /\ lowest \in Nat /\ highest \in Nat
      /\ n > 0 => e \in lowest .. highest
  BY LedgerNumbers DEF EntryInRange
<1>3. Shares(ledger') = Shares(c) /\ ledger'.entry_price = c.entry_price
  BY CountedLedger
<1> HIDE DEF e, n
<1>4. ASSUME Shares(c) > 0 PROVE c.entry_price \in lowest' .. highest'
  <2>1. CASE added = 0
    BY <1>1, <1>2, <1>4, <2>1, SMT
  <2>2. CASE added > 0
    <3>1. /\ lowest' \in Nat /\ highest' \in Nat /\ n + added > 0
          /\ lowest' <= price /\ price <= highest'
          /\ n > 0 => lowest' <= e /\ e <= highest'
      BY <1>1, <1>2, <2>2, SMT
    <3>2. (e * n + price * added) \div (n + added) \in lowest' .. highest'
      BY <1>1, <1>2, <3>1, Average
    <3> QED BY <1>1, <2>2, <3>2
  <2> QED BY <1>1, <2>1, <2>2, SMT
<1> QED BY <1>3, <1>4 DEF EntryInRange

\* Paper gains move by the price on the shares there were, and with the shares
\* that leave; entering some at today's price gains nothing, and rounding the
\* blend down less than one for each share there is then.
LEMMA CountedOnPaper ==
    ASSUME LedgerTypeOK, GainOnPaper, NEW c, NEW added, NEW removed,
           CountedStep(c, added, removed)
    PROVE  /\ gain' <= OnPaper(c, price)
           /\ OnPaper(c, price) <= gain' + RoundedAway'
<1> DEFINE e == ledger.entry_price
           n == Shares(ledger)
           p == price
           m == marked
           r == removed
           f == c.entry_price
           old == n * (m - e)
           moved == n * (p - m)
           took == r * (p - e)
           new == Shares(c) * (p - f)
           slack == RoundedAway
           one == 2 * MaxShares
<1>1. /\ added \in Nat /\ r \in Nat /\ (added = 0 \/ r = 0)
      /\ r <= n /\ Shares(c) = n + added - r
      /\ f = IF added = 0 THEN e ELSE (e * n + p * added) \div (n + added)
      /\ gain' = gain + moved - took
      /\ c.shares <= MaxShares /\ c.private_shares <= MaxShares /\ c \in Ledgers
  BY DEF CountedStep, Counted, Recorded
<1>2. n \in Nat /\ e \in Nat /\ p \in Nat /\ m \in Nat /\ gain \in Int /\ MaxShares \in Nat
  BY LedgerNumbers
<1>3. f \in Nat /\ Shares(c) \in Nat /\ Shares(c) <= one
  BY <1>1, <1>2, SharesType, SMT
<1>4. gain <= old /\ old <= gain + slack
  BY DEF GainOnPaper, OnPaper
<1>5. OnPaper(c, price) = new
  BY DEF OnPaper
<1>6. slack \in Nat /\ RoundedAway' = slack + one /\ one \in Nat
  <2>1. ledger'.syncs = ledger.syncs + 1
    BY CountedLedger
  <2>2. RoundedAway' = (ledger.syncs + 1) * 2 * MaxShares
    BY <2>1 DEF RoundedAway
  <2>3. slack = ledger.syncs * 2 * MaxShares
    BY DEF RoundedAway
  <2>4. ledger.syncs \in Nat
    BY LedgerNumbers
  <2> HIDE DEF slack
  <2> QED BY <1>2, <2>2, <2>3, <2>4, SMT
<1> HIDE DEF e, n, p, m, r, f, slack
<1>7. /\ old \in Int /\ moved \in Int /\ took \in Int /\ new \in Int
      /\ old + moved = n * (p - e)
  BY <1>1, <1>2, <1>3, SMT
<1>8. old + moved - took <= new /\ new <= old + moved - took + one
  <2>1. CASE added = 0
    <3>1. Shares(c) = n - r /\ f = e
      BY <1>1, <1>2, <2>1, SMT
    <3>2. (n - r) * (p - e) = n * (p - e) - r * (p - e)
      BY <1>1, <1>2, SMT
    <3>3. new = old + moved - took
      BY <1>7, <3>1, <3>2
    <3> HIDE DEF old, moved, took, new, one
    <3> QED BY <1>6, <1>7, <3>3, SMT
  <2>2. CASE added > 0
    <3> DEFINE N == n + added
               S == e * n + p * added
    <3>0. S \in Nat
      BY <1>1, <1>2, SMT
    <3>1. /\ r = 0 /\ Shares(c) = N /\ N \in Nat /\ N > 0
          /\ f = S \div N /\ N <= one
      <4>1. r = 0 /\ added # 0
        BY <1>1, <2>2, SMT
      <4>2. Shares(c) = N
        BY <1>1, <1>2, <4>1, SMT
      <4> QED BY <1>1, <1>2, <1>3, <2>2, <4>1, <4>2, SMT
    <3>2. f * N <= S /\ S < (f + 1) * N
      BY <3>0, <3>1, Quotient
    <3>3. /\ new = N * p - f * N /\ (f + 1) * N = f * N + N
          /\ f * N \in Nat /\ N * p \in Nat
      BY <1>2, <1>3, <3>1, SMT
    <3>4. N * p - S = n * (p - e)
      BY <1>1, <1>2, SMT
    <3>5. took = 0
      BY <1>2, <3>1, SMT
    <3> DEFINE fn == f * N
               pn == N * p
               on == n * (p - e)
    <3>6. /\ fn \in Nat /\ pn \in Nat /\ fn <= S /\ S < fn + N /\ new = pn - fn
          /\ pn - S = on /\ old + moved = on
      BY <1>7, <3>2, <3>3, <3>4
    <3> HIDE DEF fn, pn, on, N, S, old, moved, took, new, one
    <3> QED BY <1>6, <1>7, <3>0, <3>1, <3>5, <3>6, SMT
  <2> QED BY <1>1, <2>1, <2>2, SMT
<1> HIDE DEF old, moved, took, new, one
<1> QED BY <1>1, <1>2, <1>4, <1>5, <1>6, <1>7, <1>8, SMT

\* What is shown is within one of the paper gain, and so of what bounds that.
LEMMA ShownWithin ==
    ASSUME NEW l \in Ledgers, NEW p \in Nat, NEW g \in Int, NEW slack \in Int,
           g <= OnPaper(l, p), OnPaper(l, p) <= g + slack
    PROVE  LET shown == Mark(l, p).yield_usdc
           IN  /\ shown > 0 => shown * ONE < g + slack + ONE
               /\ shown * ONE > g - ONE
<1> DEFINE shown == Mark(l, p).yield_usdc
           so == shown * ONE
           paper == OnPaper(l, p)
<1>1. /\ paper \in Int /\ shown \in Nat
      /\ shown > 0 => so < paper + ONE
      /\ so > paper - ONE
  BY ShownOnPaper
<1>2. so \in Int /\ ONE \in Int
  BY <1>1, PricesAssumption, SMT
<1>3. g <= paper /\ paper <= g + slack
  OBVIOUS
<1> HIDE DEF shown, so, paper
<1>4. (shown > 0 => so < g + slack + ONE) /\ so > g - ONE
  BY <1>1, <1>2, <1>3, SMT
<1> QED BY <1>4 DEF so, shown

\* So an instruction that marks the ledger keeps its invariant.
LEMMA CountedCorrect ==
    ASSUME LedgerInv, NEW c, NEW added, NEW removed, CountedStep(c, added, removed)
    PROVE  LedgerInv'
<1>1. LedgerTypeOK /\ EntryInRange /\ GainOnPaper
  BY DEF LedgerInv
<1>2. LedgerTypeOK' /\ EntryInRange'
  BY <1>1, CountedType, CountedInRange
<1>3. /\ gain' <= OnPaper(c, price)
      /\ OnPaper(c, price) <= gain' + RoundedAway'
  BY <1>1, CountedOnPaper
<1>4. /\ OnPaper(ledger', price) = OnPaper(c, price) /\ marked' = price
      /\ ledger'.yield_usdc = Mark(c, price).yield_usdc
      /\ c \in Ledgers /\ price \in Nat
  BY <1>1, CountedLedger, LedgerNumbers DEF CountedStep, Counted, Recorded
<1>5. GainOnPaper'
  BY <1>3, <1>4 DEF GainOnPaper, OnPaper
<1>6. YieldIsPriceMoves'
  <2>1. gain' \in Int /\ MaxShares \in Nat /\ ledger'.syncs \in Nat
    BY <1>1, <1>2, LedgerNumbers, SharesType DEF LedgerTypeOK
  <2>2. RoundedAway' \in Int
    BY <2>1, SMT DEF RoundedAway
  <2>3. /\ ledger'.yield_usdc > 0
             => ledger'.yield_usdc * ONE < gain' + RoundedAway' + ONE
        /\ ledger'.yield_usdc * ONE > gain' - ONE
    BY <1>3, <1>4, <2>1, <2>2, ShownWithin
  <2> QED BY <2>3 DEF YieldIsPriceMoves
<1> QED BY <1>2, <1>5, <1>6 DEF LedgerInv

-----------------------------------------------------------------------------
(***************************************************************************)
(* The instructions.                                                       *)
(***************************************************************************)
\* A new ledger.
LEMMA InitLedger == LedgerInit => LedgerInv
<1> SUFFICES ASSUME LedgerInit PROVE LedgerInv
  OBVIOUS
<1>1. 0 \in 0 .. MaxShares /\ ONE \in Nat /\ ONE > 0 /\ ONE \in Prices /\ MaxShares \in Nat
  BY LotsAssumption, PricesAssumption, SMT
<1>2. /\ ledger \in Ledgers /\ Shares(ledger) = 0
      /\ ledger.shares = 0 /\ ledger.private_shares = 0
      /\ ledger.entry_price = ONE /\ ledger.yield_usdc = 0 /\ ledger.syncs = 0
  BY <1>1, SMT DEF LedgerInit, Ledgers, Shares
<1>3. gain = 0 /\ marked = ONE
  BY DEF LedgerInit
<1>4. LedgerTypeOK
  <2>1. {price, lowest, highest, marked} \subseteq Prices
    BY <1>1 DEF LedgerInit
  <2>2. held \in 0 .. MaxShares
    BY <1>1 DEF LedgerInit
  <2>3. ledger.shares <= MaxShares /\ ledger.private_shares <= MaxShares
    BY <1>1, <1>2, SMT
  <2> QED BY <1>2, <1>3, <2>1, <2>2, <2>3, SMT DEF LedgerTypeOK
<1>5. EntryInRange
  BY <1>2, SMT DEF EntryInRange
<1>6. OnPaper(ledger, marked) = 0 /\ RoundedAway = 0
  <2>1. OnPaper(ledger, marked) = 0 * (ONE - ONE)
    BY <1>2, <1>3 DEF OnPaper
  <2>2. RoundedAway = 0 * 2 * MaxShares
    BY <1>2 DEF RoundedAway
  <2> QED BY <1>1, <2>1, <2>2, SMT
<1>7. GainOnPaper
  BY <1>3, <1>6, SMT DEF GainOnPaper
<1>8. YieldIsPriceMoves
  <2>1. 0 * ONE = 0
    BY <1>1, SMT
  <2> QED BY <1>1, <1>2, <1>3, <2>1, SMT DEF YieldIsPriceMoves
<1> QED BY <1>4, <1>5, <1>7, <1>8 DEF LedgerInv

\* What does not touch the ledger or its ghosts.
LEMMA Untouched ==
    ASSUME LedgerInv, UNCHANGED <<ledger, ghosts>>,
           price' \in Prices, held' \in 0 .. MaxShares
    PROVE  LedgerInv'
  BY DEF ghosts, LedgerInv, LedgerTypeOK, EntryInRange, GainOnPaper, YieldIsPriceMoves,
         OnPaper, RoundedAway, Shares

\* deposit and redeem, of agYLD, and a price that moves.
LEMMA StepOutside ==
    ASSUME LedgerInv, Outside
    PROVE  LedgerInv'
<1>1. price \in Prices /\ held \in 0 .. MaxShares /\ MaxShares \in Nat
  BY LotsAssumption DEF LedgerInv, LedgerTypeOK
<1>2. ASSUME NEW shares \in Lots, BuyPublic(shares) \/ SellPublic(shares) PROVE LedgerInv'
  <2>1. shares \in Nat
    BY LotsAssumption
  <2>2. held' \in 0 .. MaxShares
    BY <1>1, <1>2, <2>1, SMT DEF BuyPublic, SellPublic
  <2> QED BY <1>1, <1>2, <2>2, Untouched DEF BuyPublic, SellPublic
<1>3. ASSUME NEW p \in Prices, PriceMoves(p) PROVE LedgerInv'
  BY <1>1, <1>3, Untouched DEF PriceMoves
<1> QED BY <1>2, <1>3 DEF Outside

\* What blend_entry makes of a ledger.
LEMMA Blended ==
    ASSUME NEW l \in Ledgers, NEW added \in Nat, added > 0, NEW p \in Nat
    PROVE  /\ BlendEntry(l, added, p) \in Ledgers
           /\ BlendEntry(l, added, p).shares = l.shares
           /\ BlendEntry(l, added, p).private_shares = l.private_shares
           /\ BlendEntry(l, added, p).syncs = l.syncs
           /\ BlendEntry(l, added, p).entry_price
                = (l.entry_price * Shares(l) + p * added) \div (Shares(l) + added)
<1> DEFINE e == l.entry_price
           a == Shares(l)
           q == (e * a + p * added) \div (a + added)
<1>1. a \in Nat /\ e \in Nat /\ a + added > 0 /\ a + added # 0 /\ a + added \in Nat
  BY SharesType, SMT
<1>2. e * a + p * added \in Nat
  <2> HIDE DEF e, a
  <2> QED BY <1>1, SMT
<1>3. q \in Nat
  BY <1>1, <1>2, Quotient
<1>4. BlendEntry(l, added, p) = [l EXCEPT !.entry_price = q]
  BY <1>1 DEF BlendEntry
<1> HIDE DEF q
<1>5. /\ BlendEntry(l, added, p) \in Ledgers
      /\ BlendEntry(l, added, p).shares = l.shares
      /\ BlendEntry(l, added, p).private_shares = l.private_shares
      /\ BlendEntry(l, added, p).syncs = l.syncs
      /\ BlendEntry(l, added, p).entry_price = q
  BY <1>3, <1>4, SMT DEF Ledgers
<1> QED BY <1>5 DEF q

\* deposit_private: the entry price is blended before the shares are counted.
LEMMA StepDepositPrivate ==
    ASSUME LedgerInv, NEW shares \in Lots, DepositPrivate(shares)
    PROVE  LedgerInv'
<1> DEFINE blended == BlendEntry(ledger, shares, price)
           counted == [blended EXCEPT !.private_shares = @ + shares]
<1>1. shares \in Nat /\ shares > 0
  BY LotsAssumption
<1>2. /\ ledger \in Ledgers /\ price \in Nat /\ Shares(ledger) \in Nat
      /\ ledger.private_shares \in Nat /\ ledger.shares \in Nat
      /\ Shares(ledger) = ledger.shares + ledger.private_shares
      /\ ledger.shares <= MaxShares
  BY LedgerNumbers DEF LedgerInv, LedgerTypeOK
<1>3. /\ blended \in Ledgers
      /\ blended.shares = ledger.shares /\ blended.syncs = ledger.syncs
      /\ blended.private_shares = ledger.private_shares
      /\ blended.entry_price = (ledger.entry_price * Shares(ledger) + price * shares)
                                 \div (Shares(ledger) + shares)
  BY <1>1, <1>2, Blended
<1>4. ledger' = Mark(counted, price)
  BY DEF DepositPrivate, Minted
<1> HIDE DEF blended
<1>5. /\ counted \in Ledgers /\ counted.shares = blended.shares
      /\ counted.private_shares = blended.private_shares + shares
      /\ counted.syncs = blended.syncs /\ counted.entry_price = blended.entry_price
  BY <1>1, <1>2, <1>3, SMT DEF Ledgers
<1> HIDE DEF counted
<1>6. Shares(counted) = Shares(ledger) + shares - 0 /\ shares # 0 /\ 0 <= Shares(ledger)
  BY <1>1, <1>2, <1>3, <1>5, SMT DEF Shares
<1>7. counted.private_shares <= MaxShares
  BY <1>3, <1>5 DEF DepositPrivate
<1>8. Counted(counted, shares, 0)
  BY <1>1, <1>2, <1>3, <1>5, <1>6, <1>7 DEF Counted
<1>9. CountedStep(counted, shares, 0)
  BY <1>4, <1>8 DEF DepositPrivate, CountedStep
<1> QED BY <1>9, CountedCorrect

\* redeem_private: shares leave at the entry price they have.
LEMMA StepRedeemPrivate ==
    ASSUME LedgerInv, NEW shares \in Lots, RedeemPrivate(shares)
    PROVE  LedgerInv'
<1> DEFINE left == [ledger EXCEPT !.private_shares = @ - shares]
<1>1. /\ shares \in Nat /\ shares <= ledger.private_shares
      /\ ledger \in Ledgers /\ MaxShares \in Nat
      /\ ledger.private_shares \in Nat /\ ledger.shares \in Nat
      /\ Shares(ledger) = ledger.shares + ledger.private_shares
      /\ ledger.shares <= MaxShares /\ ledger.private_shares <= MaxShares
  BY LotsAssumption, LedgerNumbers DEF RedeemPrivate, LedgerInv, LedgerTypeOK
<1>2. ledger.private_shares - shares \in Nat
  BY <1>1, SMT
<1>3. /\ left \in Ledgers /\ left.entry_price = ledger.entry_price
      /\ left.shares = ledger.shares /\ left.syncs = ledger.syncs
      /\ left.private_shares = ledger.private_shares - shares
  BY <1>1, <1>2, SMT DEF Ledgers
<1>4. ledger' = Mark(left, price)
  BY DEF RedeemPrivate, Burned
<1> HIDE DEF left
<1>5. /\ Shares(left) = Shares(ledger) + 0 - shares /\ shares <= Shares(ledger)
      /\ left.private_shares <= MaxShares
  BY <1>1, <1>3, SMT DEF Shares
<1>6. Counted(left, 0, shares)
  BY <1>1, <1>3, <1>5 DEF Counted
<1>7. CountedStep(left, 0, shares)
  BY <1>4, <1>6 DEF RedeemPrivate, CountedStep
<1> QED BY <1>7, CountedCorrect

\* sync_position: shares that appeared are entered at the price of the moment,
\* shares that are gone leave.
LEMMA StepSyncPosition ==
    ASSUME LedgerInv, NEW seen \in {0, held}, SyncPosition(seen)
    PROVE  LedgerInv'
<1> DEFINE caughtUp == IF seen > ledger.shares
                       THEN BlendEntry(ledger, seen - ledger.shares, price) ELSE ledger
           counted  == [caughtUp EXCEPT !.shares = seen]
<1>1. /\ ledger \in Ledgers /\ price \in Nat /\ MaxShares \in Nat
      /\ ledger.shares \in Nat /\ ledger.private_shares \in Nat
      /\ Shares(ledger) \in Nat
      /\ Shares(ledger) = ledger.shares + ledger.private_shares
      /\ ledger.private_shares <= MaxShares
      /\ held \in Nat /\ held <= MaxShares
  <2>1. held \in 0 .. MaxShares /\ MaxShares \in Nat
    BY LotsAssumption DEF LedgerInv, LedgerTypeOK
  <2> QED BY <2>1, LedgerNumbers, SMT DEF LedgerInv, LedgerTypeOK
<1>2. seen \in Nat /\ seen <= MaxShares
  BY <1>1, SMT
<1>3. ledger' = Mark(counted, price) /\ UNCHANGED <<price, held>>
  BY DEF SyncPosition, Synced
<1>4. CASE seen > ledger.shares
  <2> DEFINE added == seen - ledger.shares
  <2>1. added \in Nat /\ added > 0 /\ added # 0
    BY <1>1, <1>2, <1>4, SMT
  <2>2. Recorded(added, 0) /\ caughtUp = BlendEntry(ledger, added, price)
    BY <1>4 DEF SyncPosition
  <2> HIDE DEF caughtUp
  <2>3. /\ caughtUp \in Ledgers /\ caughtUp.private_shares = ledger.private_shares
        /\ caughtUp.syncs = ledger.syncs
        /\ caughtUp.entry_price = (ledger.entry_price * Shares(ledger) + price * added)
                                    \div (Shares(ledger) + added)
    <3> HIDE DEF added
    <3> QED BY <1>1, <2>1, <2>2, Blended
  <2>4. /\ counted \in Ledgers /\ counted.shares = seen
        /\ counted.private_shares = caughtUp.private_shares
        /\ counted.syncs = caughtUp.syncs /\ counted.entry_price = caughtUp.entry_price
    BY <1>2, <2>3, SMT DEF Ledgers
  <2> HIDE DEF counted
  <2>5. Shares(counted) = Shares(ledger) + added - 0 /\ 0 <= Shares(ledger)
    BY <1>1, <1>2, <2>3, <2>4, SMT DEF Shares
  <2> HIDE DEF added
  <2>6. Counted(counted, added, 0)
    BY <1>1, <1>2, <2>1, <2>3, <2>4, <2>5 DEF Counted
  <2>7. CountedStep(counted, added, 0)
    BY <1>3, <2>2, <2>6 DEF CountedStep
  <2> QED BY <2>7, CountedCorrect
<1>5. CASE ~(seen > ledger.shares)
  <2> DEFINE removed == ledger.shares - seen
  <2>1. removed \in Nat
    BY <1>1, <1>2, <1>5, SMT
  <2>2. Recorded(0, removed) /\ caughtUp = ledger
    BY <1>5 DEF SyncPosition
  <2> HIDE DEF caughtUp
  <2>3. /\ counted \in Ledgers /\ counted.shares = seen
        /\ counted.private_shares = ledger.private_shares
        /\ counted.syncs = ledger.syncs /\ counted.entry_price = ledger.entry_price
    BY <1>1, <1>2, <2>2, SMT DEF Ledgers
  <2> HIDE DEF counted
  <2>4. Shares(counted) = Shares(ledger) + 0 - removed /\ removed <= Shares(ledger)
    BY <1>1, <1>2, <2>3, SMT DEF Shares
  <2> HIDE DEF removed
  <2>5. Counted(counted, 0, removed)
    BY <1>1, <1>2, <2>1, <2>3, <2>4 DEF Counted
  <2>6. CountedStep(counted, 0, removed)
    BY <1>3, <2>2, <2>5 DEF CountedStep
  <2> QED BY <2>6, CountedCorrect
<1> QED BY <1>4, <1>5

-----------------------------------------------------------------------------
(***************************************************************************)
(* The position.                                                           *)
(***************************************************************************)
\* A step of the position is one of its ledger, or one of its session and gate.
LEMMA StepLedger ==
    ASSUME LedgerInv, [PositionNext]_positionAll
    PROVE  LedgerInv'
<1>1. ASSUME UNCHANGED ledgerVars PROVE LedgerInv'
  <2>1. price' \in Prices /\ held' \in 0 .. MaxShares /\ UNCHANGED <<ledger, ghosts>>
    BY <1>1 DEF ledgerVars, LedgerInv, LedgerTypeOK
  <2> QED BY <2>1, Untouched
<1>2. ASSUME Outside PROVE LedgerInv'
  BY <1>2, StepOutside
<1>3. ASSUME InEnclave PROVE LedgerInv'
  BY <1>3, StepDepositPrivate, StepRedeemPrivate, StepSyncPosition DEF InEnclave
<1> QED BY <1>1, <1>2, <1>3 DEF PositionNext, positionAll

\* What a step of the position is to its session and gate.
LEMMA AccessStep ==
    ASSUME [PositionNext]_positionAll
    PROVE  [Next]_vars
  BY DEF PositionNext, positionAll

\* Doing nothing keeps what is said of the session and the gate.
LEMMA AccessStutter ==
    ASSUME TypeOK, UNCHANGED vars
    PROVE  /\ TypeOK'
           /\ LifetimeBounded => LifetimeBounded'
           /\ InStep => InStep'
  BY DEF vars, positionVars, TypeOK, LifetimeBounded, InStep, AwayIsClosed,
         FlagMirrorsGate, SessionIsTheReader

\* The invariant of the ledger holds in every execution.
LEMMA LedgerCorrect ==
    PositionSpec => [](TypeOK /\ LedgerInv)
<1> DEFINE Inv == TypeOK /\ LedgerInv
<1>1. PositionInit => Inv
  BY InitAccessType, InitLedger DEF PositionInit
<1>2. Inv /\ [PositionNext]_positionAll => Inv'
  BY StepLedger, AccessStep, StepAccessType, AccessStutter
<1> QED BY <1>1, <1>2, PTL DEF PositionSpec

\* Every variable of a position holds a value of its kind.
THEOREM TypeCorrect == PositionSpec => []PositionTypeOK
<1>1. TypeOK /\ LedgerInv => PositionTypeOK
  BY DEF LedgerInv, PositionTypeOK
<1> QED BY <1>1, LedgerCorrect, PTL

\* The entry price lies between the lowest and the highest price at which shares
\* were entered since the position was last empty, wherever the price goes and
\* whatever is synced late, again or in part (blend_entry, sync_position).
THEOREM EntryPriceInRange == PositionSpec => []EntryInRange
<1>1. TypeOK /\ LedgerInv => EntryInRange
  BY DEF LedgerInv
<1> QED BY <1>1, LedgerCorrect, PTL

\* The yield a position shows is what the price did to its shares while it had
\* them, less what left with exits, up to the rounding of each blend and of the
\* mark; a loss shows as none (mark, blend_entry, sync_position).
THEOREM ShownYieldIsPriceMoves == PositionSpec => []YieldIsPriceMoves
<1>1. TypeOK /\ LedgerInv => YieldIsPriceMoves
  BY DEF LedgerInv
<1> QED BY <1>1, LedgerCorrect, PTL

\* No chain of authorisations, rotations and moves makes a session key outlive
\* its term counted from today (SESSION_TTL, rotate_session).
THEOREM SessionLifetime == PositionSpec => []LifetimeBounded
<1> DEFINE Inv == TypeOK /\ LifetimeBounded
<1>1. PositionInit => Inv
  <2> SUFFICES ASSUME PositionInit PROVE Inv
    OBVIOUS
  <2>1. TypeOK
    BY InitAccessType DEF PositionInit
  <2>2. session_expiry = 0 /\ now = 0
    BY DEF PositionInit, Init
  <2>3. 0 <= 0 + SESSION_TTL + Leeway
    BY TimesAssumption, SMT
  <2> QED BY <2>1, <2>2, <2>3 DEF LifetimeBounded
<1>2. Inv /\ [PositionNext]_positionAll => Inv'
  BY AccessStep, StepAccessType, StepLifetime, AccessStutter
<1> QED BY <1>1, <1>2, PTL DEF PositionSpec

\* Only a new authorisation on Solana sets the expiry back: between two of them,
\* through moves out of the enclave and in, no rotation message is accepted twice
\* (rotate_session, authorize_session).
THEOREM OnlyAuthorisationsSetBack == PositionSpec => ExpiryForward
<1>1. PositionInit => TypeOK
  BY InitAccessType DEF PositionInit
<1>2. TypeOK /\ [PositionNext]_positionAll => TypeOK'
  BY AccessStep, StepAccessType, AccessStutter
<1>3. TypeOK /\ [PositionNext]_positionAll
        => [session_expiry' < session_expiry
              => \E key \in Keys : AuthorizeSession(key)]_vars
  BY AccessStep, StepExpiryForward
<1> QED BY <1>1, <1>2, <1>3, PTL DEF PositionSpec, ExpiryForward

\* A rotation keeps every admitted viewer (rotate_session).
THEOREM ViewersStay == PositionSpec => ViewersKept
<1>1. PositionInit => TypeOK
  BY InitAccessType DEF PositionInit
<1>2. TypeOK /\ [PositionNext]_positionAll => TypeOK'
  BY AccessStep, StepAccessType, AccessStutter
<1>3. TypeOK
        => [(Rotate /\ is_private)
             => permission'.members \intersect Viewers
                  = permission.members \intersect Viewers]_vars
  BY StepViewersKept
<1> QED BY <1>1, <1>2, <1>3, PTL DEF PositionSpec, ViewersKept

\* If the permission is closed before the position leaves the enclave, as
\* undelegate_position asks, and an opened position is not initialised again,
\* gate and flag go together in every execution.
LEMMA GateInStep ==
    ASSUME ClosesFirst, ~Reopens
    PROVE  PositionSpec => [](FlagMirrorsGate /\ SessionIsTheReader)
<1> DEFINE Inv == TypeOK /\ InStep
<1>1. PositionInit => Inv
  BY InitAccessType, InitInStep DEF PositionInit
<1>2. Inv /\ [PositionNext]_positionAll => Inv'
  BY AccessStep, StepAccessType, StepInStep, AccessStutter
<1>3. Inv => FlagMirrorsGate /\ SessionIsTheReader
  BY DEF InStep
<1> QED BY <1>1, <1>2, <1>3, PTL DEF PositionSpec

\* Under those two conditions is_private says whether a permission gates the
\* position (init_permission, close_permission, undelegate_position).
THEOREM FlagInStep ==
    ASSUME ClosesFirst, ~Reopens
    PROVE  PositionSpec => []FlagMirrorsGate
  BY GateInStep, PTL

\* And the one session key that reads a gated position is the one it names
\* (set_permission, rotate_session, members_args).
THEOREM NamedSessionReads ==
    ASSUME ClosesFirst, ~Reopens
    PROVE  PositionSpec => []SessionIsTheReader
  BY GateInStep, PTL

=============================================================================
