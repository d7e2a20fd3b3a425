-------------------------- MODULE PrivatePathProofs --------------------------
(***************************************************************************)
(* Theorems about the private path, for any sets of scripts, any cadences, *)
(* limits and amounts.                                                     *)
(*                                                                         *)
(* The scripts: each step makes facts no other step makes, and makes them  *)
(* together.  So a look at one tells whether the step's transaction ever   *)
(* landed, this time, in an earlier run, or late.  The exception is the    *)
(* block of two transactions setup-private.ts makes the queue with: a run  *)
(* that was cut off inside it passes over the second.  What follows waits  *)
(* for the rollup to take the queue, which it does only once that second   *)
(* transaction landed.                                                     *)
(***************************************************************************)
EXTENDS SystemPath, SumProofs

-----------------------------------------------------------------------------
\* The public keeper leaves the path alone: the whole system is the path.
LEMMA SystemIsThePath == SystemSpec => PathSpec
<1>1. SystemInit => PathInit
  BY DEF SystemInit
<1>2. [SystemNext]_systemVars => [PathNext]_pathVars
  BY DEF SystemNext, systemVars
<1> QED BY <1>1, <1>2, PTL DEF SystemSpec, PathSpec

-----------------------------------------------------------------------------
(***************************************************************************)
(* The steps of each script.                                               *)
(***************************************************************************)
\* The facts one step makes are its own.
Apart(st) ==
    \A i, j \in 1 .. Len(st) : i # j => st[i].makes \intersect st[j].makes = {}

\* A step makes something, looks only at what it makes, and skips itself alone
\* if it finds that; but for step b, which skips the next one too.
Looks(st, b) ==
    \A i \in 1 .. Len(st) :
        /\ st[i].makes # {} /\ st[i].sees \subseteq st[i].makes
        /\ st[i].block = IF i = b THEN 2 ELSE 1

\* Nothing the steps make is there to begin with, or is for a validator to make.
Fresh(st, found) ==
    \A i \in 1 .. Len(st) :
        /\ st[i].makes \intersect found = {}
        /\ \A t \in Takings : t.makes \notin st[i].makes

\* Where the step is that decides about the next one too.
Block(s) == IF s = "setup_private" THEN 8 ELSE 0

WellMade(s) ==
    /\ Len(Steps(s)) \in Nat
    /\ Apart(Steps(s)) /\ Looks(Steps(s), Block(s)) /\ Fresh(Steps(s), Found(s))

\* What validators make.
Taken == {"book_taken", "shielded_taken", "exits_taken", "queue_taken", "position_taken"}

\* Steps that make other facts.
LEMMA FreshIf ==
    ASSUME NEW st, NEW found, NEW names,
           \A i \in 1 .. Len(st) : st[i].makes \subseteq names,
           names \intersect found = {}, names \intersect Taken = {}
    PROVE  Fresh(st, found)
<1>1. \A t \in Takings : t.makes \in Taken
  BY DEF Takings, Taken
<1> QED BY <1>1 DEF Fresh

\* setup.ts
LEMMA SetupSteps ==
    /\ Len(Setup) = 5
    /\ Setup[1].makes = {"vault"} /\ Setup[2].makes = {"book"}
    /\ Setup[3].makes = {"vault_rent"} /\ Setup[4].makes = {"book_rent"}
    /\ Setup[5].makes = {"book_delegated"}
    /\ \A i \in 1 .. 5 : Setup[i].block = 1 /\ Setup[i].sees \subseteq Setup[i].makes
    /\ DOMAIN Setup = 1 .. 5
  BY SMT DEF Setup, Ensure, TopUp, Do

\* setup-private.ts
LEMMA SetupPrivateSteps ==
    LET st == SetupPrivate
    IN  /\ Len(st) = 10
        /\ st[1].makes = {"shielded", "exits"} /\ st[2].makes = {"shielded_delegated"}
        /\ st[3].makes = {"exits_delegated"} /\ st[4].makes = {"gated"}
        /\ st[5].makes = {"rent_pda"} /\ st[6].makes = {"global_vault"}
        /\ st[7].makes = {"custody"} /\ st[8].makes = {"queue"}
        /\ st[9].makes = {"queue_delegated"} /\ st[10].makes = {"crank"}
        /\ st[10].needs = {"queue_taken"}
        /\ \A i \in 1 .. 10 :
             st[i].block = (IF i = 8 THEN 2 ELSE 1) /\ st[i].sees \subseteq st[i].makes
        /\ DOMAIN st = 1 .. 10
  BY SMT DEF SetupPrivate, SetupShielded, SetupCustody, SetupQueue, Ensure, Do

\* What the two scripts leave.
LEMMA MadeBySetup ==
    Made(Setup) \union Made(SetupPrivate) \subseteq
        {"vault", "book", "vault_rent", "book_rent", "book_delegated", "shielded", "exits",
         "shielded_delegated", "exits_delegated", "gated", "rent_pda", "global_vault",
         "custody", "queue", "queue_delegated", "crank"}
<1>1. Made(Setup) \subseteq {"vault", "book", "vault_rent", "book_rent", "book_delegated"}
  BY SetupSteps, SMT DEF Made
<1>2. Made(SetupPrivate) \subseteq
        {"shielded", "exits", "shielded_delegated", "exits_delegated", "gated", "rent_pda",
         "global_vault", "custody", "queue", "queue_delegated", "crank"}
  BY SetupPrivateSteps, SMT DEF Made
<1> QED BY <1>1, <1>2

LEMMA SetupMade == WellMade("setup")
<1> DEFINE st == Setup
<1>1. Steps("setup") = st /\ Found("setup") = {} /\ Block("setup") = 0
  BY DEF Steps, Found, Block
<1> HIDE DEF st
<1>2. Len(st) = 5 /\ Apart(st) /\ Looks(st, 0)
  BY SetupSteps, SMT DEF Apart, Looks, st
<1>3. Fresh(st, {})
  <2> DEFINE names == {"vault", "book", "vault_rent", "book_rent", "book_delegated"}
  <2>1. \A i \in 1 .. Len(st) : st[i].makes \subseteq names
    BY SetupSteps, SMT DEF st
  <2>2. names \intersect {} = {} /\ names \intersect Taken = {}
    BY DEF Taken
  <2> QED BY <2>1, <2>2, FreshIf
<1>4. Len(st) \in Nat
  BY <1>2, SMT
<1> QED BY <1>1, <1>2, <1>3, <1>4, Zenon DEF WellMade

LEMMA SetupPrivateMade == WellMade("setup_private")
<1> DEFINE st == SetupPrivate
           found == {"vault", "book", "vault_rent", "book_rent", "book_delegated"}
<1>1. Steps("setup_private") = st /\ Found("setup_private") = Made(Setup)
      /\ Block("setup_private") = 8
  BY DEF Steps, Found, Block
<1>2. Made(Setup) \subseteq found
  BY SetupSteps, SMT DEF Made
<1> HIDE DEF st
<1>3. Len(st) = 10 /\ Apart(st) /\ Looks(st, 8)
  BY SetupPrivateSteps, SMT DEF Apart, Looks, st
<1>4. Fresh(st, Made(Setup))
  <2> DEFINE names == {"shielded", "exits", "shielded_delegated", "exits_delegated",
                       "gated", "rent_pda", "global_vault", "custody", "queue",
                       "queue_delegated", "crank"}
  <2>1. \A i \in 1 .. Len(st) : st[i].makes \subseteq names
    BY <1>3, SetupPrivateSteps, SMT DEF st
  <2>2. names \intersect Made(Setup) = {} /\ names \intersect Taken = {}
    BY <1>2 DEF Taken
  <2> QED BY <2>1, <2>2, FreshIf
<1> QED BY <1>1, <1>3, <1>4, SMT DEF WellMade

LEMMA MigrateMade == WellMade("migrate")
<1> DEFINE st == MigrateBook
           found == {"vault", "vault_rent"}
<1>1. Steps("migrate") = st /\ Found("migrate") = found /\ Block("migrate") = 0
  BY DEF Steps, Found, Block
<1>2. /\ Len(st) = 4
      /\ st[1].makes = {"book"} /\ st[2].makes = {"book_rent"}
      /\ st[3].makes = {"book_delegated"} /\ st[4].makes = {"ticked"}
      /\ \A i \in 1 .. 4 : st[i].block = 1 /\ st[i].sees \subseteq st[i].makes
  BY SMT DEF MigrateBook, Ensure, TopUp, Do
<1> HIDE DEF st
<1>3. Apart(st) /\ Looks(st, 0)
  BY <1>2, SMT DEF Apart, Looks
<1>4. Fresh(st, found)
  <2> DEFINE names == {"book", "book_rent", "book_delegated", "ticked"}
  <2>1. \A i \in 1 .. Len(st) : st[i].makes \subseteq names
    BY <1>2, SMT
  <2>2. names \intersect found = {} /\ names \intersect Taken = {}
    BY DEF Taken
  <2> QED BY <2>1, <2>2, FreshIf
<1>5. Len(st) \in Nat
  BY <1>2, SMT
<1> QED BY <1>1, <1>3, <1>4, <1>5, Zenon DEF WellMade

LEMMA PositionMade == WellMade("position")
<1> DEFINE st == OpenPosition
           found == Made(Setup) \union Made(SetupPrivate)
<1>1. Steps("position") = st /\ Found("position") = found /\ Block("position") = 0
  BY DEF Steps, Found, Block
<1>2. /\ Len(st) = 2
      /\ st[1].makes = {"position"} /\ st[2].makes = {"position_delegated"}
      /\ \A i \in 1 .. 2 : st[i].block = 1 /\ st[i].sees \subseteq st[i].makes
  BY SMT DEF OpenPosition, Ensure, Do
<1> HIDE DEF st
<1>3. Apart(st) /\ Looks(st, 0)
  BY <1>2, SMT DEF Apart, Looks
<1>4. Fresh(st, found)
  <2> DEFINE names == {"position", "position_delegated"}
  <2>1. \A i \in 1 .. Len(st) : st[i].makes \subseteq names
    BY <1>2, SMT
  <2>2. names \intersect found = {} /\ names \intersect Taken = {}
    BY MadeBySetup DEF Taken
  <2> QED BY <2>1, <2>2, FreshIf
<1>5. Len(st) \in Nat
  BY <1>2, SMT
<1> QED BY <1>1, <1>3, <1>4, <1>5, Zenon DEF WellMade

LEMMA PrivacyMade == WellMade("privacy")
<1> DEFINE st == OpenPosition \o SealPosition
           found == Made(Setup) \union Made(SetupPrivate) \union {"prepared"}
<1>1. Steps("privacy") = st /\ Found("privacy") = found /\ Block("privacy") = 0
  BY DEF Steps, Found, Block
<1>2. /\ Len(st) = 4
      /\ st[1].makes = {"position"} /\ st[2].makes = {"position_delegated"}
      /\ st[3].makes = {"sealed"} /\ st[4].makes = {"marked"}
      /\ \A i \in 1 .. 4 : st[i].block = 1 /\ st[i].sees \subseteq st[i].makes
  BY SMT DEF OpenPosition, SealPosition, Ensure, Do
<1> HIDE DEF st
<1>3. Apart(st) /\ Looks(st, 0)
  BY <1>2, SMT DEF Apart, Looks
<1>4. Fresh(st, found)
  <2> DEFINE names == {"position", "position_delegated", "sealed", "marked"}
  <2>1. \A i \in 1 .. Len(st) : st[i].makes \subseteq names
    BY <1>2, SMT
  <2>2. names \intersect found = {} /\ names \intersect Taken = {}
    BY MadeBySetup DEF Taken
  <2> QED BY <2>1, <2>2, FreshIf
<1>5. Len(st) \in Nat
  BY <1>2, SMT
<1> QED BY <1>1, <1>3, <1>4, <1>5, Zenon DEF WellMade

LEMMA EndToEndMade == WellMade("e2e")
<1> DEFINE st == Bundle \o SealAndSync \o DepositAgain
           found == Made(Setup) \union Made(SetupPrivate)
<1>1. Steps("e2e") = st /\ Found("e2e") = found /\ Block("e2e") = 0
  BY DEF Steps, Found, Block
<1>2. /\ Len(st) = 5
      /\ st[1].makes = {"sol"} /\ st[2].makes = {"usdc"}
      /\ st[3].makes = {"deposited", "position", "prepared", "session", "position_delegated"}
      /\ st[4].makes = {"sealed", "marked"} /\ st[5].makes = {"deposited_again"}
      /\ \A i \in 1 .. 5 : st[i].block = 1 /\ st[i].sees \subseteq st[i].makes
  BY SMT DEF Bundle, SealAndSync, DepositAgain, Do
<1> HIDE DEF st
<1>3. Apart(st) /\ Looks(st, 0)
  BY <1>2, SMT DEF Apart, Looks
<1>4. Fresh(st, found)
  <2> DEFINE names == {"sol", "usdc", "deposited", "position", "prepared", "session",
                      "position_delegated", "sealed", "marked", "deposited_again"}
  <2>1. \A i \in 1 .. Len(st) : st[i].makes \subseteq names
    BY <1>2, SMT
  <2>2. names \intersect found = {} /\ names \intersect Taken = {}
    BY MadeBySetup DEF Taken
  <2> QED BY <2>1, <2>2, FreshIf
<1>5. Len(st) \in Nat
  BY <1>2, SMT
<1> QED BY <1>1, <1>3, <1>4, <1>5, Zenon DEF WellMade

\* Every script there is.
LEMMA AllMade ==
    ASSUME NEW s \in Scripts
    PROVE  WellMade(s)
  BY ScriptsAssumption, SetupMade, SetupPrivateMade, MigrateMade, PositionMade,
     PrivacyMade, EndToEndMade

-----------------------------------------------------------------------------
(***************************************************************************)
(* A run of a script.                                                      *)
(***************************************************************************)
St == Steps(script)

\* The facts of a step come together.
Together ==
    \A i \in 1 .. Last : St[i].makes \intersect world # {} => Landed(i)

\* Everything before step k is made, but for the queue's delegation before the
\* crank.
Behind(k) ==
    \A i \in 1 .. k - 1 :
        Landed(i) \/ (script = "setup_private" /\ k = 10 /\ i = 9)

\* The queue is taken only when it was delegated.
QueueTaken ==
    script = "setup_private" => ("queue_taken" \in world => Landed(9))

ScriptKept ==
    /\ script \in Scripts
    /\ line \in 0 .. Last + 1 /\ late \subseteq 1 .. Last
    /\ Together /\ InOrder
    /\ Behind(line) /\ \A k \in late : Behind(k)
    /\ QueueTaken

\* What is known of the steps of the script that runs.
LEMMA ThisScript ==
    ASSUME script \in Scripts
    PROVE  /\ Last \in Nat /\ Last = Len(St)
           /\ Apart(St) /\ Looks(St, Block(script)) /\ Fresh(St, Found(script))
           /\ script = "setup_private" =>
                /\ Last = 10 /\ St[9].makes = {"queue_delegated"}
                /\ St[10].needs = {"queue_taken"}
<1>1. WellMade(script)
  BY AllMade
<1>2. Last = Len(St)
  BY DEF Last, St
<1>3. script = "setup_private" => St = SetupPrivate
  BY DEF St, Steps
<1> QED BY <1>1, <1>2, <1>3, SetupPrivateSteps DEF WellMade, St

\* A script begins with none of its steps made.
LEMMA ScriptBegins == ScriptsInit => ScriptKept
<1> SUFFICES ASSUME ScriptsInit PROVE ScriptKept
  OBVIOUS
<1>1. /\ script \in Scripts /\ world = Found(script) /\ line = 1 /\ late = {}
  BY DEF ScriptsInit
<1>2. \A i \in 1 .. Last : St[i].makes \intersect world = {} /\ ~Landed(i)
  BY <1>1, ThisScript DEF Looks, Fresh, Landed, St
<1>3. line \in 0 .. Last + 1 /\ Behind(line)
  BY <1>1, ThisScript, SMT DEF Behind
<1>4. QueueTaken
  <2>1. script = "setup_private" => world = Made(Setup)
    BY <1>1 DEF Found
  <2> QED BY <2>1, MadeBySetup DEF QueueTaken
<1> QED BY <1>1, <1>2, <1>3, <1>4 DEF ScriptKept, Together, InOrder

\* Step m's transaction lands: it is the only step newly made.
LEMMA StepLands ==
    ASSUME script \in Scripts, Together, NEW m \in 1 .. Last, UNCHANGED script,
           world' = world \union St[m].makes
    PROVE  /\ Together' /\ Last' = Last /\ St' = St
           /\ \A i \in 1 .. Last : Landed(i)' <=> Landed(i) \/ i = m
<1>1. Last' = Last /\ St' = St
  BY DEF Last, St
<1>2. \A i \in 1 .. Last : i # m => St[i].makes \intersect St[m].makes = {}
  BY ThisScript DEF Apart
<1>3. \A i \in 1 .. Last : Landed(i)' <=> St[i].makes \subseteq world'
  BY <1>1 DEF Landed, St
<1>4. \A i \in 1 .. Last : Landed(i) <=> St[i].makes \subseteq world
  BY DEF Landed, St
<1>5. \A i \in 1 .. Last : Landed(i)' <=> Landed(i) \/ i = m
  BY <1>2, <1>3, <1>4, ThisScript DEF Looks
<1>6. \A i \in 1 .. Last : St[i].makes \intersect world' # {} => Landed(i)'
  BY <1>2, <1>5 DEF Together
<1> QED BY <1>1, <1>5, <1>6 DEF Together

\* A validator takes an account: no step is newly made.
LEMMA TakingLands ==
    ASSUME script \in Scripts, Together, NEW t \in Takings, UNCHANGED script,
           world' = world \union {t.makes}
    PROVE  /\ Together' /\ Last' = Last /\ St' = St
           /\ \A i \in 1 .. Last : Landed(i)' <=> Landed(i)
<1>1. Last' = Last /\ St' = St
  BY DEF Last, St
<1>2. \A i \in 1 .. Last : t.makes \notin St[i].makes
  BY ThisScript DEF Fresh
<1>3. \A i \in 1 .. Last : Landed(i)' <=> St[i].makes \subseteq world'
  BY <1>1 DEF Landed, St
<1>4. \A i \in 1 .. Last : Landed(i) <=> St[i].makes \subseteq world
  BY DEF Landed, St
<1>5. \A i \in 1 .. Last : Landed(i)' <=> Landed(i)
  BY <1>2, <1>3, <1>4
<1>6. \A i \in 1 .. Last : St[i].makes \intersect world' # {} => Landed(i)'
  BY <1>2, <1>5 DEF Together
<1> QED BY <1>1, <1>5, <1>6 DEF Together

\* Nothing lands.
LEMMA NothingLands ==
    ASSUME Together, UNCHANGED <<script, world>>
    PROVE  /\ Together' /\ Last' = Last /\ St' = St
           /\ \A i \in 1 .. Last : Landed(i)' <=> Landed(i)
  BY DEF Together, Last, St, Landed

\* What is made in order stays in order when step m lands with everything
\* before it made.
LEMMA LandsInOrder ==
    ASSUME ScriptKept, UNCHANGED script, Last' = Last, Last \in Nat,
           NEW m \in 1 .. Last, \A i \in 1 .. m - 1 : Landed(i),
           \A i \in 1 .. Last : Landed(i)' <=> Landed(i) \/ i = m
    PROVE  InOrder' /\ \A k \in 0 .. Last + 1 : Behind(k) => Behind(k)'
<1>1. ASSUME NEW j \in 1 .. Last, Landed(j)', NEW i \in 1 .. j - 1
      PROVE  Landed(i)'
  <2>1. i \in 1 .. Last
    BY <1>1, SMT
  <2>2. Landed(i)
    BY <1>1 DEF ScriptKept, InOrder
  <2> QED BY <2>1, <2>2
<1>2. ASSUME NEW k \in 0 .. Last + 1, Behind(k), NEW i \in 1 .. k - 1
      PROVE  Landed(i)' \/ (script' = "setup_private" /\ k = 10 /\ i = 9)
  <2>1. i \in 1 .. Last
    BY <1>2, SMT
  <2> QED BY <1>2, <2>1 DEF Behind
<1> QED BY <1>1, <1>2 DEF InOrder, Behind

\* And when none lands.
LEMMA StaysInOrder ==
    ASSUME ScriptKept, UNCHANGED script, Last' = Last, Last \in Nat,
           \A i \in 1 .. Last : Landed(i)' <=> Landed(i)
    PROVE  InOrder' /\ \A k \in 0 .. Last + 1 : Behind(k) => Behind(k)'
<1>1. ASSUME NEW j \in 1 .. Last, Landed(j)', NEW i \in 1 .. j - 1
      PROVE  Landed(i)'
  <2>1. i \in 1 .. Last
    BY <1>1, SMT
  <2> QED BY <1>1, <2>1 DEF ScriptKept, InOrder
<1>2. ASSUME NEW k \in 0 .. Last + 1, Behind(k), NEW i \in 1 .. k - 1
      PROVE  Landed(i)' \/ (script' = "setup_private" /\ k = 10 /\ i = 9)
  <2>1. i \in 1 .. Last
    BY <1>2, SMT
  <2> QED BY <1>2, <2>1 DEF Behind
<1> QED BY <1>1, <1>2 DEF InOrder, Behind

\* A step that has what it needs has everything before it: the crank needs the
\* queue taken.
LEMMA Ready ==
    ASSUME ScriptKept, Last \in Nat, NEW k \in 1 .. Last, Behind(k),
           St[k].needs \subseteq world
    PROVE  \A i \in 1 .. k - 1 : Landed(i)
<1> SUFFICES ASSUME script = "setup_private", k = 10 PROVE Landed(9)
  BY DEF Behind
<1>1. "queue_taken" \in world
  BY ThisScript DEF ScriptKept
<1> QED BY <1>1 DEF ScriptKept, QueueTaken

\* The queue stays taken, and delegated.
LEMMA QueueStays ==
    ASSUME ScriptKept, UNCHANGED script, Last' = Last,
           "queue_taken" \in world' => "queue_taken" \in world,
           \A i \in 1 .. Last : Landed(i) => Landed(i)'
    PROVE  QueueTaken'
<1> SUFFICES ASSUME script = "setup_private", "queue_taken" \in world
             PROVE  Landed(9)'
  BY DEF QueueTaken
<1>1. Landed(9) /\ Last = 10
  BY ThisScript DEF ScriptKept, QueueTaken
<1>2. 9 \in 1 .. Last
  BY <1>1, SMT
<1> QED BY <1>1, <1>2

\* No step takes the queue.
LEMMA NoStepTakes ==
    ASSUME script \in Scripts, NEW m \in 1 .. Last
    PROVE  "queue_taken" \notin St[m].makes
<1>1. \E t \in Takings : t.makes = "queue_taken"
  BY DEF Takings
<1> QED BY <1>1, ThisScript DEF Fresh

\* A step that finds its work done is made already, and so is the one it skips.
LEMMA SkipKept ==
    ASSUME ScriptKept, Skip
    PROVE  ScriptKept'
<1>0. /\ script \in Scripts /\ Last \in Nat /\ line \in 1 .. Last
      /\ Seen(St[line]) /\ line' = line + St[line].block
      /\ UNCHANGED <<script, world, late>>
  BY ThisScript DEF ScriptKept, Skip, Proceed, Running, Step, St
<1>1. /\ Together' /\ Last' = Last /\ St' = St
      /\ \A i \in 1 .. Last : Landed(i)' <=> Landed(i)
  BY <1>0, NothingLands DEF ScriptKept
<1>2. InOrder' /\ \A k \in 0 .. Last + 1 : Behind(k) => Behind(k)'
  BY <1>0, <1>1, StaysInOrder
<1>3. Landed(line)
  <2>1. St[line].sees # {} /\ St[line].sees \subseteq world
    BY <1>0 DEF Seen
  <2>2. St[line].sees \subseteq St[line].makes
    BY <1>0, ThisScript DEF Looks
  <2> QED BY <1>0, <2>1, <2>2 DEF ScriptKept, Together
<1>4. \A i \in 1 .. line : Landed(i)
  <2>1. \A i \in 1 .. line : i = line \/ i \in 1 .. line - 1
    BY <1>0, SMT
  <2> QED BY <1>0, <1>3, <2>1 DEF ScriptKept, InOrder
<1>7. /\ line' \in 0 .. Last + 1
      /\ \A i \in 1 .. line' - 1 :
           /\ i \in 1 .. Last
           /\ i \in 1 .. line \/ (script = "setup_private" /\ line' = 10 /\ i = 9)
  <2>1. CASE line = Block(script)
    <3>1. script = "setup_private" /\ line = 8 /\ Last = 10 /\ line' = 10
      BY <1>0, <2>1, ThisScript, SMT DEF Block, Looks
    <3> QED BY <3>1, SMT
  <2>2. CASE line # Block(script)
    <3>1. line' = line + 1
      BY <1>0, <2>2, ThisScript, SMT DEF Looks
    <3> QED BY <1>0, <3>1, SMT
  <2> QED BY <2>1, <2>2
<1>8. QueueTaken'
  BY <1>0, <1>1, QueueStays
<1>5. late' \subseteq 1 .. Last /\ \A k \in late' : Behind(k)'
  <2>1. 1 .. Last \subseteq 0 .. Last + 1
    BY <1>0, SMT
  <2>2. late' = late /\ Last' = Last /\ late \subseteq 1 .. Last
    BY <1>0, <1>1 DEF ScriptKept
  <2> QED BY <1>2, <2>1, <2>2 DEF ScriptKept
<1>6. Behind(line)'
  BY <1>0, <1>1, <1>4, <1>7 DEF Behind
<1> QED BY <1>0, <1>1, <1>2, <1>5, <1>6, <1>7, <1>8 DEF ScriptKept

\* A step that lands has everything before it made.
LEMMA ConfirmKept ==
    ASSUME ScriptKept, Confirm
    PROVE  ScriptKept'
<1>0. /\ script \in Scripts /\ Last \in Nat /\ line \in 1 .. Last /\ Behind(line)
      /\ St[line].needs \subseteq world
      /\ world' = world \union St[line].makes /\ line' = line + 1
      /\ UNCHANGED <<script, late>>
  BY ThisScript DEF ScriptKept, Confirm, Proceed, Running, Step, St
<1>1. /\ Together' /\ Last' = Last /\ St' = St
      /\ \A i \in 1 .. Last : Landed(i)' <=> Landed(i) \/ i = line
  BY <1>0, StepLands DEF ScriptKept
<1>2. \A i \in 1 .. line - 1 : Landed(i)
  BY <1>0, Ready
<1>3. InOrder' /\ \A k \in 0 .. Last + 1 : Behind(k) => Behind(k)'
  BY <1>0, <1>1, <1>2, LandsInOrder
<1>4. line' \in 0 .. Last + 1 /\ Behind(line)'
  <2>1. line' \in 0 .. Last + 1
    BY <1>0, SMT
  <2>2. \A i \in 1 .. line' - 1 : i \in 1 .. Last /\ (i \in 1 .. line - 1 \/ i = line)
    BY <1>0, SMT
  <2> QED BY <1>1, <1>2, <2>1, <2>2 DEF Behind
<1>5. late' \subseteq 1 .. Last /\ \A k \in late' : Behind(k)'
  <2>1. \A k \in late : k \in 0 .. Last + 1 /\ Behind(k)
    BY <1>0, SMT DEF ScriptKept
  <2> QED BY <1>0, <1>1, <1>3, <2>1 DEF ScriptKept
<1>6. QueueTaken'
  BY <1>0, <1>1, NoStepTakes, QueueStays
<1> QED BY <1>0, <1>1, <1>3, <1>4, <1>5, <1>6 DEF ScriptKept

\* A run that is cut off leaves everything, and starts again from the first
\* step; what it gave up on comes after what was made.
LEMMA ThrowKept ==
    ASSUME ScriptKept, Throw
    PROVE  ScriptKept'
<1>0. /\ script \in Scripts /\ Last \in Nat /\ line \in 1 .. Last
      /\ line' \in {0, 1} /\ late' \subseteq late \union {line}
      /\ UNCHANGED <<script, world>>
  BY ThisScript DEF ScriptKept, Throw, Running
<1>1. /\ Together' /\ Last' = Last /\ St' = St
      /\ \A i \in 1 .. Last : Landed(i)' <=> Landed(i)
  BY <1>0, NothingLands DEF ScriptKept
<1>2. InOrder' /\ \A k \in 0 .. Last + 1 : Behind(k) => Behind(k)'
  BY <1>0, <1>1, StaysInOrder
<1>3. line' \in 0 .. Last + 1 /\ Behind(line)'
  <2>1. line' = 0 \/ line' = 1
    BY <1>0
  <2>2. \A n \in {0, 1} : n \in 0 .. Last + 1 /\ \A i \in 1 .. n - 1 : FALSE
    <3>1. Last \in Nat
      BY <1>0
    <3> QED BY <3>1, SMT
  <2>3. line' \in 0 .. Last + 1 /\ \A i \in 1 .. line' - 1 : FALSE
    BY <2>1, <2>2
  <2> QED BY <2>3 DEF Behind
<1>4. late' \subseteq 1 .. Last /\ \A k \in late' : Behind(k)'
  <2>1. \A k \in late \union {line} : k \in 0 .. Last + 1 /\ k \in 1 .. Last /\ Behind(k)
    BY <1>0, SMT DEF ScriptKept
  <2> QED BY <1>0, <1>2, <2>1
<1>5. QueueTaken'
  BY <1>0, <1>1, QueueStays
<1> QED BY <1>0, <1>1, <1>2, <1>3, <1>4, <1>5 DEF ScriptKept

\* A transaction given up on lands, late, or expires.
LEMMA LateKept ==
    ASSUME ScriptKept, NEW k \in late, LandLate(k) \/ Expire(k)
    PROVE  ScriptKept'
<1>0. /\ script \in Scripts /\ Last \in Nat /\ k \in 1 .. Last /\ Behind(k)
      /\ late' = late \ {k} /\ UNCHANGED <<script, line>>
  BY ThisScript DEF ScriptKept, LandLate, Expire
<1>1. /\ Together' /\ Last' = Last /\ St' = St
      /\ InOrder' /\ \A n \in 0 .. Last + 1 : Behind(n) => Behind(n)'
      /\ \A i \in 1 .. Last : i # k => (Landed(i)' <=> Landed(i))
  <2>1. CASE St[k].needs \subseteq world /\ world' = world \union St[k].makes
    <3>1. /\ Together' /\ Last' = Last /\ St' = St
          /\ \A i \in 1 .. Last : Landed(i)' <=> Landed(i) \/ i = k
      BY <1>0, <2>1, StepLands DEF ScriptKept
    <3>2. \A i \in 1 .. k - 1 : Landed(i)
      BY <1>0, <2>1, Ready
    <3>3. InOrder' /\ \A n \in 0 .. Last + 1 : Behind(n) => Behind(n)'
      BY <1>0, <3>1, <3>2, LandsInOrder
    <3> QED BY <3>1, <3>3
  <2>2. CASE UNCHANGED world
    <3>1. /\ Together' /\ Last' = Last /\ St' = St
          /\ \A i \in 1 .. Last : Landed(i)' <=> Landed(i)
      BY <1>0, <2>2, NothingLands DEF ScriptKept
    <3>2. InOrder' /\ \A n \in 0 .. Last + 1 : Behind(n) => Behind(n)'
      BY <1>0, <3>1, StaysInOrder
    <3> QED BY <3>1, <3>2
  <2> QED BY <2>1, <2>2 DEF LandLate, Expire, St
<1>2. line' \in 0 .. Last + 1 /\ Behind(line)'
  BY <1>0, <1>1 DEF ScriptKept, Behind
<1>3. late' \subseteq 1 .. Last /\ \A n \in late' : Behind(n)'
  <2>1. \A n \in late : n \in 0 .. Last + 1 /\ Behind(n)
    BY <1>0, SMT DEF ScriptKept
  <2> QED BY <1>0, <1>1, <2>1 DEF ScriptKept
<1>4. QueueTaken'
  <2>1. world' \subseteq world \union St[k].makes
    BY DEF LandLate, Expire, St
  <2>2. \A i \in 1 .. Last : Landed(i) => Landed(i)'
    <3>1. St[k].makes \subseteq world => St[k].makes \subseteq world'
      BY DEF LandLate, Expire
    <3> QED BY <1>0, <1>1, <3>1 DEF Landed, St
  <2> QED BY <1>0, <1>1, <2>1, <2>2, NoStepTakes, QueueStays
<1> QED BY <1>0, <1>1, <1>2, <1>3, <1>4 DEF ScriptKept

\* A validator takes an account, or the script rests.
LEMMA TakeKept ==
    ASSUME ScriptKept, (\E t \in Takings : Take(t)) \/ UNCHANGED scriptVars
    PROVE  ScriptKept'
<1>0. /\ script \in Scripts /\ Last \in Nat /\ UNCHANGED <<script, line, late>>
  BY ThisScript DEF ScriptKept, Take, scriptVars
<1>1. /\ Together' /\ Last' = Last /\ St' = St
      /\ \A i \in 1 .. Last : Landed(i)' <=> Landed(i)
  BY <1>0, TakingLands, NothingLands DEF ScriptKept, Take, scriptVars
<1>2. InOrder' /\ \A k \in 0 .. Last + 1 : Behind(k) => Behind(k)'
  BY <1>0, <1>1, StaysInOrder
<1>3. line' \in 0 .. Last + 1 /\ Behind(line)'
  BY <1>0, <1>2 DEF ScriptKept, Behind
<1>4. late' \subseteq 1 .. Last /\ \A k \in late' : Behind(k)'
  <2>1. \A k \in late : k \in 0 .. Last + 1 /\ Behind(k)
    BY <1>0, SMT DEF ScriptKept
  <2> QED BY <1>0, <1>2, <2>1 DEF ScriptKept
<1>5. QueueTaken'
  <2>1. CASE UNCHANGED world
    BY <1>0, <1>1, <2>1, QueueStays
  <2>2. CASE \E t \in Takings : Take(t)
    <3> SUFFICES ASSUME script = "setup_private", "queue_taken" \in world',
                        "queue_taken" \notin world
                 PROVE  Landed(9)'
      BY <1>0, <1>1, QueueStays DEF QueueTaken
    <3>1. "queue_delegated" \in world /\ world \subseteq world'
      <4>1. PICK t \in Takings : t.needs \subseteq world /\ world' = world \union {t.makes}
        BY <2>2 DEF Take
      <4>2. t.makes = "queue_taken"
        BY <4>1
      <4>3. \A u \in Takings : u.makes = "queue_taken" => "queue_delegated" \in u.needs
        BY SMT DEF Takings
      <4> QED BY <4>1, <4>2, <4>3
    <3>2. St[9].makes = {"queue_delegated"}
      BY <1>0, ThisScript
    <3> QED BY <1>0, <3>1, <3>2 DEF Landed, St
  <2> QED BY <2>1, <2>2 DEF scriptVars
<1> QED BY <1>0, <1>1, <1>2, <1>3, <1>4, <1>5 DEF ScriptKept

\* Every step of the path.
LEMMA NextScript == ScriptKept /\ [PathNext]_pathVars => ScriptKept'
<1> SUFFICES ASSUME ScriptKept, [PathNext]_pathVars PROVE ScriptKept'
  OBVIOUS
<1>1. ScriptsNext \/ UNCHANGED scriptVars
  BY DEF PathNext, pathVars, SetUp
<1> QED BY <1>1, SkipKept, ConfirmKept, ThrowKept, LateKept, TakeKept
        DEF ScriptsNext, Advance

\* Whatever a script made, it had made everything before it, through late
\* transactions and runs from the start: setup-private.ts cut off between the
\* two transactions of its queue included, since the crank then never starts.
THEOREM MadeInOrder == SystemSpec => []InOrder
<1>1. PathInit => ScriptKept
  BY ScriptBegins DEF PathInit
<1>2. ScriptKept => InOrder
  BY DEF ScriptKept
<1> QED BY <1>1, <1>2, NextScript, SystemIsThePath, PTL DEF PathSpec

-----------------------------------------------------------------------------
(***************************************************************************)
(* Types of the path: the aggregate and the sponsor, the keeper, the       *)
(* money and the tickets, each with the steps that touch it.               *)
(***************************************************************************)
\* A limit, a cadence and a refill are positive.
LEMMA Positive ==
    /\ COMMIT_LIMIT \in Nat /\ COMMIT_LIMIT > 0
    /\ SPONSOR_FLOOR \in Nat /\ SPONSOR_FLOOR > 0
    /\ SPONSOR_REFILL \in Nat /\ SPONSOR_REFILL > 0
    /\ Turns \in Nat /\ Turns > 0 /\ MaxMishaps \in Nat
    /\ Lot \in Nat /\ Lot > 0 /\ Units \in Nat /\ Units > 0
  BY CadenceAssumption, BoundsAssumption, LotAssumption, ClientAssumption, SMT

SideOK ==
    /\ site \in {"enclave", "returning", "solana", "arriving"}
    /\ gated \in BOOLEAN /\ nonce \in 0 .. COMMIT_LIMIT
    /\ sponsor \in 0 .. SPONSOR_FLOOR - 1 + SPONSOR_REFILL

\* What becomes of the aggregate and the sponsor in one step.
SideStep ==
    \/ UNCHANGED <<aggregate, sponsor>>
    \/ CommitShielded \/ UndelegateShielded \/ DelegateShielded \/ MakeGate
    \/ LandUndelegation \/ TakeAggregate
    \/ (sponsor < SPONSOR_FLOOR /\ Transfer)
    \/ (Sponsored /\ UNCHANGED aggregate)

\* The keeper's steps.
LEMMA KeeperSide == KeeperNext => SideStep
<1>1. Working => SideStep
  <2>1. KeeperStarts \/ MovesOn \/ ReadExits \/ LimitReached \/ NoRefill => SideStep
    BY DEF KeeperStarts, MovesOn, Passes, ReadExits, LimitReached, NoRefill, SideStep, sideVars
  <2>2. (\E ticket \in todo : Pay(ticket)) => SideStep
    BY DEF Pay, Settle, SideStep
  <2>3. Commit \/ Undelegate \/ Delegate \/ Gate => SideStep
    BY DEF Commit, Undelegate, Delegate, Gate, SideStep
  <2>4. Refill => SideStep
    BY DEF Refill, RefillDue, SideStep
  <2> QED BY <2>1, <2>2, <2>3, <2>4 DEF Working
<1>2. Throwing => SideStep
  <2>1. (ExitsDue /\ Throws(~token, NoEffect)) \/ (\E ticket \in todo : PayThrows(ticket))
          \/ WaitThrows => SideStep
    BY DEF Throws, PayThrows, WaitThrows, NoEffect, SideStep, sideVars
  <2>2. CommitThrows \/ UndelegateThrows \/ DelegateThrows \/ GateThrows => SideStep
    BY DEF Throws, CommitThrows, UndelegateThrows, DelegateThrows, GateThrows,
           SideStep, sideVars
  <2>3. RefillThrows => SideStep
    BY DEF Throws, RefillThrows, RefillDue, SideStep, sideVars
  <2> QED BY <2>1, <2>2, <2>3 DEF Throwing
<1>3. Ripen \/ (\E ticket \in sent : LandPayment(ticket)) \/ KeeperCrashes
        \/ TokenExpires \/ OperatorRestarts => SideStep
  BY DEF Ripen, LandPayment, Settle, NoEffect, KeeperCrashes, TokenExpires,
         OperatorRestarts, Dies, SideStep, sideVars
<1> QED BY <1>1, <1>2, <1>3 DEF KeeperNext

\* The depositor's, and MagicBlock's.
LEMMA ClientSide == ClientNext \/ CommitHere(COMMIT_LIMIT) \/ LoseKeys \/ SponsorOther
                      \/ MagicBlock => SideStep
<1>1. Preparing => SideStep
  BY DEF Preparing, OpenByWallet, OpenBySponsor, TakePosition, ShieldPlain, Send, Shield,
         Seal, Rotate, SideStep, sideVars
<1>2. DepositPrivate \/ RedeemPrivate \/ RedeemPrivateTo
        \/ (\E ticket \in exits : PayHere(ticket)) => SideStep
  BY DEF DepositPrivate, RedeemPrivate, RedeemPrivateTo, OpenTicket, PayHere, Settle, SideStep
<1>3. CommitHere(COMMIT_LIMIT) => CommitShielded
  BY DEF CommitHere, CommitShielded
<1>4. LoseKeys \/ SponsorOther \/ MagicBlock => SideStep
  BY DEF LoseKeys, SponsorOther, Sponsored, MagicBlock, DeliverPart, DeliverPayout,
         TakeShielded, SideStep, sideVars
<1> QED BY <1>1, <1>2, <1>3, <1>4 DEF ClientNext, SideStep

\* None of them takes a commit past the limit, or the sponsor past a refill
\* above its floor.
LEMMA SideKept == SideOK /\ [PathNext]_pathVars => SideOK'
<1> SUFFICES ASSUME SideOK, [PathNext]_pathVars PROVE SideOK'
  OBVIOUS
<1>1. SideStep
  <2>1. SetUp \/ UNCHANGED pathVars => SideStep
    BY DEF SetUp, pathVars, operation, sideVars, SideStep
  <2>2. Operation => SideStep
    BY KeeperSide, ClientSide DEF Operation, Keeper, Client
  <2> QED BY <2>1, <2>2 DEF PathNext
<1>2. CASE UNCHANGED <<aggregate, sponsor>>
  BY <1>2 DEF SideOK, aggregate
<1>3. CASE CommitShielded \/ UndelegateShielded \/ DelegateShielded \/ MakeGate
  <2>1. 0 \in 0 .. COMMIT_LIMIT
        /\ (nonce < COMMIT_LIMIT => nonce + 1 \in 0 .. COMMIT_LIMIT)
    BY Positive, SMT DEF SideOK
  <2> QED BY <1>3, <2>1
          DEF SideOK, CommitShielded, UndelegateShielded, DelegateShielded, MakeGate
<1>4. CASE LandUndelegation \/ TakeAggregate
  BY <1>4 DEF SideOK, LandUndelegation, TakeAggregate
<1>5. CASE (sponsor < SPONSOR_FLOOR /\ Transfer) \/ (Sponsored /\ UNCHANGED aggregate)
  BY <1>5, Positive, SMT DEF SideOK, Transfer, Sponsored, aggregate
<1> QED BY <1>1, <1>2, <1>3, <1>4, <1>5 DEF SideStep

-----------------------------------------------------------------------------
LoopOK ==
    /\ at \in {"start", "exits", "pay", "commit", "undelegate", "wait", "delegate",
               "taken", "gate", "sponsor"}
    /\ looping \in BOOLEAN /\ token \in BOOLEAN
    /\ turn \in 0 .. Turns - 1 /\ commits \in 0 .. COMMIT_LIMIT
    /\ ripe \subseteq seen /\ todo \subseteq ripe
    /\ mishaps \in 0 .. MaxMishaps

\* Turns are counted modulo a bound.
LEMMA TurnBound == \A n \in Nat : n % Turns \in 0 .. Turns - 1
  BY Positive, SMT

\* What throws keeps the keeper's types, whatever it has done.
LEMMA ThrowsKept ==
    ASSUME LoopOK, NEW h \in BOOLEAN, NEW e \in BOOLEAN, Throws(h, e)
    PROVE  LoopOK'
<1>1. mishaps' \in 0 .. MaxMishaps
  BY Positive, SMT DEF LoopOK, Throws, Mishap
<1>2. CASE looping /\ TurnEnds
  <2>1. (turn + 1) % Turns \in 0 .. Turns - 1
    BY TurnBound, Positive, SMT DEF LoopOK
  <2> QED BY <1>1, <1>2, <2>1 DEF LoopOK, Throws, TurnEnds
<1>3. CASE at' = "start" /\ UNCHANGED <<looping, memory>>
  BY <1>1, <1>3 DEF LoopOK, Throws, memory
<1> QED BY <1>2, <1>3 DEF Throws

\* The keeper's own steps keep them.
LEMMA KeeperKept == LoopOK /\ KeeperNext => LoopOK'
<1> SUFFICES ASSUME LoopOK, KeeperNext PROVE LoopOK'
  OBVIOUS
<1>0. /\ 1 % Turns \in 0 .. Turns - 1 /\ (turn + 1) % Turns \in 0 .. Turns - 1
      /\ 0 \in 0 .. Turns - 1 /\ 0 \in 0 .. COMMIT_LIMIT
      /\ commits < COMMIT_LIMIT => commits + 1 \in 0 .. COMMIT_LIMIT
  BY TurnBound, Positive, SMT DEF LoopOK
<1>1. Mishap => mishaps' \in 0 .. MaxMishaps
  BY Positive, SMT DEF LoopOK, Mishap
<1>2. CASE KeeperStarts
  BY <1>0, <1>1, <1>2 DEF KeeperStarts, LogsIn, LoopOK
<1>3. CASE MovesOn \/ LimitReached
  BY <1>3 DEF MovesOn, LimitReached, Passes, Goto, LoopOK, memory
<1>4. CASE ReadExits
  BY <1>4 DEF ReadExits, Goto, LoopOK
<1>5. CASE \E ticket \in todo : Pay(ticket)
  BY <1>5 DEF Pay, Goto, LoopOK
<1>6. CASE Commit
  BY <1>0, <1>6 DEF Commit, CommitDue, Goto, LoopOK
<1>7. CASE Undelegate \/ Delegate
  BY <1>7 DEF Undelegate, Delegate, Goto, LoopOK, memory
<1>8. CASE Gate
  BY <1>0, <1>8 DEF Gate, Recycled, LoopOK
<1>9. CASE Refill \/ NoRefill
  BY <1>0, <1>9 DEF Refill, NoRefill, TurnEnds, LoopOK
<1>10. CASE Throwing
  <2>1. (token /\ CommitShielded) \in BOOLEAN /\ (token /\ UndelegateShielded) \in BOOLEAN
        /\ DelegateShielded \in BOOLEAN /\ (token /\ MakeGate) \in BOOLEAN
        /\ Transfer \in BOOLEAN /\ NoEffect \in BOOLEAN
    BY DEF CommitShielded, UndelegateShielded, DelegateShielded, MakeGate, Transfer, NoEffect
  <2> QED BY <1>10, <2>1, ThrowsKept, Zenon
          DEF Throwing, PayThrows, CommitThrows, UndelegateThrows, DelegateThrows,
              WaitThrows, GateThrows, RefillThrows
<1>11. CASE Ripen
  BY <1>11 DEF Ripen, LoopOK
<1>12. CASE \E ticket \in sent : LandPayment(ticket)
  BY <1>12 DEF LandPayment, LoopOK, memory
<1>13. CASE KeeperCrashes \/ OperatorRestarts
  BY <1>0, <1>1, <1>13 DEF KeeperCrashes, OperatorRestarts, Dies, LoopOK
<1>14. CASE TokenExpires
  BY <1>1, <1>14 DEF TokenExpires, LoopOK, memory
<1> QED BY <1>2, <1>3, <1>4, <1>5, <1>6, <1>7, <1>8, <1>9, <1>10, <1>11, <1>12,
           <1>13, <1>14 DEF KeeperNext, Working

-----------------------------------------------------------------------------
(***************************************************************************)
(* The money is conserved, and a depositor deposits once: before that      *)
(* there is no ticket; afterwards shares and tickets make up the deposit,  *)
(* and nothing is on its way in.                                           *)
(***************************************************************************)
MoneyOK ==
    /\ money \in [Places -> Nat] /\ SumFunction(money) = Units
    /\ kind \in Kinds /\ pos \in {"none", "delegated", "taken"}
    /\ sealed \in BOOLEAN /\ holds \in BOOLEAN /\ lost \in BOOLEAN
    /\ shares \in Nat /\ asked \in Nat
    /\ exits \union seen \union sent \subseteq 1 .. asked
    /\ \/ shares = 0 /\ asked = 0
       \/ /\ shares + Lot * asked = Units
          /\ \A p \in {"sending", "key", "shielding", "eata"} : money[p] = 0
          /\ asked = 0 => money["custody"] = Units

\* There are finitely many places.
LEMMA PlacesFinite == IsFiniteSet(Places)
<1>1. \A S, e : IsFiniteSet(S) => IsFiniteSet(S \union {e})
  BY FS_AddElement
<1>2. IsFiniteSet({} \union {"wallet"} \union {"sending"} \union {"key"})
  BY <1>1, FS_EmptySet
<1> DEFINE three == {} \union {"wallet"} \union {"sending"} \union {"key"}
           five  == three \union {"shielding"} \union {"eata"}
           seven == five \union {"custody"} \union {"leaving"}
<1>3. IsFiniteSet(five)
  BY <1>1, <1>2
<1>4. IsFiniteSet(seven)
  <2> HIDE DEF five
  <2> QED BY <1>1, <1>3
<1>5. Places = seven
  BY DEF Places
<1> QED BY <1>4, <1>5

\* Two places hold no more than all.
LEMMA TwoPlaces ==
    ASSUME NEW f \in [Places -> Nat], NEW p \in Places, NEW q \in Places, p # q
    PROVE  f[p] + f[q] <= SumFunction(f)
<1> DEFINE e == [s \in Places \ {p} |-> f[s]]
<1>1. /\ IsFiniteSet(Places \ {p}) /\ e \in [Places \ {p} -> Nat]
      /\ q \in Places \ {p} /\ e[q] = f[q]
  BY PlacesFinite, FS_RemoveElement
<1>2. SumFunction(f) = f[p] + SumFunction(e)
  BY PlacesFinite, SumSplit
<1> HIDE DEF e
<1>3. e[q] <= SumFunction(e) /\ SumFunction(e) \in Nat
  BY <1>1, SumBound, SumNat
<1> QED BY <1>1, <1>2, <1>3, SMT

\* Moving money conserves it.
LEMMA MoveKeeps ==
    ASSUME money \in [Places -> Nat], NEW n \in Nat, NEW p \in Places, NEW q \in Places,
           p # q, Move(n, p, q)
    PROVE  /\ money' \in [Places -> Nat] /\ SumFunction(money') = SumFunction(money)
           /\ n <= money[p] /\ money'[p] = money[p] - n /\ money'[q] = money[q] + n
           /\ \A r \in Places \ {p, q} : money'[r] = money[r]
<1> DEFINE m == [money EXCEPT ![p] = money[p] - n]
<1>1. n <= money[p] /\ money' = [m EXCEPT ![q] = m[q] + n]
  BY DEF Move
<1>2. money[p] - n \in Nat /\ money[p] \in Nat
  BY <1>1, SMT
<1>3. /\ m \in [Places -> Nat] /\ m[p] = money[p] - n
      /\ \A r \in Places \ {p} : m[r] = money[r]
  BY <1>2
<1>4. SumFunction(m) = SumFunction(money) - money[p] + (money[p] - n)
  BY <1>2, PlacesFinite, SumExcept
<1> HIDE DEF m
<1>5. m[q] \in Nat /\ m[q] + n \in Nat
  BY <1>3, SMT
<1>6. /\ money' \in [Places -> Nat] /\ money'[q] = m[q] + n
      /\ \A r \in Places \ {q} : money'[r] = m[r]
  BY <1>1, <1>3, <1>5
<1>7. SumFunction(money') = SumFunction(m) - m[q] + (m[q] + n)
  BY <1>1, <1>3, <1>5, PlacesFinite, SumExcept
<1>8. SumFunction(money) \in Nat
  BY PlacesFinite, SumNat
<1>9. SumFunction(money') = SumFunction(money)
  BY <1>2, <1>4, <1>5, <1>7, <1>8, SMT
<1> QED BY <1>1, <1>3, <1>6, <1>9

\* What a deposit has: no ticket before it, nothing on its way in after it.
Incoming  == {"sending", "key", "shielding", "eata"}
Before    == shares = 0 /\ asked = 0
Deposited ==
    /\ shares + Lot * asked = Units
    /\ \A p \in Incoming : money[p] = 0
    /\ asked = 0 => money["custody"] = Units

\* Steps that move neither money nor shares.
LEMMA RestKept ==
    ASSUME MoneyOK, UNCHANGED <<money, shares, asked, kind>>,
           pos' \in {"none", "delegated", "taken"},
           sealed' \in BOOLEAN, holds' \in BOOLEAN, lost' \in BOOLEAN,
           exits' \union seen' \union sent' \subseteq exits \union seen \union sent
    PROVE  MoneyOK'
  BY DEF MoneyOK

\* Steps that move money from one place to another.
LEMMA MoveKept ==
    ASSUME MoneyOK, NEW n \in Nat, n > 0, NEW p \in Places, NEW q \in Places, p # q,
           Move(n, p, q), UNCHANGED <<shares, asked, kind, pos, sealed, holds>>,
           lost' \in BOOLEAN,
           exits' \union seen' \union sent' \subseteq exits \union seen \union sent,
           Deposited => p \in Incoming \/ (q \notin Incoming
                                           /\ (asked = 0 => p # "custody" /\ q # "custody"))
    PROVE  MoneyOK'
<1>0. /\ money \in [Places -> Nat] /\ SumFunction(money) = Units
      /\ shares \in Nat /\ asked \in Nat /\ (Before \/ Deposited)
  BY DEF MoneyOK, Before, Deposited, Incoming
<1>1. /\ money' \in [Places -> Nat] /\ SumFunction(money') = Units
      /\ n <= money[p] /\ \A r \in Places \ {p, q} : money'[r] = money[r]
  BY <1>0, MoveKeeps
<1>2. Before' \/ Deposited'
  <2>1. CASE Before
    BY <2>1 DEF Before
  <2>2. CASE Deposited
    <3>1. p \notin Incoming
      <4>1. p \in Incoming => money[p] = 0
        BY <2>2 DEF Deposited
      <4> QED BY <1>1, <4>1, SMT
    <3>2. Incoming \subseteq Places \ {p, q} /\ "custody" \in Places
          /\ (asked = 0 => "custody" \in Places \ {p, q})
      BY <2>2, <3>1 DEF Incoming, Places
    <3> QED BY <1>1, <2>2, <3>2 DEF Deposited
  <2> QED BY <1>0, <2>1, <2>2
<1>3. exits' \union seen' \union sent' \subseteq 1 .. asked'
  BY DEF MoneyOK
<1>4. /\ kind' \in Kinds /\ pos' \in {"none", "delegated", "taken"}
      /\ sealed' \in BOOLEAN /\ holds' \in BOOLEAN /\ lost' \in BOOLEAN
      /\ shares' \in Nat /\ asked' \in Nat
  BY DEF MoneyOK
<1> QED BY <1>1, <1>2, <1>3, <1>4 DEF MoneyOK, Before, Deposited, Incoming

\* A payment: there is a ticket, so there are shares no more or a deposit.
LEMMA SettleKept ==
    ASSUME MoneyOK, NEW t \in exits, Settle(t), UNCHANGED clientVars,
           seen' \union sent' \subseteq seen \union sent
    PROVE  MoneyOK'
<1>1. Move(Lot, "custody", "leaving") /\ exits' \subseteq exits
  BY DEF Settle
<1>2. asked # 0
  BY SMT DEF MoneyOK
<1>3. /\ "custody" \in Places /\ "leaving" \in Places /\ "leaving" \notin Incoming
      /\ "custody" # "leaving"
  BY DEF Places, Incoming
<1>4. lost' \in BOOLEAN /\ UNCHANGED <<shares, asked, kind, pos, sealed, holds>>
  BY DEF clientVars, MoneyOK
<1> QED BY <1>1, <1>2, <1>3, <1>4, Positive, MoveKept

\* The keeper: it pays tickets, and hears of them.
LEMMA KeeperMoney == MoneyOK /\ LoopOK /\ KeeperNext /\ UNCHANGED clientVars => MoneyOK'
<1> SUFFICES ASSUME MoneyOK, LoopOK, KeeperNext, UNCHANGED clientVars PROVE MoneyOK'
  OBVIOUS
<1>1. ASSUME UNCHANGED <<money, exits>>,
             seen' \union sent' \subseteq exits \union seen \union sent
      PROVE  MoneyOK'
  BY <1>1, RestKept DEF MoneyOK, clientVars
<1>2. CASE Working
  <2>1. CASE \E ticket \in todo : Pay(ticket)
    <3>1. PICK ticket \in todo : Pay(ticket)
      BY <2>1
    <3> QED BY <3>1, SettleKept DEF Pay, Settle
  <2>2. CASE KeeperStarts \/ MovesOn \/ ReadExits \/ LimitReached \/ NoRefill
    BY <1>1, <2>2 DEF KeeperStarts, MovesOn, Passes, ReadExits, LimitReached, NoRefill,
                      TurnEnds, sideVars, memory
  <2>3. CASE Commit \/ Undelegate \/ Delegate \/ Gate \/ Refill
    BY <1>1, <2>3 DEF Commit, Undelegate, Delegate, Gate, Refill, CommitShielded,
                      UndelegateShielded, DelegateShielded, MakeGate, Recycled, Transfer,
                      TurnEnds, memory
  <2> QED BY <1>2, <2>1, <2>2, <2>3 DEF Working
<1>3. CASE Throwing
  <2>1. UNCHANGED <<money, exits, seen>>
    BY <1>3 DEF Throwing, PayThrows, CommitThrows, UndelegateThrows, DelegateThrows,
                WaitThrows, GateThrows, RefillThrows, Throws, TurnEnds, NoEffect, Transfer,
                CommitShielded, UndelegateShielded, DelegateShielded, MakeGate,
                sideVars, memory
  <2>2. sent' \subseteq sent \union todo
    BY <1>3 DEF Throwing, PayThrows, CommitThrows, UndelegateThrows, DelegateThrows,
                WaitThrows, GateThrows, RefillThrows
  <2> QED BY <1>1, <2>1, <2>2 DEF LoopOK
<1>4. CASE \E ticket \in sent : LandPayment(ticket)
  <2>1. PICK ticket \in sent : LandPayment(ticket)
    BY <1>4
  <2>2. CASE Settle(ticket)
    BY <2>1, <2>2, SettleKept DEF LandPayment, Settle, memory
  <2>3. CASE NoEffect
    BY <1>1, <2>1, <2>3 DEF LandPayment, NoEffect, sideVars, memory
  <2> QED BY <2>1, <2>2, <2>3 DEF LandPayment
<1>5. CASE Ripen \/ KeeperCrashes \/ TokenExpires \/ OperatorRestarts
  BY <1>1, <1>5 DEF Ripen, KeeperCrashes, TokenExpires, OperatorRestarts, Dies,
                    sideVars, memory
<1> QED BY <1>2, <1>3, <1>4, <1>5 DEF KeeperNext

\* MagicBlock: it delivers what is on its way.
LEMMA MagicBlockMoney ==
    MoneyOK /\ MagicBlock /\ UNCHANGED <<keeperVars, clientVars>> => MoneyOK'
<1> SUFFICES ASSUME MoneyOK, MagicBlock, UNCHANGED <<keeperVars, clientVars>>
             PROVE  MoneyOK'
  OBVIOUS
<1>0. /\ UNCHANGED <<shares, asked, kind, pos, sealed, holds, lost, seen, sent>>
      /\ lost \in BOOLEAN /\ pos \in {"none", "delegated", "taken"}
      /\ sealed \in BOOLEAN /\ holds \in BOOLEAN
  BY DEF keeperVars, memory, clientVars, MoneyOK
<1>1. CASE LandUndelegation \/ TakeAggregate
  BY <1>0, <1>1, RestKept DEF LandUndelegation, TakeAggregate
<1>2. CASE DeliverPart
  <2>1. /\ "sending" \in Places /\ "key" \in Places /\ "sending" # "key"
        /\ "sending" \in Incoming
    BY DEF Places, Incoming
  <2>2. Move(1, "sending", "key") /\ UNCHANGED exits /\ 1 \in Nat /\ 1 > 0
    BY <1>2, SMT DEF DeliverPart
  <2> QED BY <1>0, <2>1, <2>2, MoveKept
<1>3. CASE DeliverPayout
  <2>1. /\ "leaving" \in Places /\ "wallet" \in Places /\ "wallet" # "leaving"
        /\ "wallet" \notin Incoming /\ "leaving" # "custody" /\ "wallet" # "custody"
    BY DEF Places, Incoming
  <2>2. Move(Lot, "leaving", "wallet") /\ UNCHANGED exits
    BY <1>3 DEF DeliverPayout
  <2> QED BY <1>0, <2>1, <2>2, Positive, MoveKept
<1>4. CASE TakeShielded
  <2>1. /\ "shielding" \in Places /\ "eata" \in Places /\ "shielding" # "eata"
        /\ "shielding" \in Incoming
    BY DEF Places, Incoming
  <2>2. /\ Move(money["shielding"], "shielding", "eata") /\ UNCHANGED exits
        /\ money["shielding"] \in Nat /\ money["shielding"] > 0
    BY <1>4, <2>1 DEF TakeShielded, MoneyOK
  <2> QED BY <1>0, <2>1, <2>2, MoveKept
<1> QED BY <1>1, <1>2, <1>3, <1>4 DEF MagicBlock

\* Sending: with a deposit made and no ticket asked for the money is in the
\* custody, so there is none to send.
LEMMA SendMoney ==
    ASSUME MoneyOK, NEW q \in {"sending", "shielding"}, Move(Units, "wallet", q), OneDeposit,
           lost' = FALSE, UNCHANGED <<exits, seen, sent, shares, asked, kind, pos, sealed, holds>>
    PROVE  MoneyOK'
<1>1. /\ "wallet" \in Places /\ q \in Places /\ "wallet" # q /\ "custody" \in Places
      /\ "wallet" # "custody"
  BY DEF Places
<1>2. ~ Deposited
  <2> SUFFICES ASSUME Deposited PROVE FALSE
    OBVIOUS
  <2>1. money["custody"] = Units /\ money["wallet"] >= Units
    BY DEF Deposited, OneDeposit, Move
  <2>2. money["custody"] + money["wallet"] <= Units /\ money["wallet"] \in Nat
    BY <1>1, TwoPlaces DEF MoneyOK
  <2> QED BY <2>1, <2>2, Positive, SMT
<1> QED BY <1>1, <1>2, Positive, MoveKept

\* The deposit: everything was in the private account, and is in the custody.
LEMMA DepositMoney ==
    ASSUME MoneyOK, DepositPrivate, UNCHANGED <<seen, sent>>
    PROVE  MoneyOK'
<1>0. /\ money \in [Places -> Nat] /\ SumFunction(money) = Units
      /\ Move(Units, "eata", "custody") /\ shares' = shares + Units
      /\ "eata" \in Places /\ "custody" \in Places /\ "eata" # "custody"
      /\ UNCHANGED <<exits, kind, pos, sealed, holds, lost, asked>>
  BY DEF MoneyOK, DepositPrivate, Places
<1>1. /\ money' \in [Places -> Nat] /\ SumFunction(money') = Units
      /\ Units <= money["eata"] /\ money'["custody"] = money["custody"] + Units
  BY <1>0, Positive, MoveKeeps
<1>2. Before
  <2>1. Deposited => money["eata"] = 0
    BY DEF Deposited, Incoming
  <2>2. ~ Deposited
    BY <1>1, <2>1, Positive, SMT
  <2> QED BY <2>2 DEF MoneyOK, Before, Deposited, Incoming
<1>3. \A p \in Incoming : money'[p] = 0
  <2>1. ASSUME NEW p \in Incoming PROVE money'[p] = 0
    <3>1. p \in Places /\ p # "custody"
      BY DEF Incoming, Places
    <3>2. money'[p] + money'["custody"] <= Units
      BY <1>0, <1>1, <3>1, TwoPlaces
    <3>3. money'[p] \in Nat /\ money["custody"] \in Nat
      BY <1>0, <1>1, <3>1
    <3> QED BY <1>1, <3>2, <3>3, Positive, SMT
  <2> QED BY <2>1
<1>4. money'["custody"] = Units
  <2>1. money'["custody"] <= Units
    BY <1>0, <1>1, PlacesFinite, SumBound
  <2>2. money["custody"] \in Nat
    BY <1>0
  <2> QED BY <1>1, <2>1, <2>2, Positive, SMT
<1>5. shares' + Lot * asked' = Units /\ shares' \in Nat
  BY <1>0, <1>2, Positive, SMT DEF Before
<1> QED BY <1>0, <1>1, <1>3, <1>4, <1>5 DEF MoneyOK, Incoming

\* A redemption: shares become a ticket, whose number nobody has asked for.
LEMMA TicketMoney ==
    ASSUME MoneyOK, OpenTicket, UNCHANGED <<seen, sent>>
    PROVE  MoneyOK'
<1>0. /\ shares >= Lot /\ shares' = shares - Lot /\ asked' = asked + 1
      /\ exits' = exits \union {asked + 1}
      /\ UNCHANGED <<money, kind, pos, sealed, holds, lost>>
      /\ shares \in Nat /\ asked \in Nat
  BY DEF OpenTicket, MoneyOK
<1>1. Deposited
  <2>1. ~ Before
    BY <1>0, Positive, SMT DEF Before
  <2> QED BY <2>1 DEF MoneyOK, Before, Deposited, Incoming
<1>2. shares' + Lot * asked' = Units /\ shares' \in Nat /\ asked' \in Nat /\ asked' # 0
  BY <1>0, <1>1, Positive, SMT DEF Deposited
<1>3. exits' \union seen' \union sent' \subseteq 1 .. asked'
  <2>1. 1 .. asked \subseteq 1 .. asked' /\ asked + 1 \in 1 .. asked'
    BY <1>0, SMT
  <2> QED BY <1>0, <2>1 DEF MoneyOK
<1> QED BY <1>0, <1>1, <1>2, <1>3 DEF MoneyOK, Deposited, Incoming

\* The depositor.
LEMMA ClientMoney ==
    ASSUME MoneyOK, UNCHANGED <<seen, sent>>,
           ClientNext \/ CommitHere(COMMIT_LIMIT) \/ LoseKeys
             \/ (SponsorOther /\ UNCHANGED clientVars)
    PROVE  MoneyOK'
<1>0. /\ lost \in BOOLEAN /\ pos \in {"none", "delegated", "taken"}
      /\ sealed \in BOOLEAN /\ holds \in BOOLEAN
  BY DEF MoneyOK
<1>1. CASE OpenByWallet \/ OpenBySponsor \/ TakePosition \/ Seal \/ Rotate
  BY <1>0, <1>1, RestKept DEF OpenByWallet, OpenBySponsor, TakePosition, Seal, Rotate, sideVars
<1>2. CASE ShieldPlain \/ Send
  BY <1>2, SendMoney DEF ShieldPlain, Send
<1>3. CASE Shield
  <2>1. /\ "key" \in Places /\ "shielding" \in Places /\ "key" # "shielding"
        /\ "key" \in Incoming
    BY DEF Places, Incoming
  <2>2. /\ Move(Units, "key", "shielding") /\ UNCHANGED exits
        /\ UNCHANGED <<shares, asked, kind, pos, sealed, holds, lost>>
    BY <1>3 DEF Shield, clientVars
  <2> QED BY <1>0, <2>1, <2>2, Positive, MoveKept
<1>4. CASE DepositPrivate
  BY <1>4, DepositMoney
<1>5. CASE RedeemPrivate \/ RedeemPrivateTo
  BY <1>5, TicketMoney DEF RedeemPrivate, RedeemPrivateTo
<1>6. CASE \E ticket \in exits : PayHere(ticket)
  BY <1>6, SettleKept DEF PayHere
<1>7. CASE CommitHere(COMMIT_LIMIT) \/ (SponsorOther /\ UNCHANGED clientVars)
  BY <1>0, <1>7, RestKept DEF CommitHere, SponsorOther, clientVars
<1>8. CASE LoseKeys
  <2>1. InTransit \in BOOLEAN
    BY DEF InTransit
  <2> QED BY <1>0, <1>8, <2>1, RestKept DEF LoseKeys, sideVars
<1> QED BY <1>1, <1>2, <1>3, <1>4, <1>5, <1>6, <1>7, <1>8 DEF ClientNext, Preparing

-----------------------------------------------------------------------------
PathOK == SideOK /\ LoopOK /\ MoneyOK

\* The start of the path.
LEMMA PathBegins == PathInit => PathOK
<1> SUFFICES ASSUME PathInit PROVE PathOK
  OBVIOUS
<1>1. SideOK
  BY Positive, SMT DEF PathInit, SideInit, SideOK
<1>2. LoopOK
  <2>1. 0 \in 0 .. Turns - 1 /\ 0 \in 0 .. COMMIT_LIMIT /\ 0 \in 0 .. MaxMishaps
    BY Positive, SMT
  <2> QED BY <2>1 DEF PathInit, LoopInit, LoopOK
<1>3. MoneyOK
  <2> DEFINE zero == [p \in Places |-> 0]
  <2>1. "wallet" \in Places /\ zero \in [Places -> Nat] /\ zero["wallet"] = 0
        /\ money = [zero EXCEPT !["wallet"] = Units]
    BY SMT DEF PathInit, SideInit, Places
  <2>2. SumFunction(zero) = 0
    BY PlacesFinite, SumZero
  <2> HIDE DEF zero
  <2>3. Units \in Nat
    BY Positive, SMT
  <2>4. SumFunction([zero EXCEPT !["wallet"] = Units])
          = SumFunction(zero) - zero["wallet"] + Units
    BY <2>1, <2>3, PlacesFinite, SumExcept
  <2>5. SumFunction(money) = Units
    BY <2>1, <2>2, <2>3, <2>4, SMT
  <2>6. money \in [Places -> Nat]
    BY <2>1, <2>3
  <2> QED BY <2>5, <2>6 DEF PathInit, SideInit, LoopInit, ClientInit, MoneyOK
<1> QED BY <1>1, <1>2, <1>3 DEF PathOK

\* Every step of the path.
LEMMA NextPath == PathOK /\ [PathNext]_pathVars => PathOK'
<1> SUFFICES ASSUME PathOK, [PathNext]_pathVars PROVE PathOK'
  OBVIOUS
<1>1. SideOK'
  BY SideKept DEF PathOK
<1>2. CASE UNCHANGED operation
  BY <1>1, <1>2 DEF PathOK, LoopOK, MoneyOK, operation, sideVars, keeperVars, clientVars, memory
<1>3. CASE Keeper
  BY <1>1, <1>3, KeeperKept, KeeperMoney DEF PathOK, Keeper
<1>4. CASE Client
  <2>1. LoopOK'
    <3>1. Mishap => mishaps' \in 0 .. MaxMishaps
      BY Positive, SMT DEF PathOK, LoopOK, Mishap
    <3> QED BY <1>4, <3>1 DEF PathOK, LoopOK, Client, memory
  <2>2. MoneyOK'
    BY <1>4, ClientMoney DEF PathOK, Client, memory
  <2> QED BY <1>1, <2>1, <2>2 DEF PathOK
<1>5. CASE MagicBlock /\ UNCHANGED <<keeperVars, clientVars>>
  BY <1>1, <1>5, MagicBlockMoney DEF PathOK, LoopOK, keeperVars, memory
<1> QED BY <1>2, <1>3, <1>4, <1>5 DEF PathNext, SetUp, Operation, pathVars

\* What is kept gives the types: no place holds more than all, no more tickets
\* were asked for than there are lots in a deposit.
LEMMA PathTypes == PathOK => PathTypeOK
<1> SUFFICES ASSUME PathOK PROVE PathTypeOK
  OBVIOUS
<1>1. money \in [Places -> 0 .. Units]
  <2>1. \A p \in Places : money[p] \in Nat /\ money[p] <= Units
    BY PlacesFinite, SumBound DEF PathOK, MoneyOK
  <2>2. \A p \in Places : money[p] \in 0 .. Units
    BY <2>1, Positive, SMT
  <2> QED BY <2>2 DEF PathOK, MoneyOK
<1>2. asked \in 0 .. Units \div Lot /\ shares \in 0 .. Units
  <2>1. asked \in Nat /\ shares \in Nat /\ (Before \/ Deposited)
    BY DEF PathOK, MoneyOK, Before, Deposited, Incoming
  <2>2. Lot * asked <= Units /\ shares <= Units
    BY <2>1, Positive, SMT DEF Before, Deposited
  <2>3. asked <= Units \div Lot /\ Units \div Lot \in Nat
    BY <2>1, <2>2, Positive, SMT
  <2> QED BY <2>1, <2>2, <2>3, Positive, SMT
<1>3. exits \union seen \union sent \subseteq 1 .. Units \div Lot
  <2>1. 1 .. asked \subseteq 1 .. Units \div Lot
    BY <1>2, Positive, SMT
  <2> QED BY <2>1 DEF PathOK, MoneyOK
<1> QED BY <1>1, <1>2, <1>3 DEF PathOK, SideOK, LoopOK, MoneyOK, PathTypeOK

\* Types, for any deposit, cadence and limit, with the bounds that are in them:
\* each place holds between none and all of the money, tickets are numbered
\* within the deposit's lots, counted commits and the nonce stay within the
\* limit, and the sponsor never holds more than one refill above what asks for
\* one.
THEOREM PathTypeCorrect == SystemSpec => []PathTypeOK
  BY PathBegins, NextPath, PathTypes, SystemIsThePath, PTL DEF PathSpec

=============================================================================
