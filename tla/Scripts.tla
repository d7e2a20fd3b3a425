------------------------------- MODULE Scripts -------------------------------
(***************************************************************************)
(* The scripts that stand the system up and walk through it (setup.ts,     *)
(* setup-private.ts, migrate-book.ts, position.ts, privacy.ts, e2e.ts).    *)
(* A script is a sequence of steps.  Most look first whether what they     *)
(* make is there already, then send one transaction and wait for it.       *)
(* Whatever fails, or is not confirmed in time, throws, which ends the     *)
(* process; the operator runs the script again, from its first step.  A    *)
(* transaction that was given up on may still land.                        *)
(*                                                                         *)
(* What the steps make are facts: an account exists, is funded, has been   *)
(* delegated, is held by its rollup.  No script takes one back.            *)
(*                                                                         *)
(* Left out: amounts, addresses, and what a script only prints.            *)
(***************************************************************************)
EXTENDS Integers, Sequences, FiniteSets

CONSTANTS
    Scripts,        \* the scripts that may be run
    MaxLate,        \* bound: transactions given up on that may land yet
    MaxThrows       \* bound: runs that are cut off before one is done

ASSUME ScriptsAssumption ==
    /\ Scripts \subseteq {"setup", "setup_private", "migrate", "position", "privacy", "e2e"}
    /\ MaxLate \in Nat /\ MaxThrows \in Nat

VARIABLES
    script,         \* the script being run
    world,          \* the facts
    line,           \* its next step; 0 when a run that cannot be repeated ended
    late,           \* steps whose transaction was given up on and may still land
    throws          \* runs cut off so far, until one is done

scriptVars == <<script, world, line, late, throws>>

-----------------------------------------------------------------------------
\* A step that leaves a fact alone: it sends unless it sees the fact.
Ensure(fact, needs) ==
    [sees |-> {fact}, block |-> 1, needs |-> needs, makes |-> {fact}]

\* A step that sends without looking.
Do(needs, makes) ==
    [sees |-> {}, block |-> 1, needs |-> needs, makes |-> makes]

\* topUpForCloning: the lamports a rollup charges an account it clones.
TopUp(account, fact) == Ensure(fact, {account})

\* setup.ts
Setup ==
    << Ensure("vault", {}),
       Ensure("book", {"vault"}),
       TopUp("vault", "vault_rent"),
       TopUp("book", "book_rent"),
       Ensure("book_delegated", {"book"}) >>

\* A variant in which one look decides about everything of the aggregate.
ShieldedInABlock ==
    << [Ensure("shielded", {"vault"}) EXCEPT !.makes = {"shielded", "exits"}, !.block = 3],
       Do({"shielded"}, {"shielded_delegated"}),
       Do({"exits"}, {"exits_delegated"}),
       Do({"shielded_taken", "exits_taken"}, {"gated"}) >>

\* setup-private.ts, 1: the aggregate and the exit book, gated once the
\* enclave holds both.
SetupShielded ==
    << [Ensure("shielded", {"vault"}) EXCEPT !.makes = {"shielded", "exits"}],
       Ensure("shielded_delegated", {"shielded"}),
       Ensure("exits_delegated", {"exits"}),
       Do({"shielded_taken", "exits_taken"}, {"gated"}) >>

\* setup-private.ts, 2: the private custody.
SetupCustody ==
    << Ensure("rent_pda", {}),
       Ensure("global_vault", {}),
       Ensure("custody", {}) >>

\* setup-private.ts, 3: the queue private transfers leave through.  One look
\* decides about two transactions.
SetupQueue ==
    << [Ensure("queue", {}) EXCEPT !.block = 2],
       Do({"queue"}, {"queue_delegated"}),
       Do({"queue_taken"}, {"crank"}) >>

SetupPrivate == SetupShielded \o SetupCustody \o SetupQueue

\* migrate-book.ts: a new book for one its rollup has lost, proved by a tick.
MigrateBook ==
    << Ensure("book", {"vault"}),
       TopUp("book", "book_rent"),
       Ensure("book_delegated", {"book"}),
       Do({"book_taken"}, {"ticked"}) >>

\* position.ts
OpenPosition ==
    << Ensure("position", {"vault"}),
       Ensure("position_delegated", {"position"}) >>

\* privacy.ts: gate the ledger, then mark it, which reads accounts that hold
\* what the rollup asks for (prepare_for_rollup).
SealPosition ==
    << Do({"position_taken"}, {"sealed"}),
       Do({"position_taken", "prepared"}, {"marked"}) >>

\* e2e.ts [1] and [2]: everything Solana has to know of a new user, in one
\* transaction.
Bundle ==
    << Do({}, {"sol"}),
       Do({"sol", "vault"}, {"usdc"}),
       Do({"usdc", "book", "shielded"},
          {"deposited", "position", "prepared", "session", "position_delegated"}) >>

\* e2e.ts [3] and [4]: wait for the enclave to take the ledger, then gate it
\* and mark it in one transaction.
SealAndSync == << Do({"position_taken", "prepared"}, {"sealed", "marked"}) >>

\* e2e.ts [6]: "a second deposit needs no setup at all".
DepositAgain == << Do({"deposited"}, {"deposited_again"}) >>

Steps(s) ==
    CASE s = "setup"         -> Setup
      [] s = "setup_private" -> SetupPrivate
      [] s = "migrate"       -> MigrateBook
      [] s = "position"      -> OpenPosition
      [] s = "privacy"       -> OpenPosition \o SealPosition
      [] s = "e2e"           -> Bundle \o SealAndSync \o DepositAgain

\* What a validator takes once it has been delegated, and what it needs for
\* that.  It holds the account from then on (MagicBlock).
Takings ==
    { [needs |-> {"book_delegated", "book_rent", "vault_rent"}, makes |-> "book_taken"],
      [needs |-> {"shielded_delegated"}, makes |-> "shielded_taken"],
      [needs |-> {"exits_delegated"},    makes |-> "exits_taken"],
      [needs |-> {"queue_delegated"},    makes |-> "queue_taken"],
      [needs |-> {"position_delegated"}, makes |-> "position_taken"] }

Made(steps) == UNION {steps[i].makes : i \in DOMAIN steps}

\* What each script is run on: setup-private.ts after setup.ts, a migration
\* when the book's address is free, the walks on a system that is up, and
\* privacy.ts by an owner who has prepared, since it does not.
Found(s) ==
    CASE s = "setup"         -> {}
      [] s = "setup_private" -> Made(Setup)
      [] s = "migrate"       -> {"vault", "vault_rent"}
      [] s = "privacy"       -> Made(Setup) \union Made(SetupPrivate) \union {"prepared"}
      [] OTHER               -> Made(Setup) \union Made(SetupPrivate)

\* e2e.ts makes a new user each time; the others find what they left.
Resumable(s) == s # "e2e"

-----------------------------------------------------------------------------
ScriptsInit ==
    /\ script \in Scripts
    /\ world = Found(script)
    /\ line = 1
    /\ late = {}
    /\ throws = 0

Last    == Len(Steps(script))
Step    == Steps(script)[line]
Running == line \in 1 .. Last
Ended   == line = Last + 1

\* The step, or the block it begins, finds its work done.
Seen(s) == s.sees # {} /\ s.sees \subseteq world

\* On to the step n further on.
Proceed(n) ==
    /\ line' = line + n
    /\ throws' = IF line' > Last THEN 0 ELSE throws
    /\ UNCHANGED script

Skip ==
    /\ Running
    /\ Seen(Step)
    /\ Proceed(Step.block)
    /\ UNCHANGED <<world, late>>

\* A variant that sends and goes on.
ConfirmUnseen ==
    /\ Running
    /\ ~Seen(Step)
    /\ late' = late \union {line}
    /\ Proceed(1)
    /\ UNCHANGED world

\* The step's transaction lands and is seen to.
Confirm ==
    /\ Running
    /\ ~Seen(Step)
    /\ Step.needs \subseteq world
    /\ world' = world \union Step.makes
    /\ Proceed(1)
    /\ UNCHANGED late

\* A read fails, or a wait is too long, or the transaction is refused or not
\* confirmed in time.  The process ends; it is run again, if that helps.
Throw ==
    /\ Running
    /\ throws < MaxThrows
    /\ throws' = throws + 1
    /\ line' = IF Resumable(script) THEN 1 ELSE 0
    /\ \/ UNCHANGED late
       \/ /\ ~Seen(Step) /\ Cardinality(late) < MaxLate
          /\ late' = late \union {line}
    /\ UNCHANGED <<script, world>>

\* A transaction nobody waits for any more lands, if it still can, or expires.
LandLate(k) ==
    /\ k \in late
    /\ late' = late \ {k}
    /\ world' = IF Steps(script)[k].needs \subseteq world
                  THEN world \union Steps(script)[k].makes ELSE world
    /\ UNCHANGED <<script, line, throws>>

Expire(k) ==
    /\ k \in late
    /\ late' = late \ {k}
    /\ UNCHANGED <<script, world, line, throws>>

\* A validator takes an account it was delegated.
Take(t) ==
    /\ t.needs \subseteq world
    /\ t.makes \notin world
    /\ world' = world \union {t.makes}
    /\ UNCHANGED <<script, line, late, throws>>

Advance == Skip \/ Confirm

ScriptsNext ==
    \/ Advance \/ Throw
    \/ \E k \in late : LandLate(k) \/ Expire(k)
    \/ \E t \in Takings : Take(t)

ScriptsSpec == ScriptsInit /\ [][ScriptsNext]_scriptVars

\* A script that nothing stops goes on, validators take what they are given,
\* and what is late lands or expires.
ScriptsFairness ==
    /\ WF_scriptVars(Advance)
    /\ \A t \in Takings : WF_scriptVars(Take(t))
    /\ WF_scriptVars(\E k \in late : LandLate(k) \/ Expire(k))

LiveScripts == ScriptsSpec /\ ScriptsFairness

-----------------------------------------------------------------------------
\* Whatever a script made, it had made everything before it: the rent before
\* the delegation after which it could not be paid, the gate before the
\* custody that takes money, the seal before the first mark.  Late
\* transactions and runs from the start included.
Landed(k) == Steps(script)[k].makes \subseteq world
InOrder   == \A j \in 1 .. Last : Landed(j) => \A i \in 1 .. j - 1 : Landed(i)

\* A script that can be run again is done in the end.  setup-private.ts:
\* "Idempotent: each step checks first."
SetupFinishes == Resumable(script) ~> Ended

\* The queue is made and nothing will delegate it: its look is behind, and the
\* crank waits for a queue that its rollup never takes.
Stranded ==
    /\ script = "setup_private" /\ line = Last
    /\ "queue" \in world /\ "queue_delegated" \notin world
    /\ late = {}

\* A script that can be run again is done in the end, wherever it was cut off
\* and whatever landed late: a queue that is not delegated is all that stops it.
OnlyTheQueueStrands == Resumable(script) ~> (Ended \/ Stranded)

=============================================================================
