----------------------------- MODULE KeeperLoop -----------------------------
(***************************************************************************)
(* The keeper's loop around one delegation of the book (keeper.ts,         *)
(* recycle.ts): ticks are sent blindly, every ABSORB_EVERY of them the     *)
(* book is read and fed, every COMMIT_EVERY of them it is committed.  A    *)
(* delegation sponsors COMMIT_LIMIT commits.  The keeper counts its own,   *)
(* since it cannot read the rollup's count, and when they are spent it     *)
(* recycles: undelegate, wait, delegate, prove.  Any step may fail, or     *)
(* work and not be confirmed in time; whatever throws ends the round, and  *)
(* the loop goes on.                                                       *)
(*                                                                         *)
(* Left out: what is absorbed and committed (PublicVault), the private     *)
(* keeper's turn in each round, the lamports a recycle tops up, and a router*)
(* that disagrees with Solana about the delegation.                        *)
(***************************************************************************)
EXTENDS Integers

CONSTANTS
    COMMIT_LIMIT,   \* commits a delegation sponsors
    ABSORB_EVERY,   \* ticks between two absorptions
    Cycles,         \* COMMIT_EVERY, in absorptions
    OthersCommit,   \* somebody else calls commit_book, as anyone may
    MaxCrashes      \* bound: times the process dies by itself

COMMIT_EVERY == ABSORB_EVERY * Cycles

VARIABLES
    site,           \* where the book is: "rollup", "returning", "solana"
    nonce,          \* commits the delegation has sponsored
    pc,             \* where the keeper is
    looping,        \* main has reached its loop
    n,              \* ticks sent, modulo COMMIT_EVERY
    commits,        \* commits the keeper has counted
    flow,           \* Solana has flow the book has not marked
    crashes

book == <<site, nonce>>
rest == <<flow, crashes>>
vars == <<book, pc, looping, n, commits, rest>>

\* A book that setup has delegated, and a keeper about to start.
Init ==
    /\ site    = "rollup"
    /\ nonce   = 0
    /\ pc      = "start"
    /\ looping = FALSE
    /\ n       = 0
    /\ commits = 0
    /\ flow    = FALSE
    /\ crashes = 0

-----------------------------------------------------------------------------
\* A variant that goes straight to the loop.
StartLooping ==
    /\ pc = "start"
    /\ looping' = TRUE
    /\ pc' = "absorb"
    /\ n' = 0
    /\ commits' = 0
    /\ UNCHANGED <<book, rest>>

\* main: finish a recycle that was cut off, then loop.  The counters are the
\* process's own.  The router calls a book delegated until it is back.
Start ==
    /\ pc = "start"
    /\ looping' = (site # "solana")
    /\ pc' = IF looping' THEN "absorb" ELSE "wait"
    /\ n' = 0
    /\ commits' = 0
    /\ UNCHANGED <<book, rest>>

\* The process dies; launchd runs it again (keeper.sh).
Crash ==
    /\ crashes < MaxCrashes
    /\ crashes' = crashes + 1
    /\ pc' = "start"
    /\ looping' = FALSE
    /\ UNCHANGED <<book, n, commits, flow>>

\* The operator restarts a keeper whose log shows that its rounds fail ("tick
\* failed") or that the book has stopped ticking ("STALL", which is only printed
\* where n still moves).
OperatorRestart ==
    /\ looping /\ site = "solana"
    /\ pc \in {"absorb", "tick", "commit"}
    /\ pc' = "start"
    /\ looping' = FALSE
    /\ UNCHANGED <<book, n, commits, rest>>

\* A deposit or a redemption on Solana.
Trade ==
    /\ ~flow
    /\ flow' = TRUE
    /\ UNCHANGED <<book, pc, looping, n, commits, crashes>>

\* Something throws.  In the loop the round ends where it is, and n with it;
\* before the loop the process ends.
Throw ==
    /\ pc' = IF looping THEN "absorb" ELSE "start"
    /\ UNCHANGED <<looping, n, commits>>

\* Nothing is due, or nothing is unmarked, or absorb lands.
AbsorbDone ==
    /\ pc = "absorb"
    /\ pc' = "tick"
    /\ \/ /\ n % ABSORB_EVERY # 0 \/ ~flow
          /\ flow' = flow
       \/ /\ n % ABSORB_EVERY = 0 /\ flow /\ site = "rollup"
          /\ flow' = FALSE
    /\ UNCHANGED <<book, looping, n, commits, crashes>>

\* absorb fails, as it must where nothing can write the book.
AbsorbThrows ==
    /\ pc = "absorb"
    /\ n % ABSORB_EVERY = 0
    /\ flow
    /\ Throw
    /\ UNCHANGED <<book, rest>>

\* tick is sent and not waited for; n counts it whatever becomes of it.
Tick ==
    /\ pc = "tick"
    /\ n' = (n + 1) % COMMIT_EVERY
    /\ pc' = IF n' = 0 THEN "commit" ELSE "absorb"
    /\ UNCHANGED <<book, looping, commits, rest>>

\* tick cannot be sent, or the book cannot be read after it: a round that ends
\* there loses the commit that was due.
TickThrows ==
    /\ pc = "tick"
    /\ pc' = "absorb"
    /\ n' \in {n, (n + 1) % COMMIT_EVERY}
    /\ UNCHANGED <<book, looping, commits, rest>>

\* The keeper's count says the delegation is spent.
Spent == commits >= COMMIT_LIMIT

\* A variant that trusts its count alone and goes on after the limit error.
LimitReachedIgnored ==
    /\ pc = "commit"
    /\ ~Spent
    /\ site = "rollup" /\ nonce >= COMMIT_LIMIT
    /\ Throw
    /\ UNCHANGED <<book, rest>>

\* The rollup refuses to sponsor the commit: the one failure a fresh
\* delegation fixes.
LimitReached ==
    /\ pc = "commit"
    /\ ~Spent
    /\ site = "rollup" /\ nonce >= COMMIT_LIMIT
    /\ pc' = "undelegate"
    /\ UNCHANGED <<book, looping, n, commits, rest>>

\* The count has reached the limit.
BeginRecycle ==
    /\ pc = "commit"
    /\ Spent
    /\ pc' = "undelegate"
    /\ UNCHANGED <<book, looping, n, commits, rest>>

\* commit_book lands and is confirmed.
CommitDone ==
    /\ pc = "commit"
    /\ ~Spent
    /\ site = "rollup" /\ nonce < COMMIT_LIMIT
    /\ nonce'   = nonce + 1
    /\ commits' = commits + 1
    /\ pc' = "absorb"
    /\ UNCHANGED <<site, looping, n, rest>>

\* commit_book is lost, or refused, or lands after sendAndPoll gave up.
CommitThrows ==
    /\ pc = "commit"
    /\ ~Spent
    /\ Throw
    /\ \/ nonce' = nonce
       \/ site = "rollup" /\ nonce < COMMIT_LIMIT /\ nonce' = nonce + 1
    /\ UNCHANGED <<site, rest>>

\* Anyone may commit the book, and spend what the delegation sponsors.
OtherCommit ==
    /\ OthersCommit
    /\ site = "rollup" /\ nonce < COMMIT_LIMIT
    /\ nonce' = nonce + 1
    /\ UNCHANGED <<site, pc, looping, n, commits, rest>>

-----------------------------------------------------------------------------
(***************************************************************************)
(* recycleBook: each step looks where the book is before it acts.          *)
(***************************************************************************)
\* undelegate_book lands and is confirmed, or the book had left already.
UndelegateDone ==
    /\ pc = "undelegate"
    /\ site \in {"rollup", "solana"}
    /\ site' = IF site = "rollup" THEN "returning" ELSE site
    /\ pc' = "wait"
    /\ UNCHANGED <<nonce, looping, n, commits, rest>>

\* undelegate_book fails, or lands after sendAndPoll gave up.
UndelegateThrows ==
    /\ pc = "undelegate"
    /\ Throw
    /\ site' \in {site} \union IF site = "rollup" THEN {"returning"} ELSE {}
    /\ UNCHANGED <<nonce, rest>>

\* The undelegation reaches Solana (MagicBlock).
LandUndelegation ==
    /\ site = "returning"
    /\ site' = "solana"
    /\ UNCHANGED <<nonce, pc, looping, n, commits, rest>>

\* The book is back, owned by the program again.
WaitDone ==
    /\ pc = "wait"
    /\ site = "solana"
    /\ pc' = "delegate"
    /\ UNCHANGED <<book, looping, n, commits, rest>>

\* delegate_book lands and is confirmed.
DelegateDone ==
    /\ pc = "delegate"
    /\ site  = "solana"
    /\ site' = "rollup"
    /\ nonce' = 0
    /\ pc' = "prove"
    /\ UNCHANGED <<looping, n, commits, rest>>

\* delegate_book fails, or lands after sendAndPoll gave up.
DelegateThrows ==
    /\ pc = "delegate"
    /\ site = "solana"
    /\ Throw
    /\ \/ UNCHANGED book
       \/ site' = "rollup" /\ nonce' = 0
    /\ UNCHANGED rest

\* The first tick is confirmed: a fresh delegation, and a fresh count.
ProveDone ==
    /\ pc = "prove"
    /\ site = "rollup"
    /\ pc' = "absorb"
    /\ looping' = TRUE
    /\ commits' = 0
    /\ UNCHANGED <<book, n, rest>>

\* The book does not come back, or the rollup does not take it, in time.
RecycleTimesOut ==
    /\ pc \in {"wait", "prove"}
    /\ Throw
    /\ UNCHANGED <<book, rest>>

-----------------------------------------------------------------------------
Working == Start \/ AbsorbDone \/ AbsorbThrows \/ Tick \/ TickThrows
             \/ LimitReached \/ BeginRecycle \/ CommitDone \/ CommitThrows

RecycleStep == UndelegateDone \/ UndelegateThrows \/ WaitDone \/ DelegateDone
             \/ DelegateThrows \/ ProveDone \/ RecycleTimesOut

Elsewhere == Crash \/ Trade \/ OtherCommit \/ LandUndelegation

Next == Working \/ RecycleStep \/ OperatorRestart \/ Elsewhere

Spec == Init /\ [][Next]_vars

-----------------------------------------------------------------------------
(***************************************************************************)
(* The process keeps running, and what it tries again and again works now  *)
(* and then (SF): network errors do not last.                              *)
(***************************************************************************)
\* commit_book is answered, by success or by the limit error.
CommitAnswered == CommitDone \/ LimitReached

\* One of the two things recycleBook waits for is seen.
WaitSeen == WaitDone \/ ProveDone

Fairness ==
    /\ WF_vars(Working)
    /\ WF_vars(RecycleStep)
    /\ WF_vars(LandUndelegation)
    /\ WF_vars(AbsorbDone)
    /\ SF_vars(Tick)
    /\ SF_vars(Tick /\ pc' = "commit")
    /\ SF_vars(CommitAnswered)
    /\ SF_vars(UndelegateDone)
    /\ SF_vars(DelegateDone)
    /\ SF_vars(WaitSeen)

\* A keeper left to itself: nobody looks at its log.
Unattended == Init /\ [][Next /\ ~OperatorRestart]_vars /\ Fairness

\* The book reaches Solana for ever, by a commit or by the undelegation that
\* commits it: the delegation is recycled "instead of letting Solana's NAV go
\* stale" (keeper.ts), whatever fails on the way and whoever else spends the
\* commits it sponsors.
BookReachesSolana == []<><<CommitDone \/ LandUndelegation>>_vars

\* A book that is back on Solana is delegated again.  keeper.ts: "A recycle
\* that did not finish. Finish it rather than failing forever."
RecyclesFinish == site = "solana" ~> site = "rollup"

=============================================================================
