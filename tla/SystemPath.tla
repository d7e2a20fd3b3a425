------------------------------ MODULE SystemPath ------------------------------
(***************************************************************************)
(* The scripts and everything they lead to: setup.ts leaves a delegated    *)
(* book, around which the keeper loops; setup-private.ts leaves the private*)
(* path (PrivatePath).  The book and the aggregate are delegated, committed*)
(* and recycled apart, each loop by its own count, so each is taken alone. *)
(***************************************************************************)
EXTENDS PrivatePath

CONSTANTS
    ABSORB_EVERY,   \* ticks between two absorptions
    Cycles,         \* COMMIT_EVERY, in absorptions
    OthersCommit,   \* somebody else calls commit_book, as anyone may
    MaxCrashes      \* bound: times the public keeper dies by itself

ASSUME RoundAssumption == ABSORB_EVERY \in Nat \ {0} /\ Cycles \in Nat \ {0}
ASSUME CrashAssumption == OthersCommit \in BOOLEAN /\ MaxCrashes \in Nat

VARIABLES
    bookSite, bookNonce,            \* the book's delegation
    pc, inLoop, ticks, counted,     \* keeper.ts
    flow, crashes

Public == INSTANCE KeeperLoop WITH
    site <- bookSite, nonce <- bookNonce, looping <- inLoop, n <- ticks,
    commits <- counted

publicVars == <<bookSite, bookNonce, pc, inLoop, ticks, counted, flow, crashes>>
systemVars == <<pathVars, publicVars>>

\* setup.ts is done, and the keeper is started.
PublicUp == script = "setup" /\ Ended /\ late = {}

SystemInit == PathInit /\ Public!Init

SystemNext ==
    \/ PathNext /\ UNCHANGED publicVars
    \/ PublicUp /\ Public!Next /\ UNCHANGED pathVars

SystemSpec == SystemInit /\ [][SystemNext]_systemVars

ByPublic(A) == PublicUp /\ A /\ UNCHANGED pathVars

\* What Public!Fairness says, from when the keeper is started, and an operator
\* who looks at its log.  Only the properties of the public keeper assume it.
PublicFairness ==
    /\ WF_systemVars(ByPublic(Public!Working))
    /\ WF_systemVars(ByPublic(Public!RecycleStep))
    /\ WF_systemVars(ByPublic(Public!LandUndelegation))
    /\ WF_systemVars(ByPublic(Public!AbsorbDone))
    /\ SF_systemVars(ByPublic(Public!Tick))
    /\ SF_systemVars(ByPublic(Public!Tick /\ pc' = "commit"))
    /\ SF_systemVars(ByPublic(Public!CommitAnswered))
    /\ SF_systemVars(ByPublic(Public!UndelegateDone))
    /\ SF_systemVars(ByPublic(Public!DelegateDone))
    /\ SF_systemVars(ByPublic(Public!WaitSeen))
    /\ WF_systemVars(ByPublic(Public!OperatorRestart))

LiveSystem == SystemSpec /\ PathFairness

-----------------------------------------------------------------------------
\* Once setup.ts has run, cut off or not, the book reaches Solana for ever
\* (Public!BookReachesSolana), by a commit or by the undelegation of a recycle,
\* whatever fails in the keeper's rounds and whoever spends its commits.
BookReachesSolana == script = "setup" /\ PublicFairness => Public!BookReachesSolana

\* A recycle that was cut off, by a throw or by the process's death, is finished:
\* the book does not stay on Solana.
RecyclesFinish == script = "setup" /\ PublicFairness => Public!RecyclesFinish

=============================================================================
