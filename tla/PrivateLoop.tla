----------------------------- MODULE PrivateLoop -----------------------------
(***************************************************************************)
(* The private keeper's turn in the keeper's loop (private-keeper.ts,      *)
(* keeper.ts): pay the exit tickets that are old enough, publish the       *)
(* aggregate, recycle its delegation when the sponsored commits are spent, *)
(* refill the sponsor.  The duties of a turn come one after the other, and *)
(* the first that throws ends it; the next turn begins with the tickets.   *)
(*                                                                         *)
(* The keeper logs in to the enclave once, when it starts, and the token   *)
(* it gets is good for thirty days.  heal, too, looks once, at the start.  *)
(***************************************************************************)
EXTENDS PrivateSide

CONSTANTS
    COMMIT_LIMIT,           \* commits a delegation sponsors
    EXITS_EVERY,            \* turns between two readings of the exit book
    SHIELDED_COMMIT_EVERY,  \* turns between two commits
    SPONSOR_EVERY,          \* turns between two looks at the sponsor
    SPONSOR_FLOOR,
    SPONSOR_REFILL,
    Turns,                  \* bound: the turns are counted modulo this
    MaxMishaps              \* bound: crashes, expired logins, and throws that
                            \* need not have been

ASSUME CadenceAssumption ==
    {COMMIT_LIMIT, EXITS_EVERY, SHIELDED_COMMIT_EVERY, SPONSOR_EVERY,
     SPONSOR_FLOOR, SPONSOR_REFILL} \subseteq Nat \ {0}
ASSUME BoundsAssumption ==
    /\ MaxMishaps \in Nat /\ Turns \in Nat \ {0}
    /\ \A every \in {EXITS_EVERY, SHIELDED_COMMIT_EVERY, SPONSOR_EVERY} :
         Turns % every = 0

VARIABLES
    at,             \* where the keeper is
    looping,        \* main has reached its loop
    turn,           \* privAt, modulo the cadences
    commits,        \* commits the keeper has counted
    seen,           \* tickets it has met
    ripe,           \* those it met EXIT_GRACE_S ago
    todo,           \* tickets of this turn still to pay
    sent,           \* payments given up on that may still land
    token,          \* its login is accepted
    mishaps

memory     == <<turn, commits, seen, ripe, todo>>
keeperVars == <<at, looping, memory, sent, token, mishaps>>

Due(every) == turn % every = 0

LoopInit ==
    /\ at      = "start"
    /\ looping = FALSE
    /\ turn    = 0
    /\ commits = 0
    /\ seen    = {}
    /\ ripe    = {}
    /\ todo    = {}
    /\ sent    = {}
    /\ token   = TRUE
    /\ mishaps = 0

Mishap == mishaps < MaxMishaps /\ mishaps' = mishaps + 1

\* It goes on to its next step.
Goto(step) == at' = step /\ UNCHANGED <<looping, mishaps>>

\* The turn is over, one way or the other.
TurnEnds ==
    /\ at'   = "exits"
    /\ turn' = (turn + 1) % Turns
    /\ todo' = {}
    /\ UNCHANGED <<looping, commits, seen, ripe>>

\* What throws ends the turn; before the loop it ends the process, and launchd
\* runs it again (keeper.sh).  What is hopeless throws whenever it is tried.
\* A transaction that throws may have landed: its effect is there, or not.
Throws(hopeless, effect) ==
    /\ Mishap \/ (hopeless /\ UNCHANGED mishaps)
    /\ \/ looping /\ TurnEnds
       \/ ~looping /\ at' = "start" /\ UNCHANGED <<looping, memory>>
    /\ UNCHANGED sideVars \/ effect
    /\ UNCHANGED token

NoEffect == UNCHANGED sideVars

\* A step at which the keeper only finds out where to go.
Passes(from, to) ==
    /\ at = from
    /\ Goto(to)
    /\ UNCHANGED <<sideVars, memory, sent, token>>

-----------------------------------------------------------------------------
\* authedConnectionTo: a fresh login.  One that fails is not noticed: the
\* keeper falls through to a connection without a token.
LogsIn ==
    \/ token' = TRUE /\ UNCHANGED mishaps
    \/ token' = FALSE /\ Mishap

\* connect and heal: the login, and the end of a recycle that was cut off.  The
\* router calls the aggregate delegated until it is back on Solana.
KeeperStarts ==
    /\ at = "start"
    /\ LogsIn
    /\ looping' = (site # "solana")
    /\ at'      = IF looping' THEN "exits" ELSE "wait"
    /\ turn'    = 1 % Turns
    /\ UNCHANGED <<sideVars, commits, seen, ripe, todo, sent>>

(***************************************************************************)
(* payExits                                                                *)
(***************************************************************************)
ExitsDue == at = "exits" /\ Due(EXITS_EVERY)

\* A variant whose clock starts again at every reading.
ReadExitsAnew ==
    /\ ExitsDue /\ token
    /\ seen' = exits
    /\ ripe' = {}
    /\ todo' = {}
    /\ Goto("pay")
    /\ UNCHANGED <<sideVars, turn, commits, sent, token>>

\* Forget the tickets that are closed, meet the new ones, and pay those it has
\* known long enough.
ReadExits ==
    /\ ExitsDue /\ token
    /\ seen' = exits
    /\ ripe' = ripe \intersect exits
    /\ todo' = ripe'
    /\ Goto("pay")
    /\ UNCHANGED <<sideVars, turn, commits, sent, token>>

\* EXIT_GRACE_S go by.
Ripen ==
    /\ ripe # seen
    /\ ripe' = seen
    /\ UNCHANGED <<sideVars, at, looping, turn, commits, seen, todo, sent, token, mishaps>>

\* A payment is confirmed, and its ticket closed.
Pay(ticket) ==
    /\ at = "pay" /\ ticket \in todo /\ token
    /\ Settle(ticket)
    /\ todo' = todo \ {ticket}
    /\ Goto("pay")
    /\ UNCHANGED <<turn, commits, seen, ripe, sent, token>>

\* A payment is refused, as it must be when somebody else has paid the ticket;
\* or it is lost, or not confirmed in time.
PayThrows(ticket) ==
    /\ at = "pay" /\ ticket \in todo
    /\ Throws(~token \/ ticket \notin exits, NoEffect)
    /\ \/ UNCHANGED sent
       \/ token /\ sent' = sent \union {ticket}

\* What was given up on lands, if its ticket is open still, or is dropped.
LandPayment(ticket) ==
    /\ ticket \in sent
    /\ sent' = sent \ {ticket}
    /\ Settle(ticket) \/ NoEffect
    /\ UNCHANGED <<at, looping, memory, token, mishaps>>

(***************************************************************************)
(* commit                                                                  *)
(***************************************************************************)
CommitDue == at = "commit" /\ Due(SHIELDED_COMMIT_EVERY) /\ commits < COMMIT_LIMIT

\* The enclave sponsors one more commit of the aggregate.
CommitShielded ==
    /\ site = "enclave" /\ nonce < COMMIT_LIMIT
    /\ nonce' = nonce + 1
    /\ UNCHANGED <<site, gated, exits, money, sponsor>>

Commit ==
    /\ CommitDue /\ token
    /\ CommitShielded
    /\ commits' = commits + 1
    /\ Goto("sponsor")
    /\ UNCHANGED <<turn, seen, ripe, todo, sent, token>>

Spent == site = "enclave" /\ nonce >= COMMIT_LIMIT

\* A variant that leaves the limit error to be logged.
LimitThrows == CommitDue /\ Spent /\ Throws(TRUE, NoEffect) /\ UNCHANGED sent

\* The enclave refuses to sponsor the commit.
LimitReached == CommitDue /\ token /\ Spent /\ Passes("commit", "undelegate")

CommitThrows ==
    /\ CommitDue
    /\ Throws(~token \/ site # "enclave", token /\ CommitShielded)
    /\ UNCHANGED sent

(***************************************************************************)
(* recycle: undelegate, wait for Solana, delegate again, gate again.       *)
(***************************************************************************)
UndelegateShielded ==
    /\ site = "enclave"
    /\ site' = "returning"
    /\ UNCHANGED <<gated, nonce, exits, money, sponsor>>

Undelegate ==
    /\ at = "undelegate" /\ token
    /\ UndelegateShielded
    /\ Goto("wait")
    /\ UNCHANGED <<memory, sent, token>>

UndelegateThrows ==
    /\ at = "undelegate" /\ site # "solana"
    /\ Throws(~token \/ site # "enclave", token /\ UndelegateShielded)
    /\ UNCHANGED sent

\* A fresh delegation.
DelegateShielded ==
    /\ site = "solana"
    /\ site' = "arriving"
    /\ nonce' = 0
    /\ UNCHANGED <<gated, exits, money, sponsor>>

Delegate ==
    /\ at = "delegate"
    /\ DelegateShielded
    /\ Goto("taken")
    /\ UNCHANGED <<memory, sent, token>>

DelegateThrows == at = "delegate" /\ Throws(FALSE, DelegateShielded) /\ UNCHANGED sent

\* It does not come back, or is not taken, in time.
WaitThrows == at \in {"wait", "taken"} /\ Throws(FALSE, NoEffect) /\ UNCHANGED sent

\* The recycle that heal began leads to the loop, one in the loop to the rest
\* of its turn.
Recycled ==
    /\ commits' = 0
    /\ at'      = IF looping THEN "sponsor" ELSE "exits"
    /\ looping' = TRUE
    /\ UNCHANGED <<turn, seen, ripe, todo, sent, token, mishaps>>

\* A variant that takes the gate for granted.
GateAssumed == at = "gate" /\ Recycled /\ UNCHANGED sideVars

\* init_shielded_permission makes the gate, if it is not there.
MakeGate == gated' = TRUE /\ UNCHANGED <<site, nonce, exits, money, sponsor>>

Gate == at = "gate" /\ token /\ MakeGate /\ Recycled

GateThrows == at = "gate" /\ Throws(~token, token /\ MakeGate) /\ UNCHANGED sent

(***************************************************************************)
(* refillSponsor                                                           *)
(***************************************************************************)
Transfer ==
    /\ sponsor' = sponsor + SPONSOR_REFILL
    /\ UNCHANGED <<aggregate, exits, money>>

\* A variant that refills whatever is left.
RefillAlways ==
    /\ at = "sponsor" /\ Due(SPONSOR_EVERY)
    /\ Transfer
    /\ TurnEnds
    /\ UNCHANGED <<sent, token, mishaps>>

RefillDue == at = "sponsor" /\ Due(SPONSOR_EVERY) /\ sponsor < SPONSOR_FLOOR

Refill ==
    /\ RefillDue
    /\ Transfer
    /\ TurnEnds
    /\ UNCHANGED <<sent, token, mishaps>>

NoRefill ==
    /\ at = "sponsor" /\ ~RefillDue
    /\ TurnEnds
    /\ UNCHANGED <<sideVars, sent, token, mishaps>>

RefillThrows == RefillDue /\ Throws(FALSE, Transfer) /\ UNCHANGED sent

-----------------------------------------------------------------------------
\* step: each duty every so many turns, in this order; and where a commit or a
\* recycle finds that it has to go on.
MovesOn ==
    \/ ~Due(EXITS_EVERY) /\ Passes("exits", "commit")
    \/ todo = {} /\ Passes("pay", "commit")
    \/ ~Due(SHIELDED_COMMIT_EVERY) /\ Passes("commit", "sponsor")
    \/ Due(SHIELDED_COMMIT_EVERY) /\ commits >= COMMIT_LIMIT /\ Passes("commit", "undelegate")
    \/ site = "solana" /\ (Passes("undelegate", "wait") \/ Passes("wait", "delegate"))
    \/ site = "enclave" /\ Passes("taken", "gate")

Working ==
    \/ KeeperStarts \/ MovesOn
    \/ ReadExits \/ \E ticket \in todo : Pay(ticket)
    \/ Commit \/ LimitReached
    \/ Undelegate \/ Delegate \/ Gate
    \/ Refill \/ NoRefill

Throwing ==
    \/ ExitsDue /\ Throws(~token, NoEffect) /\ UNCHANGED sent
    \/ \E ticket \in todo : PayThrows(ticket)
    \/ CommitThrows \/ UndelegateThrows \/ DelegateThrows
    \/ WaitThrows \/ GateThrows \/ RefillThrows

\* The process dies, and launchd runs it again.
Dies ==
    /\ at' = "start"
    /\ looping' = FALSE
    /\ turn' = 0 /\ commits' = 0 /\ seen' = {} /\ ripe' = {} /\ todo' = {}
    /\ UNCHANGED <<sideVars, sent, token>>

KeeperCrashes == at # "start" /\ Mishap /\ Dies

\* qfsToken: "The token is a 30-day JWT".
TokenExpires ==
    /\ token
    /\ Mishap
    /\ token' = FALSE
    /\ UNCHANGED <<sideVars, at, looping, memory, sent>>

\* The operator restarts a keeper whose log shows that its private turns fail
\* or whose aggregate diagnose.ts finds on Solana.
OperatorRestarts ==
    /\ looping /\ at \in {"exits", "pay", "commit", "sponsor"}
    /\ ~token \/ site = "solana"
    /\ Dies
    /\ UNCHANGED mishaps

KeeperNext ==
    \/ Working \/ Throwing \/ Ripen
    \/ \E ticket \in sent : LandPayment(ticket)
    \/ KeeperCrashes \/ TokenExpires \/ OperatorRestarts

=============================================================================
