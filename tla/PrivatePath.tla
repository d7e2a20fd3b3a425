----------------------------- MODULE PrivatePath -----------------------------
(***************************************************************************)
(* The private path from end to end: the scripts that set it up, the       *)
(* keeper that runs it, a depositor who uses it.  The keeper and the       *)
(* depositor begin when setup-private.ts is done.                          *)
(***************************************************************************)
EXTENDS Scripts, PrivateLoop, PrivateClient

operation == <<sideVars, keeperVars, clientVars>>
pathVars  == <<scriptVars, operation>>

\* What setup-private.ts leaves: the aggregate in the enclave, gated, a custody
\* with nothing in it, a queue that delivers.
SideInit ==
    /\ site    = "enclave"
    /\ gated   = TRUE
    /\ nonce   = 0
    /\ exits   = {}
    /\ money   = [p \in Places |-> IF p = "wallet" THEN Units ELSE 0]
    /\ sponsor = SPONSOR_REFILL

PathInit == ScriptsInit /\ SideInit /\ LoopInit /\ ClientInit

Operating == script = "setup_private" /\ Ended /\ late = {}

SetUp == ScriptsNext /\ UNCHANGED operation

Keeper == KeeperNext /\ UNCHANGED clientVars

Client ==
    /\ UNCHANGED <<at, looping, memory, sent, token>>
    /\ \/ (ClientNext \/ CommitHere(COMMIT_LIMIT)) /\ UNCHANGED mishaps
       \/ (LoseKeys \/ (SponsorOther /\ UNCHANGED clientVars)) /\ Mishap

MagicBlock ==
    LandUndelegation \/ TakeAggregate \/ DeliverPart \/ DeliverPayout \/ TakeShielded

Operation ==
    \/ Keeper
    \/ Client
    \/ MagicBlock /\ UNCHANGED <<keeperVars, clientVars>>

PathNext ==
    \/ SetUp
    \/ Operating /\ Operation /\ UNCHANGED scriptVars

PathSpec == PathInit /\ [][PathNext]_pathVars

-----------------------------------------------------------------------------
ByKeeper(A)     == Operating /\ A /\ UNCHANGED <<scriptVars, clientVars>>
ByClient(A)     == Operating /\ A /\ UNCHANGED <<scriptVars, keeperVars>>
ByMagicBlock(A) == Operating /\ A /\ UNCHANGED <<scriptVars, keeperVars, clientVars>>

\* The keeper's process runs: launchd and the operator see to it.
KeeperFairness ==
    /\ WF_pathVars(ByKeeper(Working \/ Throwing))
    /\ WF_pathVars(ByKeeper(OperatorRestarts))
    /\ WF_pathVars(ByKeeper(Ripen \/ \E t \in sent : LandPayment(t)))

\* MagicBlock delivers.
MagicBlockFairness ==
    /\ WF_pathVars(ByMagicBlock(LandUndelegation \/ TakeAggregate))
    /\ WF_pathVars(ByMagicBlock(DeliverPart \/ DeliverPayout \/ TakeShielded))

\* A depositor does what can be done.  The aggregate is away now and then: what
\* needs it is tried again.
ClientFairness ==
    /\ WF_pathVars(ByClient(Preparing))
    /\ SF_pathVars(ByClient(DepositPrivate \/ RedeemPrivate \/ RedeemPrivateTo))

PathFairness == ScriptsFairness /\ KeeperFairness /\ MagicBlockFairness /\ ClientFairness

-----------------------------------------------------------------------------
\* Types; the sponsor never holds more than one refill above what asks for one,
\* since refillSponsor looks before it pays, a crash between the two included.
PathTypeOK ==
    /\ site \in {"enclave", "returning", "solana", "arriving"}
    /\ {gated, looping, token, sealed, holds, lost} \subseteq BOOLEAN
    /\ {nonce, commits} \subseteq 0 .. COMMIT_LIMIT
    /\ exits \union seen \union sent \subseteq 1 .. Units \div Lot
    /\ ripe \subseteq seen /\ todo \subseteq ripe
    /\ money \in [Places -> 0 .. Units]
    /\ sponsor \in 0 .. SPONSOR_FLOOR - 1 + SPONSOR_REFILL
    /\ at \in {"start", "exits", "pay", "commit", "undelegate", "wait", "delegate",
               "taken", "gate", "sponsor"}
    /\ turn \in 0 .. Turns - 1 /\ mishaps \in 0 .. MaxMishaps
    /\ kind \in Kinds /\ pos \in {"none", "delegated", "taken"}
    /\ shares \in 0 .. Units /\ asked \in 0 .. Units \div Lot

\* What a stealth owner sends is credited, all parts of it, though the queue
\* delivers them apart and others empty the sponsor (private-keeper.ts: deposits
\* "resume once it is refilled").
SendsCredited == (kind = "stealth" /\ money["sending"] > 0) ~> (shares = Units)

\* A ticket asked for is closed and its money reaches the wallet, through its
\* grace period, lost and repeated payments, restarts, and a login that runs out.
RedemptionsPaid ==
    \A n \in 1 .. Units \div Lot :
        (asked >= n) ~> (money["wallet"] >= n * Lot /\ n \notin exits)

\* The aggregate keeps reaching Solana, by a commit or by an undelegation's,
\* though others spend its commits and a recycle is cut off anywhere: what heal
\* does not find at the start is left to the loop and to the operator.
AggregateReachesSolana ==
    <>Operating => []<><<Commit \/ LandUndelegation>>_pathVars

\* An aggregate that came back to the enclave without its gate is gated again,
\* though the keeper may stop between the delegation and the gate.
Regated == (site = "enclave" /\ ~gated) ~> gated

\* A depositor gets every share redeemed, though the aggregate is away for a
\* recycle now and then and the session key may be lost for good.
SharesRedeemable == (shares > 0) ~> (shares = 0)

=============================================================================
