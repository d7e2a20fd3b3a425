--------------------------- MODULE PositionAccess ---------------------------
(***************************************************************************)
(* Who acts on one position and who reads it (lib.rs): the session key a   *)
(* wallet trusts, on Solana or from inside the enclave; the permission     *)
(* that gates reads of the position there; and the flag by which the       *)
(* position says that it is gated.                                         *)
(*                                                                         *)
(* Three records have to stay in step: the session key the position names, *)
(* the members the permission admits, and the flag.  The first can change  *)
(* on Solana, where the permission does not exist, and while the           *)
(* permission is open, when nobody rewrites it.                            *)
(*                                                                         *)
(* Left out: shares and marks; the prepaid rent and the member flags, which *)
(* no condition reads; how rotate_session finds the wallet's signature in  *)
(* the instruction before it: a rotation is one the wallet has signed.     *)
(* The owner, always a member, is not listed among the members, and is not *)
(* its own session key, as the owner of a stealth position is.             *)
(***************************************************************************)
EXTENDS Integers, FiniteSets

CONSTANTS
    Keys,           \* session keys browsers make
    NoKey,          \* Pubkey::default()
    Viewers,        \* pubkeys an owner may admit
    SESSION_TTL,    \* how long authorize_session trusts a key
    Leeway,         \* 3600: how much longer rotate_session may
    MAX_PERMISSION_MEMBERS,
    ClosesFirst,    \* the permission is closed before the position leaves, as
                    \* undelegate_position asks
    Reopens,        \* init_permission is sent, or lands, once more after
                    \* set_permission has opened the position
    MaxTime         \* bound: seconds

ASSUME KeysAssumption ==
    /\ NoKey \notin Keys /\ NoKey \notin Viewers
    /\ Keys \intersect Viewers = {}
ASSUME TimesAssumption ==
    /\ SESSION_TTL \in Nat \ {0} /\ Leeway \in Nat /\ MaxTime \in Nat
    /\ MAX_PERMISSION_MEMBERS \in Nat
ASSUME SwitchesAssumption ==
    /\ ClosesFirst \in BOOLEAN /\ Reopens \in BOOLEAN

VARIABLES
    site,           \* where the position is written
    session_key,
    session_expiry,
    is_private,
    permission,     \* in the enclave: exists, is_private, members
    now             \* the clock

positionVars == <<session_key, session_expiry, is_private>>
vars == <<site, positionVars, permission, now>>

NoPermission == [exists |-> FALSE, is_private |-> FALSE, members |-> {}]

\* init_position
Init ==
    /\ site           = "solana"
    /\ session_key    = NoKey
    /\ session_expiry = 0
    /\ is_private     = FALSE
    /\ permission     = NoPermission
    /\ now            = 0

-----------------------------------------------------------------------------
(***************************************************************************)
(* Solana.                                                                 *)
(***************************************************************************)
\* A variant that trusts the key for as long as rotate_session may.
AuthorizeSessionFor(key) ==
    /\ site = "solana"
    /\ session_key'    = key
    /\ session_expiry' = session_expiry + SESSION_TTL + Leeway
    /\ UNCHANGED <<site, is_private, permission, now>>

\* authorize_session
AuthorizeSession(key) ==
    /\ site = "solana"
    /\ session_key'    = key
    /\ session_expiry' = now + SESSION_TTL
    /\ UNCHANGED <<site, is_private, permission, now>>

\* delegate_position
DelegatePosition ==
    /\ site = "solana"
    /\ site' = "enclave"
    /\ UNCHANGED <<positionVars, permission, now>>

\* undelegate_position: "Close its permission first."
UndelegatePosition ==
    /\ site = "enclave"
    /\ ClosesFirst => ~permission.exists
    /\ site' = "returning"
    /\ UNCHANGED <<positionVars, permission, now>>

\* The position's last commit reaches Solana (MagicBlock).
LandPosition ==
    /\ site = "returning"
    /\ site' = "solana"
    /\ UNCHANGED <<positionVars, permission, now>>

-----------------------------------------------------------------------------
(***************************************************************************)
(* The enclave.                                                            *)
(***************************************************************************)
\* assert_may_act, of the session key; the owner always may.
SessionMayAct == session_key # NoKey /\ now < session_expiry

\* Somebody who may act is there: the owner, whose key signs in the enclave
\* when it is a stealth key, or a live session key.
SomebodyActs(by) == by = "owner" \/ SessionMayAct

\* A variant that lists the key without looking whether there is one.
MembersListed(key, viewers) == {key} \union viewers

\* members_args: the session key, if there is one, and the viewers.
Members(key, viewers) == ({key} \ {NoKey}) \union viewers

\* init_permission: creates the permission, or finds it there and only sets
\* the flag.
InitPermission(by, viewers) ==
    /\ site = "enclave"
    /\ SomebodyActs(by)
    /\ Cardinality(viewers) + 1 <= MAX_PERMISSION_MEMBERS
    /\ Reopens \/ (permission.exists => permission.is_private)
    /\ permission' = IF permission.exists THEN permission
                     ELSE [exists |-> TRUE, is_private |-> TRUE,
                           members |-> Members(session_key, viewers)]
    /\ is_private' = TRUE
    /\ UNCHANGED <<site, session_key, session_expiry, now>>

\* set_permission: the permission program refuses to update one that is not
\* there.
SetPermission(by, private, viewers) ==
    /\ site = "enclave"
    /\ SomebodyActs(by)
    /\ Cardinality(viewers) + 2 <= MAX_PERMISSION_MEMBERS
    /\ permission.exists
    /\ permission' = [exists |-> TRUE, is_private |-> private,
                      members |-> Members(session_key, viewers)]
    /\ is_private' = private
    /\ UNCHANGED <<site, session_key, session_expiry, now>>

\* A variant that closes the permission and forgets the flag.
ClosePermissionOnly(by) ==
    /\ site = "enclave"
    /\ SomebodyActs(by)
    /\ permission.exists
    /\ permission' = NoPermission
    /\ UNCHANGED <<site, positionVars, now>>

\* close_permission
ClosePermission(by) ==
    /\ site = "enclave"
    /\ SomebodyActs(by)
    /\ permission.exists
    /\ permission' = NoPermission
    /\ is_private' = FALSE
    /\ UNCHANGED <<site, session_key, session_expiry, now>>

\* A variant that accepts any expiry that has not passed.
ExpiryAhead(expiry) == expiry > now /\ expiry <= now + SESSION_TTL + Leeway

\* The wallet has signed a message for this expiry that is not too old, too
\* far ahead, or behind what it signed before.
ExpiryAccepted(expiry) ==
    /\ expiry > now
    /\ expiry <= now + SESSION_TTL + Leeway
    /\ expiry > session_expiry

\* A variant that rewrites the permission without the viewers.
RotateSessionAlone(key, expiry) ==
    /\ site = "enclave"
    /\ ExpiryAccepted(expiry)
    /\ session_key'    = key
    /\ session_expiry' = expiry
    /\ permission' = IF is_private
                     THEN [permission EXCEPT !.is_private = TRUE,
                                             !.members    = Members(key, {})]
                     ELSE permission
    /\ UNCHANGED <<site, is_private, now>>

\* A variant that keeps the old key among the members.
RotateSessionKeepsOld(key, expiry) ==
    /\ site = "enclave"
    /\ ExpiryAccepted(expiry)
    /\ session_key'    = key
    /\ session_expiry' = expiry
    /\ permission' = IF is_private
                     THEN [permission EXCEPT !.is_private = TRUE,
                                             !.members = Members(key, @)]
                     ELSE permission
    /\ UNCHANGED <<site, is_private, now>>

\* rotate_session: a gated permission is rewritten with the new key in place
\* of the old one; reading a permission that is not there fails.
RotateSession(key, expiry) ==
    /\ site = "enclave"
    /\ ExpiryAccepted(expiry)
    /\ session_key'    = key
    /\ session_expiry' = expiry
    /\ is_private => permission.exists
    /\ permission' =
         IF is_private
         THEN [permission EXCEPT
                 !.is_private = TRUE,
                 !.members    = Members(key, @ \ {session_key})]
         ELSE permission
    /\ UNCHANGED <<site, is_private, now>>

AdvanceTime ==
    /\ now < MaxTime
    /\ now' = now + 1
    /\ UNCHANGED <<site, positionVars, permission>>

-----------------------------------------------------------------------------
Signers == {"owner", "session"}

Rotate == \E key \in Keys, expiry \in 1 .. MaxTime + SESSION_TTL + Leeway :
            RotateSession(key, expiry)

Moving == DelegatePosition \/ UndelegatePosition \/ LandPosition

Gating ==
    \E by \in Signers :
      \/ ClosePermission(by)
      \/ \E viewers \in SUBSET Viewers :
           \/ InitPermission(by, viewers)
           \/ \E private \in BOOLEAN : SetPermission(by, private, viewers)

Next ==
    \/ \E key \in Keys : AuthorizeSession(key)
    \/ Moving \/ Gating \/ Rotate \/ AdvanceTime

Spec == Init /\ [][Next]_vars

-----------------------------------------------------------------------------
PermissionType == [exists : BOOLEAN, is_private : BOOLEAN,
                   members : SUBSET (Keys \union Viewers)]

\* Every variable holds a value of its kind.
TypeOK ==
    /\ site \in {"solana", "enclave", "returning"}
    /\ session_key \in Keys \union {NoKey}
    /\ session_expiry \in Nat
    /\ is_private \in BOOLEAN
    /\ permission \in PermissionType
    /\ now \in 0 .. MaxTime

\* A gated position is read, besides its owner and viewers, by the session key
\* it names and by no earlier one: "it has to be on the list or the browser
\* cannot show the owner their own position" (members_args), and a rotation
\* puts "the new key in place of the old one" (rotate_session).
SessionIsTheReader ==
    permission.is_private => permission.members \intersect Keys = {session_key} \ {NoKey}

\* The flag says what the permission does: it "mirrors whether an
\* EphemeralPermission is gating this account" (Position).
FlagMirrorsGate == is_private = permission.is_private

\* Whoever holds a session key, it stops working by itself: no chain of
\* authorisations, rotations and moves makes one outlive the term counted from
\* today (SESSION_TTL, rotate_session).
LifetimeBounded == session_expiry <= now + SESSION_TTL + Leeway

\* A rotation keeps every admitted viewer (rotate_session).
ViewersKept ==
    [][(Rotate /\ is_private)
         => permission'.members \intersect Viewers
              = permission.members \intersect Viewers]_vars

\* Only the wallet's word on Solana sets the expiry back: between two of its
\* authorisations, through moves out and in, a rotation message is accepted at
\* most once.  That it is "worthless" for good, as rotate_session's doc has it,
\* is not so: authorize_session may set an earlier expiry than a rotation did.
ExpiryForward ==
    [][session_expiry' < session_expiry => \E key \in Keys : AuthorizeSession(key)]_vars

=============================================================================
