----------------------------- MODULE FrontDoor ------------------------------
(***************************************************************************)
(* What a request passes before a handler sees it: create_app adds the     *)
(* rate limiter, then the authentication, and the middleware added last is *)
(* the first to run.  A request that is not authorised is answered 401 and *)
(* never reaches the limiter.                                              *)
(*                                                                         *)
(* The scheme is the configuration's: none, the static tokens of server.py *)
(* (whose admin token is optional), or the JWT middleware that auth.py     *)
(* offers in its place.  A JWT is what its payload says about time.        *)
(* Credentials are told apart by what the middlewares compare.  The wall   *)
(* clock of the tokens and the monotonic one of the buckets run together.  *)
(***************************************************************************)
EXTENDS RateLimiter, Sequences

CONSTANTS
    Second,     \* ticks in a second
    Expiry,     \* expiry_seconds, in ticks
    Grace,      \* grace_seconds, in ticks
    MaxTokens,  \* bound on the tokens issued, for TLC
    MaxTurned   \* bound on the requests turned away in a window, for TLC

ASSUME TokensAssumption ==
    /\ Second \in Nat \ {0}
    /\ Expiry \in Nat /\ Grace \in Nat
    /\ MaxTokens \in Nat /\ MaxTurned \in Nat

VARIABLES
    scheme,     \* how requests are authorised
    adminSet,   \* has the configuration an admin token of its own?
    minted,     \* the JWTs issued, each with its exp and, as history, when
    turnedAway  \* history: each client's requests answered 401 since then

doorVars == <<vars, scheme, adminSet, minted, turnedAway>>

Paths == {"card", "health", "metrics", "dashboard", "admin", "rpc"}

(***************************************************************************)
(* JWTAuth.                                                                *)
(***************************************************************************)
\* Mutant: the time is rounded up.
RoundedUp(t) == ((t + Second - 1) \div Second) * Second

\* int(time.time()), in ticks.
WholeSeconds(t) == (t \div Second) * Second

\* generate_token.
NewToken == [born |-> now, exp |-> WholeSeconds(now) + Expiry]

Expired(t, grace) == now > t.exp + grace

Mint ==
    /\ Len(minted) < MaxTokens
    /\ minted' = Append(minted, NewToken)
    /\ UNCHANGED <<vars, scheme, adminSet, turnedAway>>

Login == scheme = "jwt" /\ Mint

\* refresh_token.
Refresh == \E n \in DOMAIN minted : ~Expired(minted[n], Grace) /\ Mint

(***************************************************************************)
(* The middlewares.                                                        *)
(***************************************************************************)
\* A request's credentials: a static token, or which JWT, 0 for none.
Credentials ==
    IF scheme = "static" THEN {"nothing", "token", "admin_token"} ELSE 0..Len(minted)

\* _make_auth_middleware.
StaticPasses(path, cred) ==
    \/ path \in {"card", "health", "metrics"}
    \/ path \in {"admin", "dashboard"} /\ cred = IF adminSet THEN "admin_token" ELSE "token"
    \/ path = "rpc" /\ cred = "token"

\* AuthMiddleware.dispatch.
JwtPasses(path, n) ==
    \/ path \in {"card", "health", "dashboard"}
    \/ n # 0 /\ ~Expired(minted[n], 0)

Passes(path, cred) ==
    \/ scheme = "none"
    \/ scheme = "static" /\ StaticPasses(path, cred)
    \/ scheme = "jwt" /\ JwtPasses(path, cred)

\* 401: the request goes no further.
TurnAway(c) ==
    /\ turnedAway[c] < MaxTurned
    /\ turnedAway' = [turnedAway EXCEPT ![c] = @ + 1]
    /\ UNCHANGED vars

\* A request passes the authentication and goes to the limiter, or is turned
\* away.
Ask(c, path, cred) ==
    /\ \/ Passes(path, cred) /\ Request(c) /\ UNCHANGED turnedAway
       \/ ~Passes(path, cred) /\ TurnAway(c)
    /\ UNCHANGED <<scheme, adminSet, minted>>

\* OpenWindow, for the requests turned away too.
ObserveDoor ==
    /\ OpenWindow
    /\ turnedAway' = [c \in Clients |-> 0]
    /\ UNCHANGED <<scheme, adminSet, minted>>

DoorInit ==
    /\ Init
    /\ scheme \in {"none", "static", "jwt"}
    /\ adminSet \in BOOLEAN /\ (adminSet => scheme = "static")
    /\ minted = <<>>
    /\ turnedAway = [c \in Clients |-> 0]

DoorNext ==
    \/ \E c \in Clients, path \in Paths : \E cred \in Credentials : Ask(c, path, cred)
    \/ Login \/ Refresh
    \/ Tick /\ UNCHANGED <<scheme, adminSet, minted, turnedAway>>
    \/ ObserveDoor

DoorSpec == DoorInit /\ [][DoorNext]_doorVars

-----------------------------------------------------------------------------
DoorTypeOK ==
    /\ TypeOK
    /\ scheme \in {"none", "static", "jwt"} /\ adminSet \in BOOLEAN
    /\ minted \in Seq([born : Nat, exp : Nat]) /\ (minted # <<>> => scheme = "jwt")
    /\ turnedAway \in [Clients -> Nat]

\* A token serves no longer than expiry_seconds, and can be refreshed no longer
\* than grace_seconds more; the truncation to whole seconds takes less than a
\* second off either (generate_token, validate_token, refresh_token).
TokensLiveAsLong ==
    \A n \in DOMAIN minted, grace \in {0, Grace} :
        LET age == now - minted[n].born IN
        /\ ~Expired(minted[n], grace) => age <= Expiry + grace
        /\ age <= Expiry + grace - Second => ~Expired(minted[n], grace)

\* What the comment over the limiter says, "before auth so unauthenticated
\* requests are also limited": what a client gets answered in a window of time,
\* 401 or by a handler, is one burst plus the sustained rate at most.
StrangersAreLimited ==
    \A c \in Clients :
        TokenCost * (admitted[c] + turnedAway[c]) <= Capacity + Refill * (now - since)
=============================================================================
