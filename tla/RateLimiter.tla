---------------------------- MODULE RateLimiter ----------------------------
(***************************************************************************)
(* The token-bucket middleware (rate_limiter.py).  One bucket per client   *)
(* address, created full at the first request and never evicted; consume() *)
(* refills lazily from the monotonic clock.  The locks make consume()      *)
(* atomic, so one action is one request.                                   *)
(*                                                                         *)
(* Time passes in ticks.  A token is TokenCost units, and a tick refills   *)
(* Refill units: with one tick a second, requests_per_minute r is          *)
(* Refill = r and TokenCost = 60.  The code's floats are taken as exact.   *)
(***************************************************************************)
EXTENDS Integers

CONSTANTS
    Clients,     \* addresses, as _extract_client_ip reports them
    TokenCost,   \* units in one token
    Capacity,    \* burst_size, in units
    Refill,      \* units a tick adds
    MaxTime      \* bound on the clock, for TLC

ASSUME UnitsAssumption ==
    /\ TokenCost \in Nat \ {0}
    /\ Capacity \in Nat /\ Refill \in Nat
    /\ MaxTime \in Nat

VARIABLES
    now,         \* time.monotonic()
    known,       \* the clients in self._buckets
    tokens,      \* each bucket's tokens, in units
    lastRefill,  \* each bucket's last_refill
    served,      \* history: when the client was last let through, or Never
    since,       \* history: when a window of observation was opened
    admitted     \* history: each client's requests let through since then

bucket == <<known, tokens, lastRefill>>
history == <<served, admitted>>
vars   == <<now, bucket, since, history>>

Never == -1

AtMost(a, b) == IF a <= b THEN a ELSE b

\* Mutant: the refill is not cut off at max_tokens.
LevelUncapped(c) ==
    IF c \in known THEN tokens[c] + Refill * (now - lastRefill[c]) ELSE Capacity

\* What consume() would find in the bucket now.  A client without a bucket
\* gets a full one.
Level(c) ==
    IF c \in known
      THEN AtMost(Capacity, tokens[c] + Refill * (now - lastRefill[c]))
      ELSE Capacity

\* dispatch: _get_bucket, then consume().
Admit(c) ==
    /\ Level(c) >= TokenCost
    /\ tokens' = [tokens EXCEPT ![c] = Level(c) - TokenCost]
    /\ admitted' = [admitted EXCEPT ![c] = @ + 1]
    /\ served' = [served EXCEPT ![c] = now]

\* Mutant: a refused request costs a token, too.
RefuseAndCharge(c) ==
    /\ Level(c) < TokenCost
    /\ tokens' = [tokens EXCEPT ![c] = 0]
    /\ UNCHANGED <<served, admitted>>

\* 429; the partial token stays in the bucket.
Refuse(c) ==
    /\ Level(c) < TokenCost
    /\ tokens' = [tokens EXCEPT ![c] = Level(c)]
    /\ UNCHANGED <<served, admitted>>

Request(c) ==
    /\ Admit(c) \/ Refuse(c)
    /\ known' = known \cup {c}
    /\ lastRefill' = [lastRefill EXCEPT ![c] = now]
    /\ UNCHANGED <<now, since>>

Tick ==
    /\ now < MaxTime
    /\ now' = now + 1
    /\ UNCHANGED <<bucket, since, history>>

\* Observation starts afresh, at any moment: changes nothing in the program.
OpenWindow ==
    /\ since' = now
    /\ admitted' = [c \in Clients |-> 0]
    /\ UNCHANGED <<now, bucket, served>>

Init ==
    /\ now = 0 /\ since = 0
    /\ known = {}
    /\ tokens = [c \in Clients |-> Capacity]
    /\ lastRefill = [c \in Clients |-> 0]
    /\ served = [c \in Clients |-> Never]
    /\ admitted = [c \in Clients |-> 0]

Next == (\E c \in Clients : Request(c)) \/ Tick \/ OpenWindow

Spec == Init /\ [][Next]_vars
-----------------------------------------------------------------------------
TypeOK ==
    /\ now \in Nat /\ since \in Nat /\ since <= now
    /\ known \subseteq Clients
    /\ tokens \in [Clients -> 0..Capacity]
    /\ lastRefill \in [Clients -> 0..now]
    /\ served \in [Clients -> Nat \cup {Never}]
    /\ admitted \in [Clients -> Nat]

\* In any window of time a client gets at most one burst plus what the
\* sustained rate allows, and what its bucket still holds comes off that.
WindowsAreBounded ==
    \A c \in Clients :
        TokenCost * admitted[c] + Level(c) <= Capacity + Refill * (now - since)

\* The lazy refill loses nothing and a refusal costs nothing: however often
\* a client asks in vain, it is served as soon as the rate has made up one
\* token since the last request that was let through.
ClientsAreServedAgain ==
    \A c \in Clients :
        /\ served[c] # Never /\ TokenCost <= Capacity
        /\ Refill * (now - served[c]) >= TokenCost
        => Level(c) >= TokenCost
=============================================================================
