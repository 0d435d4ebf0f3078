------------------------- MODULE RateLimiterProofs -------------------------
(***************************************************************************)
(* The token bucket's bound for any number of clients, any rate, burst and *)
(* clock: in every window of time a client gets at most one burst plus the *)
(* sustained rate.  WindowsAreBounded is inductive once the types are,     *)
(* because it counts what is left in the bucket against the bound.         *)
(*                                                                         *)
(* The authentication in front of the limiter changes none of it: a step   *)
(* of the door is a step of the limiter or leaves it alone.                *)
(***************************************************************************)
EXTENDS FrontDoor, SequenceTheorems, TLAPS

\* Products distribute over the sums that the steps below build.
LEMMA Distribute ==
    ASSUME NEW a \in Nat, NEW b \in Int
    PROVE  a * b \in Int /\ a * (b + 1) = a * b + a /\ a * 0 = 0
OBVIOUS

\* Elapsed time refills a natural number of units.
LEMMA Product == ASSUME NEW a \in Nat, NEW b \in Nat PROVE a * b \in Nat
OBVIOUS

\* No time has passed between equal readings of the clock.
LEMMA NoDifference ==
    ASSUME NEW a \in Nat, NEW b \in Nat, a = b PROVE a - b = 0
OBVIOUS

\* A bucket holds a natural number of units, never more than its capacity.
LEMMA LevelType == ASSUME TypeOK, NEW c \in Clients PROVE Level(c) \in 0..Capacity
<1>1. /\ Refill \in Nat /\ Capacity \in Nat
      /\ tokens[c] \in 0..Capacity /\ lastRefill[c] \in 0..now /\ now \in Nat
    BY UnitsAssumption DEF TypeOK
<1>2. now - lastRefill[c] \in Nat  BY <1>1
<1>3. Refill * (now - lastRefill[c]) \in Nat  BY <1>1, <1>2, Product
<1> DEFINE gain == Refill * (now - lastRefill[c])
<1> HIDE DEF gain
<1>4. AtMost(Capacity, tokens[c] + gain) \in 0..Capacity
    BY <1>1, <1>3 DEF AtMost, gain
<1> QED  BY <1>1, <1>4 DEF Level, gain

\* A bucket that has just been refilled holds what is written in it.
LEMMA LevelNow ==
    ASSUME TypeOK', NEW c \in Clients, c \in known', lastRefill'[c] = now'
    PROVE  Level(c)' = tokens'[c]
<1>1. /\ tokens'[c] \in 0..Capacity /\ Capacity \in Nat /\ Refill \in Nat
      /\ now' \in Nat /\ lastRefill'[c] \in Nat
    BY UnitsAssumption DEF TypeOK
<1>2. now' - lastRefill'[c] = 0
  <2>1. lastRefill'[c] = now'  OBVIOUS
  <2> QED  BY <1>1, <2>1, NoDifference
<1>3. Refill * 0 = 0  BY <1>1, Distribute
<1>4. AtMost(Capacity, tokens'[c] + 0) = tokens'[c]  BY <1>1 DEF AtMost
<1> QED  BY <1>1, <1>2, <1>3, <1>4 DEF Level

\* Every step keeps the types.
LEMMA TypeStep == TypeOK /\ [Next]_vars => TypeOK'
<1> SUFFICES ASSUME TypeOK, [Next]_vars PROVE TypeOK'  OBVIOUS
<1> USE UnitsAssumption
<1>1. CASE UNCHANGED vars  BY <1>1 DEF vars, bucket, history, TypeOK
<1>2. ASSUME NEW c \in Clients, Request(c), Admit(c) PROVE TypeOK'
  <2>1. Level(c) - TokenCost \in 0..Capacity
      BY <1>2, LevelType DEF Admit
  <2> QED  BY <1>2, <2>1 DEF Request, Admit, TypeOK
<1>3. ASSUME NEW c \in Clients, Request(c), Refuse(c) PROVE TypeOK'
  <2>1. Level(c) \in 0..Capacity  BY LevelType
  <2> QED  BY <1>3, <2>1 DEF Request, Refuse, TypeOK
<1>4. CASE Tick  BY <1>4 DEF Tick, bucket, history, TypeOK
<1>5. CASE OpenWindow  BY <1>5 DEF OpenWindow, bucket, TypeOK
<1> QED  BY <1>1, <1>2, <1>3, <1>4, <1>5 DEF Next, Request

\* The buckets start full and unknown.
LEMMA TypeInit == Init => TypeOK
BY UnitsAssumption DEF Init, TypeOK, Never

\* THEOREM for rate_limiter.py's state: no bucket over- or underflows.
THEOREM TypeCorrect == Spec => []TypeOK
BY TypeInit, TypeStep, PTL DEF Spec

\* The bound holds at the start.
LEMMA WindowsInit == Init => WindowsAreBounded
<1> SUFFICES ASSUME Init, NEW c \in Clients
             PROVE  TokenCost * admitted[c] + Level(c)
                      <= Capacity + Refill * (now - since)
    BY DEF WindowsAreBounded
<1>1. admitted[c] = 0 /\ now - since = 0 /\ Level(c) = Capacity
    BY DEF Init, Level
<1>2. TokenCost * 0 = 0 /\ Refill * 0 = 0  BY UnitsAssumption, Distribute
<1> QED  BY <1>1, <1>2, UnitsAssumption

\* Every step keeps it: what a request takes is one token of the level, and
\* what a tick adds to the level is what it adds to the bound.
LEMMA WindowsStep ==
    TypeOK /\ TypeOK' /\ WindowsAreBounded /\ [Next]_vars => WindowsAreBounded'
<1> SUFFICES ASSUME TypeOK, TypeOK', WindowsAreBounded, [Next]_vars,
                    NEW c \in Clients
             PROVE  TokenCost * admitted'[c] + Level(c)'
                      <= Capacity + Refill * (now' - since')
    BY DEF WindowsAreBounded
<1>1. /\ TokenCost \in Nat /\ Capacity \in Nat /\ Refill \in Nat
      /\ admitted[c] \in Nat /\ now \in Nat /\ since \in Nat /\ since <= now
      /\ Level(c) \in 0..Capacity
    BY UnitsAssumption, LevelType DEF TypeOK
<1>2. /\ TokenCost * admitted[c] \in Int
      /\ TokenCost * (admitted[c] + 1) = TokenCost * admitted[c] + TokenCost
      /\ Refill * (now - since) \in Int
      /\ Refill * ((now - since) + 1) = Refill * (now - since) + Refill
      /\ TokenCost * 0 = 0 /\ Refill * 0 = 0
    BY <1>1, Distribute
<1>3. TokenCost * admitted[c] + Level(c) <= Capacity + Refill * (now - since)
    BY DEF WindowsAreBounded
<1>4. ASSUME UNCHANGED <<bucket, now, since, admitted>>
      PROVE  TokenCost * admitted'[c] + Level(c)' <= Capacity + Refill * (now' - since')
    BY <1>3, <1>4 DEF bucket, Level
<1>5. ASSUME NEW d \in Clients, Request(d)
      PROVE  TokenCost * admitted'[c] + Level(c)' <= Capacity + Refill * (now' - since')
  <2>1. now' = now /\ since' = since  BY <1>5 DEF Request
  <2>2. CASE d # c
    <3>1. admitted'[c] = admitted[c] /\ Level(c)' = Level(c)
        BY <1>5, <2>2 DEF Request, Admit, Refuse, TypeOK, Level
    <3> QED  BY <1>3, <2>1, <3>1
  <2>3. CASE d = c /\ Admit(c)
    <3>1. Level(c)' = Level(c) - TokenCost
        BY <1>5, <2>3, LevelNow DEF Request, Admit, TypeOK
    <3>2. admitted'[c] = admitted[c] + 1
        BY <2>3 DEF Admit, TypeOK
    <3> QED  BY <1>1, <1>2, <1>3, <2>1, <3>1, <3>2
  <2>4. CASE d = c /\ Refuse(c)
    <3>1. Level(c)' = Level(c)
        BY <1>5, <2>4, LevelNow DEF Request, Refuse, TypeOK
    <3>2. admitted'[c] = admitted[c]  BY <2>4 DEF Refuse
    <3> QED  BY <1>3, <2>1, <3>1, <3>2
  <2> QED  BY <1>5, <2>2, <2>3, <2>4 DEF Request
<1>6. ASSUME Tick
      PROVE  TokenCost * admitted'[c] + Level(c)' <= Capacity + Refill * (now' - since')
  <2>1. /\ now' = now + 1 /\ since' = since /\ admitted' = admitted
        /\ known' = known /\ tokens' = tokens /\ lastRefill' = lastRefill
      BY <1>6 DEF Tick, bucket, history
  <2>2. Level(c)' \in Int /\ Level(c)' <= Level(c) + Refill
    <3>1. tokens[c] \in Nat /\ lastRefill[c] \in Nat  BY <1>1 DEF TypeOK
    <3> DEFINE gain == Refill * (now - lastRefill[c])
    <3>2. now + 1 - lastRefill[c] = (now - lastRefill[c]) + 1  BY <1>1, <3>1
    <3>3. gain \in Int /\ Refill * (now + 1 - lastRefill[c]) = gain + Refill
        BY <1>1, <3>1, <3>2, Distribute
    <3> HIDE DEF gain
    <3>4. AtMost(Capacity, tokens[c] + (gain + Refill))
            <= AtMost(Capacity, tokens[c] + gain) + Refill
        BY <1>1, <3>1, <3>3 DEF AtMost
    <3>5. AtMost(Capacity, tokens[c] + (gain + Refill)) \in Int
        BY <1>1, <3>1, <3>3 DEF AtMost
    <3>6. CASE c \in known
      <4>1. Level(c) = AtMost(Capacity, tokens[c] + gain)
          BY <3>6 DEF Level, gain
      <4>2. Level(c)' = AtMost(Capacity, tokens[c] + Refill * (now + 1 - lastRefill[c]))
        <5>1. c \in known'  BY <2>1, <3>6
        <5>2. Level(c)' = AtMost(Capacity, tokens'[c] + Refill * (now' - lastRefill'[c]))
            BY <5>1 DEF Level, AtMost
        <5>3. now' - lastRefill'[c] = now + 1 - lastRefill[c]
          <6>1. now' = now + 1 /\ lastRefill'[c] = lastRefill[c]  BY <2>1
          <6> QED  BY <6>1, <1>1, <3>1
        <5>4. tokens'[c] = tokens[c]  BY <2>1
        <5> QED  BY <5>2, <5>3, <5>4
      <4>3. Level(c)' = AtMost(Capacity, tokens[c] + (gain + Refill))
          BY <4>2, <3>3
      <4> QED  BY <4>1, <4>3, <3>4, <3>5
    <3>7. CASE c \notin known
        BY <3>7, <2>1, <1>1 DEF Level
    <3> QED  BY <3>6, <3>7
  <2>3. Refill * (now' - since') = Refill * (now - since) + Refill
    <3>1. now' - since' = (now - since) + 1  BY <1>1, <2>1
    <3> QED  BY <1>2, <3>1
  <2> QED  BY <1>1, <1>2, <1>3, <2>1, <2>2, <2>3
<1>7. ASSUME OpenWindow
      PROVE  TokenCost * admitted'[c] + Level(c)' <= Capacity + Refill * (now' - since')
  <2>1. admitted'[c] = 0 /\ now' - since' = 0 /\ Level(c)' = Level(c)
      BY <1>1, <1>7 DEF OpenWindow, bucket, Level
  <2> QED  BY <1>1, <1>2, <2>1
<1> QED  BY <1>4, <1>5, <1>6, <1>7 DEF Next, vars, history

\* In any window of time a client is let through for at most one burst plus
\* the sustained rate, whatever the rate, the burst and the clients.
THEOREM WindowsBounded == Spec => []WindowsAreBounded
<1>1. Init => WindowsAreBounded  BY WindowsInit
<1>2. TypeOK /\ TypeOK' /\ WindowsAreBounded /\ [Next]_vars => WindowsAreBounded'
    BY WindowsStep
<1> QED  BY <1>1, <1>2, TypeCorrect, PTL DEF Spec

(***************************************************************************)
(* A refused client is served again.  Refilled is the inductive form: what *)
(* the bucket holds is at least what the rate made since the last request  *)
(* that was let through, cut off at the capacity.                          *)
(***************************************************************************)
Earned(c) == AtMost(Capacity, Refill * (now - served[c]))

Refilled ==
    \A c \in Clients :
        served[c] # Never =>
            served[c] <= now /\ c \in known /\ Level(c) >= Earned(c)

\* How what is earned grows with the clock, under the cut-off.
LEMMA Growth ==
    ASSUME NEW cap \in Nat, NEW level \in Nat, NEW gain \in Nat, NEW step \in Nat,
           NEW earned \in Nat,
           AtMost(cap, level + gain) >= AtMost(cap, earned)
    PROVE  AtMost(cap, level + (gain + step)) >= AtMost(cap, earned + step)
BY DEF AtMost

\* One tick more refills one Refill more.
LEMMA OneTickMore ==
    ASSUME NEW a \in Nat, NEW t \in Nat, NEW u \in Nat, u <= t
    PROVE  a * (t + 1 - u) = a * (t - u) + a /\ a * (t - u) \in Nat
<1>1. t - u \in Nat /\ t + 1 - u = (t - u) + 1  OBVIOUS
<1> QED  BY <1>1, Distribute, Product

\* Every step keeps Refilled.
LEMMA RefilledStep ==
    TypeOK /\ TypeOK' /\ Refilled /\ [Next]_vars => Refilled'
<1> SUFFICES ASSUME TypeOK, TypeOK', Refilled, [Next]_vars,
                    NEW c \in Clients, served'[c] # Never
             PROVE  served'[c] <= now' /\ c \in known' /\ Level(c)' >= Earned(c)'
    BY DEF Refilled
<1>1. /\ TokenCost \in Nat /\ Capacity \in Nat /\ Refill \in Nat /\ now \in Nat
      /\ tokens[c] \in 0..Capacity /\ lastRefill[c] \in 0..now
      /\ served[c] \in Nat \cup {Never}
      /\ Level(c) \in 0..Capacity
    BY UnitsAssumption, LevelType DEF TypeOK
<1>2. served[c] # Never =>
        served[c] <= now /\ c \in known /\ Level(c) >= Earned(c)
    BY DEF Refilled
<1>3. CASE UNCHANGED <<bucket, now, served>>
    BY <1>2, <1>3 DEF bucket, Level, Earned
<1>4. ASSUME NEW d \in Clients, Request(d)
      PROVE  served'[c] <= now' /\ c \in known' /\ Level(c)' >= Earned(c)'
  <2>1. CASE d # c
    <3>1. served'[c] = served[c] /\ Level(c)' = Level(c) /\ now' = now
        BY <1>4, <2>1 DEF Request, Admit, Refuse, TypeOK, Level
    <3>2. known \subseteq known'  BY <1>4 DEF Request
    <3> QED  BY <1>2, <3>1, <3>2 DEF Earned
  <2>2. CASE d = c /\ Admit(c)
    <3>1. /\ served'[c] = now' /\ c \in known' /\ now' = now
          /\ tokens'[c] = Level(c) - TokenCost /\ lastRefill'[c] = now'
        BY <1>4, <2>2 DEF Request, Admit, TypeOK
    <3>2. Level(c)' = Level(c) - TokenCost  BY <3>1, LevelNow
    <3>3. Level(c)' \in Nat  BY <1>1, <2>2, <3>2 DEF Admit
    <3>4. Earned(c)' = AtMost(Capacity, Refill * 0)
      <4>1. now' - served'[c] = 0  BY <1>1, <3>1, NoDifference
      <4> QED  BY <4>1 DEF Earned
    <3>5. AtMost(Capacity, Refill * 0) = 0
      <4>1. Refill * 0 = 0  BY <1>1, Distribute
      <4> QED  BY <1>1, <4>1 DEF AtMost
    <3> QED  BY <1>1, <3>1, <3>3, <3>4, <3>5
  <2>3. CASE d = c /\ Refuse(c)
    <3>1. /\ served'[c] = served[c] /\ c \in known' /\ now' = now
          /\ tokens'[c] = Level(c) /\ lastRefill'[c] = now'
        BY <1>4, <2>3 DEF Request, Refuse, TypeOK
    <3>2. Level(c)' = Level(c)  BY <3>1, LevelNow
    <3> QED  BY <1>2, <3>1, <3>2 DEF Earned
  <2> QED  BY <1>4, <2>1, <2>2, <2>3 DEF Request
<1>5. ASSUME Tick
      PROVE  served'[c] <= now' /\ c \in known' /\ Level(c)' >= Earned(c)'
  <2>1. /\ now' = now + 1 /\ served' = served
        /\ known' = known /\ tokens' = tokens /\ lastRefill' = lastRefill
      BY <1>5 DEF Tick, bucket, history
  <2>2. served[c] \in Nat /\ served[c] <= now /\ c \in known /\ Level(c) >= Earned(c)
      BY <1>1, <1>2, <2>1
  <2> DEFINE gain   == Refill * (now - lastRefill[c])
             earned == Refill * (now - served[c])
  <2>3. gain \in Nat /\ Refill * (now + 1 - lastRefill[c]) = gain + Refill
      BY <1>1, OneTickMore
  <2>4. earned \in Nat /\ Refill * (now + 1 - served[c]) = earned + Refill
      BY <1>1, <2>2, OneTickMore
  <2>5. AtMost(Capacity, tokens[c] + gain) >= AtMost(Capacity, earned)
      BY <2>2 DEF Level, Earned
  <2>6. Level(c)' = AtMost(Capacity, tokens[c] + (gain + Refill))
    <3>1. now' - lastRefill'[c] = now + 1 - lastRefill[c]
      <4>1. now' = now + 1 /\ lastRefill'[c] = lastRefill[c]  BY <2>1
      <4> QED  BY <4>1, <1>1
    <3>2. c \in known' /\ tokens'[c] = tokens[c]  BY <2>1, <2>2
    <3> QED  BY <3>1, <3>2, <2>3 DEF Level
  <2>7. Earned(c)' = AtMost(Capacity, earned + Refill)
    <3>1. now' - served'[c] = now + 1 - served[c]
      <4>1. now' = now + 1 /\ served'[c] = served[c]  BY <2>1
      <4> QED  BY <4>1, <1>1, <2>2
    <3> QED  BY <3>1, <2>4 DEF Earned
  <2> HIDE DEF gain, earned
  <2>8. Level(c)' >= Earned(c)'
    <3>1. tokens[c] \in Nat  BY <1>1
    <3> QED  BY <1>1, <2>3, <2>4, <2>5, <2>6, <2>7, <3>1, Growth
  <2> QED  BY <1>1, <2>1, <2>2, <2>8
<1>6. CASE OpenWindow
    BY <1>3, <1>6 DEF OpenWindow
<1> QED  BY <1>3, <1>4, <1>5, <1>6 DEF Next, vars, history

\* What Refilled is for.
LEMMA RefilledServes == TypeOK /\ Refilled => ClientsAreServedAgain
<1> SUFFICES ASSUME TypeOK, Refilled, NEW c \in Clients,
                    served[c] # Never, TokenCost <= Capacity,
                    Refill * (now - served[c]) >= TokenCost
             PROVE  Level(c) >= TokenCost
    BY DEF ClientsAreServedAgain
<1>1. Level(c) >= AtMost(Capacity, Refill * (now - served[c]))
    BY DEF Refilled, Earned
<1>2. /\ Level(c) \in Nat /\ TokenCost \in Nat /\ Capacity \in Nat
      /\ now - served[c] \in Int /\ Refill \in Nat
    BY UnitsAssumption, LevelType DEF TypeOK
<1> DEFINE earned == Refill * (now - served[c])
<1>3. earned \in Int /\ earned >= TokenCost /\ Level(c) >= AtMost(Capacity, earned)
    BY <1>1, <1>2, Distribute
<1> HIDE DEF earned
<1> QED  BY <1>2, <1>3 DEF AtMost

\* However often a client asks in vain, it is let through as soon as the rate
\* has made up one token since its last request that was.
THEOREM ServedAgain == Spec => []ClientsAreServedAgain
<1>1. Init => Refilled  BY DEF Init, Refilled
<1>2. TypeOK /\ TypeOK' /\ Refilled /\ [Next]_vars => Refilled'  BY RefilledStep
<1>3. TypeOK /\ Refilled => ClientsAreServedAgain  BY RefilledServes
<1> QED  BY <1>1, <1>2, <1>3, TypeCorrect, PTL DEF Spec

(***************************************************************************)
(* The door.                                                               *)
(***************************************************************************)
\* A step of the door is a step of the limiter, or none of it.
LEMMA DoorStep == [DoorNext]_doorVars => [Next]_vars
BY DEF DoorNext, doorVars, Ask, TurnAway, Login, Refresh, Mint, ObserveDoor, Next

\* Behind the authentication the limiter is the limiter.
THEOREM DoorImplementsLimiter == DoorSpec => Spec
<1>1. DoorInit => Init  BY DEF DoorInit
<1> QED  BY <1>1, DoorStep, PTL DEF DoorSpec, Spec

\* Both bounds hold of the gateway's front door.
THEOREM DoorIsBounded == DoorSpec => []WindowsAreBounded /\ []ClientsAreServedAgain
BY DoorImplementsLimiter, WindowsBounded, ServedAgain, PTL

\* int(time.time()) is a natural number of ticks.
LEMMA WholeType == ASSUME NEW t \in Nat PROVE WholeSeconds(t) \in Nat
<1>1. t \div Second \in Nat  BY TokensAssumption
<1> QED  BY <1>1, TokensAssumption, Product DEF WholeSeconds

\* Every step of the door keeps its types.
LEMMA DoorTypeStep == DoorTypeOK /\ [DoorNext]_doorVars => DoorTypeOK'
<1> SUFFICES ASSUME DoorTypeOK, [DoorNext]_doorVars PROVE DoorTypeOK'  OBVIOUS
<1>1. TypeOK /\ TypeOK'  BY DoorStep, TypeStep DEF DoorTypeOK
<1>2. CASE UNCHANGED doorVars
    BY <1>1, <1>2 DEF doorVars, vars, DoorTypeOK
<1>3. ASSUME NEW c \in Clients, NEW path \in Paths, NEW cred, Ask(c, path, cred)
      PROVE  DoorTypeOK'
  <2>1. UNCHANGED <<scheme, adminSet, minted, now>>
      BY <1>3 DEF Ask, TurnAway, Request, vars
  <2>2. turnedAway' \in [Clients -> Nat]
    <3>1. turnedAway[c] + 1 \in Nat  BY DEF DoorTypeOK
    <3> QED  BY <1>3, <3>1 DEF Ask, TurnAway, DoorTypeOK
  <2> QED  BY <1>1, <2>1, <2>2 DEF DoorTypeOK
<1>4. ASSUME Mint, scheme = "jwt" PROVE DoorTypeOK'
  <2>1. now \in Nat /\ WholeSeconds(now) + Expiry \in Nat
      BY <1>1, WholeType, TokensAssumption DEF TypeOK
  <2>2. NewToken \in [born : Nat, exp : Nat]  BY <2>1 DEF NewToken
  <2>3. UNCHANGED <<scheme, adminSet, turnedAway>>  BY <1>4 DEF Mint
  <2>4. minted' \in Seq([born : Nat, exp : Nat])
      BY <1>4, <2>2 DEF Mint, DoorTypeOK
  <2> QED  BY <1>1, <1>4, <2>3, <2>4 DEF DoorTypeOK
<1>5. CASE Tick /\ UNCHANGED <<scheme, adminSet, minted, turnedAway>>
    BY <1>1, <1>5 DEF DoorTypeOK
<1>6. CASE ObserveDoor
    BY <1>1, <1>6 DEF ObserveDoor, DoorTypeOK
<1>7. CASE Refresh
  <2>1. minted # <<>>  BY <1>7 DEF Refresh
  <2> QED  BY <1>4, <1>7, <2>1 DEF Refresh, DoorTypeOK
<1> QED  BY <1>2, <1>3, <1>4, <1>5, <1>6, <1>7 DEF DoorNext, Login

\* THEOREM for the middlewares' state: JWTs exist under the JWT scheme only.
THEOREM DoorTypeCorrect == DoorSpec => []DoorTypeOK
<1>1. DoorInit => DoorTypeOK  BY TypeInit DEF DoorInit, DoorTypeOK
<1> QED  BY <1>1, DoorTypeStep, PTL DEF DoorSpec

\* Each token's exp is within a second below its birth and the lifetime.
Stamped ==
    \A n \in DOMAIN minted :
        /\ minted[n].exp <= minted[n].born + Expiry
        /\ minted[n].born + Expiry < minted[n].exp + Second

\* int() takes less than a second off.
LEMMA Truncation ==
    ASSUME NEW t \in Nat
    PROVE  WholeSeconds(t) \in Nat /\ WholeSeconds(t) <= t /\ t < WholeSeconds(t) + Second
<1>1. /\ (t \div Second) * Second <= t /\ t < (t \div Second) * Second + Second
    BY TokensAssumption
<1> QED  BY <1>1, WholeType DEF WholeSeconds

\* Every step keeps the stamps of the tokens there are.
LEMMA StampedStep == DoorTypeOK /\ Stamped /\ [DoorNext]_doorVars => Stamped'
<1> SUFFICES ASSUME DoorTypeOK, Stamped, [DoorNext]_doorVars PROVE Stamped'  OBVIOUS
<1>1. CASE UNCHANGED minted  BY <1>1 DEF Stamped
<1>2. CASE Mint
  <2>1. now \in Nat /\ minted \in Seq([born : Nat, exp : Nat])
      BY DEF DoorTypeOK, TypeOK
  <2>2. /\ NewToken.born = now /\ NewToken.exp = WholeSeconds(now) + Expiry
      BY DEF NewToken
  <2>3. /\ NewToken.exp <= NewToken.born + Expiry
        /\ NewToken.born + Expiry < NewToken.exp + Second
    <3>1. /\ WholeSeconds(now) \in Nat /\ WholeSeconds(now) <= now
          /\ now < WholeSeconds(now) + Second
        BY <2>1, Truncation
    <3>2. Expiry \in Nat /\ Second \in Nat  BY TokensAssumption
    <3> QED  BY <2>1, <2>2, <3>1, <3>2
  <2>4. ASSUME NEW n \in DOMAIN minted'
        PROVE  \/ n \in DOMAIN minted /\ minted'[n] = minted[n]
               \/ minted'[n] = NewToken
      BY <1>2, <2>1 DEF Mint, NewToken
  <2> QED  BY <2>3, <2>4 DEF Stamped
<1> QED
    BY <1>1, <1>2 DEF DoorNext, doorVars, Ask, Login, Refresh, ObserveDoor

\* Tokens serve, and can be refreshed, as long as configured, up to a second.
THEOREM TokensLive == DoorSpec => []TokensLiveAsLong
<1>1. DoorInit => Stamped  BY DEF DoorInit, Stamped
<1>2. DoorTypeOK /\ Stamped => TokensLiveAsLong
  <2> SUFFICES ASSUME DoorTypeOK, Stamped, NEW n \in DOMAIN minted, NEW grace \in {0, Grace}
               PROVE  LET age == now - minted[n].born IN
                      /\ ~Expired(minted[n], grace) => age <= Expiry + grace
                      /\ age <= Expiry + grace - Second => ~Expired(minted[n], grace)
      BY DEF TokensLiveAsLong
  <2>0. minted[n] \in [born : Nat, exp : Nat]
    <3>1. minted \in Seq([born : Nat, exp : Nat])  BY DEF DoorTypeOK
    <3>2. n \in 1..Len(minted)  BY <3>1
    <3> QED  BY <3>1, <3>2, ElementOfSeq
  <2>1. /\ minted[n].exp \in Nat /\ minted[n].born \in Nat /\ now \in Nat
        /\ Expiry \in Nat /\ grace \in Nat /\ Second \in Nat
      BY <2>0, TokensAssumption DEF DoorTypeOK, TypeOK
  <2>2. /\ minted[n].exp <= minted[n].born + Expiry
        /\ minted[n].born + Expiry < minted[n].exp + Second
      BY DEF Stamped
  <2> QED  BY <2>1, <2>2 DEF Expired
<1> QED  BY <1>1, <1>2, StampedStep, DoorTypeCorrect, PTL DEF DoorSpec
=============================================================================
