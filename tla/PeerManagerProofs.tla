------------------------- MODULE PeerManagerProofs -------------------------
(***************************************************************************)
(* The circuit breaker's bookkeeping for any number of peers and of        *)
(* overlapping relays, any threshold and any cooldown.  DownAtThreshold    *)
(* and FailuresAreBounded support each other: a relay starts only if the   *)
(* peer is not down, which says how far its failures can have come.        *)
(***************************************************************************)
EXTENDS PeerManager, FiniteSetTheorems, TLAPS

\* The open relays to a peer are finitely many, and at most all of them.
LEMMA OpenBounds ==
    ASSUME NEW p
    PROVE  /\ IsFiniteSet(OpenOn(p)) /\ Cardinality(OpenOn(p)) \in Nat
           /\ Cardinality(Relays) \in Nat
           /\ Cardinality(OpenOn(p)) <= Cardinality(Relays)
<1>1. OpenOn(p) \subseteq Relays  BY DEF OpenOn
<1> QED  BY <1>1, PeersAssumption, FS_Subset, FS_CardinalityType

\* The same of the next state's relays.
LEMMA OpenBoundsNext ==
    ASSUME NEW p
    PROVE  /\ Cardinality(OpenOn(p)') \in Nat
           /\ Cardinality(OpenOn(p)') <= Cardinality(Relays)
<1>1. OpenOn(p)' \subseteq Relays  BY DEF OpenOn
<1> QED  BY <1>1, PeersAssumption, FS_Subset, FS_CardinalityType

\* A relay that ends is one open relay less for its peer, none for others.
LEMMA RelayCloses ==
    ASSUME TypeOK, NEW r \in Relays, NEW n \in Peers, relay[r] = n,
           relay' = [relay EXCEPT ![r] = Idle]
    PROVE  /\ Cardinality(OpenOn(n)') = Cardinality(OpenOn(n)) - 1
           /\ \A p \in Peers \ {n} : OpenOn(p)' = OpenOn(p)
<1>1. OpenOn(n)' = OpenOn(n) \ {r}
    BY PeersAssumption DEF TypeOK, OpenOn, Idle
<1>2. r \in OpenOn(n)  BY DEF OpenOn
<1>3. Cardinality(OpenOn(n) \ {r}) = Cardinality(OpenOn(n)) - 1
    BY <1>2, OpenBounds, FS_RemoveElement
<1>4. \A p \in Peers \ {n} : OpenOn(p)' = OpenOn(p)
    BY PeersAssumption DEF TypeOK, OpenOn, Idle
<1> QED  BY <1>1, <1>3, <1>4

\* The breaker starts without entries.
LEMMA BreakerInit == Init => IInv
<1> SUFFICES ASSUME Init PROVE IInv  OBVIOUS
<1>1. TypeOK
    BY PeersAssumption DEF Init, TypeOK, Unswept, NotDown, Cards, Idle
<1>2. DownAtThreshold  BY PeersAssumption DEF Init, DownAtThreshold, NotDown
<1>3. \A p \in Peers : OpenOn(p) = {}
    BY PeersAssumption DEF Init, OpenOn, Idle
<1>4. ASSUME NEW p \in Peers
      PROVE  failures[p] + Cardinality(OpenOn(p))
               <= Threshold - 1 + Cardinality(Relays)
  <2>1. failures[p] = 0  BY DEF Init
  <2>2. Cardinality(OpenOn(p)) = 0  BY <1>3, FS_EmptySet
  <2>3. Cardinality(Relays) \in Nat  BY PeersAssumption, FS_CardinalityType
  <2> QED  BY <2>1, <2>2, <2>3, PeersAssumption
<1>5. UnaskedIsUnknown
    BY PeersAssumption DEF Init, UnaskedIsUnknown, BeingDiscovered, Unswept, Idle
<1> QED  BY <1>1, <1>2, <1>4, <1>5 DEF IInv, FailuresAreBounded

\* Resetting entries whose cooldown is over keeps the breaker consistent.
LEMMA AutoResetKeeps ==
    ASSUME TypeOK, DownAtThreshold, NEW ps, AutoReset(ps)
    PROVE  /\ failures' \in [Peers -> Nat]
           /\ left' \in [Peers -> 0..Cooldown \cup {NotDown}]
           /\ DownAtThreshold'
           /\ \A p \in Peers : failures'[p] <= failures[p]
BY PeersAssumption DEF TypeOK, DownAtThreshold, AutoReset, Elapsed, NotDown

\* Every step keeps the types.
LEMMA TypeStep == TypeOK /\ [Next]_vars => TypeOK'
<1> SUFFICES ASSUME TypeOK, [Next]_vars PROVE TypeOK'  OBVIOUS
<1> USE PeersAssumption
<1>1. CASE UNCHANGED vars  BY <1>1 DEF vars, breaker, history, TypeOK
<1>2. ASSUME NEW r \in Relays, NEW p \in Peers, Relay(r, p) PROVE TypeOK'
    BY <1>2 DEF Relay, AutoReset, TypeOK, NotDown, history
<1>3. ASSUME NEW r \in Relays, RelayAnswered(r) PROVE TypeOK'
    BY <1>3 DEF RelayAnswered, RecordSuccess, TypeOK, NotDown, history
<1>4. ASSUME NEW r \in Relays, RelayFails(r) PROVE TypeOK'
    BY <1>4 DEF RelayFails, RecordFailure, TypeOK, history
<1>5. CASE Status  BY <1>5 DEF Status, AutoReset, TypeOK, NotDown, history
<1>6. CASE Tick  BY <1>6 DEF Tick, TypeOK, NotDown, history
<1>7. ASSUME NEW p \in Peers, Add(p) PROVE TypeOK'
    BY <1>7 DEF Add, TypeOK, breaker, history
<1>8. ASSUME NEW p \in Peers, Remove(p) PROVE TypeOK'
    BY <1>8 DEF Remove, Forget, TypeOK, breaker
<1>9. ASSUME NEW k \in Checks, NEW p \in Peers, Check(k, p) PROVE TypeOK'
    BY <1>9 DEF Check, TypeOK, breaker
<1>10. ASSUME NEW k \in Checks, CheckEnds(k) PROVE TypeOK'
    BY <1>10 DEF CheckEnds, TypeOK, breaker, history
<1>11. ASSUME NEW s \in Sweeps, Sweep(s) PROVE TypeOK'
    BY <1>11 DEF Sweep, TypeOK, breaker, Unswept
<1>12. ASSUME NEW s \in Sweeps, NEW p \in Peers, SweepHears(s, p) PROVE TypeOK'
    BY <1>12 DEF SweepHears, TypeOK, breaker, history
<1>13. ASSUME NEW s \in Sweeps, SweepEnds(s) PROVE TypeOK'
    BY <1>13 DEF SweepEnds, TypeOK, breaker, history, Unswept
<1> QED
    BY <1>1, <1>2, <1>3, <1>4, <1>5, <1>6, <1>7, <1>8, <1>9, <1>10, <1>11,
       <1>12, <1>13
    DEF Next, Skip

\* Every step keeps the unasked peers unknown: a discovery that begins is
\* asked for, one that goes on as its peer is removed has outlived it, and
\* what ends was going on.
LEMMA UnaskedStep == TypeOK /\ UnaskedIsUnknown /\ [Next]_vars => UnaskedIsUnknown'
<1> SUFFICES ASSUME TypeOK, UnaskedIsUnknown, [Next]_vars PROVE UnaskedIsUnknown'  OBVIOUS
<1> USE PeersAssumption DEF UnaskedIsUnknown, BeingDiscovered
<1>1. ASSUME UNCHANGED <<discovered, check, sweep, history>> PROVE UnaskedIsUnknown'
    BY <1>1 DEF history
<1>2. ASSUME NEW p \in Peers, Remove(p) PROVE UnaskedIsUnknown'
    BY <1>2 DEF Remove, Forget, BeingDiscovered, TypeOK
<1>3. ASSUME NEW k \in Checks, NEW p \in Peers, Check(k, p) PROVE UnaskedIsUnknown'
    BY <1>3 DEF Check, TypeOK
<1>4. ASSUME NEW k \in Checks, CheckEnds(k) PROVE UnaskedIsUnknown'
    BY <1>4 DEF CheckEnds, TypeOK, history, Idle
<1>5. ASSUME NEW s \in Sweeps, Sweep(s) PROVE UnaskedIsUnknown'
    BY <1>5 DEF Sweep, TypeOK
<1>6. ASSUME NEW s \in Sweeps, NEW p \in Peers, SweepHears(s, p) PROVE UnaskedIsUnknown'
    BY <1>6 DEF SweepHears, TypeOK, history
<1>7. ASSUME NEW s \in Sweeps, SweepEnds(s) PROVE UnaskedIsUnknown'
    BY <1>7 DEF SweepEnds, TypeOK, history, Unswept, Cards
<1> QED
    BY <1>1, <1>2, <1>3, <1>4, <1>5, <1>6, <1>7
    DEF Next, vars, Skip, Relay, RelayAnswered, RelayFails, Status, Tick, Add

\* Every step keeps the inductive invariant.
LEMMA BreakerStep == IInv /\ [Next]_vars => IInv'
<1> SUFFICES ASSUME IInv, [Next]_vars PROVE IInv'  OBVIOUS
<1> USE PeersAssumption
<1>1. TypeOK /\ TypeOK'  BY TypeStep DEF IInv
<1>2. DownAtThreshold /\ FailuresAreBounded  BY DEF IInv
<1>3. ASSUME UNCHANGED <<failures, left, relay>>
      PROVE  DownAtThreshold' /\ FailuresAreBounded'
    BY <1>2, <1>3 DEF DownAtThreshold, FailuresAreBounded, OpenOn
<1>4. ASSUME NEW r \in Relays, NEW p \in Peers, Relay(r, p)
      PROVE  DownAtThreshold' /\ FailuresAreBounded'
  <2>1. AutoReset({p})  BY <1>4 DEF Relay
  <2>2. DownAtThreshold' /\ \A q \in Peers : failures'[q] <= failures[q]
      BY <2>1, <1>1, <1>2, AutoResetKeeps
  <2>3. failures'[p] <= Threshold - 1
    <3>1. left[p] \in 0..Cooldown \cup {NotDown} /\ failures[p] \in Nat /\ ~IsDown(p)
        BY <1>1, <1>4 DEF Relay, TypeOK
    <3>2. failures'[p] = IF left[p] = 0 THEN 0 ELSE failures[p]
        BY <2>1 DEF AutoReset, Elapsed
    <3>3. left[p] # NotDown <=> failures[p] >= Threshold  BY <1>2 DEF DownAtThreshold
    <3>4. left[p] = 0 \/ left[p] = NotDown  BY <3>1 DEF IsDown, NotDown
    <3> QED  BY <3>1, <3>2, <3>3, <3>4
  <2>4. ASSUME NEW q \in Peers
        PROVE  failures'[q] + Cardinality(OpenOn(q)')
                 <= Threshold - 1 + Cardinality(Relays)
    <3>0. failures[q] \in Nat /\ failures'[q] \in Nat  BY <1>1 DEF TypeOK
    <3>1. CASE q = p
      <4>1. failures'[q] <= Threshold - 1  BY <2>3, <3>1
      <4>2. /\ Cardinality(OpenOn(q)') \in Nat /\ Cardinality(Relays) \in Nat
            /\ Cardinality(OpenOn(q)') <= Cardinality(Relays)
          BY OpenBounds, OpenBoundsNext
      <4> QED  BY <3>0, <4>1, <4>2
    <3>2. CASE q # p
      <4>1. OpenOn(q)' = OpenOn(q)
          BY <1>1, <1>4, <3>2 DEF Relay, OpenOn, TypeOK, Idle
      <4>2. failures'[q] <= failures[q]  BY <2>2
      <4>3. failures[q] + Cardinality(OpenOn(q))
              <= Threshold - 1 + Cardinality(Relays)
          BY <1>2 DEF FailuresAreBounded
      <4> QED  BY <4>1, <4>2, <4>3, <3>0, OpenBounds
    <3> QED  BY <3>1, <3>2
  <2> QED  BY <2>2, <2>4 DEF FailuresAreBounded
<1>5. ASSUME NEW r \in Relays, RelayAnswered(r)
      PROVE  DownAtThreshold' /\ FailuresAreBounded'
  <2>0. PICK n \in Peers : relay[r] = n  BY <1>1, <1>5 DEF RelayAnswered, TypeOK
  <2>1. /\ Cardinality(OpenOn(n)') = Cardinality(OpenOn(n)) - 1
        /\ \A p \in Peers \ {n} : OpenOn(p)' = OpenOn(p)
      BY <1>1, <1>5, <2>0, RelayCloses DEF RelayAnswered
  <2>2. RecordSuccess(n)  BY <1>5, <2>0 DEF RelayAnswered
  <2>3. DownAtThreshold'
      BY <1>1, <1>2, <2>1, <2>2 DEF RecordSuccess, DownAtThreshold, TypeOK, NotDown
  <2>4. ASSUME NEW q \in Peers
        PROVE  failures'[q] + Cardinality(OpenOn(q)')
                 <= Threshold - 1 + Cardinality(Relays)
    <3>1. failures[q] \in Nat /\ failures'[q] <= failures[q] /\ failures'[q] \in Nat
        BY <1>1, <2>1, <2>2 DEF TypeOK, RecordSuccess
    <3>2. failures[q] + Cardinality(OpenOn(q)) <= Threshold - 1 + Cardinality(Relays)
        BY <1>2 DEF FailuresAreBounded
    <3>3. Cardinality(OpenOn(q)') <= Cardinality(OpenOn(q))
      <4>1. Cardinality(OpenOn(q)) \in Nat  BY OpenBounds
      <4>2. CASE q = n  BY <2>1, <4>1, <4>2
      <4>3. CASE q # n  BY <2>1, <4>1, <4>3
      <4> QED  BY <4>2, <4>3
    <3> QED  BY <3>1, <3>2, <3>3, OpenBounds, OpenBoundsNext
  <2> QED  BY <2>3, <2>4 DEF FailuresAreBounded
<1>6. ASSUME NEW r \in Relays, RelayFails(r)
      PROVE  DownAtThreshold' /\ FailuresAreBounded'
  <2>0. PICK n \in Peers : relay[r] = n  BY <1>1, <1>6 DEF RelayFails, TypeOK
  <2>1. /\ Cardinality(OpenOn(n)') = Cardinality(OpenOn(n)) - 1
        /\ \A p \in Peers \ {n} : OpenOn(p)' = OpenOn(p)
      BY <1>1, <1>6, <2>0, RelayCloses DEF RelayFails
  <2>2. RecordFailure(n)  BY <1>6, <2>0 DEF RelayFails
  <2>3. DownAtThreshold'
      BY <1>1, <1>2, <2>1, <2>2 DEF RecordFailure, DownAtThreshold, TypeOK, NotDown
  <2>4. ASSUME NEW q \in Peers
        PROVE  failures'[q] + Cardinality(OpenOn(q)')
                 <= Threshold - 1 + Cardinality(Relays)
    <3>0. failures[q] \in Nat  BY <1>1 DEF TypeOK
    <3>2. failures[q] + Cardinality(OpenOn(q)) <= Threshold - 1 + Cardinality(Relays)
        BY <1>2 DEF FailuresAreBounded
    <3>3. CASE q = n
      <4>1. failures'[q] = failures[q] + 1
          BY <1>1, <2>2, <3>3 DEF TypeOK, RecordFailure
      <4>2. Cardinality(OpenOn(q)') = Cardinality(OpenOn(q)) - 1  BY <2>1, <3>3
      <4>3. Cardinality(OpenOn(q)) \in Nat /\ Cardinality(Relays) \in Nat
          BY OpenBounds
      <4> QED  BY <3>0, <3>2, <4>1, <4>2, <4>3
    <3>4. CASE q # n
      <4>1. failures'[q] = failures[q]
          BY <1>1, <2>2, <3>4 DEF TypeOK, RecordFailure
      <4> QED  BY <2>1, <3>2, <3>4, <4>1
    <3> QED  BY <3>3, <3>4
  <2> QED  BY <2>3, <2>4 DEF FailuresAreBounded
<1>7. ASSUME Status PROVE DownAtThreshold' /\ FailuresAreBounded'
  <2>1. relay' = relay /\ \E ps : AutoReset(ps)  BY <1>7 DEF Status
  <2>2. DownAtThreshold' /\ \A q \in Peers : failures'[q] <= failures[q]
      BY <2>1, <1>1, <1>2, AutoResetKeeps
  <2>3. ASSUME NEW q \in Peers
        PROVE  failures'[q] + Cardinality(OpenOn(q)')
                 <= Threshold - 1 + Cardinality(Relays)
    <3>1. OpenOn(q)' = OpenOn(q)  BY <2>1 DEF OpenOn
    <3>2. failures[q] \in Nat /\ failures'[q] \in Nat  BY <1>1 DEF TypeOK
    <3>3. failures[q] + Cardinality(OpenOn(q)) <= Threshold - 1 + Cardinality(Relays)
        BY <1>2 DEF FailuresAreBounded
    <3> QED  BY <2>2, <3>1, <3>2, <3>3, OpenBounds
  <2> QED  BY <2>2, <2>3 DEF FailuresAreBounded
<1>8. ASSUME Tick PROVE DownAtThreshold' /\ FailuresAreBounded'
  <2>1. DownAtThreshold'
      BY <1>1, <1>2, <1>8 DEF Tick, DownAtThreshold, TypeOK, NotDown
  <2>2. FailuresAreBounded'
      BY <1>2, <1>8 DEF Tick, FailuresAreBounded, OpenOn
  <2> QED  BY <2>1, <2>2
<1>9. UnaskedIsUnknown'  BY <1>1, UnaskedStep DEF IInv
<1> QED
    BY <1>1, <1>3, <1>4, <1>5, <1>6, <1>7, <1>8, <1>9
    DEF IInv, Next, vars, breaker, Skip, Add, Remove, Forget, Check, CheckEnds, Sweep,
        SweepHears, SweepEnds

\* IInv holds throughout every behaviour (peer_manager.py's breaker).
THEOREM BreakerInvariant == Spec => []IInv
BY BreakerInit, BreakerStep, PTL DEF Spec

\* However many relays overlap, a peer's failures overshoot the threshold by
\* no more than the relays that were open when it was marked down.
THEOREM FailuresBounded == Spec => []FailuresAreBounded
<1>1. IInv => FailuresAreBounded  BY DEF IInv
<1> QED  BY <1>1, BreakerInvariant, PTL

\* A peer is marked down exactly when its failures reach the threshold.
THEOREM DownExactlyAtThreshold == Spec => []DownAtThreshold
<1>1. IInv => DownAtThreshold  BY DEF IInv
<1> QED  BY <1>1, BreakerInvariant, PTL

\* Only a discovery that outlives the removal of its peer leaves a card of a
\* peer that nobody has asked for since.
THEOREM UnaskedUnknown == Spec => []UnaskedIsUnknown
<1>1. IInv => UnaskedIsUnknown  BY DEF IInv
<1> QED  BY <1>1, BreakerInvariant, PTL

\* What one step may do to a cooldown that runs.
LEMMA CooldownStep ==
    ASSUME TypeOK, [Next]_vars, NEW p \in Peers, IsDown(p), left'[p] = NotDown
    PROVE  \E r \in Relays : relay[r] = p /\ relay'[r] = Idle
<1> USE PeersAssumption
<1>1. left[p] \in 1..Cooldown /\ left \in [Peers -> 0..Cooldown \cup {NotDown}]
    BY DEF TypeOK, IsDown, NotDown
<1>2. ASSUME NEW ps, AutoReset(ps) PROVE FALSE
    BY <1>1, <1>2 DEF AutoReset, Elapsed, NotDown
<1>3. ASSUME NEW r \in Relays, RelayAnswered(r)
      PROVE  relay[r] = p /\ relay'[r] = Idle
    BY <1>1, <1>3 DEF RelayAnswered, RecordSuccess, TypeOK, NotDown
<1>4. ASSUME NEW r \in Relays, RelayFails(r) PROVE FALSE
    BY <1>1, <1>4 DEF RelayFails, RecordFailure, TypeOK, NotDown
<1>5. CASE Tick  BY <1>1, <1>5 DEF Tick, NotDown
<1>6. CASE UNCHANGED left  BY <1>1, <1>6 DEF NotDown
<1> QED
    BY <1>2, <1>3, <1>4, <1>5, <1>6
    DEF Next, vars, breaker, Relay, Status, Skip, Add, Remove, Forget, Check, CheckEnds,
        Sweep, SweepHears, SweepEnds

\* A running cooldown is cut short by nothing but a relay that succeeds.
THEOREM CooldownsServed == Spec => CooldownsAreServed
<1>1. IInv /\ [Next]_vars =>
        [\A p \in Peers : IsDown(p) /\ left'[p] = NotDown =>
            \E r \in Relays : relay[r] = p /\ relay'[r] = Idle]_vars
    BY CooldownStep DEF IInv
<1> QED  BY <1>1, BreakerInvariant, PTL DEF Spec, CooldownsAreServed
=============================================================================
