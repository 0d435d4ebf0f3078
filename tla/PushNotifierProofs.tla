------------------------- MODULE PushNotifierProofs -------------------------
(***************************************************************************)
(* Deliveries settle what they listed, and pause no longer than they may:  *)
(* for any number of requests, any webhooks and any changes of them        *)
(* meanwhile, any schedule and number of attempts.  The store may do what  *)
(* it likes under a delivery, since deliver() has its own list; what       *)
(* counts is that the position it is at, the outcomes it has and the       *)
(* pauses it took move together, which Underway and Paused add.            *)
(***************************************************************************)
EXTENDS PushNotifier, SequenceTheorems, FiniteSetTheorems, TLAPS

\* A sequence that grows keeps what it has.
LEMMA Grows ==
    ASSUME NEW S, NEW s \in Seq(S), NEW x \in S
    PROVE  /\ Append(s, x) \in Seq(S)
           /\ Len(Append(s, x)) = Len(s) + 1
           /\ Len(s) \in Nat
           /\ \A n \in DOMAIN Append(s, x) :
                \/ n \in DOMAIN s /\ Append(s, x)[n] = s[n]
                \/ Append(s, x)[n] = x
<1>1. /\ Append(s, x) \in Seq(S) /\ Len(Append(s, x)) = Len(s) + 1
      /\ \A i \in 1..Len(s) : Append(s, x)[i] = s[i]
      /\ Append(s, x)[Len(s) + 1] = x
    BY AppendProperties
<1>2. Len(s) \in Nat /\ DOMAIN s = 1..Len(s)  BY LenProperties
<1>3. DOMAIN Append(s, x) = 1..Len(s) + 1  BY <1>1, LenProperties
<1> QED  BY <1>1, <1>2, <1>3

-----------------------------------------------------------------------------
(***************************************************************************)
(* The schedule.                                                           *)
(***************************************************************************)
\* There is a pause for every failure, since the last delay is used again.
LEMMA PauseType == \A n \in Nat \ {0} : Pause(n) \in Nat
<1>1. Len(Delays) \in Nat /\ Len(Delays) > 0 /\ \A n \in 1..Len(Delays) : Delays[n] \in Nat
    BY RetryAssumption
<1> TAKE n \in Nat \ {0}
<1>2. (IF n <= Len(Delays) THEN n ELSE Len(Delays)) \in 1..Len(Delays)  BY <1>1
<1> QED  BY <1>1, <1>2 DEF Pause

\* One more failure adds the seconds of its own pause.
LEMMA PausesAdd ==
    /\ PausesOf(0) = 0
    /\ \A n \in Nat : /\ IsFiniteSet(Seconds(n)) /\ PausesOf(n) \in Nat
                      /\ PausesOf(n + 1) = PausesOf(n) + Pause(n + 1)
<1> DEFINE Of(k) == {k} \X (1..Pause(k))
<1>1. ASSUME NEW k \in Nat \ {0} PROVE IsFiniteSet(Of(k)) /\ Cardinality(Of(k)) = Pause(k)
  <2>1. Pause(k) \in Nat  BY PauseType
  <2>2. IsFiniteSet(1..Pause(k)) /\ Cardinality(1..Pause(k)) = Pause(k)
      BY <2>1, FS_Interval
  <2>3. IsFiniteSet({k}) /\ Cardinality({k}) = 1  BY FS_Singleton
  <2>4. IsFiniteSet(Of(k)) /\ Cardinality(Of(k)) = 1 * Pause(k)
      BY <2>2, <2>3, FS_Product
  <2> QED  BY <2>1, <2>4
<1>2. ASSUME NEW n \in Nat PROVE IsFiniteSet(Seconds(n)) /\ PausesOf(n) \in Nat
  <2> DEFINE f == [k \in 1..n |-> Of(k)]
             all == {Of(k) : k \in 1..n}
  <2>1. f \in Surjection(1..n, all)  BY DEF Surjection
  <2>2. IsFiniteSet(1..n)  BY FS_Interval
  <2>3. IsFiniteSet(all)
    <3> HIDE DEF f, all
    <3> QED  BY <2>1, <2>2, FS_Surjection
  <2>4. \A t \in all : IsFiniteSet(t)  BY <1>1
  <2>5. IsFiniteSet(Seconds(n))
    <3>1. Seconds(n) = UNION all  BY DEF Seconds
    <3> HIDE DEF all
    <3> QED  BY <2>3, <2>4, <3>1, FS_UNION
  <2> QED  BY <2>5, FS_CardinalityType DEF PausesOf
<1>3. ASSUME NEW n \in Nat PROVE PausesOf(n + 1) = PausesOf(n) + Pause(n + 1)
  <2>1. Seconds(n + 1) = Seconds(n) \cup Of(n + 1)
    <3>1. 1..n + 1 = (1..n) \cup {n + 1}  OBVIOUS
    <3> QED  BY <3>1 DEF Seconds
  <2>2. Seconds(n) \cap Of(n + 1) = {}  BY DEF Seconds
  <2>3. Cardinality(Of(n + 1)) = Pause(n + 1) /\ IsFiniteSet(Of(n + 1))  BY <1>1
  <2>4. Cardinality(Seconds(n) \cap Of(n + 1)) = 0  BY <2>2, FS_EmptySet
  <2>5. Pause(n + 1) \in Nat  BY PauseType
  <2> HIDE DEF Of
  <2>6. PausesOf(n + 1) = PausesOf(n) + Pause(n + 1) - 0
    <3>1. IsFiniteSet(Seconds(n))  BY <1>2
    <3> QED  BY <2>1, <2>3, <2>4, <3>1, FS_Union DEF PausesOf
  <2>7. PausesOf(n) \in Nat  BY <1>2
  <2> QED  BY <2>5, <2>6, <2>7
<1>4. PausesOf(0) = 0
  <2>1. Seconds(0) = {}  BY DEF Seconds
  <2> QED  BY <2>1, FS_EmptySet DEF PausesOf
<1> QED  BY <1>2, <1>3, <1>4

\* No number of pauses of one webhook comes to more than all of them.
AllPauses == PausesOf(MaxRetries - 1)

LEMMA PausesGrow ==
    /\ AllPauses \in Nat
    /\ \A n \in 0..MaxRetries - 1 : PausesOf(n) \in Nat /\ PausesOf(n) <= AllPauses
<1>1. MaxRetries - 1 \in Nat  BY RetryAssumption
<1>2. AllPauses \in Nat  BY <1>1, PausesAdd DEF AllPauses
<1>3. ASSUME NEW n \in 0..MaxRetries - 1 PROVE PausesOf(n) \in Nat /\ PausesOf(n) <= AllPauses
  <2>1. n \in Nat /\ n <= MaxRetries - 1  BY <1>1
  <2>2. 1..n \subseteq 1..MaxRetries - 1  BY <1>1, <2>1
  <2>3. Seconds(n) \in SUBSET Seconds(MaxRetries - 1)  BY <2>2 DEF Seconds
  <2>4. IsFiniteSet(Seconds(MaxRetries - 1))  BY <1>1, PausesAdd
  <2>5. PausesOf(n) <= AllPauses  BY <2>3, <2>4, FS_Subset DEF PausesOf, AllPauses
  <2> QED  BY <2>1, <2>5, PausesAdd
<1> QED  BY <1>2, <1>3

-----------------------------------------------------------------------------
(***************************************************************************)
(* The types, and the store.                                               *)
(***************************************************************************)
LEMMA TypeInit == Init => TypeOK
<1> SUFFICES ASSUME Init PROVE TypeOK  OBVIOUS
<1>1. <<>> \in Seq(Settlement)  BY EmptySeq
<1>2. 0 \in 0..MaxRetries - 1  BY RetryAssumption
<1>3. configs \in [TaskIds -> SUBSET Webhooks] /\ \A t \in TaskIds : configs[t] = {}
    BY DEF Init
<1>4. \A t \in TaskIds : /\ IsFiniteSet(configs[t])
                         /\ \A v, w \in configs[t] : v.id = w.id => v = w
    BY <1>3, FS_EmptySet
<1> QED  BY <1>1, <1>2, <1>3, <1>4 DEF Init, TypeOK

\* A registration adds one webhook to a finite set, or puts it in the place
\* of the one with its id.
LEMMA CreateTypes ==
    ASSUME TypeOK, NEW t \in TaskIds, NEW w \in Webhooks, Create(t, w)
    PROVE  TypeOK'
<1> DEFINE others == {v \in configs[t] : v.id # w.id}
<1>1. /\ UNCHANGED <<phase, listed, current, attempt, outcome, slept>>
      /\ configs' = [configs EXCEPT ![t] = others \cup {w}]
    BY DEF Create, delivery
<1>2. IsFiniteSet(others \cup {w})
  <2>1. others \in SUBSET configs[t] /\ IsFiniteSet(configs[t])  BY DEF TypeOK
  <2> HIDE DEF others
  <2>2. IsFiniteSet(others)  BY <2>1, FS_Subset
  <2> QED  BY <2>2, FS_AddElement
<1>3. configs' \in [TaskIds -> SUBSET Webhooks]  BY <1>1 DEF TypeOK
<1>4. ASSUME NEW u \in TaskIds
      PROVE  IsFiniteSet(configs'[u]) /\ \A v, x \in configs'[u] : v.id = x.id => v = x
  <2>1. CASE u = t
    <3>1. configs'[t] = others \cup {w}  BY <1>1 DEF TypeOK
    <3>2. \A v, x \in others \cup {w} : v.id = x.id => v = x  BY DEF TypeOK
    <3> HIDE DEF others
    <3> QED  BY <1>2, <2>1, <3>1, <3>2
  <2>2. CASE u # t
    <3>1. configs'[u] = configs[u]  BY <1>1, <2>2 DEF TypeOK
    <3> QED  BY <3>1 DEF TypeOK
  <2> QED  BY <2>1, <2>2
<1> QED  BY <1>1, <1>3, <1>4 DEF TypeOK

LEMMA DeleteTypes ==
    ASSUME TypeOK, NEW t \in TaskIds, NEW i \in Ids, Delete(t, i)
    PROVE  TypeOK'
<1> DEFINE others == {v \in configs[t] : v.id # i}
<1>1. /\ UNCHANGED <<phase, listed, current, attempt, outcome, slept>>
      /\ configs' = [configs EXCEPT ![t] = others]
    BY DEF Delete, delivery
<1>2. IsFiniteSet(others)
  <2>1. others \in SUBSET configs[t] /\ IsFiniteSet(configs[t])  BY DEF TypeOK
  <2> HIDE DEF others
  <2> QED  BY <2>1, FS_Subset
<1>3. configs' \in [TaskIds -> SUBSET Webhooks]  BY <1>1 DEF TypeOK
<1>4. ASSUME NEW u \in TaskIds
      PROVE  IsFiniteSet(configs'[u]) /\ \A v, x \in configs'[u] : v.id = x.id => v = x
  <2>1. configs'[u] = IF u = t THEN others ELSE configs[u]  BY <1>1 DEF TypeOK
  <2>2. \A v, x \in others : v.id = x.id => v = x  BY DEF TypeOK
  <2> HIDE DEF others
  <2> QED  BY <1>2, <2>1, <2>2 DEF TypeOK
<1> QED  BY <1>1, <1>3, <1>4 DEF TypeOK

-----------------------------------------------------------------------------
(***************************************************************************)
(* The deliveries.                                                         *)
(***************************************************************************)
\* One delivery goes on, the others stay where they are.
LEMMA OthersStay ==
    ASSUME NEW r \in Requests, Underway(r), Paused(r),
           /\ phase'[r] = phase[r] /\ listed'[r] = listed[r] /\ current'[r] = current[r]
           /\ attempt'[r] = attempt[r] /\ outcome'[r] = outcome[r] /\ slept'[r] = slept[r]
    PROVE  Underway(r)' /\ Paused(r)'
<1>1. Rested(r)' = Rested(r)  BY DEF Rested
<1> QED  BY <1>1 DEF Underway, Paused

LEMMA InitInv == Init => IInv
<1> SUFFICES ASSUME Init PROVE IInv  OBVIOUS
<1>1. Len(<<>>) = 0 /\ DOMAIN <<>> = {}  BY EmptySeq
<1> SUFFICES ASSUME NEW r \in Requests PROVE Underway(r) /\ Paused(r)
    BY TypeInit DEF IInv
<1>2. phase[r] = "idle" /\ attempt[r] = 0 /\ slept[r] = 0 /\ current[r] = 1
    BY DEF Init
<1>3. 0 <= (1 - 1) * AllPauses + PausesOf(0)  BY PausesAdd, PausesGrow
<1>4. Rested(r) = 0  BY <1>2 DEF Rested
<1>5. Paused(r)  BY <1>2, <1>3, <1>4 DEF Paused, AllPauses
<1> QED  BY <1>1, <1>5 DEF Init, Underway

\* A delivery begins: it has settled nothing of its list.
LEMMA DeliverKeeps ==
    ASSUME IInv, NEW r \in Requests, Deliver(r)
    PROVE  IInv'
<1> USE DEF IInv, TypeOK
<1> DEFINE count == Cardinality(WithUrl(configs[TaskOf(r)]))
<1>1. r \notin Streams /\ phase[r] \in {"idle", "running"}
    BY RequestsAssumption DEF Deliver, Messages
<1>2. count \in Nat
  <2>1. TaskOf(r) \in TaskIds  BY DEF TaskOf, TaskIds, Requests
  <2>2. IsFiniteSet(configs[TaskOf(r)])  BY <2>1
  <2>3. WithUrl(configs[TaskOf(r)]) \in SUBSET configs[TaskOf(r)]  BY DEF WithUrl
  <2>4. IsFiniteSet(WithUrl(configs[TaskOf(r)]))  BY <2>2, <2>3, FS_Subset
  <2> QED  BY <2>4, FS_CardinalityType
<1>3. /\ listed' = [listed EXCEPT ![r] = count] /\ listed'[r] = count
      /\ phase' = [phase EXCEPT ![r] = IF count = 0 THEN "done" ELSE "posting"]
      /\ UNCHANGED <<configs, current, attempt, outcome, slept>>
    BY DEF Deliver
<1> HIDE DEF count
<1>4. TypeOK'
  <2>1. phase' \in [Requests -> {"idle", "running", "posting", "sleeping", "done"}]
      BY <1>3
  <2>2. listed' \in [Requests -> Nat]  BY <1>2, <1>3
  <2> QED  BY <1>3, <2>1, <2>2
<1>5. ASSUME NEW q \in Requests, q # r PROVE Underway(q)' /\ Paused(q)'
  <2>1. phase'[q] = phase[q] /\ listed'[q] = listed[q]  BY <1>3, <1>5
  <2> QED  BY <1>3, <2>1, OthersStay
<1>6. current[r] = 1 /\ Len(outcome[r]) = 0 /\ outcome[r] = <<>>
    BY <1>1, EmptySeq, LenProperties DEF Underway
<1>7. Underway(r)'
  <2>1. phase'[r] = IF count = 0 THEN "done" ELSE "posting"  BY <1>3
  <2> QED  BY <1>1, <1>2, <1>3, <1>6, <2>1 DEF Underway
<1>8. Paused(r)'
  <2>1. attempt[r] = 0 /\ slept[r] = 0 /\ Rested(r) = 0  BY <1>1 DEF Paused, Rested
  <2>2. phase'[r] \in {"done", "posting"} /\ Rested(r)' = 0  BY <1>3, <2>1 DEF Rested
  <2> QED  BY <1>1, <1>3, <2>1, <2>2 DEF Paused
<1> QED  BY <1>4, <1>5, <1>7, <1>8

\* A webhook is settled: position and outcomes move on together, and its
\* pauses were no more than all of them.
LEMMA SettleKeeps ==
    ASSUME IInv, NEW r \in Requests, phase[r] = "posting", NEW how,
           how = "delivered" \/ (how = "dropped" /\ attempt[r] + 1 = MaxRetries),
           Settle(r, how), UNCHANGED <<configs, listed, changes>>
    PROVE  IInv'
<1> USE DEF IInv, TypeOK
<1> DEFINE entry == [how |-> how, posts |-> attempt[r] + 1]
<1>1. r \notin Streams  BY DEF Underway
<1>2. attempt[r] + 1 \in 1..MaxRetries /\ 0 \in 0..MaxRetries - 1
    BY RetryAssumption
<1>3. entry \in Settlement  BY <1>2 DEF Settlement
<1>4. outcome' = [outcome EXCEPT ![r] = Append(@, entry)]  BY DEF Settle
<1>5. outcome'[r] = Append(outcome[r], entry)  BY <1>4
<1>6. /\ Append(outcome[r], entry) \in Seq(Settlement)
      /\ Len(Append(outcome[r], entry)) = Len(outcome[r]) + 1
      /\ \A n \in DOMAIN Append(outcome[r], entry) :
           \/ n \in DOMAIN outcome[r] /\ Append(outcome[r], entry)[n] = outcome[r][n]
           \/ Append(outcome[r], entry)[n] = entry
  <2>1. outcome[r] \in Seq(Settlement)  OBVIOUS
  <2> HIDE DEF entry
  <2> QED  BY <1>3, <2>1, Grows
<1>7. TypeOK'
  <2>1. outcome' \in [Requests -> Seq(Settlement)]  BY <1>4, <1>6
  <2>2. current' \in [Requests -> Nat \ {0}]  BY DEF Settle
  <2>3. attempt' \in [Requests -> 0..MaxRetries - 1]  BY <1>2 DEF Settle
  <2>4. phase' \in [Requests -> {"idle", "running", "posting", "sleeping", "done"}]
      BY DEF Settle
  <2>5. slept' = slept  BY DEF Settle
  <2> QED  BY <2>1, <2>2, <2>3, <2>4, <2>5
<1>8. ASSUME NEW q \in Requests, q # r PROVE Underway(q)' /\ Paused(q)'
  <2>1. /\ phase'[q] = phase[q] /\ listed'[q] = listed[q] /\ current'[q] = current[q]
        /\ attempt'[q] = attempt[q] /\ outcome'[q] = outcome[q] /\ slept'[q] = slept[q]
      BY <1>8 DEF Settle
  <2> QED  BY <2>1, OthersStay
<1>9. /\ current'[r] = current[r] + 1 /\ listed' = listed /\ attempt'[r] = 0
      /\ slept' = slept
      /\ phase'[r] = IF current[r] = listed[r] THEN "done" ELSE "posting"
    BY <1>2 DEF Settle
<1>10. Underway(r)'
  <2>1. Len(outcome'[r]) = current[r]  BY <1>1, <1>5, <1>6 DEF Underway
  <2>2. \A n \in DOMAIN outcome'[r] :
          outcome'[r][n].how = "dropped" => outcome'[r][n].posts = MaxRetries
      BY <1>5, <1>6 DEF Underway
  <2>3. current[r] <= listed[r] /\ current[r] \in Nat /\ listed[r] \in Nat
      BY DEF Underway
  <2>4. Len(outcome'[r]) = current'[r] - 1  BY <1>9, <2>1, <2>3
  <2> QED  BY <1>1, <1>9, <2>1, <2>2, <2>3, <2>4 DEF Underway
<1>11. Paused(r)'
  <2>1. Rested(r)' = 0 /\ phase'[r] \in {"done", "posting"}  BY <1>9 DEF Rested
  <2>2. slept[r] <= (current[r] - 1) * AllPauses + PausesOf(attempt[r])
      BY DEF Paused, Rested, AllPauses
  <2>3. PausesOf(attempt[r]) \in Nat /\ PausesOf(attempt[r]) <= AllPauses /\ AllPauses \in Nat
      BY PausesGrow
  <2>4. \A s, c, p, b \in Nat : (s <= (c - 1) * b + p /\ p <= b) => s <= c * b + 0
      OBVIOUS
  <2>5. slept[r] \in Nat /\ current[r] \in Nat  OBVIOUS
  <2>6. slept[r] <= current[r] * AllPauses + 0  BY <2>2, <2>3, <2>4, <2>5
  <2>7. slept'[r] <= (current'[r] - 1) * AllPauses + PausesOf(0)
    <3>1. current'[r] - 1 = current[r] /\ slept'[r] = slept[r]  BY <1>9, <2>5
    <3> QED  BY <2>6, <3>1, PausesAdd
  <2> QED  BY <1>1, <1>9, <2>1, <2>7 DEF Paused, AllPauses
<1> QED  BY <1>7, <1>8, <1>10, <1>11

\* A webhook is tried again after its attempt[r]-th failure: nothing is
\* settled, and the pause is still to come.
LEMMA TryAgainKeeps ==
    ASSUME IInv, NEW r \in Requests, phase[r] = "posting",
           phase' = [phase EXCEPT ![r] = "sleeping"],
           attempt[r] + 1 < MaxRetries, attempt' = [attempt EXCEPT ![r] = @ + 1],
           UNCHANGED <<configs, listed, current, outcome, slept>>
    PROVE  IInv'
<1> USE DEF IInv, TypeOK
<1>1. r \notin Streams  BY DEF Underway
<1>2. attempt' \in [Requests -> 0..MaxRetries - 1]  BY RetryAssumption
<1>3. TypeOK'  BY <1>2
<1>4. ASSUME NEW q \in Requests, q # r PROVE Underway(q)' /\ Paused(q)'
  <2>1. phase'[q] = phase[q] /\ attempt'[q] = attempt[q]  BY <1>4
  <2> QED  BY <2>1, OthersStay
<1>5. phase'[r] = "sleeping" /\ attempt'[r] = attempt[r] + 1 /\ attempt[r] \in Nat
    OBVIOUS
<1>6. Underway(r)'  BY <1>1, <1>5 DEF Underway
<1>7. Rested(r)' = Rested(r)  BY <1>5 DEF Rested
<1>8. Paused(r)'  BY <1>1, <1>5, <1>7 DEF Paused
<1> QED  BY <1>3, <1>4, <1>6, <1>8

LEMMA PostFailsKeeps ==
    ASSUME IInv, NEW r \in Requests, PostFails(r)
    PROVE  IInv'
<1>1. CASE attempt[r] + 1 < MaxRetries /\ attempt' = [attempt EXCEPT ![r] = @ + 1]
           /\ phase' = [phase EXCEPT ![r] = "sleeping"] /\ UNCHANGED <<current, outcome, slept>>
    BY <1>1, TryAgainKeeps DEF PostFails
<1>2. CASE attempt[r] + 1 = MaxRetries /\ Settle(r, "dropped")
    BY <1>2, SettleKeeps DEF PostFails
<1> QED  BY <1>1, <1>2 DEF PostFails

\* A pause is over: its seconds are those of one more failure.
LEMMA WakeKeeps ==
    ASSUME IInv, NEW r \in Requests, Wake(r)
    PROVE  IInv'
<1> USE DEF IInv, TypeOK
<1> DEFINE a == attempt[r]
<1>1. /\ phase[r] = "sleeping" /\ UNCHANGED <<configs, listed, current, attempt, outcome>>
      /\ phase' = [phase EXCEPT ![r] = "posting"]
      /\ slept' = [slept EXCEPT ![r] = @ + Pause(a)]
    BY DEF Wake
<1>2. r \notin Streams /\ a \in Nat \ {0} /\ a - 1 \in Nat
  <2>1. attempt[r] \in Nat /\ Underway(r) /\ Paused(r)  BY RetryAssumption
  <2> QED  BY <1>1, <2>1 DEF Underway, Paused
<1>3. Pause(a) \in Nat  BY <1>2, PauseType
<1>4. PausesOf(a) = PausesOf(a - 1) + Pause(a) /\ PausesOf(a - 1) \in Nat
  <2>1. (a - 1) + 1 = a  BY <1>2
  <2> QED  BY <1>2, <2>1, PausesAdd
<1> HIDE DEF a
<1>5. TypeOK'
  <2>1. slept' \in [Requests -> Nat]  BY <1>1, <1>3
  <2> QED  BY <1>1, <2>1
<1>6. ASSUME NEW q \in Requests, q # r PROVE Underway(q)' /\ Paused(q)'
  <2>1. phase'[q] = phase[q] /\ slept'[q] = slept[q]  BY <1>1, <1>6
  <2> QED  BY <1>1, <2>1, OthersStay
<1>7. phase'[r] = "posting" /\ slept'[r] = slept[r] + Pause(a)  BY <1>1
<1>8. Underway(r)'  BY <1>1, <1>2, <1>7 DEF Underway
<1>9. Paused(r)'
  <2>1. Rested(r) = a - 1 /\ Rested(r)' = a  BY <1>1, <1>7 DEF Rested, a
  <2>2. slept[r] <= (current[r] - 1) * AllPauses + PausesOf(a - 1)
      BY <2>1 DEF Paused, AllPauses
  <2>3. (current[r] - 1) * AllPauses \in Int  BY PausesGrow
  <2>4. \A s, m, p, d \in Int : s <= m + p => s + d <= m + (p + d)  OBVIOUS
  <2>5. slept[r] + Pause(a) <= (current[r] - 1) * AllPauses + PausesOf(a)
    <3>1. slept[r] \in Int  OBVIOUS
    <3> QED  BY <1>3, <1>4, <2>2, <2>3, <2>4, <3>1
  <2> QED  BY <1>1, <1>2, <1>7, <2>1, <2>5 DEF Paused, AllPauses
<1> QED  BY <1>5, <1>6, <1>8, <1>9

\* Streams come and go without a delivery, and a send's save() precedes it.
LEMMA MessageKeeps ==
    ASSUME IInv, NEW m \in Requests, SaveTask(m) \/ StartStream(m) \/ CompleteStream(m)
    PROVE  IInv'
<1> USE DEF IInv, TypeOK, SaveTask, StartStream, CompleteStream
<1>1. /\ m \in Messages /\ m \notin Cancels /\ phase[m] \in {"idle", "running"}
      /\ m \in Streams \/ phase'[m] = "running"
    BY RequestsAssumption DEF Messages
<1>2. UNCHANGED <<configs, listed, current, attempt, outcome, slept>>  BY DEF delivery
<1>3. \E p \in {"running", "done"} : phase' = [phase EXCEPT ![m] = p]  OBVIOUS
<1>4. TypeOK'  BY <1>2, <1>3
<1>5. ASSUME NEW q \in Requests, q # m PROVE Underway(q)' /\ Paused(q)'
  <2>1. phase'[q] = phase[q]  BY <1>3, <1>5
  <2> QED  BY <1>2, <2>1, OthersStay
<1>6. phase'[m] \in {"running", "done"}  BY <1>3
<1>7. Underway(m)'  BY <1>1, <1>2, <1>6 DEF Underway
<1>8. Rested(m)' = Rested(m)  BY <1>1, <1>2, <1>6 DEF Rested
<1>9. Paused(m)'  BY <1>1, <1>2, <1>6, <1>8 DEF Paused
<1> QED  BY <1>4, <1>5, <1>7, <1>9

\* What happens to the store, or nothing at all, is nothing to a delivery.
LEMMA OthersKeep ==
    ASSUME IInv, UNCHANGED <<phase, delivery>>, TypeOK'
    PROVE  IInv'
<1> SUFFICES ASSUME NEW r \in Requests PROVE Underway(r)' /\ Paused(r)'  BY DEF IInv
<1> QED  BY OthersStay DEF IInv, delivery

LEMMA NextInv == IInv /\ [Next]_vars => IInv'
<1> SUFFICES ASSUME IInv, [Next]_vars PROVE IInv'  OBVIOUS
<1>1. CASE \E r \in Requests : Step(r) \/ SaveTask(r) \/ StartStream(r) \/ CompleteStream(r)
  <2> PICK r \in Requests : Step(r) \/ SaveTask(r) \/ StartStream(r) \/ CompleteStream(r)  BY <1>1
  <2>1. CASE Deliver(r)  BY <2>1, DeliverKeeps
  <2>2. CASE PostSucceeds(r)  BY <2>2, SettleKeeps DEF PostSucceeds
  <2>3. CASE PostFails(r)  BY <2>3, PostFailsKeeps
  <2>4. CASE Wake(r)  BY <2>4, WakeKeeps
  <2>5. CASE SaveTask(r) \/ StartStream(r) \/ CompleteStream(r)  BY <2>5, MessageKeeps
  <2> QED  BY <2>1, <2>2, <2>3, <2>4, <2>5 DEF Step
<1>2. ASSUME NEW t \in TaskIds, \/ \E w \in Webhooks : Create(t, w)
                               \/ \E i \in Ids : Delete(t, i)
      PROVE  IInv'
  <2>1. UNCHANGED <<phase, delivery>>  BY <1>2 DEF Create, Delete
  <2>2. TypeOK'  BY <1>2, CreateTypes, DeleteTypes DEF IInv
  <2> QED  BY <2>1, <2>2, OthersKeep
<1>3. CASE Rest \/ UNCHANGED vars
  <2>1. UNCHANGED <<configs, phase, delivery>>  BY <1>3 DEF Rest, vars
  <2>2. TypeOK'  BY <2>1 DEF IInv, TypeOK, delivery
  <2> QED  BY <2>1, <2>2, OthersKeep
<1> QED  BY <1>1, <1>2, <1>3 DEF Next

\* The bookkeeping of every delivery, with its types.
THEOREM DeliveryInvariant == Spec => []IInv
BY InitInv, NextInv, PTL DEF Spec

\* Whatever the store and the other requests do, and whichever POSTs fail, a
\* delivery that is over has settled every webhook it listed, and gave none
\* up before MaxRetries attempts (deliver, _post_with_retry).
THEOREM WebhooksAreTried == Spec => []EveryWebhookIsTried
<1>1. IInv => EveryWebhookIsTried
  <2> SUFFICES ASSUME IInv, NEW r \in Sends \cup Cancels, phase[r] = "done"
      PROVE /\ Len(outcome[r]) = listed[r]
            /\ \A n \in DOMAIN outcome[r] :
                 outcome[r][n].how = "dropped" => outcome[r][n].posts = MaxRetries
      BY DEF EveryWebhookIsTried
  <2>1. r \in Requests /\ r \notin Streams
      BY RequestsAssumption DEF Requests, Messages
  <2> QED  BY <2>1 DEF IInv, Underway
<1> QED  BY <1>1, DeliveryInvariant, PTL

\* For every schedule, number of attempts and number of webhooks: a delivery
\* sleeps for no longer than the pauses between the attempts, once per webhook
\* (deliver, _post_with_retry; what its POSTs take comes on top).
THEOREM PausesBounded == Spec => []PausesAreBounded
<1>1. IInv => PausesAreBounded
  <2> SUFFICES ASSUME IInv, NEW r \in Requests
               PROVE  attempt[r] < MaxRetries /\ slept[r] <= listed[r] * AllPauses
      BY DEF PausesAreBounded, AllPauses
  <2>1. /\ attempt[r] \in 0..MaxRetries - 1 /\ current[r] \in Nat \ {0}
        /\ listed[r] \in Nat /\ slept[r] \in Nat /\ MaxRetries \in Nat
        /\ Underway(r) /\ Paused(r)
      BY RetryAssumption DEF IInv, TypeOK
  <2>2. \A c, l, b \in Nat : c <= l => 0 <= c * b /\ c * b <= l * b  OBVIOUS
  <2>3. slept[r] <= (current[r] - 1) * AllPauses + PausesOf(Rested(r))
      BY <2>1 DEF Paused, AllPauses
  <2>4. CASE slept[r] = 0  BY <2>1, <2>2, <2>4, PausesGrow
  <2>5. CASE phase[r] \in {"posting", "sleeping"}
    <3>1. current[r] <= listed[r]  BY <2>1, <2>5 DEF Underway
    <3>2. Rested(r) \in 0..MaxRetries - 1  BY <2>1 DEF Paused, Rested
    <3>3. PausesOf(Rested(r)) \in Nat /\ PausesOf(Rested(r)) <= AllPauses /\ AllPauses \in Nat
        BY <3>2, PausesGrow
    <3>4. \A s, c, p, b \in Nat : (s <= (c - 1) * b + p /\ p <= b) => s <= c * b
        OBVIOUS
    <3>5. slept[r] <= current[r] * AllPauses  BY <2>1, <2>3, <3>3, <3>4
    <3>6. current[r] * AllPauses <= listed[r] * AllPauses  BY <2>1, <2>2, <3>1, <3>3
    <3>7. current[r] * AllPauses \in Int /\ listed[r] * AllPauses \in Int  BY <2>1, <3>3
    <3> QED  BY <2>1, <3>5, <3>6, <3>7
  <2>6. CASE phase[r] = "done" /\ r \notin Streams
    <3>1. current[r] - 1 = listed[r]  BY <2>1, <2>6 DEF Underway
    <3>2. PausesOf(Rested(r)) = 0  BY <2>1, <2>6, PausesAdd DEF Paused, Rested
    <3>3. listed[r] * AllPauses \in Int  BY <2>1, PausesGrow
    <3> QED  BY <2>1, <2>3, <3>1, <3>2, <3>3
  <2>7. \/ slept[r] = 0 \/ phase[r] \in {"posting", "sleeping"}
        \/ (phase[r] = "done" /\ r \notin Streams)
      BY <2>1 DEF Paused, IInv, TypeOK
  <2> QED  BY <2>4, <2>5, <2>6, <2>7
<1> QED  BY <1>1, DeliveryInvariant, PTL
=============================================================================
