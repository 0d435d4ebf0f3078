------------------------- MODULE HermesRetryProofs -------------------------
(***************************************************************************)
(* The bounds of HermesRetry for every back-off schedule, every Hermes and *)
(* every timing, and that it implements BoundedRetry.                      *)
(***************************************************************************)
EXTENDS HermesRetry, SequenceTheorems, WellFoundedInduction, TLAPS

\* The budgets are natural numbers.
LEMMA BudgetTypes == C \in Nat /\ T \in Nat /\ H \in Nat
  BY DelaysAssumption DEF C, T, H

\* The call starts well typed.
LEMMA TypeInit == Init => TypeOK
  BY BudgetTypes DEF Init, TypeOK, Outcomes

\* Before the call there is nothing to account for.
LEMMA AccountedInit == Init => Accounted
  BY BudgetTypes DEF Init, Accounted, PostsAreBounded, TurnsAreBounded

\* The pauses the engine sleeps for come from the schedules or from Hermes.
LEMMA PauseTypes ==
    /\ \A n \in 1..C : ConnectDelays[n] \in Nat
    /\ \A n \in 1..T : TimeoutDelays[n] \in Nat
    /\ \A n \in 1..H : HttpDelays[n] \in Nat
  BY DelaysAssumption DEF C, T, H

\* Every step keeps the types and the account of POSTs and turns together.
LEMMA Induction == TypeOK /\ Accounted /\ [Next]_vars => TypeOK' /\ Accounted'
<1> SUFFICES ASSUME TypeOK, Accounted, [Next]_vars PROVE TypeOK' /\ Accounted'
  OBVIOUS
<1> USE BudgetTypes, PauseTypes, DelaysAssumption
        DEF TypeOK, Outcomes, Accounted, PostsAreBounded, TurnsAreBounded
<1>1. CASE Success
  BY <1>1 DEF Success, Posted, End, counters
<1>2. CASE AuthError
  BY <1>2 DEF AuthError, Posted, End, counters
<1>3. CASE StatusError
  BY <1>3 DEF StatusError, Posted, End, counters
<1>4. CASE BrokenResponse
  BY <1>4 DEF BrokenResponse, Posted, End, counters
<1>5. CASE Throttled
  <2>1. /\ phase = "posting" /\ https' = https + 1 /\ UNCHANGED <<connects, timeouts, posts, turns, waited>>
    BY <1>5 DEF Throttled, Posted, End, Sleep
  <2>2. CASE https' > H /\ End("server")
    BY <2>1, <2>2 DEF End
  <2>3. CASE /\ https' <= H
             /\ \E pause \in RetryAfters \cup {HttpDelays[https']} : Sleep(pause)
    <3>1. PICK pause \in RetryAfters \cup {HttpDelays[https']} : Sleep(pause)
      BY <2>3
    <3>2. pause \in Nat
      BY <2>1, <2>3, <3>1
    <3> QED BY <2>1, <2>3, <3>1, <3>2 DEF Sleep
  <2> QED BY <1>5, <2>2, <2>3 DEF Throttled, H
<1>6. CASE ServerError
  BY <1>6 DEF ServerError, Posted, End, Sleep, H
<1>7. CASE ConnectError
  BY <1>7 DEF ConnectError, Posted, End, Sleep, C
<1>8. CASE Timeout
  BY <1>8 DEF Timeout, Posted, End, Sleep, T
<1>9. CASE Wake
  BY <1>9 DEF Wake, counters
<1>10. CASE Call
  BY <1>10 DEF Call, counters
<1>11. CASE Done \/ UNCHANGED vars
  BY <1>11 DEF Done, vars, counters
<1> QED BY <1>1, <1>2, <1>3, <1>4, <1>5, <1>6, <1>7, <1>8, <1>9, <1>10, <1>11 DEF Next, Step

\* The counters stay within their budgets whatever Hermes answers.
THEOREM TypeCorrect == Spec => []TypeOK
  BY TypeInit, AccountedInit, Induction, PTL DEF Spec

\* One message costs at most 1 + C + T + H POSTs and 1 + T + H turns.
THEOREM PostsAccounted == Spec => []Accounted
  BY TypeInit, AccountedInit, Induction, PTL DEF Spec

\* The safety half of IsBoundedRetry: the engine starts like BoundedRetry, and
\* each of its steps is a step of BoundedRetry or changes nothing it shows.
THEOREM RefinesBoundedRetry == Spec => Retry!Init /\ [][Retry!Next]_(Retry!vars)
<1>1. Init => Retry!Init
  BY DEF Init, Retry!Init
<1>2. TypeOK /\ Accounted /\ [Next]_vars => [Retry!Next]_(Retry!vars)
  <2> SUFFICES ASSUME TypeOK, Accounted, [Next]_vars PROVE [Retry!Next]_(Retry!vars)
    OBVIOUS
  <2> USE BudgetTypes
          DEF Retry!Next, Retry!Call, Retry!Try, Retry!Decide, Retry!vars, TypeOK, Accounted
  <2>1. CASE UNCHANGED <<phase, outcome, posts>>
    BY <2>1
  <2>2. CASE phase = "posting" /\ posts' = posts /\ phase' = "sleeping"
    BY <2>2
  <2>3. CASE phase = "posting" /\ posts' = posts /\ phase' = "done"
    BY <2>3
  <2>4. CASE Wake
    BY <2>4 DEF Wake
  <2>5. CASE Step
    <3>1. Wake \/ (phase = "posting" /\ posts' = posts /\ phase' \in {"sleeping", "done"})
      BY <2>5 DEF Step, Success, AuthError, StatusError, BrokenResponse, Throttled,
                  ServerError, ConnectError, Timeout, Posted, End, Sleep
    <3> QED BY <3>1, <2>2, <2>3, <2>4
  <2>6. CASE Call
    BY <2>6 DEF Call
  <2> QED BY <2>1, <2>5, <2>6 DEF Next, Done, vars
<1> QED BY <1>1, <1>2, TypeInit, AccountedInit, Induction, PTL DEF Spec

-----------------------------------------------------------------------------
(***************************************************************************)
(* The pauses.  Their sums are defined by recursion over the schedule, so  *)
(* what is known of them is known by induction: over the set of the places *)
(* up to which it holds.                                                   *)
(***************************************************************************)
\* A set with 0 and with the successor of each of its numbers has them all.
LEMMA SetInduction ==
    ASSUME NEW S, 0 \in S, \A n \in Nat : n \in S => n + 1 \in S
    PROVE  Nat \subseteq S
<1> DEFINE Less == OpToRel(<, Nat)
<1>1. IsWellFoundedOn(Less, Nat)  BY NatLessThanWellFounded
<1>2. \A m, n \in Nat : m < n => <<m, n>> \in Less  BY DEF OpToRel
<1> HIDE DEF Less
<1> SUFFICES ASSUME Nat \ S # {} PROVE FALSE  OBVIOUS
<1>3. PICK n \in Nat \ S : \A m \in Nat \ S : ~(<<m, n>> \in Less)  BY <1>1, WFMin
<1>4. n # 0 /\ n - 1 \in Nat /\ n - 1 < n  BY <1>3
<1>5. n - 1 \in S  BY <1>2, <1>3, <1>4
<1> QED  BY <1>4, <1>5

\* sum holds the sums of the first pauses of s, n of them.
Sums(s, n, sum) ==
    /\ sum \in [0..n -> Nat] /\ sum[0] = 0
    /\ \A k \in 1..n : sum[k] = sum[k - 1] + s[k]

\* There are such sums, however long the schedule.
LEMMA SumsExist ==
    ASSUME NEW s \in Seq(Nat)
    PROVE  \E sum : Sums(s, Len(s), sum)
<1> DEFINE S == {n \in Nat : n <= Len(s) => \E sum : Sums(s, n, sum)}
<1>1. Len(s) \in Nat /\ \A k \in 1..Len(s) : s[k] \in Nat  OBVIOUS
<1>2. 0 \in S
  <2>1. Sums(s, 0, [k \in 0..0 |-> 0])  BY DEF Sums
  <2> QED  BY <2>1
<1>3. \A n \in Nat : n \in S => n + 1 \in S
  <2> SUFFICES ASSUME NEW n \in Nat, n + 1 <= Len(s), NEW f, Sums(s, n, f)
               PROVE  \E g : Sums(s, n + 1, g)
      BY <1>1
  <2> DEFINE g == [k \in 0..n + 1 |-> IF k = n + 1 THEN f[n] + s[k] ELSE f[k]]
  <2>1. \A k \in 0..n : g[k] = f[k] /\ f[k] \in Nat  BY DEF Sums
  <2>2. g[n + 1] = f[n] + s[n + 1] /\ s[n + 1] \in Nat  BY <1>1
  <2>3. g = [k \in 0..n + 1 |-> g[k]]  OBVIOUS
  <2> HIDE DEF g
  <2>4. ASSUME NEW k \in 0..n + 1 PROVE g[k] \in Nat
    <3>1. k \in 0..n \/ k = n + 1  OBVIOUS
    <3>2. f[n] \in Nat  BY <2>1
    <3> QED  BY <3>1, <3>2, <2>1, <2>2
  <2>5. g \in [0..n + 1 -> Nat]  BY <2>3, <2>4
  <2>6. g[0] = 0  BY <2>1 DEF Sums
  <2>7. ASSUME NEW k \in 1..n + 1 PROVE g[k] = g[k - 1] + s[k]
    <3>1. CASE k = n + 1  BY <3>1, <2>1, <2>2
    <3>2. CASE k # n + 1
      <4>1. k \in 1..n /\ k - 1 \in 0..n /\ k \in 0..n  BY <3>2
      <4>2. f[k] = f[k - 1] + s[k]  BY <4>1 DEF Sums
      <4> QED  BY <4>1, <4>2, <2>1
    <3> QED  BY <3>1, <3>2
  <2> QED  BY <2>5, <2>6, <2>7 DEF Sums
<1> HIDE DEF S
<1>4. Len(s) \in S  BY <1>1, <1>2, <1>3, SetInduction
<1> QED  BY <1>4 DEF S

\* ... so Upto is what its definition says.
LEMMA UptoRecursion ==
    ASSUME NEW s \in Seq(Nat)
    PROVE  /\ Upto(s, 0) = 0
           /\ \A n \in 1..Len(s) : Upto(s, n) = Upto(s, n - 1) + s[n]
<1> DEFINE Rec(f) == f = [k \in 0..Len(s) |-> IF k = 0 THEN 0 ELSE f[k - 1] + s[k]]
           sum == CHOOSE f : Rec(f)
<1>1. Len(s) \in Nat /\ \A k \in 1..Len(s) : s[k] \in Nat  OBVIOUS
<1>2. PICK f : Sums(s, Len(s), f)  BY SumsExist
<1>3. Rec(f)
  <2>1. f = [k \in 0..Len(s) |-> f[k]]  BY <1>2 DEF Sums
  <2>2. \A k \in 0..Len(s) : f[k] = IF k = 0 THEN 0 ELSE f[k - 1] + s[k]
      BY <1>1, <1>2 DEF Sums
  <2> QED  BY <2>1, <2>2
<1>4. Rec(sum)
  <2> HIDE DEF Rec
  <2> QED  BY <1>3
<1>5. \A n : Upto(s, n) = sum[n]  BY DEF Upto
<1> HIDE DEF sum
<1>6. \A n \in 0..Len(s) : sum[n] = IF n = 0 THEN 0 ELSE sum[n - 1] + s[n]
    BY <1>4
<1> HIDE DEF Rec
<1> QED  BY <1>1, <1>5, <1>6

\* Sums are natural numbers, and grow.
LEMMA SumsGrow ==
    ASSUME NEW s \in Seq(Nat)
    PROVE  \A n \in 0..Len(s) : \A m \in 0..n :
             Upto(s, m) \in Nat /\ Upto(s, m) <= Upto(s, n)
<1> DEFINE Good(n) == \A m \in 0..n : Upto(s, m) \in Nat /\ Upto(s, m) <= Upto(s, n)
           S == {n \in Nat : n <= Len(s) => Good(n)}
<1>1. Len(s) \in Nat /\ \A k \in 1..Len(s) : s[k] \in Nat  OBVIOUS
<1>2. 0 \in S  BY UptoRecursion
<1>3. \A n \in Nat : n \in S => n + 1 \in S
  <2> SUFFICES ASSUME NEW n \in Nat, n <= Len(s) => Good(n), n + 1 <= Len(s)
               PROVE  Good(n + 1)
    <3> HIDE DEF Good
    <3> QED  OBVIOUS
  <2> Good(n)
    <3> HIDE DEF Good
    <3> QED  BY <1>1
  <2>1. n + 1 \in 1..Len(s) /\ (n + 1) - 1 = n  BY <1>1
  <2>2. Upto(s, n + 1) = Upto(s, n) + s[n + 1] /\ s[n + 1] \in Nat
      BY <1>1, <2>1, UptoRecursion
  <2>3. Upto(s, n) \in Nat /\ Upto(s, n + 1) \in Nat  BY <2>2
  <2>4. ASSUME NEW m \in 0..n + 1
        PROVE  Upto(s, m) \in Nat /\ Upto(s, m) <= Upto(s, n + 1)
    <3>1. CASE m = n + 1  BY <2>3, <3>1
    <3>2. CASE m \in 0..n
      <4>1. Upto(s, m) \in Nat /\ Upto(s, m) <= Upto(s, n)  BY <3>2
      <4> QED  BY <2>2, <2>3, <4>1
    <3> QED  BY <3>1, <3>2
  <2> QED  BY <2>4
<1> HIDE DEF S
<1>4. Nat \subseteq S  BY <1>2, <1>3, SetInduction
<1> QED  BY <1>1, <1>4 DEF S

\* What the pauses before the n-th retry come to.
LEMMA Budgets ==
    ASSUME NEW s \in Seq(Nat), NEW n \in 0..Len(s)
    PROVE  /\ Upto(s, n) \in Nat /\ Upto(s, Len(s)) \in Nat
           /\ Upto(s, n) <= Upto(s, Len(s))
           /\ n < Len(s) => s[n + 1] \in Nat /\ Upto(s, n + 1) = Upto(s, n) + s[n + 1]
<1>1. Len(s) \in Nat /\ n \in 0..n /\ Len(s) \in 0..Len(s)  OBVIOUS
<1>2. Upto(s, n) \in Nat /\ Upto(s, Len(s)) \in Nat /\ Upto(s, n) <= Upto(s, Len(s))
    BY <1>1, SumsGrow
<1>3. ASSUME n < Len(s)
      PROVE  s[n + 1] \in Nat /\ Upto(s, n + 1) = Upto(s, n) + s[n + 1]
  <2>1. n + 1 \in 1..Len(s) /\ (n + 1) - 1 = n  BY <1>1, <1>3
  <2> QED  BY <2>1, UptoRecursion
<1> QED  BY <1>2, <1>3

-----------------------------------------------------------------------------
\* What the three budgets allow to have been slept.
Allowed == Upto(ConnectDelays, connects) + Upto(TimeoutDelays, timeouts)
             + Upto(HttpPauses, https)

\* The pauses a status can be answered with are natural numbers, and no
\* Retry-After is longer.
LEMMA HttpPauseTypes ==
    /\ HttpPauses \in Seq(Nat) /\ Len(HttpPauses) = H
    /\ \A n \in 1..H : HttpDelays[n] \in 0..HttpPauses[n]
    /\ \A n \in 1..H : RetryAfters \subseteq 0..HttpPauses[n]
<1> DEFINE P(n) == IF HttpDelays[n] < LongestRetryAfter THEN LongestRetryAfter
                   ELSE HttpDelays[n]
<1>1. LongestRetryAfter \in Nat /\ RetryAfters \subseteq 0..LongestRetryAfter
    BY DelaysAssumption
<1>2. \A n \in 1..H : /\ P(n) \in Nat
                      /\ HttpDelays[n] \in 0..P(n) /\ LongestRetryAfter \in 0..P(n)
    BY <1>1, PauseTypes
<1>3. HttpPauses = [n \in 1..H |-> P(n)]  BY DEF HttpPauses
<1> HIDE DEF P
<1>4. HttpPauses \in [1..H -> Nat] /\ \A n \in 1..H : HttpPauses[n] = P(n)
    BY <1>2, <1>3
<1>5. HttpPauses \in Seq(Nat) /\ Len(HttpPauses) = H
    BY <1>4, BudgetTypes, SeqDef, LenProperties
<1>6. ASSUME NEW n \in 1..H PROVE RetryAfters \subseteq 0..HttpPauses[n]
    BY <1>1, <1>2, <1>4
<1> QED  BY <1>2, <1>4, <1>5, <1>6

\* The budgets in numbers, as long as none is used up.
LEMMA AllowedTypes ==
    ASSUME TypeOK, Accounted, phase # "done"
    PROVE  /\ Upto(ConnectDelays, connects) \in Nat
           /\ Upto(TimeoutDelays, timeouts) \in Nat /\ Upto(HttpPauses, https) \in Nat
           /\ Upto(ConnectDelays, C) \in Nat /\ Upto(TimeoutDelays, T) \in Nat
           /\ Upto(HttpPauses, H) \in Nat
           /\ Upto(ConnectDelays, connects) <= Upto(ConnectDelays, C)
           /\ Upto(TimeoutDelays, timeouts) <= Upto(TimeoutDelays, T)
           /\ Upto(HttpPauses, https) <= Upto(HttpPauses, H)
<1>1. connects \in 0..C /\ timeouts \in 0..T /\ https \in 0..H
    BY BudgetTypes DEF TypeOK, Accounted
<1> QED  BY <1>1, Budgets, DelaysAssumption, HttpPauseTypes DEF C, T

\* A failure that is answered with a pause adds that pause to its budget.
LEMMA PauseAllowed ==
    ASSUME TypeOK, Accounted, PausesAreSpent, phase = "posting",
           UNCHANGED waited, phase' = "sleeping", wait' \in Nat,
           Allowed' \in Nat, Allowed + wait' <= Allowed'
    PROVE  PausesAreSpent'
<1>1. waited \in Nat /\ Allowed \in Nat /\ waited + 0 <= Allowed
    BY AllowedTypes DEF TypeOK, PausesAreSpent, Allowed
<1>2. \A w, p, a, b \in Nat : w + 0 <= a /\ a + p <= b => w + p <= b  OBVIOUS
<1>3. waited' + wait' <= Allowed'
  <2>1. waited' = waited  OBVIOUS
  <2> QED  BY <1>1, <1>2, <2>1
<1> QED  BY <1>3 DEF PausesAreSpent, PausesAreBounded, Allowed

\* Connection errors: the n-th is followed by the n-th pause.
LEMMA ConnectPause ==
    ASSUME TypeOK, Accounted, PausesAreSpent, ConnectError, phase' = "sleeping"
    PROVE  PausesAreSpent'
<1>1. /\ phase = "posting" /\ connects' = connects + 1
      /\ UNCHANGED <<timeouts, https, waited>>
      /\ connects + 1 <= C /\ wait' = ConnectDelays[connects + 1]
    BY BudgetTypes DEF ConnectError, Posted, End, Sleep, TypeOK, C
<1>2. connects \in 0..C /\ connects < C  BY <1>1, BudgetTypes DEF TypeOK
<1>3. /\ wait' \in Nat
      /\ Upto(ConnectDelays, connects') = Upto(ConnectDelays, connects) + wait'
    BY <1>1, <1>2, Budgets, DelaysAssumption DEF C
<1>4. Allowed' \in Nat /\ Allowed + wait' <= Allowed'
    BY <1>1, <1>3, AllowedTypes DEF Allowed
<1> QED  BY <1>1, <1>3, <1>4, PauseAllowed

\* Timeouts, likewise.
LEMMA TimeoutPause ==
    ASSUME TypeOK, Accounted, PausesAreSpent, Timeout, phase' = "sleeping"
    PROVE  PausesAreSpent'
<1>1. /\ phase = "posting" /\ timeouts' = timeouts + 1
      /\ UNCHANGED <<connects, https, waited>>
      /\ timeouts + 1 <= T /\ wait' = TimeoutDelays[timeouts + 1]
    BY BudgetTypes DEF Timeout, Posted, End, Sleep, TypeOK, T
<1>2. timeouts \in 0..T /\ timeouts < T  BY <1>1, BudgetTypes DEF TypeOK
<1>3. /\ wait' \in Nat
      /\ Upto(TimeoutDelays, timeouts') = Upto(TimeoutDelays, timeouts) + wait'
    BY <1>1, <1>2, Budgets, DelaysAssumption DEF T
<1>4. Allowed' \in Nat /\ Allowed + wait' <= Allowed'
    BY <1>1, <1>3, AllowedTypes DEF Allowed
<1> QED  BY <1>1, <1>3, <1>4, PauseAllowed

\* Statuses: the n-th is followed by the n-th pause, or by the one Hermes
\* asked for; either is within the n-th of HttpPauses.
LEMMA StatusPause ==
    ASSUME TypeOK, Accounted, PausesAreSpent, Throttled \/ ServerError,
           phase' = "sleeping"
    PROVE  PausesAreSpent'
<1>1. /\ phase = "posting" /\ https' = https + 1
      /\ UNCHANGED <<connects, timeouts, waited>>
      /\ https + 1 <= H
      /\ wait' \in RetryAfters \cup {HttpDelays[https + 1]}
  <2>1. CASE Throttled  BY <2>1, BudgetTypes DEF Throttled, Posted, End, Sleep, TypeOK, H
  <2>2. CASE ServerError  BY <2>2, BudgetTypes DEF ServerError, Posted, End, Sleep, TypeOK, H
  <2> QED  BY <2>1, <2>2
<1>2. https \in 0..H /\ https < H /\ https + 1 \in 1..H  BY <1>1, BudgetTypes DEF TypeOK
<1>3. /\ HttpPauses[https + 1] \in Nat
      /\ Upto(HttpPauses, https') = Upto(HttpPauses, https) + HttpPauses[https + 1]
    BY <1>1, <1>2, Budgets, HttpPauseTypes
<1>4. wait' \in Nat /\ wait' <= HttpPauses[https + 1]
    BY <1>1, <1>2, <1>3, HttpPauseTypes
<1>5. Allowed' \in Nat /\ Allowed + wait' <= Allowed'
    BY <1>1, <1>3, <1>4, AllowedTypes DEF Allowed
<1> QED  BY <1>1, <1>4, <1>5, PauseAllowed

\* Every step keeps the account of the pauses.
LEMMA PausesStep ==
    ASSUME TypeOK, Accounted, PausesAreSpent, [Next]_vars
    PROVE  PausesAreSpent'
<1>1. CASE phase' = "done" /\ UNCHANGED waited
    BY <1>1 DEF PausesAreSpent, PausesAreBounded
<1>2. CASE UNCHANGED vars
    BY <1>2 DEF vars, counters, PausesAreSpent, PausesAreBounded
<1>3. CASE Wake
  <2>1. phase' = "posting" /\ UNCHANGED counters /\ waited' = waited + wait
      BY <1>3 DEF Wake
  <2>2. /\ waited + wait <= Allowed /\ waited + wait \in Nat /\ phase # "done"
      BY <1>3 DEF Wake, PausesAreSpent, TypeOK, Allowed
  <2>3. waited' <= Allowed' /\ waited' \in Nat  BY <2>1, <2>2 DEF Allowed, counters
  <2>4. PausesAreBounded'
      BY <2>1, <2>2, AllowedTypes DEF Allowed, PausesAreBounded
  <2> QED  BY <2>1, <2>3, <2>4 DEF PausesAreSpent, Allowed
<1>4. CASE phase' = "sleeping" /\ (ConnectError \/ Timeout \/ Throttled \/ ServerError)
    BY <1>4, ConnectPause, TimeoutPause, StatusPause
<1>5. CASE Step /\ ~Wake
  <2>1. \/ phase' = "done" /\ UNCHANGED waited
        \/ phase' = "sleeping" /\ (ConnectError \/ Timeout \/ Throttled \/ ServerError)
      BY <1>5 DEF Step, Success, AuthError, StatusError, BrokenResponse, Throttled,
                  ServerError, ConnectError, Timeout, Posted, End, Sleep
  <2> QED  BY <1>1, <1>4, <2>1
<1>6. CASE Call
  <2>1. phase = "idle" /\ UNCHANGED <<counters, waited>> /\ phase' = "posting"
      BY <1>6 DEF Call
  <2> QED  BY <2>1 DEF PausesAreSpent, PausesAreBounded, counters
<1> QED  BY <1>2, <1>3, <1>5, <1>6 DEF Next, Done

\* For every schedule, every length of the pauses Hermes asks for, and every
\* order in which failures of the three kinds come: a message sleeps for no
\* longer than the pauses of the three budgets together (_request_with_retry).
THEOREM PausesBounded == Spec => []PausesAreBounded
<1>1. Init => PausesAreSpent
  <2> SUFFICES ASSUME Init PROVE PausesAreSpent  OBVIOUS
  <2>1. phase = "idle" /\ waited = 0 /\ TypeOK /\ Accounted
      BY TypeInit, AccountedInit DEF Init
  <2>2. 0 <= Allowed  BY <2>1, AllowedTypes DEF Allowed
  <2>3. PausesAreBounded  BY <2>1, AllowedTypes DEF PausesAreBounded
  <2> QED  BY <2>1, <2>2, <2>3 DEF PausesAreSpent, Allowed
<1>2. TypeOK /\ Accounted /\ PausesAreSpent /\ [Next]_vars => PausesAreSpent'
    BY PausesStep
<1>3. PausesAreSpent => PausesAreBounded  BY DEF PausesAreSpent
<1> QED  BY <1>1, <1>2, <1>3, TypeInit, AccountedInit, Induction, PTL DEF Spec
=============================================================================
