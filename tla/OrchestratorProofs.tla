------------------------- MODULE OrchestratorProofs -------------------------
(***************************************************************************)
(* Plans of any length, for any peers, answers and number of retries.      *)
(* IInv adds two things to the properties: where a subtask is says what    *)
(* its status and its outcome are (Consistent), and the results are as far *)
(* as the strategy has come (Phases).  With both, a step of the engine is  *)
(* a step of FanOut or none.                                               *)
(***************************************************************************)
EXTENDS Orchestrator, SequenceTheorems, FiniteSetTheorems, WellFoundedInduction, TLAPS

\* The names of the statuses and places, for the provers.
LEMMA ResultTypes ==
    /\ NotYet \in Result /\ Failed \in Result /\ NotYet # Failed
    /\ \A i \in Nat : [Failed EXCEPT !.id = i] \in Result
    /\ \A i \in Nat, s \in {"completed", "failed", "timed_out"}, a \in Answers \cup {NoAnswer} :
         [id |-> i, status |-> s, answer |-> a] \in Result
BY DEF NotYet, Failed, Result, NoId

\* A function on 1..n is a sequence.
LEMMA ListOf ==
    ASSUME NEW n \in Nat, NEW f \in [1..n -> Result]
    PROVE  f \in Seq(Result) /\ Len(f) = n
OBVIOUS

\* What _finalize_status answers.
LEMMA WholeType == \A rs : Whole(rs) \in {"completed", "failed", "partial"}
BY DEF Whole

\* No constant is touched by a step, and the plan stays.
LEMMA PlanStays == [Next]_vars => plan' = plan
BY DEF Next, vars, plan, task, Refuse, Begin, Gather, Abandon, Rest, Call, Answered, Fails,
       Retry, CallCancelled

\* A new plan satisfies the invariant.
LEMMA EngineInit == Init => IInv
<1> SUFFICES ASSUME Init PROVE IInv  OBVIOUS
<1>1. TypeOK  BY EngineAssumption, ResultTypes DEF Init, TypeOK, Subtasks, Closed
<1>2. \A i \in Subtasks : Consistent(i)  BY DEF Init, Consistent
<1>3. Phases  BY DEF Init, Phases, Returned
<1>4. RunsAreAccounted  BY DEF Init, RunsAreAccounted
<1> QED  BY <1>1, <1>2, <1>3, <1>4 DEF IInv

-----------------------------------------------------------------------------
(***************************************************************************)
(* A subtask returns: shared by Answered and by the last failed attempt.   *)
(***************************************************************************)
LEMMA ReturnStep ==
    ASSUME IInv, NEW i \in Subtasks, at[i] = "calling", UNCHANGED <<plan, attempt>>,
           NEW s \in {"completed", "failed", "timed_out"}, NEW a \in Answers \cup {NoAnswer},
           Return(i, s, a), Runs(i) \/ (s # "completed" /\ UNCHANGED runs)
    PROVE  IInv'
<1> DEFINE r == [id |-> i, status |-> s, answer |-> a]
<1>1. TypeOK /\ Phases /\ RunsAreAccounted /\ \A j \in Subtasks : Consistent(j)  BY DEF IInv
<1>2. /\ strategy' = strategy /\ peers' = peers /\ count' = count /\ Subtasks' = Subtasks
      /\ attempt' = attempt
    BY DEF plan, Subtasks
<1>3. /\ count \in Nat /\ Subtasks = 1..count /\ i \in Nat /\ r \in Result
      /\ r.id = i /\ r.status = s
    BY <1>1, EngineAssumption, ResultTypes DEF TypeOK, Subtasks
<1>4. overall = "running"
    BY <1>1 DEF Phases, Returned, TypeOK, Closed, Open, Delivered
<1>5. /\ outcome' = [outcome EXCEPT ![i] = r]
      /\ results' = IF strategy = "sequential" THEN Append(results, r) ELSE results
      /\ overall' = IF strategy = "sequential" /\ i = count THEN Whole(results') ELSE overall
    BY DEF Return
<1>6. \A j \in Subtasks :
        /\ at'[j] = IF j = i THEN "ended" ELSE IF j \in After(i) THEN "calling" ELSE at[j]
        /\ status'[j] = IF j = i THEN s ELSE IF j \in After(i) THEN "running" ELSE status[j]
        /\ outcome'[j] = IF j = i THEN r ELSE outcome[j]
        /\ runs'[j] = runs[j] \/ (j = i /\ runs'[j] = runs[j] + 1)
    BY <1>1, <1>3 DEF Return, TypeOK, Runs
<1>7. strategy = "sequential" =>
        /\ i = Len(results) + 1
        /\ \A j \in After(i) : j = i + 1 /\ j \in Subtasks /\ at[j] = "idle"
  <2> SUFFICES ASSUME strategy = "sequential"
               PROVE  /\ i = Len(results) + 1
                      /\ \A j \in After(i) : j = i + 1 /\ j \in Subtasks /\ at[j] = "idle"
      OBVIOUS
  <2>1. InSequence /\ Len(results) \in Nat  BY <1>1, <1>4 DEF Phases, TypeOK
  <2>2. i = Len(results) + 1  BY <1>3, <2>1 DEF InSequence
  <2> QED  BY <1>3, <2>1, <2>2 DEF InSequence, After
<1>8. strategy # "sequential" => After(i) = {}  BY DEF After
<1>9. TypeOK'
  <2>1. overall' \in {"running"} \cup Closed
      BY <1>4, <1>5, WholeType DEF Closed
  <2>2. results' \in Seq(Result)  BY <1>1, <1>3, <1>5, AppendProperties DEF TypeOK
  <2>3. outcome' \in [Subtasks -> Result]  BY <1>1, <1>3, <1>5 DEF TypeOK
  <2>4. /\ at' \in [Subtasks -> {"idle", "calling", "sleeping", "ended"}]
        /\ status' \in [Subtasks -> {"pending", "running"} \cup Contract!Verdicts]
      BY <1>1 DEF Return, TypeOK, Contract!Verdicts
  <2>5. runs' \in [Subtasks -> Nat]
    <3>1. runs \in [Subtasks -> Nat]  BY <1>1 DEF TypeOK
    <3>2. runs' = [runs EXCEPT ![i] = @ + 1] \/ runs' = runs  BY DEF Runs
    <3> QED  BY <3>1, <3>2
  <2> QED  BY <1>1, <1>2, <2>1, <2>2, <2>3, <2>4, <2>5 DEF TypeOK
<1>10. ASSUME NEW j \in Subtasks PROVE Consistent(j)'
  <2>1. CASE j = i
      BY <1>3, <1>6, <2>1 DEF Consistent, Contract!Verdicts
  <2>2. CASE j # i /\ j \in After(i)
      BY <1>1, <1>6, <1>7, <1>8, <2>2 DEF Consistent, Open
  <2>3. CASE j # i /\ j \notin After(i)
      BY <1>1, <1>2, <1>4, <1>6, <2>3 DEF Consistent, Open
  <2> QED  BY <2>1, <2>2, <2>3
<1>11. RunsAreAccounted'
  <2> SUFFICES ASSUME NEW j \in Subtasks
               PROVE  /\ runs'[j] <= attempt[j]
                      /\ at'[j] \in {"idle", "calling"} => runs'[j] < attempt[j]
                      /\ status'[j] = "completed" => runs'[j] > 0
      BY <1>2 DEF RunsAreAccounted
  <2>1. /\ runs[j] \in Nat /\ attempt[j] \in Nat /\ runs[j] <= attempt[j]
        /\ at[j] \in {"idle", "calling"} => runs[j] < attempt[j]
        /\ status[j] = "completed" => runs[j] > 0
      BY <1>1 DEF RunsAreAccounted, TypeOK
  <2>2. CASE j = i
    <3>1. s = "completed" => runs'[j] = runs[j] + 1  BY <1>1, <2>2 DEF Runs, TypeOK
    <3> QED  BY <1>6, <2>1, <2>2, <3>1
  <2>3. CASE j # i
    <3>1. runs'[j] = runs[j]  BY <1>6, <2>3
    <3>2. at'[j] \in {"idle", "calling"} => at[j] \in {"idle", "calling"}
        BY <1>6, <1>7, <1>8, <2>3
    <3>3. status'[j] = "completed" => status[j] = "completed"  BY <1>6, <2>3
    <3> QED  BY <2>1, <3>1, <3>2, <3>3
  <2> QED  BY <2>2, <2>3
<1>12. Phases'
  <2>1. CASE strategy = "parallel"
    <3>1. overall' = "running" /\ results' = results /\ results = <<>>
        BY <1>1, <1>4, <1>5, <2>1 DEF Phases
    <3>2. \A j \in Subtasks : at'[j] # "idle"
        BY <1>1, <1>4, <1>6, <1>8, <2>1 DEF Phases
    <3> QED  BY <1>2, <2>1, <3>1, <3>2 DEF Phases, Returned
  <2>2. CASE strategy = "sequential"
    <3>1. /\ InSequence /\ i = Len(results) + 1 /\ Len(results) \in Nat
          /\ results \in Seq(Result)
        BY <1>1, <1>4, <1>7, <2>2 DEF Phases, TypeOK
    <3>2. /\ Len(results') = i
          /\ \A n \in 1..i : results'[n] = IF n = i THEN r ELSE results[n]
        BY <1>3, <1>5, <2>2, <3>1, AppendProperties
    <3>3. \A j \in Subtasks : j <= i =>
            at'[j] = "ended" /\ results'[j] = outcome'[j] /\ outcome'[j].id = j
        BY <1>3, <1>6, <1>7, <2>2, <3>1, <3>2 DEF InSequence
    <3>4. CASE i = count
      <4>1. Returned' /\ Len(results') = count' /\ overall' = Whole(results')
          BY <1>2, <1>5, <2>2, <3>2, <3>4, WholeType DEF Returned
      <4>2. \A j \in Subtasks : Delivered(j)'
          BY <1>3, <3>3, <3>4 DEF Delivered
      <4>3. overall' \notin {"pending", "running", "raised"}  BY <4>1 DEF Returned
      <4> QED  BY <1>2, <4>1, <4>2, <4>3 DEF Phases
    <3>5. CASE i # count
      <4>1. overall' = "running"  BY <1>4, <1>5, <3>5
      <4>2. i + 1 \in Subtasks /\ After(i) = {i + 1}
          BY <1>3, <2>2, <3>5 DEF After
      <4>3. InSequence'
        <5>1. Len(results') < count'  BY <1>2, <1>3, <3>2, <3>5
        <5>2. \A j \in Subtasks : j = i + 1 => at'[j] = "calling"
            BY <1>3, <1>6, <4>2
        <5>3. \A j \in Subtasks : j > i + 1 => at'[j] = "idle"
            BY <1>3, <1>6, <3>1, <4>2 DEF InSequence
        <5> QED  BY <1>2, <3>2, <3>3, <5>1, <5>2, <5>3 DEF InSequence, Open
      <4> QED  BY <1>2, <2>2, <4>1, <4>3 DEF Phases, Returned
    <3> QED  BY <3>4, <3>5
  <2> QED  BY <1>1, <2>1, <2>2 DEF TypeOK
<1> QED  BY <1>2, <1>9, <1>10, <1>11, <1>12 DEF IInv

-----------------------------------------------------------------------------
(***************************************************************************)
(* A step of a subtask that leaves the results and the plan alone, and     *)
(* neither ends nor begins a subtask.                                      *)
(***************************************************************************)
LEMMA QuietStep ==
    ASSUME IInv, NEW i \in Subtasks, Open(i),
           UNCHANGED <<plan, status, outcome, results, overall>>,
           NEW place \in {"calling", "sleeping"}, at' = [at EXCEPT ![i] = place],
           place = "sleeping" => attempt'[i] <= MaxRetries,
           \A j \in Subtasks : j # i => attempt'[j] = attempt[j],
           TypeOK', RunsAreAccounted'
    PROVE  IInv'
<1>1. TypeOK /\ Phases /\ \A j \in Subtasks : Consistent(j)  BY DEF IInv
<1>2. Subtasks' = Subtasks /\ \A j \in Subtasks :
        at'[j] = IF j = i THEN place ELSE at[j]
    BY <1>1 DEF TypeOK, plan, Subtasks
<1>3. overall = "running"
    BY <1>1 DEF Phases, Returned, TypeOK, Closed, Open, Delivered
<1>4. \A j \in Subtasks : Consistent(j)'
    BY <1>1, <1>2 DEF Consistent, Open
<1>5. InSequence => InSequence'
    BY <1>2 DEF InSequence, plan, Open
<1>6. Phases'  BY <1>1, <1>2, <1>3, <1>5 DEF Phases, plan, Returned
<1> QED  BY <1>2, <1>4, <1>6 DEF IInv

LEMMA AnsweredStep == ASSUME IInv, NEW i \in Subtasks, Answered(i) PROVE IInv'
<1>1. PICK a \in Answers : Return(i, "completed", a)  BY DEF Answered
<1> QED  BY <1>1, ReturnStep DEF Answered

LEMMA FailsStep ==
    ASSUME IInv, NEW i \in Subtasks, NEW s \in {"timed_out", "failed"}, Fails(i, s)
    PROVE  IInv'
<1>1. /\ TypeOK /\ RunsAreAccounted /\ at[i] = "calling" /\ UNCHANGED <<plan, attempt>>
      /\ runs' = [runs EXCEPT ![i] = @ + 1] \/ runs' = runs
    BY DEF Fails, IInv, MayRun, Runs
<1>2. CASE Return(i, s, NoAnswer)
    BY <1>1, <1>2, ReturnStep DEF Fails, MayRun
<1>3. CASE /\ attempt[i] <= MaxRetries
           /\ at' = [at EXCEPT ![i] = "sleeping"]
           /\ UNCHANGED <<status, outcome, results, overall>>
  <2>1. Subtasks' = Subtasks /\ MaxRetries \in Nat
      BY <1>1, EngineAssumption DEF plan, Subtasks
  <2>2. runs' \in [Subtasks -> Nat]
    <3>1. runs \in [Subtasks -> Nat]  BY <1>1 DEF TypeOK
    <3> QED  BY <1>1, <3>1
  <2>3. TypeOK'  BY <1>1, <1>3, <2>1, <2>2 DEF TypeOK, plan
  <2>4. ASSUME NEW j \in Subtasks
        PROVE  /\ runs'[j] <= attempt'[j]
               /\ at'[j] \in {"idle", "calling"} => runs'[j] < attempt'[j]
               /\ status'[j] = "completed" => runs'[j] > 0
    <3>1. /\ runs[j] \in Nat /\ attempt[j] \in Nat /\ runs[j] <= attempt[j]
          /\ at[j] \in {"idle", "calling"} => runs[j] < attempt[j]
          /\ status[j] = "completed" => runs[j] > 0
        BY <1>1 DEF RunsAreAccounted, TypeOK
    <3>2. runs'[j] = runs[j] \/ (j = i /\ runs'[j] = runs[j] + 1)  BY <1>1 DEF TypeOK
    <3>3. at'[j] = IF j = i THEN "sleeping" ELSE at[j]  BY <1>1, <1>3 DEF TypeOK
    <3> QED  BY <1>1, <1>3, <3>1, <3>2, <3>3
  <2>5. RunsAreAccounted'  BY <2>1, <2>4 DEF RunsAreAccounted
  <2>6. attempt' = attempt  BY <1>1
  <2> QED  BY <1>1, <1>3, <2>3, <2>5, <2>6, QuietStep DEF Open
<1> QED  BY <1>2, <1>3 DEF Fails

LEMMA RetryStep == ASSUME IInv, NEW i \in Subtasks, Retry(i) PROVE IInv'
<1>1. /\ TypeOK /\ RunsAreAccounted /\ at[i] = "sleeping"
      /\ at' = [at EXCEPT ![i] = "calling"]
      /\ attempt' = [attempt EXCEPT ![i] = @ + 1]
      /\ UNCHANGED <<plan, status, outcome, results, overall, runs>>
    BY DEF Retry, IInv
<1>2. Subtasks' = Subtasks /\ MaxRetries \in Nat
    BY <1>1, EngineAssumption DEF plan, Subtasks
<1>3. attempt[i] \in 1..MaxRetries + 1 /\ attempt[i] <= MaxRetries
    BY <1>1 DEF IInv, Consistent, Open, TypeOK
<1>4. attempt' \in [Subtasks -> 1..MaxRetries + 1]
  <2>1. attempt[i] + 1 \in 1..MaxRetries + 1  BY <1>2, <1>3
  <2> QED  BY <1>1, <2>1 DEF TypeOK
<1>5. TypeOK'  BY <1>1, <1>2, <1>4 DEF TypeOK, plan
<1>6. ASSUME NEW j \in Subtasks
      PROVE  /\ runs'[j] <= attempt'[j]
             /\ at'[j] \in {"idle", "calling"} => runs'[j] < attempt'[j]
             /\ status'[j] = "completed" => runs'[j] > 0
  <2>1. /\ runs[j] \in Nat /\ attempt[j] \in Nat /\ runs[j] <= attempt[j]
        /\ at[j] \in {"idle", "calling"} => runs[j] < attempt[j]
        /\ status[j] = "completed" => runs[j] > 0
      BY <1>1, <1>2 DEF RunsAreAccounted, TypeOK
  <2>2. /\ attempt'[j] = IF j = i THEN attempt[j] + 1 ELSE attempt[j]
        /\ at'[j] = IF j = i THEN "calling" ELSE at[j]
        /\ runs'[j] = runs[j] /\ status'[j] = status[j]
      BY <1>1 DEF TypeOK
  <2> QED  BY <2>1, <2>2
<1>7. RunsAreAccounted'  BY <1>2, <1>6 DEF RunsAreAccounted
<1>8. \A j \in Subtasks : j # i => attempt'[j] = attempt[j]  BY <1>1 DEF TypeOK
<1> QED  BY <1>1, <1>5, <1>7, <1>8, QuietStep DEF Open

LEMMA CancelledStep == ASSUME IInv, NEW i \in Subtasks, CallCancelled(i) PROVE IInv'
<1>1. /\ TypeOK /\ RunsAreAccounted /\ Phases /\ \A j \in Subtasks : Consistent(j)
      /\ at[i] = "calling" /\ at' = [at EXCEPT ![i] = "ended"]
      /\ outcome' = [outcome EXCEPT ![i] = Failed]
      /\ overall' = IF strategy = "sequential" THEN "raised" ELSE overall
      /\ UNCHANGED <<plan, status, attempt, results>>
      /\ runs' = [runs EXCEPT ![i] = @ + 1] \/ runs' = runs
    BY DEF CallCancelled, IInv, MayRun, Runs
<1>2. Subtasks' = Subtasks /\ strategy' = strategy /\ count' = count /\ peers' = peers
    BY <1>1 DEF plan, Subtasks
<1>3. overall = "running"
    BY <1>1 DEF Phases, Returned, TypeOK, Closed, Open, Delivered
<1>4. \A j \in Subtasks :
        /\ at'[j] = IF j = i THEN "ended" ELSE at[j]
        /\ outcome'[j] = IF j = i THEN Failed ELSE outcome[j]
        /\ runs'[j] = runs[j] \/ (j = i /\ runs'[j] = runs[j] + 1)
    BY <1>1 DEF TypeOK
<1>5. TypeOK'
  <2>1. runs' \in [Subtasks -> Nat]  BY <1>1 DEF TypeOK
  <2>2. outcome' \in [Subtasks -> Result]  BY <1>1, ResultTypes DEF TypeOK
  <2> QED  BY <1>1, <1>2, <2>1, <2>2 DEF TypeOK, Closed
<1>6. \A j \in Subtasks : Consistent(j)'
  <2> SUFFICES ASSUME NEW j \in Subtasks PROVE Consistent(j)'  OBVIOUS
  <2>1. CASE j = i  BY <1>1, <1>4, <2>1 DEF Consistent, Open
  <2>2. CASE j # i  BY <1>1, <1>3, <1>4, <2>2 DEF Consistent, Open
  <2> QED  BY <2>1, <2>2
<1>7. RunsAreAccounted'
  <2> SUFFICES ASSUME NEW j \in Subtasks
               PROVE  /\ runs'[j] <= attempt[j]
                      /\ at'[j] \in {"idle", "calling"} => runs'[j] < attempt[j]
                      /\ status[j] = "completed" => runs'[j] > 0
      BY <1>1, <1>2 DEF RunsAreAccounted
  <2>1. /\ runs[j] \in Nat /\ attempt[j] \in Nat /\ runs[j] <= attempt[j]
        /\ at[j] \in {"idle", "calling"} => runs[j] < attempt[j]
        /\ status[j] = "completed" => runs[j] > 0
      BY <1>1 DEF RunsAreAccounted, TypeOK
  <2> QED  BY <1>1, <1>4, <2>1
<1>8. Phases'
  <2>1. CASE strategy = "parallel"
    <3>1. overall' = "running" /\ results' = results /\ results = <<>>
        BY <1>1, <1>3, <2>1 DEF Phases
    <3>2. \A j \in Subtasks : at'[j] # "idle"
        BY <1>1, <1>3, <1>4, <2>1 DEF Phases
    <3> QED  BY <1>2, <2>1, <3>1, <3>2 DEF Phases, Returned
  <2>2. CASE strategy = "sequential"
    <3>1. InSequence  BY <1>1, <1>3, <2>2 DEF Phases
    <3>2. overall' = "raised"  BY <1>1, <2>2
    <3>3. Len(results) \in Nat /\ \A j \in Subtasks : j \in Nat
        BY <1>1, EngineAssumption DEF TypeOK, Subtasks
    <3>4. i = Len(results) + 1  BY <1>1, <3>1, <3>3 DEF InSequence
    <3>5. \A j \in Subtasks : ~Open(j)'
        BY <1>4, <3>1, <3>3, <3>4 DEF InSequence, Open
    <3> QED  BY <1>2, <3>2, <3>5 DEF Phases, Returned
  <2> QED  BY <1>1, <2>1, <2>2 DEF TypeOK
<1> QED  BY <1>2, <1>5, <1>6, <1>7, <1>8 DEF IInv

LEMMA RefuseStep == ASSUME IInv, Refuse PROVE IInv'
<1>1. /\ TypeOK /\ RunsAreAccounted /\ Phases /\ \A j \in Subtasks : Consistent(j)
      /\ overall = "pending" /\ (count = 0 \/ peers = <<>>)
      /\ results' = [i \in Subtasks |-> [Failed EXCEPT !.id = i]]
      /\ overall' = IF count = 0 THEN "completed" ELSE "failed"
      /\ UNCHANGED <<strategy, peers, count, status, at, attempt, outcome, runs>>
    BY DEF Refuse, IInv, plan, task
<1>2. Subtasks' = Subtasks /\ count \in Nat /\ Subtasks = 1..count
    BY <1>1, EngineAssumption DEF Subtasks, TypeOK
<1>3. results' \in Seq(Result) /\ Len(results') = count
  <2>1. results' \in [1..count -> Result]  BY <1>1, <1>2, ResultTypes
  <2> QED  BY <1>2, <2>1, ListOf
<1>4. TypeOK'  BY <1>1, <1>2, <1>3 DEF TypeOK, Closed
<1>5. \A j \in Subtasks : Consistent(j)'
    BY <1>1, <1>2 DEF Consistent, Open, Phases
<1>6. RunsAreAccounted'  BY <1>1, <1>2 DEF RunsAreAccounted
<1>7. \A j \in Subtasks : Delivered(j)'
    BY <1>1, <1>2 DEF Delivered, Phases
<1>8. overall' = Whole(results')
  <2>1. DOMAIN results' = Subtasks /\ \A i \in Subtasks : results'[i].status = "failed"
      BY <1>1, <1>2 DEF Failed
  <2>2. Completed(results') = {}  BY <2>1 DEF Completed
  <2>3. count = 0 <=> Subtasks = {}  BY <1>2
  <2> QED  BY <1>1, <2>1, <2>2, <2>3 DEF Whole
<1>9. Phases'  BY <1>1, <1>2, <1>3, <1>7, <1>8 DEF Phases, Returned
<1> QED  BY <1>2, <1>4, <1>5, <1>6, <1>9 DEF IInv

LEMMA BeginStep == ASSUME IInv, Begin PROVE IInv'
<1> DEFINE first == IF strategy = "sequential" THEN {1} ELSE Subtasks
<1>1. /\ TypeOK /\ RunsAreAccounted /\ Phases /\ \A j \in Subtasks : Consistent(j)
      /\ overall = "pending" /\ count > 0 /\ overall' = "running"
      /\ status' = [i \in Subtasks |-> IF i \in first THEN "running" ELSE status[i]]
      /\ at' = [i \in Subtasks |-> IF i \in first THEN "calling" ELSE at[i]]
      /\ UNCHANGED <<strategy, peers, count, attempt, outcome, results, runs>>
    BY DEF Begin, IInv, plan
<1>2. Subtasks' = Subtasks /\ count \in Nat /\ Subtasks = 1..count
    BY <1>1, EngineAssumption DEF Subtasks, TypeOK
<1>3. results = <<>> /\ \A j \in Subtasks : at[j] = "idle"  BY <1>1 DEF Phases
<1>4. TypeOK'  BY <1>1, <1>2 DEF TypeOK
<1>5. \A j \in Subtasks : Consistent(j)'
    BY <1>1, <1>2, <1>3 DEF Consistent, Open
<1>6. RunsAreAccounted'
    BY <1>1, <1>2, <1>3 DEF RunsAreAccounted
<1>7. strategy = "sequential" => InSequence'
  <2> SUFFICES ASSUME strategy = "sequential" PROVE InSequence'  OBVIOUS
  <2>1. Len(results') = 0 /\ first = {1}  BY <1>1, <1>3
  <2>2. \A j \in Subtasks : at'[j] = IF j = 1 THEN "calling" ELSE "idle"
      BY <1>1, <1>3, <2>1
  <2> QED  BY <1>1, <1>2, <2>1, <2>2 DEF InSequence, Open
<1>8. Phases'  BY <1>1, <1>2, <1>3, <1>7 DEF Phases, Returned
<1> QED  BY <1>2, <1>4, <1>5, <1>6, <1>8 DEF IInv

LEMMA GatherStep == ASSUME IInv, Gather PROVE IInv'
<1>1. /\ TypeOK /\ RunsAreAccounted /\ Phases /\ \A j \in Subtasks : Consistent(j)
      /\ overall = "running" /\ \A i \in Subtasks : at[i] = "ended"
      /\ results' = outcome /\ overall' = Whole(outcome)
      /\ UNCHANGED <<strategy, peers, count, status, at, attempt, outcome, runs>>
    BY DEF Gather, IInv, plan, task
<1>2. Subtasks' = Subtasks /\ count \in Nat /\ Subtasks = 1..count
    BY <1>1, EngineAssumption DEF Subtasks, TypeOK
<1>3. results' \in Seq(Result) /\ Len(results') = count
  <2>1. outcome \in [1..count -> Result]  BY <1>1, <1>2 DEF TypeOK
  <2> QED  BY <1>1, <1>2, <2>1, ListOf
<1>4. overall' \in {"completed", "failed", "partial"}  BY <1>1, WholeType
<1>5. TypeOK'  BY <1>1, <1>2, <1>3, <1>4 DEF TypeOK, Closed
<1>6. \A j \in Subtasks : Consistent(j)'
    BY <1>1, <1>2, <1>4 DEF Consistent, Open
<1>7. RunsAreAccounted'  BY <1>1, <1>2 DEF RunsAreAccounted
<1>8. \A j \in Subtasks : Delivered(j)'  BY <1>1, <1>2 DEF Delivered
<1>9. Phases'  BY <1>1, <1>2, <1>3, <1>4, <1>8 DEF Phases, Returned
<1> QED  BY <1>2, <1>5, <1>6, <1>7, <1>9 DEF IInv

LEMMA AbandonStep == ASSUME IInv, Abandon PROVE IInv'
<1>1. /\ TypeOK /\ RunsAreAccounted /\ \A j \in Subtasks : Consistent(j)
      /\ overall = "running" /\ overall' = "raised"
      /\ at' = [i \in Subtasks |-> IF Open(i) THEN "ended" ELSE at[i]]
      /\ UNCHANGED <<strategy, peers, count, status, attempt, outcome, results>>
    BY DEF Abandon, IInv, plan
<1>2. PICK ran \in SUBSET {i \in Subtasks : at[i] = "calling"} :
        runs' = [i \in Subtasks |-> IF i \in ran THEN runs[i] + 1 ELSE runs[i]]
    BY DEF Abandon
<1>3. Subtasks' = Subtasks  BY <1>1 DEF Subtasks
<1>4. runs' \in [Subtasks -> Nat]  BY <1>1, <1>2 DEF TypeOK
<1>5. TypeOK'  BY <1>1, <1>3, <1>4 DEF TypeOK, Closed
<1>6. \A j \in Subtasks : Consistent(j)'
    BY <1>1, <1>3 DEF Consistent, Open
<1>7. RunsAreAccounted'
  <2> SUFFICES ASSUME NEW j \in Subtasks
               PROVE  /\ runs'[j] <= attempt[j]
                      /\ at'[j] \in {"idle", "calling"} => runs'[j] < attempt[j]
                      /\ status[j] = "completed" => runs'[j] > 0
      BY <1>1, <1>3 DEF RunsAreAccounted
  <2>1. /\ runs[j] \in Nat /\ attempt[j] \in Nat /\ runs[j] <= attempt[j]
        /\ at[j] \in {"idle", "calling"} => runs[j] < attempt[j]
        /\ status[j] = "completed" => runs[j] > 0
      BY <1>1 DEF RunsAreAccounted, TypeOK
  <2>2. /\ at'[j] = IF Open(j) THEN "ended" ELSE at[j]
        /\ runs'[j] = runs[j] \/ (at[j] = "calling" /\ runs'[j] = runs[j] + 1)
      BY <1>1, <1>2
  <2> QED  BY <2>1, <2>2 DEF Open
<1>8. Phases'  BY <1>1, <1>3 DEF Phases, Returned, Open
<1> QED  BY <1>3, <1>5, <1>6, <1>7, <1>8 DEF IInv

\* Every step keeps the invariant.
LEMMA EngineStep == IInv /\ [Next]_vars => IInv'
<1> SUFFICES ASSUME IInv, [Next]_vars PROVE IInv'  OBVIOUS
<1>1. CASE UNCHANGED vars
    BY <1>1 DEF vars, plan, task, IInv, TypeOK, Subtasks, Consistent, Open, Phases, Returned,
                InSequence, Delivered, RunsAreAccounted
<1>2. CASE \E i \in Subtasks : Call(i)
    BY <1>2, AnsweredStep, FailsStep, RetryStep, CancelledStep DEF Call
<1> QED
    BY <1>1, <1>2, RefuseStep, BeginStep, GatherStep, AbandonStep DEF Next, Rest

\* IInv holds throughout every execution (orchestrator.py's execute).
THEOREM EngineInvariant == Spec => []IInv
BY EngineInit, EngineStep, PTL DEF Spec

\* One result for each subtask, in order; and a result and its subtask agree,
\* in all but the two cases named.
THEOREM Agreement == Spec => []ResultsAgree
<1>1. IInv => ResultsAgree
    BY DEF IInv, ResultsAgree, Phases, Returned, Delivered, Consistent, Open, Failed
<1> QED  BY <1>1, EngineInvariant, PTL

\* No peer runs a subtask more often than it is asked to.
THEOREM RunsAccounted == Spec => []RunsAreAccounted
<1>1. IInv => RunsAreAccounted  BY DEF IInv
<1> QED  BY <1>1, EngineInvariant, PTL

\* A sequential plan has one open call, after the results before it.
THEOREM Sequenced == Spec => []OneByOne
<1>1. IInv => OneByOne
  <2> SUFFICES ASSUME IInv, strategy = "sequential", NEW i \in Subtasks, Open(i),
                      overall = "running"
               PROVE  Len(results) = i - 1
      BY DEF OneByOne
  <2>1. InSequence /\ Len(results) \in Nat /\ i \in Nat
      BY EngineAssumption DEF IInv, Phases, TypeOK, Subtasks
  <2> QED  BY <2>1 DEF InSequence, Open
<1> QED  BY <1>1, EngineInvariant, PTL

-----------------------------------------------------------------------------
(***************************************************************************)
(* The vote.                                                               *)
(***************************************************************************)
\* A set of naturals that is not empty has a least element.
LEMMA Least ==
    ASSUME NEW ns \in SUBSET Nat, ns # {}
    PROVE  \E n \in ns : \A m \in ns : n <= m
<1> DEFINE Less == OpToRel(<, Nat)
<1>1. IsWellFoundedOn(Less, Nat)  BY NatLessThanWellFounded
<1>2. \A m, n \in Nat : m < n => <<m, n>> \in Less  BY DEF OpToRel
<1> HIDE DEF Less
<1>3. PICK n \in ns : \A m \in ns : ~(<<m, n>> \in Less)  BY <1>1, WFMin
<1>4. ASSUME NEW m \in ns PROVE n <= m
  <2>1. m \in Nat /\ n \in Nat /\ ~(m < n)  BY <1>2, <1>3
  <2> QED  BY <2>1
<1> QED  BY <1>4

\* Votes are numbers, and two answers share no voter.
LEMMA VotesCount ==
    ASSUME NEW rs \in Seq(Result)
    PROVE  /\ Completed(rs) \in SUBSET Nat /\ Cardinality(Completed(rs)) \in Nat
           /\ \A a : VotesFor(rs, a) \in Nat
           /\ \A n \in Completed(rs) : VotesFor(rs, rs[n].answer) > 0
           /\ \A a, b : a # b =>
                VotesFor(rs, a) + VotesFor(rs, b) <= Cardinality(Completed(rs))
<1>1. Len(rs) \in Nat /\ DOMAIN rs = 1..Len(rs)  BY LenProperties
<1>2. IsFiniteSet(Completed(rs)) /\ Completed(rs) \in SUBSET Nat
  <2>1. Completed(rs) \subseteq 1..Len(rs)  BY <1>1 DEF Completed
  <2>2. IsFiniteSet(1..Len(rs))  BY <1>1, FS_Interval
  <2>3. IsFiniteSet(Completed(rs))  BY <2>1, <2>2, FS_Subset
  <2> QED  BY <1>1, <2>1, <2>3
<1>3. \A a : Answerers(rs, a) \subseteq Completed(rs)  BY DEF Answerers
<1>4. ASSUME NEW a PROVE IsFiniteSet(Answerers(rs, a)) /\ VotesFor(rs, a) \in Nat
  <2>1. IsFiniteSet(Answerers(rs, a))  BY <1>2, <1>3, FS_Subset
  <2> QED  BY <2>1, FS_CardinalityType DEF VotesFor
<1>5. ASSUME NEW n \in Completed(rs) PROVE VotesFor(rs, rs[n].answer) > 0
  <2>1. Answerers(rs, rs[n].answer) # {}  BY <1>5 DEF Answerers
  <2> QED  BY <1>4, <2>1, FS_EmptySet DEF VotesFor
<1>6. ASSUME NEW a, NEW b, a # b
      PROVE  VotesFor(rs, a) + VotesFor(rs, b) <= Cardinality(Completed(rs))
  <2> DEFINE A == Answerers(rs, a)
             B == Answerers(rs, b)
  <2>1. A \cap B = {}  BY <1>6 DEF Answerers
  <2>2. Cardinality(A \cup B) = Cardinality(A) + Cardinality(B) - Cardinality(A \cap B)
      BY <1>4, FS_Union
  <2>3. Cardinality(A \cap B) = 0  BY <2>1, FS_EmptySet
  <2>4. Cardinality(A \cup B) <= Cardinality(Completed(rs))
      BY <1>2, <1>3, FS_Subset
  <2>5. Cardinality(A) \in Nat /\ Cardinality(B) \in Nat  BY <1>4 DEF VotesFor
  <2> HIDE DEF A, B
  <2>6. Cardinality(A) + Cardinality(B) <= Cardinality(Completed(rs))
      BY <2>2, <2>3, <2>4, <2>5
  <2> QED  BY <2>6 DEF A, B, VotesFor
<1> QED  BY <1>2, <1>4, <1>5, <1>6, FS_CardinalityType

\* Some answer leads.
LEMMA SomebodyLeads ==
    ASSUME NEW rs \in Seq(Result), Completed(rs) # {}
    PROVE  Leading(rs) # {}
<1> DEFINE Behind(n) == Cardinality(Completed(rs)) - VotesFor(rs, rs[n].answer)
           ns == {Behind(n) : n \in Completed(rs)}
<1>1. \A n \in Completed(rs) : VotesFor(rs, rs[n].answer) <= Cardinality(Completed(rs))
  <2> TAKE n \in Completed(rs)
  <2>1. Answerers(rs, rs[n].answer) \subseteq Completed(rs)  BY DEF Answerers
  <2>2. IsFiniteSet(Completed(rs))
    <3>1. Completed(rs) \subseteq 1..Len(rs) /\ Len(rs) \in Nat
        BY LenProperties DEF Completed
    <3>2. IsFiniteSet(1..Len(rs))  BY <3>1, FS_Interval
    <3> QED  BY <3>1, <3>2, FS_Subset
  <2> QED  BY <2>1, <2>2, FS_Subset DEF VotesFor
<1>2. ns \in SUBSET Nat /\ ns # {}  BY <1>1, VotesCount
<1>3. PICK k \in ns : \A m \in ns : k <= m  BY <1>2, Least
<1>4. PICK n \in Completed(rs) : \A m \in Completed(rs) : Behind(n) <= Behind(m)
    BY <1>3
<1>5. \A m \in Completed(rs) : VotesFor(rs, rs[n].answer) >= VotesFor(rs, rs[m].answer)
    BY <1>4, VotesCount
<1> QED  BY <1>5 DEF Leading

\* The vote goes to an answer that nobody beats.
LEMMA VoteLeads ==
    ASSUME NEW rs \in Seq(Result), Completed(rs) # {}
    PROVE  \E n \in Leading(rs) : Vote(rs) = rs[n].answer
<1> DEFINE First(n) == \A m \in Leading(rs) : n <= m
<1>1. Leading(rs) \in SUBSET Nat  BY VotesCount DEF Leading
<1>2. \E n \in Leading(rs) : First(n)  BY <1>1, SomebodyLeads, Least
<1> HIDE DEF First
<1>3. (CHOOSE n \in Leading(rs) : First(n)) \in Leading(rs)  BY <1>2
<1> QED  BY <1>3 DEF Vote, First

\* Whatever the results and their order: an answer of more than half of the
\* completed subtasks wins, since no other can have as many (_vote).
THEOREM MajorityPrevails == Spec => []MajorityWins
<1>1. IInv => MajorityWins
  <2> SUFFICES ASSUME IInv, Completed(results) # {}
               PROVE  /\ VotesFor(results, Vote(results)) > 0
                      /\ \A a \in Answers :
                           2 * VotesFor(results, a) > Cardinality(Completed(results))
                             => Vote(results) = a
      BY DEF MajorityWins
  <2>1. results \in Seq(Result)  BY DEF IInv, TypeOK
  <2>2. PICK n \in Leading(results) : Vote(results) = results[n].answer
      BY <2>1, VoteLeads
  <2>3. VotesFor(results, Vote(results)) > 0  BY <2>1, <2>2, VotesCount DEF Leading
  <2>4. ASSUME NEW a \in Answers, Vote(results) # a,
               2 * VotesFor(results, a) > Cardinality(Completed(results))
        PROVE  FALSE
    <3>1. /\ VotesFor(results, a) \in Nat /\ VotesFor(results, Vote(results)) \in Nat
          /\ Cardinality(Completed(results)) \in Nat
          /\ VotesFor(results, a) + VotesFor(results, Vote(results))
               <= Cardinality(Completed(results))
        BY <2>1, <2>4, VotesCount
    <3>2. VotesFor(results, a) # 0  BY <2>4, <3>1
    <3>3. PICK m \in Completed(results) : results[m].answer = a
      <4>1. Answerers(results, a) # {}  BY <3>2, FS_EmptySet DEF VotesFor
      <4> QED  BY <4>1 DEF Answerers
    <3>4. VotesFor(results, Vote(results)) >= VotesFor(results, a)
        BY <2>2, <3>3 DEF Leading
    <3> QED  BY <2>4, <3>1, <3>4
  <2> QED  BY <2>3, <2>4
<1> QED  BY <1>1, EngineInvariant, PTL

-----------------------------------------------------------------------------
(***************************************************************************)
(* The engine implements FanOut.                                           *)
(***************************************************************************)
\* An outcome, once there, stays.
LEMMA OutcomesStay ==
    ASSUME IInv, [Next]_vars, NEW i \in Subtasks, outcome[i] # NotYet
    PROVE  outcome'[i] = outcome[i]
<1>1. outcome \in [Subtasks -> Result] /\ Consistent(i)  BY DEF IInv, TypeOK
<1>2. ~Open(i)  BY <1>1 DEF Consistent, Open
<1>3. ASSUME NEW j \in Subtasks, Call(j) PROVE outcome'[i] = outcome[i]
  <2>1. CASE j = i  BY <1>2, <1>3, <2>1 DEF Call, Answered, Fails, Retry, CallCancelled, Open
  <2>2. CASE j # i
      BY <1>1, <1>3, <2>2 DEF Call, Answered, Fails, Retry, CallCancelled, Return
  <2> QED  BY <2>1, <2>2
<1>4. CASE Refuse \/ Gather  BY <1>4 DEF task, Refuse, Gather
<1>5. CASE Begin \/ Abandon  BY <1>5 DEF Begin, Abandon
<1>6. CASE Rest  BY <1>6 DEF Rest, vars, task
<1>7. CASE UNCHANGED vars  BY <1>7 DEF vars, task
<1> QED  BY <1>3, <1>4, <1>5, <1>6, <1>7 DEF Next

\* A subtask has a verdict or none; all have when the results are returned.
LEMMA VerdictTypes ==
    ASSUME IInv, NEW i \in Subtasks
    PROVE  /\ VerdictOf(i) \in Contract!Verdicts \cup {"none"}
           /\ Returned => VerdictOf(i) \in Contract!Verdicts
           /\ Returned /\ outcome[i] # NotYet => VerdictOf(i) = outcome[i].status
<1>1. Consistent(i) /\ (Returned => Delivered(i))  BY DEF IInv, Phases
<1>2. outcome[i] = Failed => outcome[i].status = "failed"  BY DEF Failed
<1>3. [Failed EXCEPT !.id = i].status = "failed"  BY DEF Failed
<1> QED
    BY <1>1, <1>2, <1>3
    DEF VerdictOf, Consistent, Delivered, Open, Returned, Contract!Verdicts

\* A step gives verdicts and takes none back.
LEMMA VerdictsSettle ==
    ASSUME IInv, IInv', [Next]_vars, overall \in {"pending", "running"}
    PROVE  /\ Subtasks' = Subtasks
           /\ \A i \in Subtasks : VerdictOf(i)' # VerdictOf(i) =>
                VerdictOf(i) = "none" /\ VerdictOf(i)' \in Contract!Verdicts
<1>1. Subtasks' = Subtasks  BY PlanStays DEF plan, Subtasks
<1>2. ASSUME NEW i \in Subtasks, VerdictOf(i)' # VerdictOf(i)
      PROVE  VerdictOf(i) = "none" /\ VerdictOf(i)' \in Contract!Verdicts
  <2>1. ~Returned  BY DEF Returned
  <2>2. CASE outcome[i] = NotYet
    <3>1. VerdictOf(i) = "none"  BY <2>1, <2>2 DEF VerdictOf
    <3>2. VerdictOf(i)' \in Contract!Verdicts \cup {"none"}
      <4>1. Consistent(i)' /\ (Returned' => Delivered(i)')  BY <1>1 DEF IInv, Phases
      <4>2. Failed.status = "failed" /\ [Failed EXCEPT !.id = i].status = "failed"
          BY DEF Failed
      <4> QED
          BY <4>1, <4>2
          DEF VerdictOf, Consistent, Delivered, Open, Returned, Contract!Verdicts
    <3> QED  BY <1>2, <3>1, <3>2
  <2>3. CASE outcome[i] # NotYet
    <3>1. outcome'[i] = outcome[i]  BY <2>3, OutcomesStay
    <3>2. VerdictOf(i) = outcome[i].status  BY <2>1, <2>3 DEF VerdictOf
    <3>3. VerdictOf(i)' = outcome'[i].status
      <4>1. Consistent(i)' /\ (Returned' => Delivered(i)')  BY <1>1 DEF IInv, Phases
      <4> QED  BY <2>3, <3>1, <4>1 DEF VerdictOf, Consistent, Open, Delivered, NotYet
    <3> QED  BY <1>2, <3>1, <3>2, <3>3
  <2> QED  BY <2>2, <2>3
<1> QED  BY <1>1, <1>2

\* The engine's verdict on the whole is FanOut's.
LEMMA SameWhole ==
    ASSUME IInv, Returned
    PROVE  overall = Contract!Whole([i \in Subtasks |-> VerdictOf(i)])
<1> DEFINE v == [i \in Subtasks |-> VerdictOf(i)]
<1>1. \A i \in Subtasks : VerdictOf(i) = results[i].status /\ VerdictOf(i) \in Contract!Verdicts
    BY VerdictTypes DEF VerdictOf
<1>2. DOMAIN results = Subtasks /\ overall = Whole(results)
  <2>1. results \in Seq(Result) /\ Len(results) = count /\ overall = Whole(results)
      BY DEF IInv, TypeOK, Phases
  <2> QED  BY <2>1 DEF Subtasks
<1>3. Completed(results) = {i \in Subtasks : v[i] = "completed"}
    BY <1>1, <1>2 DEF Completed
<1>4. \A i \in Subtasks : results[i].status \in {"failed", "timed_out"} <=> v[i] # "completed"
    BY <1>1 DEF Contract!Verdicts
<1> HIDE DEF v
<1>5. DOMAIN v = Subtasks  BY DEF v
<1> QED  BY <1>2, <1>3, <1>4, <1>5 DEF Whole, Contract!Whole, v

\* The two lemmas as one formula, to hold of the next state, too.
WholeAgrees ==
    /\ overall = Contract!Whole([i \in Subtasks |-> VerdictOf(i)])
    /\ \A i \in Subtasks : VerdictOf(i) \in Contract!Verdicts

LEMMA WholeFollows == IInv /\ Returned => WholeAgrees
BY SameWhole, VerdictTypes DEF WholeAgrees

\* Every step of the engine is a step of FanOut, or none.
LEMMA ContractStep == IInv /\ IInv' /\ [Next]_vars => [Contract!Next]_(Contract!vars)
<1> SUFFICES ASSUME IInv, IInv', [Next]_vars PROVE [Contract!Next]_(Contract!vars)  OBVIOUS
<1> DEFINE v == [i \in Subtasks |-> VerdictOf(i)]
<1>1. CASE UNCHANGED vars
  <2>1. v' = v  BY <1>1 DEF vars, plan, task, Subtasks, VerdictOf, Returned
  <2>2. Standing' = Standing  BY <1>1 DEF vars, Standing
  <2> QED  BY <2>1, <2>2 DEF Contract!vars
<1>2. CASE Rest  BY <1>1, <1>2 DEF Rest
<1>3. CASE overall \in {"pending", "running"}
  <2>1. Contract!Settles
      BY <1>3, VerdictsSettle DEF Contract!Settles
  <2>2. Standing = "open"  BY <1>3 DEF Standing
  <2>3. overall' \in {"pending", "running"} \cup Closed  BY DEF IInv, TypeOK
  <2>4. CASE overall' \in {"pending", "running"}
      BY <2>1, <2>2, <2>4 DEF Contract!Next, Contract!Proceed, Standing
  <2>5. CASE overall' = "raised"
      BY <2>1, <2>2, <2>5 DEF Contract!Next, Contract!GiveUp, Standing
  <2>6. CASE Returned'
    <3>1. Standing' = overall'  BY <2>6 DEF Returned, Standing
    <3>2. IInv'  OBVIOUS
    <3>3. WholeAgrees'  BY <2>6, <3>2, WholeFollows, PTL
    <3>4. \A i \in DOMAIN v : v'[i] # "none"
        BY <1>3, <3>3, VerdictsSettle DEF WholeAgrees, Contract!Verdicts
    <3> QED  BY <2>1, <2>2, <3>1, <3>3, <3>4 DEF WholeAgrees, Contract!Next, Contract!Close
  <2> QED  BY <2>3, <2>4, <2>5, <2>6 DEF Closed, Returned
<1>4. CASE Next /\ ~Rest
  <2>1. overall \in {"pending", "running"}
    <3>0. overall \in {"pending", "running"} \cup Closed /\ Phases  BY DEF IInv, TypeOK
    <3>1. ASSUME NEW i \in Subtasks, Call(i) PROVE overall = "running"
      <4>1. Open(i)  BY <3>1 DEF Call, Answered, Fails, Retry, CallCancelled, Open
      <4>2. overall # "pending" /\ overall # "raised"  BY <3>0, <4>1 DEF Phases, Open
      <4>3. ~Returned  BY <3>0, <4>1 DEF Phases, Open, Delivered
      <4> QED  BY <3>0, <4>2, <4>3 DEF Returned, Closed
    <3> QED  BY <1>4, <3>1 DEF Next, Refuse, Begin, Gather, Abandon
  <2> QED  BY <1>3, <2>1
<1> QED  BY <1>1, <1>2, <1>4

\* Whatever the strategy, the peers and their answers, execute() keeps the
\* promise of FanOut: verdicts are final, and the whole follows from the parts.
THEOREM RefinesFanOut == Spec => IsFanOut
<1>1. Init => Contract!Init
    BY DEF Init, Contract!Init, Standing, VerdictOf, Returned
<1>2. IInv /\ IInv' /\ [Next]_vars => [Contract!Next]_(Contract!vars)  BY ContractStep
<1> QED  BY <1>1, <1>2, EngineInvariant, PTL DEF Spec, IsFanOut, Contract!Spec
=============================================================================
