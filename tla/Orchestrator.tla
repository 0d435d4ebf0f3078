---------------------------- MODULE Orchestrator ----------------------------
(***************************************************************************)
(* OrchestrationEngine.execute (orchestrator.py): subtasks are run one by  *)
(* one, or all at once under asyncio.gather; each is retried, at the peer  *)
(* it was dealt to, when its call raises or times out.  The                *)
(* ResultAggregator (result_aggregator.py) then votes on the results.      *)
(* Peers are dealt round-robin; nothing that follows depends on which.     *)
(*                                                                         *)
(* A call that failed or timed out may have run at the peer nevertheless.  *)
(* A call's coroutine may also end in CancelledError, which no except      *)
(* clause of the engine catches, and the caller may cancel execute().      *)
(* Subtasks are known by their position.                                   *)
(***************************************************************************)
EXTENDS Naturals, Sequences, FiniteSets

CONSTANTS
    MaxSubtasks,  \* bound on the length of a plan, for TLC
    PeerLists,    \* the lists of peers execute() may be given
    MaxRetries,   \* max_retries
    Answers       \* what a peer may answer

ASSUME EngineAssumption ==
    /\ MaxSubtasks \in Nat /\ MaxRetries \in Nat
    /\ \A ps \in PeerLists : ps \in Seq(STRING)

VARIABLES
    strategy,  \* "sequential" or "parallel" (map_reduce executes as parallel)
    peers,     \* the names of the peers, in order
    count,     \* the number of subtasks
    status,    \* each subtask's status
    at,        \* where each _run_subtask is
    attempt,   \* its attempt, from 1
    outcome,   \* what it returned, or the exception it ended in
    results,   \* result.subtask_results
    overall,   \* result.status; "raised" when execute() ends in CancelledError
    runs       \* history: how often a peer ran the subtask

plan == <<strategy, peers, count>>
task == <<status, at, attempt, outcome>>
vars == <<plan, task, results, overall, runs>>

Subtasks == 1..count
Open(i)  == at[i] \in {"calling", "sleeping"}
Closed   == {"completed", "failed", "partial", "raised"}

\* A SubTaskResult.  NoAnswer stands for result = None, NoId for the default
\* subtask_id of the result that gather's exceptions are turned into.
NoAnswer == "no answer"
NoId     == 0
NotYet   == [id |-> NoId, status |-> "pending", answer |-> NoAnswer]
Failed   == [id |-> NoId, status |-> "failed", answer |-> NoAnswer]

Result   == [id : Nat, status : {"pending", "completed", "failed", "timed_out"},
             answer : Answers \cup {NoAnswer}]

Completed(rs) == {n \in DOMAIN rs : rs[n].status = "completed"}

\* Mutant: one completed subtask is enough.
WholeIfAny(rs) ==
    IF Completed(rs) # {} THEN "completed"
    ELSE IF \A n \in DOMAIN rs : rs[n].status \in {"failed", "timed_out"} THEN "failed"
    ELSE "partial"

\* _finalize_status; pending results would count as neither.
Whole(rs) ==
    IF Completed(rs) = DOMAIN rs THEN "completed"
    ELSE IF \A n \in DOMAIN rs : rs[n].status \in {"failed", "timed_out"} THEN "failed"
    ELSE "partial"

\* ResultAggregator._vote: the first of the most frequent answers of the
\* completed subtasks (Counter keeps them in the order they come).
Answerers(rs, a) == {n \in Completed(rs) : rs[n].answer = a}
VotesFor(rs, a)  == Cardinality(Answerers(rs, a))

\* The results whose answer no other answer beats.
Leading(rs) ==
    {n \in Completed(rs) : \A m \in Completed(rs) :
        VotesFor(rs, rs[n].answer) >= VotesFor(rs, rs[m].answer)}

\* Mutant: whoever answers last wins.
VoteOfTheLast(rs) ==
    IF Completed(rs) = {} THEN NoAnswer
    ELSE rs[CHOOSE n \in Completed(rs) : \A m \in Completed(rs) : n >= m].answer

Vote(rs) ==
    IF Completed(rs) = {} THEN NoAnswer
    ELSE rs[CHOOSE n \in Leading(rs) : \A m \in Leading(rs) : n <= m].answer

\* execute() with nothing to do, or nobody to do it, returns at once; the
\* subtasks' own status stays "pending".
Refuse ==
    /\ overall = "pending"
    /\ count = 0 \/ peers = <<>>
    /\ results' = [i \in Subtasks |-> [Failed EXCEPT !.id = i]]
    /\ overall' = IF count = 0 THEN "completed" ELSE "failed"
    /\ UNCHANGED <<plan, task, runs>>

\* execute() up to its first await.
Begin ==
    /\ overall = "pending"
    /\ count > 0 /\ peers # <<>>
    /\ LET first == IF strategy = "sequential" THEN {1} ELSE Subtasks IN
         /\ status' = [i \in Subtasks |-> IF i \in first THEN "running" ELSE status[i]]
         /\ at' = [i \in Subtasks |-> IF i \in first THEN "calling" ELSE at[i]]
    /\ overall' = "running"
    /\ UNCHANGED <<plan, attempt, outcome, results, runs>>

\* The peer runs the subtask, or does not.
Runs(i)     == runs' = [runs EXCEPT ![i] = @ + 1]
MayRun(i)   == Runs(i) \/ UNCHANGED runs

\* Mutant: the sequential loop does not wait for one subtask after another.
RestAfter(i) == IF strategy = "sequential" THEN {j \in Subtasks : j > i} ELSE {}

\* What the loop starts when subtask i is over; gather has started them all.
After(i) == IF strategy = "sequential" THEN {i + 1} \cap Subtasks ELSE {}

\* _run_subtask returns.  The sequential loop lists the result and goes on,
\* or execute() returns; gather waits for the others.
Return(i, s, a) ==
    LET r == [id |-> i, status |-> s, answer |-> a] IN
    /\ outcome' = [outcome EXCEPT ![i] = r]
    /\ status' = [j \in Subtasks |-> IF j = i THEN s ELSE
                                     IF j \in After(i) THEN "running" ELSE status[j]]
    /\ at' = [j \in Subtasks |-> IF j = i THEN "ended" ELSE
                                 IF j \in After(i) THEN "calling" ELSE at[j]]
    /\ results' = IF strategy = "sequential" THEN Append(results, r) ELSE results
    /\ overall' = IF strategy = "sequential" /\ i = count THEN Whole(results') ELSE overall

\* The executor returned in time.
Answered(i) ==
    /\ at[i] = "calling"
    /\ \E a \in Answers : Return(i, "completed", a)
    /\ Runs(i)
    /\ UNCHANGED <<plan, attempt>>

\* Mutant: one attempt too many.
FailsOnceMore(i, s) ==
    /\ at[i] = "calling"
    /\ MayRun(i)
    /\ \/ /\ attempt[i] <= MaxRetries + 1
          /\ at' = [at EXCEPT ![i] = "sleeping"]
          /\ UNCHANGED <<status, outcome, results, overall>>
       \/ attempt[i] > MaxRetries + 1 /\ Return(i, s, NoAnswer)
    /\ UNCHANGED <<plan, attempt>>

\* It timed out (s = "timed_out") or raised (s = "failed"): pause and try
\* again, unless this was the last attempt.
Fails(i, s) ==
    /\ at[i] = "calling"
    /\ MayRun(i)
    /\ \/ /\ attempt[i] <= MaxRetries
          /\ at' = [at EXCEPT ![i] = "sleeping"]
          /\ UNCHANGED <<status, outcome, results, overall>>
       \/ attempt[i] > MaxRetries /\ Return(i, s, NoAnswer)
    /\ UNCHANGED <<plan, attempt>>

\* Mutant: the attempts are not counted.
RetryUncounted(i) ==
    /\ at[i] = "sleeping"
    /\ at' = [at EXCEPT ![i] = "calling"]
    /\ UNCHANGED <<plan, status, attempt, outcome, results, overall, runs>>

\* The pause is over.
Retry(i) ==
    /\ at[i] = "sleeping"
    /\ at' = [at EXCEPT ![i] = "calling"]
    /\ attempt' = [attempt EXCEPT ![i] = @ + 1]
    /\ UNCHANGED <<plan, status, outcome, results, overall, runs>>

\* The executor's own coroutine was cancelled: CancelledError leaves
\* _run_subtask, and with it the sequential loop; gather keeps it.
CallCancelled(i) ==
    /\ at[i] = "calling"
    /\ MayRun(i)
    /\ at' = [at EXCEPT ![i] = "ended"]
    /\ outcome' = [outcome EXCEPT ![i] = Failed]
    /\ overall' = IF strategy = "sequential" THEN "raised" ELSE overall
    /\ UNCHANGED <<plan, status, attempt, results>>

\* Mutant: the results are listed in another order, as as_completed would.
GatherUnordered ==
    /\ overall = "running" /\ strategy = "parallel"
    /\ \A i \in Subtasks : at[i] = "ended"
    /\ results' = [i \in Subtasks |-> outcome[count + 1 - i]]
    /\ overall' = Whole(outcome)
    /\ UNCHANGED <<plan, task, runs>>

\* gather is done: the results are listed in the order of the subtasks.
Gather ==
    /\ overall = "running" /\ strategy = "parallel"
    /\ \A i \in Subtasks : at[i] = "ended"
    /\ results' = outcome
    /\ overall' = Whole(outcome)
    /\ UNCHANGED <<plan, task, runs>>

\* The caller cancels execute(), and gather with it every open call.
Abandon ==
    /\ overall = "running"
    /\ overall' = "raised"
    /\ at' = [i \in Subtasks |-> IF Open(i) THEN "ended" ELSE at[i]]
    /\ \E ran \in SUBSET {i \in Subtasks : at[i] = "calling"} :
         runs' = [i \in Subtasks |-> IF i \in ran THEN runs[i] + 1 ELSE runs[i]]
    /\ UNCHANGED <<plan, status, attempt, outcome, results>>

Call(i) == \/ Answered(i) \/ Fails(i, "timed_out") \/ Fails(i, "failed")
           \/ Retry(i) \/ CallCancelled(i)

Rest == overall \in Closed /\ UNCHANGED vars

Init ==
    /\ strategy \in {"sequential", "parallel"}
    /\ peers \in PeerLists
    /\ count \in 0..MaxSubtasks
    /\ status = [i \in Subtasks |-> "pending"]
    /\ at = [i \in Subtasks |-> "idle"]
    /\ attempt = [i \in Subtasks |-> 1]
    /\ outcome = [i \in Subtasks |-> NotYet]
    /\ runs = [i \in Subtasks |-> 0]
    /\ results = <<>>
    /\ overall = "pending"

Next == Refuse \/ Begin \/ Gather \/ Abandon \/ Rest \/ \E i \in Subtasks : Call(i)

\* wait_for ends every call, and sleep() returns.
Spec == Init /\ [][Next]_vars /\ WF_vars(Gather)
             /\ \A i \in 1..MaxSubtasks : WF_vars(i \in Subtasks /\ Call(i))
-----------------------------------------------------------------------------
Returned == overall \in {"completed", "failed", "partial"}

\* The orchestration as its caller sees it.
VerdictOf(i) == IF Returned THEN results[i].status
                ELSE IF outcome[i] = NotYet THEN "none" ELSE outcome[i].status
Standing     == IF overall \in {"pending", "running"} THEN "open" ELSE overall

Contract == INSTANCE FanOut
              WITH verdict <- [i \in Subtasks |-> VerdictOf(i)], overall <- Standing

TypeOK ==
    /\ strategy \in {"sequential", "parallel"} /\ peers \in PeerLists
    /\ count \in 0..MaxSubtasks
    /\ status \in [Subtasks -> {"pending", "running"} \cup Contract!Verdicts]
    /\ at \in [Subtasks -> {"idle", "calling", "sleeping", "ended"}]
    /\ attempt \in [Subtasks -> 1..MaxRetries + 1]
    /\ outcome \in [Subtasks -> Result]
    /\ results \in Seq(Result)
    /\ overall \in {"pending", "running"} \cup Closed
    /\ runs \in [Subtasks -> Nat]

\* execute() returns one result for each subtask, in the order of the plan,
\* whatever order the calls ended in and whichever of them raised; and the two
\* tell the same story.  They part in two cases: a plan without peers fails
\* with its subtasks still pending, and a call that was cancelled leaves a
\* failed result that names no subtask, and a subtask that runs for ever.
ResultsAgree ==
    Returned =>
        /\ Len(results) = count
        /\ \A i \in Subtasks :
             \/ results[i].status = status[i] /\ results[i].id = i
             \/ results[i].status = "failed" /\ status[i] = "pending" /\ peers = <<>>
             \/ results[i] = Failed /\ status[i] = "running"

\* A peer runs a subtask again only for an attempt that was not answered in
\* time: never more often than it was asked to, at most MaxRetries + 1 times,
\* and at least once if the subtask is completed.
RunsAreAccounted ==
    \A i \in Subtasks :
        /\ runs[i] <= attempt[i]
        /\ at[i] \in {"idle", "calling"} => runs[i] < attempt[i]
        /\ status[i] = "completed" => runs[i] > 0

\* A sequential plan has one call open at a time, made after the results of
\* all the subtasks before it were listed.
OneByOne ==
    strategy = "sequential" =>
        \A i \in Subtasks : Open(i) /\ overall = "running" => Len(results) = i - 1

\* "majority" of result_aggregator.py: an answer that more than half of the
\* completed subtasks gave wins the vote, wherever in the plan the others
\* stand; and failed subtasks have no vote.
MajorityWins ==
    Returned /\ Completed(results) # {} =>
        /\ VotesFor(results, Vote(results)) > 0
        /\ \A a \in Answers :
             2 * VotesFor(results, a) > Cardinality(Completed(results)) => Vote(results) = a

\* Where a subtask is says what its status and its outcome are; only a plan
\* that is given up leaves one without an outcome.
Consistent(i) ==
    \/ at[i] = "idle" /\ status[i] = "pending" /\ outcome[i] = NotYet
    \/ /\ Open(i) /\ status[i] = "running" /\ outcome[i] = NotYet
       /\ at[i] = "sleeping" => attempt[i] <= MaxRetries
    \/ /\ at[i] = "ended"
       /\ \/ status[i] \in Contract!Verdicts /\ outcome[i].id = i /\ outcome[i].status = status[i]
          \/ status[i] = "running" /\ outcome[i] = Failed
          \/ status[i] = "running" /\ outcome[i] = NotYet /\ overall = "raised"

\* The sequential loop is at the subtask after the results it has.
InSequence ==
    /\ Len(results) < count
    /\ \A i \in Subtasks :
         /\ i <= Len(results) => at[i] = "ended" /\ results[i] = outcome[i] /\ outcome[i].id = i
         /\ i = Len(results) + 1 => Open(i)
         /\ i > Len(results) + 1 => at[i] = "idle"

Delivered(i) ==
    \/ at[i] = "ended" /\ results[i] = outcome[i]
    \/ peers = <<>> /\ at[i] = "idle" /\ results[i] = [Failed EXCEPT !.id = i]

Phases ==
    /\ overall = "pending" => results = <<>> /\ \A i \in Subtasks : at[i] = "idle"
    /\ overall = "running" /\ strategy = "parallel" =>
         results = <<>> /\ \A i \in Subtasks : at[i] # "idle"
    /\ overall = "running" /\ strategy = "sequential" => InSequence
    /\ overall = "raised" => \A i \in Subtasks : ~Open(i)
    /\ Returned => /\ Len(results) = count /\ overall = Whole(results)
                   /\ \A i \in Subtasks : Delivered(i)

\* The inductive invariant behind the safety properties above.
IInv == TypeOK /\ (\A i \in Subtasks : Consistent(i)) /\ Phases /\ RunsAreAccounted

\* execute() ends, whatever its peers do.
EveryPlanEnds == overall = "running" ~> overall \in Closed

\* execute() keeps the contract of FanOut, by either strategy.
IsFanOut == Contract!Spec
=============================================================================
