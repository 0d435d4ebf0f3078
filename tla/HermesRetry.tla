---------------------------- MODULE HermesRetry ----------------------------
(***************************************************************************)
(* HermesClient.send_message and its retry engine, _request_with_retry     *)
(* (hermes_client.py): one POST to Hermes, repeated after a pause on       *)
(* connection errors, timeouts and retryable statuses, each with a budget  *)
(* of its own.  The three budgets add up, since no failure resets a        *)
(* counter of another kind.                                                *)
(*                                                                         *)
(* Hermes may have run the message's turn although the POST failed (a      *)
(* timeout, a 5xx, a broken connection); turns counts those runs.  Time is *)
(* counted in seconds.                                                     *)
(***************************************************************************)
EXTENDS Integers, Sequences

CONSTANTS
    ConnectDelays,     \* _CONNECT_RETRY_DELAYS
    TimeoutDelays,     \* _TIMEOUT_RETRY_DELAYS
    HttpDelays,        \* _HTTP_RETRYABLE_DELAYS
    RetryAfters,       \* values of a Retry-After header that parse as a float
    LongestRetryAfter  \* the longest of them; the code sets no limit

ASSUME DelaysAssumption ==
    /\ ConnectDelays \in Seq(Nat) /\ TimeoutDelays \in Seq(Nat)
    /\ HttpDelays \in Seq(Nat)
    /\ LongestRetryAfter \in Nat /\ RetryAfters \subseteq 0..LongestRetryAfter

VARIABLES
    phase,           \* "idle", "posting", "sleeping" or "done"
    outcome,         \* what send_message returned or raised
    connects,        \* connect_attempts
    timeouts,        \* timeout_attempts
    https,           \* http_retryable_attempts
    wait,            \* the pause it sleeps for
    posts,           \* history: POSTs sent
    turns,           \* history: times Hermes ran the turn
    waited           \* history: seconds slept

counters == <<connects, timeouts, https>>
vars == <<phase, outcome, counters, wait, posts, turns, waited>>

Outcomes == {"none", "response", "auth", "server", "connection", "raw"}

\* send_message is called, and posts.
Call ==
    /\ phase = "idle"
    /\ phase' = "posting" /\ posts' = 1
    /\ UNCHANGED <<outcome, counters, wait, turns, waited>>

\* The POST that was sent has come to an end, and Hermes ran the turn or not.
Posted(ran) ==
    /\ phase = "posting"
    /\ \E n \in ran : turns' = turns + n
    /\ UNCHANGED waited

End(how) ==
    /\ phase' = "done" /\ outcome' = how
    /\ UNCHANGED <<wait, posts>>

Sleep(pause) ==
    /\ phase' = "sleeping" /\ wait' = pause
    /\ UNCHANGED <<outcome, posts>>

\* 2xx; a body that lacks what send_message reads from it raises.
Success ==
    /\ Posted({1})
    /\ End("response") \/ End("raw")
    /\ UNCHANGED counters

\* 401 is never retried.
AuthError == Posted({0}) /\ End("auth") /\ UNCHANGED counters

\* Any other status outside 2xx: raise_for_status, no retry.
StatusError == Posted({0}) /\ End("connection") /\ UNCHANGED counters

\* An httpx error that is neither a ConnectError nor a timeout (a broken or
\* malformed response) is caught by no clause and leaves as it is.
BrokenResponse == Posted({0, 1}) /\ End("raw") /\ UNCHANGED counters

\* Mutant: the pauses Hermes asks for do not use up the budget.
ThrottledUncounted ==
    /\ Posted({0})
    /\ \E pause \in RetryAfters : Sleep(pause)
    /\ UNCHANGED counters

\* 429 or 503, with a pause of Hermes' choice when it sends a Retry-After
\* that float() reads.
Throttled ==
    /\ Posted({0})
    /\ https' = https + 1
    /\ \/ https' > Len(HttpDelays) /\ End("server")
       \/ https' <= Len(HttpDelays) /\
            \E pause \in RetryAfters \cup {HttpDelays[https']} : Sleep(pause)
    /\ UNCHANGED <<connects, timeouts>>

\* Any other 5xx, the turn run or not.
ServerError ==
    /\ Posted({0, 1})
    /\ https' = https + 1
    /\ IF https' > Len(HttpDelays) THEN End("server") ELSE Sleep(HttpDelays[https'])
    /\ UNCHANGED <<connects, timeouts>>

\* Mutant: a connection error does not use up its budget.
ConnectErrorUncounted ==
    /\ Posted({0})
    /\ IF connects + 1 > Len(ConnectDelays)
         THEN End("connection") ELSE Sleep(ConnectDelays[connects + 1])
    /\ UNCHANGED counters

\* httpx.ConnectError: the request was not sent.
ConnectError ==
    /\ Posted({0})
    /\ connects' = connects + 1
    /\ IF connects' > Len(ConnectDelays)
         THEN End("connection") ELSE Sleep(ConnectDelays[connects'])
    /\ UNCHANGED <<timeouts, https>>

\* Mutant: a timeout is retried once more than it should be.
TimeoutOnceMore ==
    /\ Posted({0, 1})
    /\ timeouts' = timeouts + 1
    /\ IF timeouts' > Len(TimeoutDelays) + 1
         THEN End("connection") ELSE Sleep(1)
    /\ UNCHANGED <<connects, https>>

\* httpx.TimeoutException (connect, read, write or pool): Hermes may have
\* run the turn all the same.
Timeout ==
    /\ Posted({0, 1})
    /\ timeouts' = timeouts + 1
    /\ IF timeouts' > Len(TimeoutDelays)
         THEN End("connection") ELSE Sleep(TimeoutDelays[timeouts'])
    /\ UNCHANGED <<connects, https>>

\* asyncio.sleep is over: the loop posts again.
Wake ==
    /\ phase = "sleeping"
    /\ phase' = "posting"
    /\ waited' = waited + wait
    /\ posts' = posts + 1
    /\ UNCHANGED <<outcome, counters, wait, turns>>

\* send_message returned or raised.
Done == phase = "done" /\ UNCHANGED vars

Init ==
    /\ phase = "idle" /\ outcome = "none"
    /\ connects = 0 /\ timeouts = 0 /\ https = 0
    /\ wait = 0 /\ posts = 0 /\ turns = 0 /\ waited = 0

Step ==
    \/ Success \/ AuthError \/ StatusError \/ BrokenResponse \/ Throttled
    \/ ServerError \/ ConnectError \/ Timeout \/ Wake

Next == Call \/ Step \/ Done

\* httpx's timeouts end every POST, and sleep() returns.
Spec == Init /\ [][Next]_vars /\ WF_vars(Step)
-----------------------------------------------------------------------------
C == Len(ConnectDelays)
T == Len(TimeoutDelays)
H == Len(HttpDelays)

TypeOK ==
    /\ phase \in {"idle", "posting", "sleeping", "done"}
    /\ outcome \in Outcomes /\ (outcome # "none" <=> phase = "done")
    /\ connects \in 0..C+1 /\ timeouts \in 0..T+1 /\ https \in 0..H+1
    /\ wait \in Nat /\ posts \in Nat /\ turns \in Nat
    /\ waited \in Nat

\* However failures of the three kinds alternate, one message costs Hermes
\* at most 1 + 3 + 2 + 3 POSTs.
PostsAreBounded == posts <= 1 + C + T + H

\* ... and one message is run by Hermes at most 1 + 2 + 3 times: only
\* timeouts and server errors can make the client repeat a turn.
TurnsAreBounded == turns <= 1 + T + H

\* Every POST but the one in flight is accounted for by one counter: the
\* inductive strengthening of the two bounds.
Accounted ==
    /\ phase # "done" =>
         /\ connects <= C /\ timeouts <= T /\ https <= H
         /\ turns <= timeouts + https
    /\ phase = "idle"     => posts + connects + timeouts + https = 0
    /\ phase = "posting"  => posts = 1 + connects + timeouts + https
    /\ phase = "sleeping" => posts = connects + timeouts + https
    /\ PostsAreBounded /\ TurnsAreBounded

\* The pauses before the n-th retry of one kind, that one included.
Upto(s, n) == LET sum[k \in 0..Len(s)] == IF k = 0 THEN 0 ELSE sum[k - 1] + s[k]
              IN  sum[n]

\* The longest pause before each retry of a status: the schedule's, or the one
\* Hermes asks for in its place.
HttpPauses ==
    [n \in 1..H |-> IF HttpDelays[n] < LongestRetryAfter THEN LongestRetryAfter
                    ELSE HttpDelays[n]]

\* However failures of the three kinds alternate, the client sleeps for no
\* longer than the three schedules together, where a Retry-After counts in
\* place of the pause it replaces: it adds to no other, and is never slept
\* for twice.
PausesAreBounded ==
    waited <= Upto(ConnectDelays, C) + Upto(TimeoutDelays, T) + Upto(HttpPauses, H)

\* A pause is slept once, by the failure that asked for it: the inductive
\* strengthening of PausesAreBounded.
PausesAreSpent ==
    /\ phase # "done" =>
         waited + (IF phase = "sleeping" THEN wait ELSE 0)
           <= Upto(ConnectDelays, connects) + Upto(TimeoutDelays, timeouts)
                + Upto(HttpPauses, https)
    /\ PausesAreBounded

\* The retry loop as its caller sees it.
Retry ==
    INSTANCE BoundedRetry
      WITH MaxAttempts <- 1 + C + T + H,
           attempts <- posts,
           verdict <- IF phase # "done" THEN "none"
                      ELSE IF outcome = "response" THEN "succeeded" ELSE "failed"

\* HermesRetry implements BoundedRetry: at most 1 + C + T + H attempts, one
\* final verdict, and there is one.
IsBoundedRetry == Retry!Spec
=============================================================================
