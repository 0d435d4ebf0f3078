---------------------------- MODULE PushNotifier ----------------------------
(***************************************************************************)
(* Webhooks: the in-memory configuration store and the delivery with       *)
(* retries of push_notifier.py, called by the handlers of a2a_handler.py.  *)
(*                                                                         *)
(* A send and a cancel await deliver() before they answer; a stream never  *)
(* calls it.  deliver() lists the task's webhooks once and posts to one    *)
(* after the other, while clients register and delete webhooks between its *)
(* awaits.  The order of the webhooks is not told apart.  A task id is     *)
(* a uuid4, so a client can name a task only when it was told the id: by   *)
(* the first event of a stream, by an answer, or by ListTasks and the      *)
(* admin's listing, which read a row through the connection that inserts   *)
(* it, before its commit.                                                  *)
(***************************************************************************)
EXTENDS Integers, Sequences, FiniteSets

CONSTANTS
    Sends, Streams,  \* the messages, each the id of its task too
    Cancels,         \* cancels that on_cancel_task has granted
    Canceled,        \* the task they cancel, known from the start
    Ids,             \* ids of webhook configurations
    Urls, NoUrl,     \* what their url field may hold; NoUrl is the empty one
    Delays,          \* retry_delays
    MaxRetries,      \* max_retries: the number of attempts
    MaxChanges       \* bound on registrations and deletions, for TLC

Messages   == Sends \cup Streams
Requests   == Messages \cup Cancels
TaskIds    == Messages \cup {Canceled}
Webhooks   == [id : Ids, url : Urls \cup {NoUrl}]

ASSUME RequestsAssumption ==
    /\ Sends \cap Streams = {} /\ Messages \cap Cancels = {}
    /\ Canceled \notin Messages /\ NoUrl \notin Urls

ASSUME RetryAssumption ==
    /\ Delays \in Seq(Nat) /\ Len(Delays) > 0
    /\ MaxRetries \in Nat \ {0} /\ MaxChanges \in Nat

VARIABLES
    configs,   \* _configs: the webhooks of each task
    phase,     \* where each request is
    listed,    \* how many webhooks with a URL deliver() found
    current,   \* the position of the webhook it is at
    attempt,   \* POSTs of this webhook that have failed
    outcome,   \* history: what became of each webhook of listed
    slept,     \* history: seconds that deliver() spent in pauses
    changes    \* history: registrations and deletions

delivery == <<listed, current, attempt, outcome, slept>>
vars     == <<configs, phase, delivery, changes>>

TaskOf(r) == IF r \in Cancels THEN Canceled ELSE r

\* A stream tells its task id first; a send's is in the listings from its
\* INSERT on, while save() awaits the commit.
Known(t) == t # Canceled => phase[t] # "idle"

(***************************************************************************)
(* The store.                                                              *)
(***************************************************************************)
\* A webhook whose id is taken replaces the other; a client that names no id
\* is given a new one.
Create(t, w) ==
    /\ Known(t) /\ changes < MaxChanges
    /\ configs' = [configs EXCEPT ![t] = {v \in @ : v.id # w.id} \cup {w}]
    /\ changes' = changes + 1
    /\ UNCHANGED <<phase, delivery>>

Delete(t, i) ==
    /\ changes < MaxChanges
    /\ \E w \in configs[t] : w.id = i
    /\ configs' = [configs EXCEPT ![t] = {v \in @ : v.id # i}]
    /\ changes' = changes + 1
    /\ UNCHANGED <<phase, delivery>>

(***************************************************************************)
(* The handlers.                                                           *)
(***************************************************************************)
WithUrl(ws) == {w \in ws : w.url # NoUrl}

\* on_message_send_stream reveals the task id and works on.
StartStream(m) ==
    /\ m \in Streams /\ phase[m] = "idle"
    /\ phase' = [phase EXCEPT ![m] = "running"]
    /\ UNCHANGED <<configs, delivery, changes>>

\* The stream's task is saved as completed; nobody is notified.
CompleteStream(m) ==
    /\ m \in Streams /\ phase[m] = "running"
    /\ phase' = [phase EXCEPT ![m] = "done"]
    /\ UNCHANGED <<configs, delivery, changes>>

\* on_message_send draws the task id and inserts the row; save() has still to
\* commit it.
SaveTask(m) ==
    /\ m \in Sends /\ phase[m] = "idle"
    /\ phase' = [phase EXCEPT ![m] = "running"]
    /\ UNCHANGED <<configs, delivery, changes>>

\* deliver() takes its list; webhooks without a URL are passed over.
Deliver(r) ==
    /\ \/ r \in Sends /\ phase[r] = "running"
       \/ r \in Cancels /\ phase[r] = "idle"
    /\ listed' = [listed EXCEPT ![r] = Cardinality(WithUrl(configs[TaskOf(r)]))]
    /\ phase' = [phase EXCEPT ![r] = IF listed'[r] = 0 THEN "done" ELSE "posting"]
    /\ UNCHANGED <<configs, current, attempt, outcome, slept, changes>>

\* _post_with_retry returns how it went, and deliver() goes on.
Settle(r, how) ==
    /\ outcome' = [outcome EXCEPT ![r] =
                     Append(@, [how |-> how, posts |-> attempt[r] + 1])]
    /\ attempt' = [attempt EXCEPT ![r] = 0]
    /\ current' = [current EXCEPT ![r] = @ + 1]
    /\ phase' = [phase EXCEPT ![r] =
                   IF current[r] = listed[r] THEN "done" ELSE "posting"]
    /\ UNCHANGED slept

\* A status below 400.
PostSucceeds(r) ==
    /\ phase[r] = "posting"
    /\ Settle(r, "delivered")
    /\ UNCHANGED <<configs, listed, changes>>

\* Mutant: a webhook that fails for good ends the delivery.
PostFailsForAll(r) ==
    /\ phase[r] = "posting"
    /\ \/ /\ attempt[r] + 1 < MaxRetries
          /\ attempt' = [attempt EXCEPT ![r] = @ + 1]
          /\ phase' = [phase EXCEPT ![r] = "sleeping"]
       \/ /\ attempt[r] + 1 = MaxRetries
          /\ phase' = [phase EXCEPT ![r] = "done"]
          /\ UNCHANGED attempt
    /\ UNCHANGED <<configs, listed, current, outcome, slept, changes>>

\* Mutant: the loop runs once too often.
PostFailsOnceMore(r) ==
    /\ phase[r] = "posting"
    /\ \/ /\ attempt[r] < MaxRetries
          /\ attempt' = [attempt EXCEPT ![r] = @ + 1]
          /\ phase' = [phase EXCEPT ![r] = "sleeping"]
          /\ UNCHANGED <<current, outcome, slept>>
       \/ attempt[r] = MaxRetries /\ Settle(r, "dropped")
    /\ UNCHANGED <<configs, listed, changes>>

\* A status of 400 or above, or any exception: one attempt less, and a pause
\* unless it was the last.
PostFails(r) ==
    /\ phase[r] = "posting"
    /\ \/ /\ attempt[r] + 1 < MaxRetries
          /\ attempt' = [attempt EXCEPT ![r] = @ + 1]
          /\ phase' = [phase EXCEPT ![r] = "sleeping"]
          /\ UNCHANGED <<current, outcome, slept>>
       \/ attempt[r] + 1 = MaxRetries /\ Settle(r, "dropped")
    /\ UNCHANGED <<configs, listed, changes>>

\* The pause after the n-th failed attempt: the last delay is used for every
\* attempt beyond the list.
Pause(n) == Delays[IF n <= Len(Delays) THEN n ELSE Len(Delays)]

\* Mutant: the attempts are counted afresh after every pause.
WakeAfresh(r) ==
    /\ phase[r] = "sleeping"
    /\ attempt' = [attempt EXCEPT ![r] = 0]
    /\ phase' = [phase EXCEPT ![r] = "posting"]
    /\ UNCHANGED <<configs, listed, current, outcome, slept, changes>>

Wake(r) ==
    /\ phase[r] = "sleeping"
    /\ slept' = [slept EXCEPT ![r] = @ + Pause(attempt[r])]
    /\ phase' = [phase EXCEPT ![r] = "posting"]
    /\ UNCHANGED <<configs, listed, current, attempt, outcome, changes>>

Step(r) == Deliver(r) \/ PostSucceeds(r) \/ PostFails(r) \/ Wake(r)

Rest == (\A r \in Requests : phase[r] = "done") /\ UNCHANGED vars

Init ==
    /\ configs = [t \in TaskIds |-> {}]
    /\ phase = [r \in Requests |-> "idle"]
    /\ listed = [r \in Requests |-> 0]
    /\ current = [r \in Requests |-> 1]
    /\ attempt = [r \in Requests |-> 0]
    /\ outcome = [r \in Requests |-> <<>>]
    /\ slept = [r \in Requests |-> 0]
    /\ changes = 0

Next ==
    \/ \E r \in Requests : Step(r) \/ SaveTask(r) \/ StartStream(r) \/ CompleteStream(r)
    \/ \E t \in TaskIds : (\E w \in Webhooks : Create(t, w)) \/ (\E i \in Ids : Delete(t, i))
    \/ Rest

\* The client's 10 s timeout ends every POST, and sleep() returns.
Spec == Init /\ [][Next]_vars /\ \A r \in Requests : WF_vars(Step(r))
-----------------------------------------------------------------------------
\* However registrations, deletions and failures interleave with it, a
\* delivery that is over has settled every webhook it listed: it delivered
\* to it, or tried as often as it may.  One that fails does not cost the
\* others their notice.
EveryWebhookIsTried ==
    \A r \in Sends \cup Cancels : phase[r] = "done" =>
        /\ Len(outcome[r]) = listed[r]
        /\ \A n \in DOMAIN outcome[r] :
             outcome[r][n].how = "dropped" => outcome[r][n].posts = MaxRetries

Settlement == [how : {"delivered", "dropped"}, posts : 1..MaxRetries]

\* One webhook for each id of a task.
TypeOK ==
    /\ configs \in [TaskIds -> SUBSET Webhooks]
    /\ \A t \in TaskIds : /\ IsFiniteSet(configs[t])
                           /\ \A v, w \in configs[t] : v.id = w.id => v = w
    /\ phase \in [Requests -> {"idle", "running", "posting", "sleeping", "done"}]
    /\ listed \in [Requests -> Nat]
    /\ current \in [Requests -> Nat \ {0}]
    /\ attempt \in [Requests -> 0..MaxRetries - 1]
    /\ outcome \in [Requests -> Seq(Settlement)]
    /\ slept \in [Requests -> Nat]

\* Where a delivery is: at the webhook after those it has settled.
Underway(r) ==
    /\ r \in Streams => phase[r] \in {"idle", "running", "done"}
    /\ r \in Cancels => phase[r] # "running"
    /\ phase[r] \in {"idle", "running"} => current[r] = 1
    /\ r \notin Streams => Len(outcome[r]) = current[r] - 1
    /\ r \notin Streams /\ phase[r] = "done" => Len(outcome[r]) = listed[r]
    /\ phase[r] \in {"posting", "sleeping"} => current[r] <= listed[r]
    /\ \A n \in DOMAIN outcome[r] :
         outcome[r][n].how = "dropped" => outcome[r][n].posts = MaxRetries

\* The seconds of the pauses after the first n failures: the i-th of the k-th.
Seconds(n)  == UNION {{k} \X (1..Pause(k)) : k \in 1..n}
PausesOf(n) == Cardinality(Seconds(n))

\* Where its pauses are: all of those of each webhook settled, at most, and
\* those after the failures of the one it is at.
Rested(r) == IF phase[r] = "sleeping" THEN attempt[r] - 1 ELSE attempt[r]

Paused(r) ==
    /\ phase[r] \notin {"posting", "sleeping"} => attempt[r] = 0
    /\ phase[r] = "sleeping" => attempt[r] > 0
    /\ phase[r] \in {"idle", "running"} \/ r \in Streams => slept[r] = 0
    /\ slept[r] <= (current[r] - 1) * PausesOf(MaxRetries - 1) + PausesOf(Rested(r))

\* The inductive invariant behind EveryWebhookIsTried and PausesAreBounded.
IInv == TypeOK /\ \A r \in Requests : Underway(r) /\ Paused(r)

\* A webhook is posted to at most MaxRetries times, and deliver() sleeps for
\* no more than the pauses in between (3 seconds with the code's schedule: the
\* third delay is never used).  This bounds the sleeps only: the answer waits
\* for every POST too, and each phase of one may take httpx's 10 seconds.
PausesAreBounded ==
    \A r \in Requests :
        /\ attempt[r] < MaxRetries
        /\ slept[r] <= listed[r] * PausesOf(MaxRetries - 1)

\* ... and its client is answered in the end.
EveryRequestAnswers ==
    \A r \in Requests : phase[r] \in {"posting", "sleeping"} ~> phase[r] = "done"
=============================================================================
