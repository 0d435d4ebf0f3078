---------------------------- MODULE StreamRelay ----------------------------
(***************************************************************************)
(* One streamed message: HermesClient.send_message_stream, an async        *)
(* generator over Hermes' SSE response, and the loop in                    *)
(* on_message_send_stream that relays its chunks to the client.            *)
(*                                                                         *)
(* The loop wraps every __anext__ of the generator in a task of its own    *)
(* (chunk_task), waits for it at most 15 seconds at a time, and emits a    *)
(* heartbeat when the wait ends first.  So generator and loop run          *)
(* concurrently while a __anext__ is pending (pulling), and the generator  *)
(* rests while none is.  Each yield hands an event to the client, which    *)
(* may leave instead of asking for the next one.                           *)
(*                                                                         *)
(* A chunk is <<attempt, position>>: which POST carried it, and where in   *)
(* the response it stood.                                                  *)
(***************************************************************************)
EXTENDS Naturals, Sequences

CONSTANTS
    Chunks,          \* chunks in Hermes' response
    ConnectRetries,  \* Len(_CONNECT_RETRY_DELAYS)
    TimeoutRetries   \* Len(_TIMEOUT_RETRY_DELAYS)

ASSUME BudgetsAssumption ==
    Chunks \in Nat /\ ConnectRetries \in Nat /\ TimeoutRetries \in Nat

VARIABLES
    gen,              \* where the generator is
    error,            \* what it raised
    connectAttempts,  \* connect_attempts
    timeoutAttempts,  \* timeout_attempts
    attempt,          \* the POST it is at
    read,             \* chunks this attempt has delivered
    pulling,          \* is a __anext__ pending?
    held,             \* <<chunk>> when chunk_task is done with a chunk, else <<>>
    loop,             \* where the handler's loop is
    collected,        \* collected, what the client was sent
    wire              \* history: every chunk the generator yielded

budgets   == <<connectAttempts, timeoutAttempts>>
source    == <<gen, error, budgets, attempt, read>>
relayVars == <<source, pulling, held, loop, collected, wire>>

Errors  == {"none", "auth", "server", "connection", "raw"}
Over    == {"completed", "failed", "left"}

(***************************************************************************)
(* The generator.  It only runs inside a pending __anext__.                *)
(***************************************************************************)
Runs(where) == pulling /\ gen = where

Raise(how) == gen' = "raised" /\ error' = how

\* A 2xx response: the body follows.
Open ==
    /\ Runs("posting")
    /\ gen' = "reading" /\ read' = 0
    /\ UNCHANGED <<error, budgets, attempt, pulling, held, loop, collected, wire>>

\* 401, 5xx, or another status outside 2xx: none is retried.
Refuse ==
    /\ Runs("posting")
    /\ \E how \in {"auth", "server", "raw"} : Raise(how)
    /\ UNCHANGED <<budgets, attempt, read, pulling, held, loop, collected, wire>>

\* httpx.ConnectError.
StreamConnectError ==
    /\ Runs("posting")
    /\ connectAttempts' = connectAttempts + 1
    /\ \/ connectAttempts' > ConnectRetries /\ Raise("connection")
       \/ connectAttempts' <= ConnectRetries /\ gen' = "sleeping" /\ UNCHANGED error
    /\ UNCHANGED <<timeoutAttempts, attempt, read, pulling, held, loop, collected, wire>>

\* Mutant: timeouts are retried without a limit on their number.
TimeoutUncounted ==
    /\ Runs("posting") \/ Runs("reading")
    /\ gen' = "sleeping"
    /\ UNCHANGED <<error, budgets, attempt, read, pulling, held, loop, collected, wire>>

\* httpx.TimeoutException, before the response or in the middle of it: the
\* except clause does not tell the two apart.
StreamTimeout ==
    /\ Runs("posting") \/ Runs("reading")
    /\ timeoutAttempts' = timeoutAttempts + 1
    /\ \/ timeoutAttempts' > TimeoutRetries /\ Raise("connection")
       \/ timeoutAttempts' <= TimeoutRetries /\ gen' = "sleeping" /\ UNCHANGED error
    /\ UNCHANGED <<connectAttempts, attempt, read, pulling, held, loop, collected, wire>>

\* Any other httpx error, before the response or in the middle of it.
Break ==
    /\ Runs("posting") \/ Runs("reading")
    /\ Raise("raw")
    /\ UNCHANGED <<budgets, attempt, read, pulling, held, loop, collected, wire>>

\* The pause is over: the loop posts again.
Repost ==
    /\ Runs("sleeping")
    /\ gen' = "posting" /\ attempt' = attempt + 1
    /\ UNCHANGED <<error, budgets, read, pulling, held, loop, collected, wire>>

\* A data line with content: the generator yields, chunk_task is done.
Chunk ==
    /\ Runs("reading") /\ read < Chunks
    /\ read' = read + 1
    /\ held' = <<<<attempt, read'>>>>
    /\ wire' = Append(wire, <<attempt, read'>>)
    /\ pulling' = FALSE
    /\ UNCHANGED <<gen, error, budgets, attempt, loop, collected>>

\* [DONE], or the body ends without it: either way the generator returns.
Finish ==
    /\ Runs("reading")
    /\ gen' = "finished"
    /\ UNCHANGED <<error, budgets, attempt, read, pulling, held, loop, collected, wire>>

Generator ==
    \/ Open \/ Refuse \/ StreamConnectError \/ StreamTimeout \/ Break \/ Repost \/ Chunk \/ Finish

(***************************************************************************)
(* The relaying loop.                                                      *)
(***************************************************************************)
TaskDone == held # <<>> \/ gen \in {"finished", "raised"}

\* on_message_send_stream starts: it yields WORKING, and then drives a
\* generator of its own.
Receive ==
    /\ loop = "idle"
    /\ loop' = "working"
    /\ gen' = "posting" /\ attempt' = 1
    /\ UNCHANGED <<error, budgets, read, pulling, held, collected, wire>>

\* The client asks for the event after WORKING: the first __anext__.
Start ==
    /\ loop = "working"
    /\ loop' = "waiting" /\ pulling' = TRUE
    /\ UNCHANGED <<source, held, collected, wire>>

\* Mutant: the heartbeat cancels the pending read, as asyncio.wait_for
\* would, and starts another; a chunk that was just read is lost.
HeartbeatCancelsRead ==
    /\ loop = "waiting"
    /\ loop' = "beating"
    /\ held' = <<>> /\ pulling' = TRUE
    /\ UNCHANGED <<source, collected, wire>>

\* 15 seconds without a result: yield WORKING, keep the pending __anext__.
Heartbeat ==
    /\ loop = "waiting" /\ ~TaskDone
    /\ loop' = "beating"
    /\ UNCHANGED <<source, pulling, held, collected, wire>>

\* The client took the heartbeat; wait on the same chunk_task.
KeepWaiting ==
    /\ loop = "beating"
    /\ loop' = "waiting"
    /\ UNCHANGED <<source, pulling, held, collected, wire>>

\* chunk_task is done with a chunk: yield it to the client.
Relay ==
    /\ loop = "waiting" /\ held # <<>>
    /\ collected' = collected \o held
    /\ held' = <<>>
    /\ loop' = "relaying"
    /\ UNCHANGED <<source, pulling, wire>>

\* Mutant: the loop waits without scheduling the next read.
PullForgotten ==
    /\ loop = "relaying"
    /\ loop' = "waiting"
    /\ UNCHANGED <<source, pulling, held, collected, wire>>

\* The client took the chunk: schedule the next read.
Pull ==
    /\ loop = "relaying"
    /\ pulling' = TRUE /\ loop' = "waiting"
    /\ UNCHANGED <<source, held, collected, wire>>

\* StopAsyncIteration: on to saving the session and the task.
Complete ==
    /\ loop = "waiting" /\ gen = "finished"
    /\ loop' = "completed" /\ pulling' = FALSE
    /\ UNCHANGED <<source, held, collected, wire>>

\* The generator raised: yield FAILED and return.
Fail ==
    /\ loop = "waiting" /\ gen = "raised"
    /\ loop' = "failed" /\ pulling' = FALSE
    /\ UNCHANGED <<source, held, collected, wire>>

\* Mutant: the finally clause does not cancel chunk_task.
LeaveReading ==
    /\ loop \notin Over \cup {"idle"}
    /\ loop' = "left"
    /\ UNCHANGED <<source, held, collected, wire, pulling>>

\* The client disconnects.  The finally clause cancels a pending chunk_task;
\* a generator that rests at its yield is left to the garbage collector.
Leave ==
    /\ loop \notin Over \cup {"idle"}
    /\ loop' = "left" /\ pulling' = FALSE
    /\ gen' = IF gen \in {"finished", "raised"} THEN gen ELSE "closed"
    /\ UNCHANGED <<error, budgets, attempt, read, held, collected, wire>>

Loop == Start \/ KeepWaiting \/ Relay \/ Pull \/ Complete \/ Fail

Rest == loop \in Over /\ ~pulling /\ UNCHANGED relayVars

RelayInit ==
    /\ gen = "idle" /\ error = "none"
    /\ connectAttempts = 0 /\ timeoutAttempts = 0 /\ attempt = 0 /\ read = 0
    /\ pulling = FALSE /\ held = <<>>
    /\ loop = "idle" /\ collected = <<>> /\ wire = <<>>

RelayNext == Receive \/ Generator \/ Loop \/ Heartbeat \/ Leave \/ Rest

\* Hermes answers or httpx times out, and a client that stays reads on.
RelaySpec == RelayInit /\ [][RelayNext]_relayVars /\ WF_relayVars(Generator) /\ WF_relayVars(Loop)
-----------------------------------------------------------------------------
RelayTypeOK ==
    /\ gen \in {"idle", "posting", "sleeping", "reading", "finished", "raised", "closed"}
    /\ error \in Errors
    /\ connectAttempts \in 0..ConnectRetries + 1 /\ timeoutAttempts \in 0..TimeoutRetries + 1
    /\ attempt \in 0..1 + ConnectRetries + TimeoutRetries
    /\ read \in 0..Chunks
    /\ pulling \in BOOLEAN
    /\ held \in Seq(Nat \X Nat) /\ collected \in Seq(Nat \X Nat) /\ wire \in Seq(Nat \X Nat)
    /\ loop \in {"idle", "working", "waiting", "beating", "relaying"} \cup Over

\* What the client was sent, and the chunk about to be sent, is exactly what
\* Hermes sent, in order: a heartbeat neither drops nor repeats the chunk
\* that arrives while it is emitted.
HeartbeatsLoseNothing == collected \o held = wire

\* A completed stream ends with everything its last POST carried, and only
\* retried POSTs can have put anything before it.
LastAttempt == SubSeq(collected, Len(collected) - read + 1, Len(collected))
CompletedStreamsEndWhole ==
    loop = "completed" =>
        /\ Len(collected) >= read
        /\ LastAttempt = [n \in 1..read |-> <<attempt, n>>]
        /\ attempt = 1 => Len(collected) = read

\* No read of Hermes' response outlives the client's stream.
NobodyReadsForNobody == loop \in Over => ~pulling

\* Every attempt but the first is charged to one of the two budgets.
Charged ==
    /\ IF gen = "idle" THEN attempt + connectAttempts + timeoutAttempts = 0 ELSE attempt > 0
    /\ gen \in {"posting", "reading", "finished"} => attempt = 1 + connectAttempts + timeoutAttempts
    /\ gen = "sleeping" => attempt = connectAttempts + timeoutAttempts
    /\ gen # "raised" => connectAttempts <= ConnectRetries /\ timeoutAttempts <= TimeoutRetries

\* Generator and loop start together, and a chunk is handed over when no read
\* is pending, to a loop that looks for it.
HandedOver ==
    /\ gen = "idle" <=> loop = "idle"
    /\ held # <<>> => ~pulling /\ loop \in {"waiting", "beating", "left"}
    /\ pulling => loop \in {"waiting", "beating"}
    /\ gen \in {"finished", "raised"} => held = <<>>
    /\ loop = "completed" => gen = "finished"

\* What the attempt has read is the end of what was yielded.
EndOfWire ==
    /\ gen = "idle" \/ (gen = "posting" /\ attempt = 1) => wire = <<>>
    /\ gen \in {"reading", "finished"} =>
         /\ Len(wire) >= read
         /\ \A n \in 1..read : wire[Len(wire) - read + n] = <<attempt, n>>
         /\ attempt = 1 => Len(wire) = read

\* The inductive invariant behind the safety properties above.
IInv == RelayTypeOK /\ Charged /\ HandedOver /\ HeartbeatsLoseNothing /\ EndOfWire

\* Every stream that was started ends: it completes, fails or is left.
EveryStreamEnds == loop = "working" ~> loop \in Over

\* The generator as a retry loop, which an abandoned stream decides too.
StreamRetry ==
    INSTANCE BoundedRetry
      WITH MaxAttempts <- 1 + ConnectRetries + TimeoutRetries,
           attempts <- attempt,
           verdict <- IF gen = "finished" THEN "succeeded"
                      ELSE IF gen \in {"raised", "closed"} THEN "failed"
                      ELSE "none"

StreamIsBoundedRetry == StreamRetry!Spec

\* "Retries only on initial connection errors -- once the stream starts,
\* mid-stream failures are **not** retried": no part is sent twice.
NothingIsRepeated ==
    \A i, j \in 1..Len(collected) : collected[i][2] = collected[j][2] => i = j
=============================================================================
