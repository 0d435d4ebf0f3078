------------------------------ MODULE Gateway ------------------------------
(***************************************************************************)
(* The gateway's core: HermesA2AHandler (a2a_handler.py) over the task     *)
(* store and the session store (task_store.py, session_store.py), with the *)
(* admin API's task deletion, the start-up code of server.py, crashes and  *)
(* clients that leave a stream.                                            *)
(*                                                                         *)
(* One asyncio process serves every request: a request is a coroutine that *)
(* runs between two awaits without interruption, so there is one action    *)
(* per await.  pc[r] names the await that r is suspended at; the action    *)
(* completes what was awaited and runs r up to its next await.             *)
(*                                                                         *)
(* Both stores keep an aiosqlite connection of their own to the SAME file. *)
(* A connection is shared by every coroutine, so a commit by one coroutine *)
(* commits what any other has executed, and all read each other's          *)
(* uncommitted rows.  tasks and sessions are the tables as the connection  *)
(* that writes them sees them; tasksDisk and sessionsDisk are what a       *)
(* restart finds.                                                          *)
(***************************************************************************)
EXTENDS Naturals, FiniteSets, TaskStates, SqliteLocks

CONSTANTS
    Sends,          \* SendMessage requests
    Streams,        \* SendStreamingMessage requests
    Cancels,        \* CancelTask requests
    Deletes,        \* DELETE /admin/tasks/{task_id} requests
    Gets,           \* GetTask requests
    Seeds,          \* tasks in the file before the first start
    SeedStates,     \* the states those rows may be in
    Contexts,       \* context ids of the messages
    ContextOf,      \* the context of each message
    TargetOf,       \* the task each Cancel, Delete and Get names
    NoSession,      \* no row for a context in the session table
    MaxRequests,    \* bound on the requests that arrive
    MaxRestarts,    \* bound on crashes and restarts
    ClientsLeave    \* may a client disconnect from its stream?

Messages == Sends \cup Streams
Requests == Messages \cup Cancels \cup Deletes \cup Gets

\* A task id is a uuid4 the handler draws: one per message.
TaskIds == Messages \cup Seeds

\* <<"hermes", m>>: the session Hermes created to run message m;
\* <<"gateway", m>>: the uuid4 the gateway drew for m when it knew of none.
SessionIds == {"hermes", "gateway"} \X Messages

ASSUME RequestsAssumption ==
    /\ Sends \cap Streams = {}
    /\ Messages \cap Cancels = {}
    /\ Messages \cap Deletes = {}
    /\ Messages \cap Gets = {}
    /\ Cancels \cap Deletes = {}
    /\ Cancels \cap Gets = {}
    /\ Deletes \cap Gets = {}
    /\ Messages \cap Seeds = {}

ASSUME WorkloadAssumption ==
    /\ ContextOf \in [Messages -> Contexts]
    /\ TargetOf \in [Cancels \cup Deletes \cup Gets -> TaskIds]
    /\ SeedStates \subseteq States

ASSUME BoundsAssumption ==
    /\ NoSession \notin SessionIds
    /\ MaxRequests \in Nat
    /\ MaxRestarts \in Nat
    /\ ClientsLeave \in BOOLEAN

ASSUME FiniteAssumption == IsFiniteSet(Requests)

VARIABLES
    pc,             \* where each request is suspended
    told,           \* the last thing its client was told
    sid,            \* session_id, the local of on_message_send(_stream)
    newSid,         \* the session id that message saves
    saw,            \* task_dict's state, the local of cancel, delete and get
    tasks, tasksDisk,
    sessions, sessionsDisk,
    txn,            \* the transaction of each store's connection
    cache,          \* handler._sessions
    requestsTotal, errorsTotal,
    deleted,        \* history: tasks some DELETE was executed for
    expired,        \* history: contexts a start-up cleanup removed
    restarts,
    late            \* history: some statement gave up on a lock whose holder
                    \* was about to commit

locals  == <<sid, newSid, saw>>
table   == <<tasks, tasksDisk>>
mapping == <<sessions, sessionsDisk>>
metrics == <<requestsTotal, errorsTotal>>
history == <<deleted, expired, restarts, late>>
vars    == <<pc, told, locals, table, mapping, txn, cache, metrics, history>>

\* The awaits of a request, and the ways it ends.
Waiting == {"lookup", "hermes", "saveSession", "commitSession", "saveTask",
            "commitTask", "push", "count", "getTask"}
Ended   == {"answered", "error", "gone", "lost"}

Connections == {"task", "session"}
Other(c)    == IF c = "task" THEN "session" ELSE "task"

Target(r) == IF r \in Messages THEN r ELSE TargetOf[r]

\* The row that a request leaves in the task table.
RowOf(r) == IF r \in Messages THEN "completed"
            ELSE IF r \in Cancels THEN "canceled" ELSE Absent

(***************************************************************************)
(* Statements on the two connections.  A conflicting lock makes SQLite     *)
(* retry for five seconds and then fail; the stores let the exception out  *)
(* and never roll back.                                                    *)
(***************************************************************************)
Committing(c) == IF c = "task" THEN "commitTask" ELSE "commitSession"

\* The lock that c waits for outlives the busy timeout.  Usually a lock is
\* released within milliseconds, by the coroutine that awaits its commit.
GiveUp(c) == late' = (late \/ \E r \in Requests : pc[r] = Committing(Other(c)))

Readable(c)    == MayRead(txn[c], txn[Other(c)])
Writable(c)    == MayWrite(txn[c], txn[Other(c)])
Committable(c) == MayCommit(txn[c], txn[Other(c)])

SetTxn(c, s) == txn' = [txn EXCEPT ![c] = s]

\* Mutant: the connection waits for the lock forever.
WriteWaits(c) == FALSE

ReadBusy(c)   == ~Readable(c) /\ GiveUp(c) /\ UNCHANGED txn
WriteBusy(c)  == ~Writable(c) /\ GiveUp(c) /\ SetTxn(c, AfterBusyWrite(txn[c]))
CommitBusy(c) == ~Committable(c) /\ GiveUp(c) /\ SetTxn(c, AfterBusyCommit)

Read(c) == Readable(c) /\ SetTxn(c, AfterRead(txn[c]))

\* INSERT OR REPLACE INTO tasks, or DELETE FROM tasks.
TaskWritten(r) ==
    /\ Writable("task")
    /\ SetTxn("task", AfterWrite(txn["task"]))
    /\ tasks' = [tasks EXCEPT ![Target(r)] = RowOf(r)]
    /\ deleted' = IF r \in Deletes THEN deleted \cup {Target(r)} ELSE deleted

\* Mutant: save() and delete() forget to commit.
TasksLeftOpen == UNCHANGED <<txn, tasksDisk>>

TasksCommitted ==
    /\ Committable("task")
    /\ SetTxn("task", AfterCommit)
    /\ tasksDisk' = IF txn["task"] \in Dirty THEN tasks ELSE tasksDisk

\* INSERT INTO sessions ... ON CONFLICT DO UPDATE.
SessionWritten(m) ==
    /\ Writable("session")
    /\ SetTxn("session", AfterWrite(txn["session"]))
    /\ sessions' = [sessions EXCEPT ![ContextOf[m]] = newSid[m]]

SessionsCommitted ==
    /\ Committable("session")
    /\ SetTxn("session", AfterCommit)
    /\ sessionsDisk' = IF txn["session"] \in Dirty THEN sessions ELSE sessionsDisk

(***************************************************************************)
(* The requests.                                                           *)
(***************************************************************************)
Goto(r, where) == pc' = [pc EXCEPT ![r] = where]
Tell(r, what)  == told' = [told EXCEPT ![r] = what]

\* The request reaches its handler, which runs to its first await.
Arrive(r) ==
    /\ pc[r] = "idle"
    /\ Cardinality({q \in Requests : pc[q] # "idle"}) < MaxRequests
    /\ Goto(r, IF r \in Messages THEN "lookup" ELSE "getTask")
    /\ UNCHANGED <<told, locals, table, mapping, txn, cache, metrics, history>>

\* Mutant: _get_session reads the dict that restore_sessions filled.
LookUpCachedSession(m) ==
    /\ m \in Messages /\ pc[m] = "lookup"
    /\ sid' = [sid EXCEPT ![m] = cache[ContextOf[m]]]
    /\ Goto(m, "hermes")
    /\ IF m \in Streams THEN Tell(m, "working") ELSE UNCHANGED told
    /\ UNCHANGED <<txn, newSid, saw, table, mapping, cache, metrics, history>>

\* session_id = await self._get_session(context_id).  A stream then yields
\* its first WORKING event.
LookUpSession(m) ==
    /\ m \in Messages /\ pc[m] = "lookup"
    /\ Read("session")
    /\ sid' = [sid EXCEPT ![m] = sessions[ContextOf[m]]]
    /\ Goto(m, "hermes")
    /\ IF m \in Streams THEN Tell(m, "working") ELSE UNCHANGED told
    /\ UNCHANGED <<newSid, saw, table, mapping, cache, metrics, history>>

\* Hermes runs the turn in the session it is given, or in one it creates.
RanIn(m) == IF sid[m] # NoSession THEN sid[m] ELSE <<"hermes", m>>

\* send_message returns the session id of the response when it has one; the
\* stream's new_session_id stays None.  Either falls back on session_id, and
\* then on a fresh uuid4.
KnownSid(m) == IF sid[m] # NoSession THEN sid[m] ELSE <<"gateway", m>>
SidsToSave(m) == {KnownSid(m)} \cup (IF m \in Sends THEN {RanIn(m)} ELSE {})

\* Mutant: the task is saved before the session.
HermesAnswersTaskFirst(m) ==
    /\ m \in Messages /\ pc[m] = "hermes"
    /\ \E s \in SidsToSave(m) : newSid' = [newSid EXCEPT ![m] = s]
    /\ Goto(m, "saveTask")
    /\ UNCHANGED <<told, sid, saw, table, mapping, txn, cache, metrics, history>>

\* The whole response has arrived.  The chunk and heartbeat events a stream
\* yields until then repeat "working" and change nothing that is kept.
HermesAnswers(m) ==
    /\ m \in Messages /\ pc[m] = "hermes"
    /\ \E s \in SidsToSave(m) : newSid' = [newSid EXCEPT ![m] = s]
    /\ Goto(m, "saveSession")
    /\ UNCHANGED <<told, sid, saw, table, mapping, txn, cache, metrics, history>>

\* Mutant: a failed stream is not counted.
HermesFailsUncounted(m) ==
    /\ m \in Messages /\ pc[m] = "hermes"
    /\ \/ m \in Sends   /\ Goto(m, "error") /\ errorsTotal' = errorsTotal + 1 /\ UNCHANGED told
       \/ m \in Streams /\ Goto(m, "answered") /\ Tell(m, "failed") /\ UNCHANGED errorsTotal
    /\ UNCHANGED <<locals, table, mapping, txn, cache, requestsTotal, history>>

\* The client's retries are spent.  A send raises; a stream yields FAILED.
HermesFails(m) ==
    /\ m \in Messages /\ pc[m] = "hermes"
    /\ errorsTotal' = errorsTotal + 1
    /\ \/ m \in Sends   /\ Goto(m, "error") /\ UNCHANGED told
       \/ m \in Streams /\ Goto(m, "answered") /\ Tell(m, "failed")
    /\ UNCHANGED <<locals, table, mapping, txn, cache, requestsTotal, history>>

\* await self._save_session(...): execute, then commit.
SaveSession(m) ==
    /\ m \in Messages /\ pc[m] = "saveSession"
    /\ SessionWritten(m)
    /\ Goto(m, "commitSession")
    /\ UNCHANGED <<told, locals, table, sessionsDisk, cache, metrics, history>>

CommitSession(m) ==
    /\ m \in Messages /\ pc[m] = "commitSession"
    /\ SessionsCommitted
    /\ Goto(m, "saveTask")
    /\ UNCHANGED <<told, locals, table, sessions, cache, metrics, history>>

\* Mutant: a send or a cancel answers after its execute, before its commit.
SaveTaskUncommitted(r) ==
    /\ pc[r] = "saveTask"
    /\ TaskWritten(r)
    /\ Goto(r, IF r \in Sends \cup Cancels THEN "push" ELSE "commitTask")
    /\ UNCHANGED <<told, locals, tasksDisk, mapping, cache, metrics, expired, restarts, late>>

\* await self._store.save(...) or .delete(...): execute, then commit.
SaveTask(r) ==
    /\ pc[r] = "saveTask"
    /\ TaskWritten(r)
    /\ Goto(r, "commitTask")
    /\ UNCHANGED <<told, locals, tasksDisk, mapping, cache, metrics, expired, restarts, late>>

\* A send counts itself and goes on to push notifications; a stream yields
\* COMPLETED, and counts itself if its client asks for the next event; a
\* cancel goes on to push notifications; a delete answers.
CommitTask(r) ==
    /\ pc[r] = "commitTask"
    /\ TasksCommitted
    /\ \/ r \in Sends   /\ Goto(r, "push") /\ UNCHANGED told
       \/ r \in Streams /\ Goto(r, "count") /\ Tell(r, "completed")
       \/ r \in Cancels /\ Goto(r, "push") /\ UNCHANGED told
       \/ r \in Deletes /\ Goto(r, "answered") /\ Tell(r, "deleted")
    /\ requestsTotal' = IF r \in Sends THEN requestsTotal + 1 ELSE requestsTotal
    /\ UNCHANGED <<locals, tasks, mapping, cache, errorsTotal, history>>

\* deliver() has tried every webhook of the task (it raises nothing), and
\* the handler returns the task.
Answer(r) ==
    /\ pc[r] = "push"
    /\ Goto(r, "answered")
    /\ Tell(r, RowOf(r))
    /\ UNCHANGED <<locals, table, mapping, txn, cache, metrics, history>>

CountStream(m) ==
    /\ pc[m] = "count"
    /\ requestsTotal' = requestsTotal + 1
    /\ Goto(m, "answered")
    /\ UNCHANGED <<told, locals, table, mapping, txn, cache, errorsTotal, history>>

\* Mutant: on_cancel_task forgets its is_terminal check.
FindTaskInAnyState(r) ==
    /\ pc[r] = "getTask"
    /\ Read("task")
    /\ LET found == tasks[Target(r)] IN
         /\ saw' = [saw EXCEPT ![r] = found]
         /\ \/ /\ r \notin Gets /\ found # Absent
               /\ Goto(r, "saveTask") /\ UNCHANGED told
            \/ /\ r \in Gets \/ found = Absent
               /\ Goto(r, "answered")
               /\ Tell(r, IF found # Absent THEN Reported(found) ELSE Absent)
    /\ UNCHANGED <<sid, newSid, table, mapping, cache, metrics, history>>

\* Cancel, delete and get start by reading the row.  A cancel gives up on a
\* missing or terminal task, a delete on a missing one.
FindTask(r) ==
    /\ pc[r] = "getTask"
    /\ Read("task")
    /\ LET found == tasks[Target(r)] IN
         /\ saw' = [saw EXCEPT ![r] = found]
         /\ \/ /\ r \in Cancels /\ found \notin Terminal \cup {Absent}
               /\ Goto(r, "saveTask") /\ UNCHANGED told
            \/ /\ r \in Deletes /\ found # Absent
               /\ Goto(r, "saveTask") /\ UNCHANGED told
            \/ /\ r \in Cancels => found \in Terminal \cup {Absent}
               /\ r \in Deletes => found = Absent
               /\ Goto(r, "answered")
               /\ Tell(r, IF r \in Gets /\ found # Absent
                            THEN Reported(found) ELSE Absent)
    /\ UNCHANGED <<sid, newSid, table, mapping, cache, metrics, history>>

\* A statement gives up on a lock: the exception leaves the handler.  It is
\* not counted in errors_total, which only a failed Hermes call increments.
StoreFails(r) ==
    /\ \/ pc[r] = "lookup"        /\ ReadBusy("session")
       \/ pc[r] = "getTask"       /\ ReadBusy("task")
       \/ pc[r] = "saveSession"   /\ WriteBusy("session")
       \/ pc[r] = "saveTask"      /\ WriteBusy("task")
       \/ pc[r] = "commitSession" /\ CommitBusy("session")
       \/ pc[r] = "commitTask"    /\ CommitBusy("task")
    /\ Goto(r, "error")
    /\ UNCHANGED <<told, locals, table, mapping, cache, metrics, deleted, expired, restarts>>

Step(r) ==
    \/ LookUpSession(r) \/ HermesAnswers(r) \/ HermesFails(r)
    \/ SaveSession(r) \/ CommitSession(r) \/ SaveTask(r) \/ CommitTask(r)
    \/ Answer(r) \/ CountStream(r) \/ FindTask(r) \/ StoreFails(r)

(***************************************************************************)
(* The client of a stream goes away and the coroutine is cancelled at its  *)
(* await.  The statement it awaited still runs in the connection's thread  *)
(* (or fails there); what followed it in the coroutine never does.         *)
(***************************************************************************)
Leave(m) ==
    /\ ClientsLeave
    /\ m \in Streams
    /\ \/ /\ pc[m] \in {"hermes", "count"}
          /\ UNCHANGED <<txn, table, mapping, deleted, late>>
       \/ /\ pc[m] = "lookup" /\ Read("session")
          /\ UNCHANGED <<table, mapping, deleted, late>>
       \/ /\ pc[m] = "saveSession" /\ SessionWritten(m)
          /\ UNCHANGED <<table, sessionsDisk, deleted, late>>
       \/ /\ pc[m] = "saveTask" /\ TaskWritten(m)
          /\ UNCHANGED <<tasksDisk, mapping, late>>
       \/ /\ pc[m] = "commitSession" /\ SessionsCommitted
          /\ UNCHANGED <<table, sessions, deleted, late>>
       \/ /\ pc[m] = "commitTask" /\ TasksCommitted
          /\ UNCHANGED <<tasks, mapping, deleted, late>>
       \/ /\ \/ pc[m] = "lookup"        /\ ReadBusy("session")
             \/ pc[m] = "saveSession"   /\ WriteBusy("session")
             \/ pc[m] = "saveTask"      /\ WriteBusy("task")
             \/ pc[m] = "commitSession" /\ CommitBusy("session")
             \/ pc[m] = "commitTask"    /\ CommitBusy("task")
          /\ UNCHANGED <<table, mapping, deleted>>
    /\ Goto(m, "gone")
    /\ UNCHANGED <<told, locals, cache, metrics, expired, restarts>>

(***************************************************************************)
(* The process stops, by a crash or by the lifespan's shutdown (close()    *)
(* rolls back like a crash), and starts again: requests in flight and      *)
(* uncommitted changes are lost, the counters restart, restore_sessions    *)
(* fills the cache, and THEN cleanup deletes the sessions that were not    *)
(* updated for 24 hours.  How long the process was down is not modelled,   *)
(* so any set of contexts may be that old.                                 *)
(***************************************************************************)
\* init(): new connections show what the file holds.
Reopen ==
    /\ tasks' = tasksDisk
    /\ txn' = [c \in Connections |-> "auto"]

\* restore_sessions: every row of the table, the stale ones too.
RestoreSessions == cache' = sessionsDisk

\* cleanup() deletes the rows of the contexts in old, and commits.
CleanUp(old) ==
    /\ sessionsDisk' = [c \in Contexts |->
                          IF c \in old THEN NoSession ELSE sessionsDisk[c]]
    /\ sessions' = sessionsDisk'
    /\ expired' = expired \cup old

Restart ==
    /\ restarts < MaxRestarts
    /\ restarts' = restarts + 1
    /\ pc' = [r \in Requests |-> IF pc[r] \in Waiting THEN "lost" ELSE pc[r]]
    /\ Reopen
    /\ RestoreSessions
    /\ \E old \in SUBSET {c \in Contexts : sessionsDisk[c] # NoSession} : CleanUp(old)
    /\ requestsTotal' = 0 /\ errorsTotal' = 0
    /\ UNCHANGED <<told, locals, tasksDisk, deleted, late>>

\* No request is in flight and the server waits for more.
Rest ==
    /\ \A r \in Requests : pc[r] \notin Waiting
    /\ UNCHANGED vars

Init ==
    /\ pc = [r \in Requests |-> "idle"]
    /\ told = [r \in Requests |-> "nothing"]
    /\ sid = [m \in Messages |-> NoSession]
    /\ newSid = [m \in Messages |-> NoSession]
    /\ saw = [r \in Cancels \cup Deletes \cup Gets |-> Absent]
    /\ \E seeded \in [Seeds -> SeedStates] :
         tasks = [t \in TaskIds |-> IF t \in Seeds THEN seeded[t] ELSE Absent]
    /\ tasksDisk = tasks
    /\ sessions = [c \in Contexts |-> NoSession]
    /\ sessionsDisk = sessions
    /\ txn = [c \in Connections |-> "auto"]
    /\ cache = sessionsDisk
    /\ requestsTotal = 0 /\ errorsTotal = 0
    /\ deleted = {} /\ expired = {} /\ restarts = 0 /\ late = FALSE

Next ==
    \/ \E r \in Requests : Arrive(r) \/ Step(r)
    \/ \E m \in Streams : Leave(m)
    \/ Restart
    \/ Rest

\* The event loop runs every coroutine that can go on; Hermes and the
\* webhooks answer or time out (their clients bound every wait).  Nothing
\* makes a client send, leave or a process restart.
Fairness == \A r \in Requests : WF_vars(Step(r))

Spec == Init /\ [][Next]_vars /\ Fairness
-----------------------------------------------------------------------------
TypeOK ==
    /\ pc \in [Requests -> {"idle"} \cup Waiting \cup Ended]
    /\ told \in [Requests -> Rows \cup {"nothing", "deleted"}]
    /\ sid \in [Messages -> SessionIds \cup {NoSession}]
    /\ newSid \in [Messages -> SessionIds \cup {NoSession}]
    /\ saw \in [Cancels \cup Deletes \cup Gets -> Rows]
    /\ tasks \in [TaskIds -> Rows] /\ tasksDisk \in [TaskIds -> Rows]
    /\ sessions \in [Contexts -> SessionIds \cup {NoSession}]
    /\ sessionsDisk \in [Contexts -> SessionIds \cup {NoSession}]
    /\ cache \in [Contexts -> SessionIds \cup {NoSession}]
    /\ txn \in [Connections -> TxnStates]
    /\ requestsTotal \in Nat /\ errorsTotal \in Nat
    /\ deleted \subseteq TaskIds /\ expired \subseteq Contexts
    /\ restarts \in 0..MaxRestarts /\ late \in BOOLEAN

\* A client that was told its message is completed, or its task canceled,
\* finds the row in the file after any crash, unless somebody deleted it:
\* on_message_send and on_cancel_task answer only after save() returned,
\* although commits are shared by all coroutines of the connection.
AnswersAreDurable ==
    \A r \in Messages \cup Cancels :
        told[r] \in {"completed", "canceled"} =>
            tasksDisk[Target(r)] = told[r] \/ Target(r) \in deleted

\* A completed task in the file has its conversation's session in the file:
\* the handler saves the session first, and only the start-up cleanup
\* removes one.
DurableTasksHaveSessions ==
    \A m \in Messages :
        tasksDisk[m] = "completed" =>
            sessionsDisk[ContextOf[m]] # NoSession \/ ContextOf[m] \in expired

\* requests_total never counts a message whose task the file lacks.
CountsAreBacked ==
    requestsTotal <= Cardinality({m \in Messages :
                                    tasksDisk[m] = "completed" \/ m \in deleted})

\* Once a DELETE answered "deleted" the row is gone from the file for good,
\* unless a cancel had read it before and writes it back: the two handlers
\* each await between reading the row and writing it.
DeletesAreDurable ==
    \A d \in Deletes :
        told[d] = "deleted" =>
            \/ tasksDisk[Target(d)] = Absent
            \/ \E c \in Cancels : Target(c) = Target(d) /\ saw[c] # Absent

\* What the file says of a task only changes along the table of
\* task_state_machine.py, whatever requests and crashes interleave, as long
\* as its rows start out in states the table knows.
TransitionsAreLegal ==
    [][\A t \in TaskIds :
         tasksDisk'[t] # tasksDisk[t] =>
            \/ Absent \in {tasksDisk[t], tasksDisk'[t]}
            \/ <<tasksDisk[t], tasksDisk'[t]>> \in Transitions]_vars

\* To its clients the file is one table of rows: commits that carry the rows of
\* several coroutines, streams abandoned between a write and its commit, and
\* crashes leave no row that one request could not have made, and nobody is
\* told of a row that is not there to stay.
Promised ==
    {<<Target(r), told[r]>> :
        r \in {q \in Messages \cup Cancels : told[q] \in {"completed", "canceled"}}}

Ledger == INSTANCE TaskLedger
            WITH Tasks <- TaskIds, Fresh <- Messages,
                 ledger <- tasksDisk, removed <- deleted, promised <- Promised

IsTaskLedger == Ledger!Spec

\* The turns that gave context c a session id: they found none and Hermes
\* answered them.
Begun(c) == {f \in Messages : ContextOf[f] = c /\ sid[f] = NoSession /\ newSid[f] # NoSession}

\* m looks its context up after n, a message of the context, was answered.
TakesUp(m, n) ==
    /\ pc[m] = "lookup" /\ pc'[m] = "hermes"
    /\ told[n] = "completed" /\ ContextOf[n] = ContextOf[m]
    /\ ContextOf[m] \notin expired

\* A message that looks its context up after another message of the context
\* was answered, also across a restart, runs in the session that the earlier
\* one ran in, but for two cases: the id that the context's first turn saved
\* is not Hermes' own (after a stream, or an answer without an id), or several
\* turns began the context at once.  Even then it sends an id that one of
\* them saved.
LaterTurnsContinue ==
    [][\A m, n \in Messages :
         TakesUp(m, n) =>
            \E f \in Begun(ContextOf[m]) :
                /\ sid'[m] = newSid[f]
                /\ \/ sid'[m] = RanIn(n)
                   \/ newSid[f] # RanIn(f)
                   \/ Begun(ContextOf[m]) # {f}]_vars

NobodyLeft == \A m \in Streams : pc[m] # "gone"

\* As long as commits are faster than the busy timeout it takes an abandoned
\* stream to leave a transaction open without a coroutine about to commit it.
TransactionsAreOwned ==
    ~late /\ NobodyLeft =>
        \A c \in Connections :
            txn[c] # "auto" => \E r \in Requests : pc[r] = Committing(c)

\* ... or to make a store fail: without one errors_total accounts for every
\* request that ended in an error, and every stream that was told FAILED,
\* since the process started.
Failures == {r \in Requests : pc[r] = "error"} \cup {m \in Streams : told[m] = "failed"}

ErrorsAreCounted ==
    ~late /\ NobodyLeft /\ restarts = 0 => errorsTotal = Cardinality(Failures)

\* Every request that reached its handler ends, whatever locks are orphaned:
\* as only so many arrive, the gateway comes to rest.
EveryRequestEnds ==
    (\E r \in Requests : pc[r] \in Waiting) ~> (\A r \in Requests : pc[r] \notin Waiting)

(***************************************************************************)
(* The inductive invariant behind AnswersAreDurable and                    *)
(* DurableTasksHaveSessions.                                               *)
(***************************************************************************)

\* Which kind of request waits where.
WaitsByKind ==
    \A r \in Requests :
        /\ pc[r] \in {"lookup", "hermes", "saveSession", "commitSession", "count"}
             => r \in Messages
        /\ pc[r] = "getTask" => r \notin Messages
        /\ pc[r] = "push" => r \in Sends \cup Cancels
        /\ pc[r] \in {"saveTask", "commitTask"} => r \notin Gets

\* A connection without uncommitted changes shows what the file holds.
CleanConnections ==
    /\ txn["task"] \notin Dirty => tasksDisk = tasks
    /\ txn["session"] \notin Dirty => sessionsDisk = sessions

\* Only its own handler writes a message's row, always as completed, so that
\* a cancel never gets past it.
MessageRows ==
    \A m \in Messages : {tasks[m], tasksDisk[m]} \subseteq {"completed", Absent}

CancelsNameSeeds ==
    \A c \in Cancels :
        pc[c] \in {"saveTask", "commitTask", "push"} \/ told[c] = "canceled"
            => Target(c) \in Seeds

TellsItsRow ==
    \A r \in Messages \cup Cancels :
        told[r] \in {"completed", "canceled"} => told[r] = RowOf(r)

\* After save() returned the row is in the file, and between its execute and
\* its commit it is in the connection's view of the table.
Saved(r) == pc[r] \in {"push", "count"} \/ told[r] \in {"completed", "canceled"}

RowsAreSaved ==
    \A r \in Messages \cup Cancels :
        /\ pc[r] = "commitTask" \/ Saved(r) =>
              tasks[Target(r)] = RowOf(r) \/ Target(r) \in deleted
        /\ Saved(r) =>
              tasksDisk[Target(r)] = RowOf(r) \/ Target(r) \in deleted

TaskInv == /\ WaitsByKind /\ CleanConnections /\ MessageRows
           /\ CancelsNameSeeds /\ TellsItsRow /\ RowsAreSaved

\* A message past its session's commit, and the row it wrote, have a mapping
\* in the file; commits never drop one.
SessionsAreSaved ==
    /\ \A m \in Messages :
         /\ pc[m] = "saveSession" => newSid[m] # NoSession
         /\ pc[m] = "commitSession" => sessions[ContextOf[m]] # NoSession
         /\ \/ pc[m] \in {"saveTask", "commitTask", "push", "count"}
            \/ "completed" \in {tasks[m], tasksDisk[m]}
            => sessionsDisk[ContextOf[m]] # NoSession \/ ContextOf[m] \in expired
    /\ \A c \in Contexts : sessionsDisk[c] # NoSession => sessions[c] # NoSession

IInv == TypeOK /\ TaskInv /\ SessionsAreSaved

(***************************************************************************)
(* What documentation, comments and tests say and the code does not do.    *)
(***************************************************************************)

\* "All tasks with same context_id share a Hermes session": the turns of a
\* context that were answered ran in one session of Hermes.
ContextsShareASession ==
    \A m, n \in Messages :
        /\ told[m] = "completed" /\ told[n] = "completed"
        /\ ContextOf[m] = ContextOf[n]
        => RanIn(m) = RanIn(n)

\* The same of two turns of which one follows the other, so that no two first
\* turns race.
LaterTurnsShareASession ==
    [][\A m, n \in Messages : TakesUp(m, n) => sid'[m] = RanIn(n)]_vars

\* "send a message and get a task": a send that Hermes answered does not end
\* in an error, the two stores sharing one file and every commit prompt.
AnsweredSendsGetATask ==
    ~late => \A m \in Sends : pc[m] = "error" => newSid[m] = NoSession
=============================================================================
