--------------------------- MODULE GatewayProofs ---------------------------
(***************************************************************************)
(* Proofs about Gateway, for every set of requests, every workload and     *)
(* every bound: type correctness, the inductive invariant, and that what a *)
(* client was told survives a crash; then what the history of the rows,    *)
(* the answers and the counters may rely on.                               *)
(***************************************************************************)
EXTENDS Gateway, FiniteSetTheorems, TLAPS

USE DEF Messages, Requests, TaskIds, SessionIds, Connections, Waiting, Ended,
        Dirty, TxnStates, Rows, States, Absent

\* Every request is about a task of the model: the row it reads or writes.
LEMMA TargetType == \A r \in Requests : Target(r) \in TaskIds
  BY RequestsAssumption, WorkloadAssumption DEF Target

\* What a request leaves in its row is a state, or no row.
LEMMA RowType == \A r \in Requests : RowOf(r) \in Rows
  BY DEF RowOf

\* The states a connection passes through are transaction states.
LEMMA TxnType ==
    ASSUME NEW own \in TxnStates, NEW other \in TxnStates
    PROVE  /\ AfterWrite(own) \in Dirty /\ AfterBusyWrite(own) \in TxnStates
           /\ AfterRead(own) \in TxnStates
           /\ AfterCommit \in TxnStates /\ AfterBusyCommit \in TxnStates
           /\ own \notin Dirty => AfterRead(own) \notin Dirty /\ AfterBusyWrite(own) \notin Dirty
           /\ own \in Dirty => AfterRead(own) \in Dirty /\ AfterBusyWrite(own) \in Dirty
           /\ AfterCommit \notin Dirty /\ AfterBusyCommit \in Dirty
  BY DEF AfterWrite, AfterBusyWrite, AfterRead, AfterCommit, AfterBusyCommit

\* A statement that fails because it would wait too long leaves the
\* connection as clean or as dirty as it was: only a commit that had
\* changes to write can fail.
LEMMA BusyKeepsDirt ==
    ASSUME TypeOK, NEW c \in Connections,
           ReadBusy(c) \/ WriteBusy(c) \/ CommitBusy(c) \/ Read(c)
    PROVE  /\ txn' \in [Connections -> TxnStates]
           /\ \A d \in Connections : txn'[d] \in Dirty <=> txn[d] \in Dirty
<1> DEFINE o == Other(c)
<1>1. /\ txn \in [Connections -> TxnStates] /\ o \in Connections
      /\ txn[c] \in TxnStates /\ txn[o] \in TxnStates
  BY DEF TypeOK, Other
<1>2. CASE ReadBusy(c)
  BY <1>1, <1>2 DEF ReadBusy
<1>3. CASE WriteBusy(c)
  BY <1>1, <1>3, TxnType DEF WriteBusy, SetTxn
<1>4. CASE Read(c)
  BY <1>1, <1>4, TxnType DEF Read, SetTxn
<1>5. CASE CommitBusy(c)
  <2>1. txn[c] \in Dirty
    BY <1>5 DEF CommitBusy, Committable, MayCommit
  <2> QED BY <1>1, <1>5, <2>1, TxnType DEF CommitBusy, SetTxn
<1> QED BY <1>2, <1>3, <1>4, <1>5

\* Whoever fails on a lock gave up on it.
LEMMA BusyGivesUp ==
    ASSUME NEW c \in Connections, ReadBusy(c) \/ WriteBusy(c) \/ CommitBusy(c)
    PROVE  GiveUp(c) /\ ~(Readable(c) /\ Writable(c) /\ Committable(c))
  BY DEF ReadBusy, WriteBusy, CommitBusy

LEMMA GiveUpType ==
    ASSUME TypeOK, NEW c \in Connections, GiveUp(c) PROVE late' \in BOOLEAN /\ (late => late')
  BY DEF GiveUp, TypeOK

\* The first start of the gateway is well typed.
LEMMA TypeInit == Init => TypeOK
<1> SUFFICES ASSUME Init PROVE TypeOK
  OBVIOUS
<1>1. PICK seeded \in [Seeds -> SeedStates] :
        tasks = [t \in TaskIds |-> IF t \in Seeds THEN seeded[t] ELSE Absent]
  BY DEF Init
<1>2. tasks \in [TaskIds -> Rows]
  BY <1>1, WorkloadAssumption
<1>3. restarts \in 0..MaxRestarts
  BY BoundsAssumption DEF Init
<1>4. /\ sessions \in [Contexts -> SessionIds \cup {NoSession}]
      /\ sessionsDisk = sessions /\ cache = sessions
  BY DEF Init
<1>5. /\ pc \in [Requests -> {"idle"} \cup Waiting \cup Ended]
      /\ told \in [Requests -> Rows \cup {"nothing", "deleted"}]
      /\ sid \in [Messages -> SessionIds \cup {NoSession}]
      /\ newSid \in [Messages -> SessionIds \cup {NoSession}]
      /\ saw \in [Cancels \cup Deletes \cup Gets -> Rows]
      /\ txn \in [Connections -> TxnStates]
  BY DEF Init, Rows, TxnStates
<1>6. /\ tasksDisk = tasks /\ requestsTotal \in Nat /\ errorsTotal \in Nat
      /\ deleted = {} /\ expired = {} /\ late \in BOOLEAN
  BY DEF Init
<1> QED BY <1>2, <1>3, <1>4, <1>5, <1>6 DEF TypeOK

\* Every step of a handler, a client, SQLite or the process keeps the types.
LEMMA TypeStep == TypeOK /\ [Next]_vars => TypeOK'
<1> SUFFICES ASSUME TypeOK, [Next]_vars PROVE TypeOK'
  OBVIOUS
<1> USE TargetType, RowType, TxnType, BoundsAssumption, WorkloadAssumption DEF TypeOK
<1>1. ASSUME NEW r \in Requests, Arrive(r) PROVE TypeOK'
  BY <1>1 DEF Arrive, Goto, locals, table, mapping, metrics, history
<1>2. ASSUME NEW m \in Requests, LookUpSession(m) PROVE TypeOK'
  BY <1>2 DEF LookUpSession, Goto, Tell, Read, SetTxn, locals, table, mapping, metrics, history
<1>3. ASSUME NEW m \in Requests, HermesAnswers(m) PROVE TypeOK'
  <2>1. SidsToSave(m) \subseteq SessionIds
    BY <1>3 DEF HermesAnswers, SidsToSave, KnownSid, RanIn
  <2> QED BY <1>3, <2>1 DEF HermesAnswers, Goto, locals, table, mapping, metrics, history
<1>4. ASSUME NEW m \in Requests, HermesFails(m) PROVE TypeOK'
  BY <1>4 DEF HermesFails, Goto, Tell, locals, table, mapping, metrics, history
<1>5. ASSUME NEW m \in Requests, SaveSession(m) PROVE TypeOK'
  BY <1>5 DEF SaveSession, SessionWritten, SetTxn, Goto, locals, table, mapping, metrics, history
<1>6. ASSUME NEW m \in Requests, CommitSession(m) PROVE TypeOK'
  BY <1>6 DEF CommitSession, SessionsCommitted, SetTxn, Goto, locals, table, mapping, metrics, history
<1>7. ASSUME NEW r \in Requests, SaveTask(r) PROVE TypeOK'
  BY <1>7 DEF SaveTask, TaskWritten, SetTxn, Goto, locals, table, mapping, metrics, history
<1>8. ASSUME NEW r \in Requests, CommitTask(r) PROVE TypeOK'
  BY <1>8 DEF CommitTask, TasksCommitted, SetTxn, Goto, Tell, locals, table, mapping, metrics, history
<1>9. ASSUME NEW r \in Requests, Answer(r) PROVE TypeOK'
  BY <1>9 DEF Answer, Goto, Tell, locals, table, mapping, metrics, history
<1>10. ASSUME NEW r \in Requests, CountStream(r) PROVE TypeOK'
  BY <1>10 DEF CountStream, Goto, locals, table, mapping, metrics, history
<1>11. ASSUME NEW r \in Requests, FindTask(r) PROVE TypeOK'
  <2>1. tasks[Target(r)] \in Rows /\ Reported(tasks[Target(r)]) \in Rows
    BY DEF Reported, Reportable
  <2>2. saw' \in [Cancels \cup Deletes \cup Gets -> Rows]
    BY <1>11, <2>1 DEF FindTask
  <2>3. told' \in [Requests -> Rows \cup {"nothing", "deleted"}]
    BY <1>11, <2>1 DEF FindTask, Tell
  <2>4. pc' \in [Requests -> {"idle"} \cup Waiting \cup Ended]
    BY <1>11 DEF FindTask, Goto
  <2>5. txn' \in [Connections -> TxnStates]
    BY <1>11 DEF FindTask, Read, SetTxn
  <2> QED BY <1>11, <2>2, <2>3, <2>4, <2>5
          DEF FindTask, table, mapping, metrics, history
<1>12. ASSUME NEW r \in Requests, StoreFails(r) PROVE TypeOK'
  <2>1. PICK c \in Connections : ReadBusy(c) \/ WriteBusy(c) \/ CommitBusy(c)
    BY <1>12 DEF StoreFails
  <2>2. txn' \in [Connections -> TxnStates] /\ late' \in BOOLEAN
    BY <2>1, BusyKeepsDirt, BusyGivesUp, GiveUpType
  <2> QED BY <1>12, <2>2 DEF StoreFails, Goto, locals, table, mapping, metrics
<1>13. ASSUME NEW m \in Streams, Leave(m) PROVE TypeOK'
  <2>1. m \in Requests /\ newSid[m] \in SessionIds \cup {NoSession}
    OBVIOUS
  <2>2. pc' \in [Requests -> {"idle"} \cup Waiting \cup Ended]
    BY <1>13 DEF Leave, Goto
  <2>3. txn' \in [Connections -> TxnStates]
    <3>1. CASE UNCHANGED txn
      BY <3>1
    <3>2. CASE \E c \in Connections : ReadBusy(c) \/ WriteBusy(c) \/ CommitBusy(c) \/ Read(c)
      BY <3>2, BusyKeepsDirt
    <3>3. CASE SessionWritten(m) \/ TaskWritten(m) \/ SessionsCommitted \/ TasksCommitted
      BY <3>3 DEF SessionWritten, TaskWritten, SessionsCommitted, TasksCommitted, SetTxn
    <3> QED BY <1>13, <3>1, <3>2, <3>3 DEF Leave
  <2>4. /\ tasks' \in [TaskIds -> Rows] /\ tasksDisk' \in [TaskIds -> Rows]
        /\ deleted' \subseteq TaskIds
    BY <1>13, <2>1 DEF Leave, TaskWritten, TasksCommitted, table
  <2>5. /\ sessions' \in [Contexts -> SessionIds \cup {NoSession}]
        /\ sessionsDisk' \in [Contexts -> SessionIds \cup {NoSession}]
    BY <1>13, <2>1 DEF Leave, SessionWritten, SessionsCommitted, mapping
  <2>6. late' \in BOOLEAN
    <3>1. CASE UNCHANGED late
      BY <3>1
    <3>2. CASE \E c \in Connections : ReadBusy(c) \/ WriteBusy(c) \/ CommitBusy(c)
      BY <3>2, BusyGivesUp, GiveUpType
    <3> QED BY <1>13, <3>1, <3>2 DEF Leave
  <2> QED BY <1>13, <2>2, <2>3, <2>4, <2>5, <2>6 DEF Leave, locals, metrics
<1>14. ASSUME Restart PROVE TypeOK'
  BY <1>14 DEF Restart, Reopen, RestoreSessions, CleanUp, locals, table, mapping, metrics, history
<1>15. ASSUME Rest \/ UNCHANGED vars PROVE TypeOK'
  BY <1>15 DEF Rest, vars, locals, table, mapping, metrics, history
<1> QED BY <1>1, <1>2, <1>3, <1>4, <1>5, <1>6, <1>7, <1>8, <1>9, <1>10, <1>11,
           <1>12, <1>13, <1>14, <1>15 DEF Next, Step

\* Type correctness, for every set of requests and every bound.
THEOREM TypeCorrect == Spec => []TypeOK
  BY TypeInit, TypeStep, PTL DEF Spec

-----------------------------------------------------------------------------
\* Before the first request nothing is owed to the file.
LEMMA TaskInvInit == Init => TaskInv
<1> SUFFICES ASSUME Init PROVE TaskInv
  OBVIOUS
<1>1. \A m \in Messages : tasks[m] = Absent
  <2>1. PICK seeded \in [Seeds -> SeedStates] :
          tasks = [t \in TaskIds |-> IF t \in Seeds THEN seeded[t] ELSE Absent]
    BY DEF Init
  <2> QED BY <2>1, RequestsAssumption
<1>2. \A r \in Requests : pc[r] = "idle" /\ told[r] = "nothing"
  BY DEF Init
<1> QED BY <1>1, <1>2 DEF Init, TaskInv, WaitsByKind, CleanConnections, MessageRows,
             CancelsNameSeeds, TellsItsRow, RowsAreSaved, Saved

\* Every step keeps what AnswersAreDurable rests on; the hard cases are those
\* that commit what other coroutines executed, and Restart.
LEMMA TaskInvStep == TypeOK /\ TaskInv /\ [Next]_vars => TaskInv'
<1> SUFFICES ASSUME TypeOK, TaskInv, [Next]_vars PROVE TaskInv'
  OBVIOUS
<1> USE DEF TypeOK, TaskInv, WaitsByKind, CleanConnections, MessageRows,
            CancelsNameSeeds, TellsItsRow, RowsAreSaved, Saved
<1>1. ASSUME NEW r \in Requests, Arrive(r) PROVE TaskInv'
  BY <1>1, RequestsAssumption DEF Arrive, Goto, locals, table, mapping, metrics, history
<1>2. ASSUME NEW m \in Requests, LookUpSession(m) PROVE TaskInv'
  BY <1>2, BusyKeepsDirt DEF LookUpSession, Goto, Tell, locals, table, mapping, metrics, history
<1>3. ASSUME NEW m \in Requests, HermesAnswers(m) PROVE TaskInv'
  BY <1>3 DEF HermesAnswers, Goto, locals, table, mapping, metrics, history
<1>4. ASSUME NEW m \in Requests, HermesFails(m) PROVE TaskInv'
  BY <1>4 DEF HermesFails, Goto, Tell, locals, table, mapping, metrics, history
<1>5. ASSUME NEW m \in Requests, SaveSession(m) PROVE TaskInv'
  BY <1>5, TxnType DEF SaveSession, SessionWritten, SetTxn, Goto, Other, locals, table, mapping, metrics, history
<1>6. ASSUME NEW m \in Requests, CommitSession(m) PROVE TaskInv'
  <2>1. m \in Messages /\ UNCHANGED <<told, tasks, tasksDisk, deleted, sessions>>
        /\ pc' = [pc EXCEPT ![m] = "saveTask"]
    BY <1>6 DEF CommitSession, Goto, table, history
  <2>2. /\ txn' = [txn EXCEPT !["session"] = "auto"]
        /\ sessionsDisk' = IF txn["session"] \in Dirty THEN sessions ELSE sessionsDisk
    BY <1>6 DEF CommitSession, SessionsCommitted, SetTxn, AfterCommit
  <2>3. CleanConnections'
    BY <2>1, <2>2
  <2>4. WaitsByKind'
    BY <2>1, RequestsAssumption
  <2>5. MessageRows' /\ CancelsNameSeeds' /\ TellsItsRow' /\ RowsAreSaved'
    BY <2>1, RequestsAssumption
  <2> QED BY <2>3, <2>4, <2>5
<1>7. ASSUME NEW r \in Requests, SaveTask(r) PROVE TaskInv'
  <2>1. /\ pc[r] = "saveTask" /\ pc' = [pc EXCEPT ![r] = "commitTask"]
        /\ UNCHANGED <<told, tasksDisk, sessions, sessionsDisk>>
        /\ tasks' = [tasks EXCEPT ![Target(r)] = RowOf(r)]
        /\ deleted' = IF r \in Deletes THEN deleted \cup {Target(r)} ELSE deleted
        /\ r \notin Gets /\ Target(r) \in TaskIds
    BY <1>7, TargetType DEF SaveTask, TaskWritten, Goto, mapping
  <2>2. txn'["task"] \in Dirty /\ txn'["session"] = txn["session"]
    BY <1>7, TxnType DEF SaveTask, TaskWritten, SetTxn, Other
  <2>3. WaitsByKind' /\ CleanConnections' /\ CancelsNameSeeds' /\ TellsItsRow'
    BY <2>1, <2>2
  <2>4. MessageRows'
    BY <2>1, RequestsAssumption DEF RowOf
  <2>5. ASSUME NEW q \in Messages \cup Cancels, pc[q] = "commitTask" \/ Saved(q) \/ q = r
        PROVE  tasks'[Target(q)] = RowOf(q) \/ Target(q) \in deleted'
    <3>1. Target(q) \in TaskIds
      BY TargetType
    <3>2. CASE Target(q) # Target(r)
      BY <2>1, <2>5, <3>1, <3>2
    <3>3. CASE Target(q) = Target(r) /\ r \in Deletes
      BY <2>1, <3>3
    <3>4. CASE Target(q) = Target(r) /\ r \in Cancels
      <4>1. Target(r) \in Seeds
        BY <2>1, <3>4
      <4>2. q \in Cancels
        BY <3>4, <4>1, RequestsAssumption DEF Target
      <4> QED BY <2>1, <3>1, <3>4, <4>2, RequestsAssumption DEF RowOf
    <3>5. CASE Target(q) = Target(r) /\ r \in Messages
      <4>1. q \in Messages
        <5>1. CASE q \in Cancels
          <6>1. Target(q) \in Seeds
            BY <2>1, <2>5, <3>5, <5>1, RequestsAssumption DEF RowOf
          <6> QED BY <3>5, <6>1, RequestsAssumption DEF Target
        <5> QED BY <5>1
      <4> QED BY <2>1, <3>1, <3>5, <4>1 DEF RowOf
    <3> QED BY <2>1, <3>2, <3>3, <3>4, <3>5
  <2>6. RowsAreSaved'
    BY <2>1, <2>5
  <2> QED BY <2>3, <2>4, <2>6
<1>8. ASSUME NEW r \in Requests, CommitTask(r) PROVE TaskInv'
  <2>1. /\ pc[r] = "commitTask" /\ r \notin Gets
        /\ UNCHANGED <<tasks, deleted, sessions, sessionsDisk>>
        /\ txn' = [txn EXCEPT !["task"] = "auto"]
        /\ tasksDisk' = IF txn["task"] \in Dirty THEN tasks ELSE tasksDisk
    BY <1>8 DEF CommitTask, TasksCommitted, SetTxn, AfterCommit, mapping, history
  <2>2. tasksDisk' = tasks' /\ CleanConnections'
    BY <2>1
  <2>3. /\ \A q \in Requests \ {r} : pc'[q] = pc[q] /\ told'[q] = told[q]
        /\ pc'[r] \in {"push", "count", "answered"}
        /\ pc'[r] = "push" => r \in Sends \cup Cancels /\ told'[r] = told[r]
        /\ pc'[r] = "count" => r \in Streams /\ told'[r] = "completed"
        /\ pc'[r] = "answered" => r \in Deletes
    BY <1>8 DEF CommitTask, Goto, Tell
  <2>4. WaitsByKind' /\ MessageRows'
    BY <2>1, <2>2, <2>3
  <2>5. CancelsNameSeeds'
    BY <2>1, <2>3, RequestsAssumption
  <2>6. TellsItsRow'
    BY <2>1, <2>3, RequestsAssumption DEF RowOf
  <2>7. \A q \in Messages \cup Cancels :
           q = r \/ Saved(q)' => pc[q] = "commitTask" \/ Saved(q)
    BY <2>1, <2>3
  <2>8. \A q \in Messages \cup Cancels :
           pc'[q] = "commitTask" => pc[q] = "commitTask"
    BY <2>1, <2>3
  <2>9. RowsAreSaved'
    BY <2>1, <2>2, <2>7, <2>8
  <2> QED BY <2>2, <2>4, <2>5, <2>6, <2>9
<1>9. ASSUME NEW r \in Requests, Answer(r) PROVE TaskInv'
  BY <1>9 DEF Answer, Goto, Tell, RowOf, locals, table, mapping, metrics, history
<1>10. ASSUME NEW r \in Requests, CountStream(r) PROVE TaskInv'
  BY <1>10 DEF CountStream, Goto, locals, table, mapping, metrics, history
<1>11. ASSUME NEW r \in Requests, FindTask(r) PROVE TaskInv'
  <2>1. /\ pc[r] = "getTask" /\ r \notin Messages
        /\ UNCHANGED <<tasks, tasksDisk, sessions, sessionsDisk, deleted>>
    BY <1>11 DEF FindTask, table, mapping, history
  <2>2. CleanConnections'
    BY <1>11, <2>1, BusyKeepsDirt DEF FindTask
  <2>3. /\ \A q \in Requests \ {r} : pc'[q] = pc[q] /\ told'[q] = told[q]
        /\ pc'[r] \in {"saveTask", "answered"}
        /\ pc'[r] = "saveTask" => r \in Cancels \cup Deletes /\ told'[r] = told[r]
        /\ pc'[r] = "saveTask" /\ r \in Cancels =>
             tasks[Target(r)] \notin Terminal \cup {Absent}
        /\ pc'[r] = "answered" /\ r \in Cancels => told'[r] = Absent
    BY <1>11, RequestsAssumption DEF FindTask, Goto, Tell
  <2>4. WaitsByKind'
    BY <2>1, <2>3, RequestsAssumption
  <2>5. CancelsNameSeeds'
    <3>1. pc'[r] = "saveTask" /\ r \in Cancels => Target(r) \in Seeds
      BY <2>3, TargetType DEF Terminal
    <3> QED BY <2>1, <2>3, <3>1
  <2>6. TellsItsRow' /\ MessageRows'
    BY <2>1, <2>3
  <2>7. RowsAreSaved'
    BY <2>1, <2>3
  <2> QED BY <2>2, <2>4, <2>5, <2>6, <2>7
<1>12. ASSUME NEW r \in Requests, StoreFails(r) PROVE TaskInv'
  BY <1>12, BusyKeepsDirt DEF StoreFails, Goto, locals, table, mapping, metrics, history
<1>13. ASSUME NEW m \in Streams, Leave(m) PROVE TaskInv'
  <2>1. /\ pc' = [pc EXCEPT ![m] = "gone"] /\ UNCHANGED told
        /\ m \in Messages
    BY <1>13 DEF Leave, Goto
  <2>2. CASE TaskWritten(m) /\ pc[m] = "saveTask" /\ UNCHANGED <<tasksDisk, mapping>>
    <3>1. Target(m) = m /\ RowOf(m) = "completed" /\ m \in TaskIds /\ m \notin Deletes
      BY <2>1, RequestsAssumption DEF Target, RowOf
    <3>2. /\ tasks' = [tasks EXCEPT ![m] = "completed"] /\ UNCHANGED deleted
          /\ txn'["task"] \in Dirty /\ txn'["session"] = txn["session"]
      BY <2>2, <3>1, TxnType DEF TaskWritten, SetTxn, Other
    <3>3. CleanConnections' /\ MessageRows' /\ WaitsByKind' /\ CancelsNameSeeds' /\ TellsItsRow'
      BY <2>1, <2>2, <3>2 DEF mapping
    <3>4. \A q \in Messages \cup Cancels :
             pc[q] = "commitTask" \/ Saved(q) => Target(q) # m \/ q = m
      <4> SUFFICES ASSUME NEW q \in Cancels, pc[q] = "commitTask" \/ Saved(q)
                   PROVE  Target(q) # m
        BY <3>1 DEF Target
      <4>1. Target(q) \in Seeds
        BY RequestsAssumption DEF RowOf
      <4> QED BY <2>1, <4>1, RequestsAssumption
    <3>5. RowsAreSaved'
      BY <2>1, <2>2, <3>1, <3>2, <3>4, TargetType
    <3> QED BY <3>3, <3>5
  <2>3. CASE TasksCommitted /\ UNCHANGED <<tasks, mapping, deleted>>
    <3>1. tasksDisk' = tasks' /\ txn'["session"] = txn["session"]
      BY <2>3 DEF TasksCommitted, SetTxn
    <3> QED BY <2>1, <2>3, <3>1 DEF mapping
  <2>4. CASE SessionWritten(m) /\ UNCHANGED <<table, sessionsDisk, deleted>>
    <3>1. txn'["session"] \in Dirty /\ txn'["task"] = txn["task"]
      BY <2>4, TxnType DEF SessionWritten, SetTxn, Other
    <3> QED BY <2>1, <2>4, <3>1 DEF table
  <2>5. CASE SessionsCommitted /\ UNCHANGED <<table, sessions, deleted>>
    <3>1. sessionsDisk' = sessions' /\ txn'["task"] = txn["task"]
      BY <2>5 DEF SessionsCommitted, SetTxn
    <3> QED BY <2>1, <2>5, <3>1 DEF table
  <2>6. CASE /\ UNCHANGED <<table, mapping, deleted>>
             /\ \A c \in Connections : txn'[c] \in Dirty <=> txn[c] \in Dirty
    BY <2>1, <2>6 DEF table, mapping
  <2> QED BY <1>13, <2>2, <2>3, <2>4, <2>5, <2>6, BusyKeepsDirt DEF Leave, mapping
<1>14. ASSUME Restart PROVE TaskInv'
  BY <1>14 DEF Restart, Reopen, RestoreSessions, CleanUp, locals, table, mapping, metrics, history
<1>15. ASSUME Rest \/ UNCHANGED vars PROVE TaskInv'
  BY <1>15 DEF Rest, vars, locals, table, mapping, metrics, history
<1> QED BY <1>1, <1>2, <1>3, <1>4, <1>5, <1>6, <1>7, <1>8, <1>9, <1>10, <1>11,
           <1>12, <1>13, <1>14, <1>15 DEF Next, Step
\* What a client was told survives every crash: on_message_send, the stream
\* and on_cancel_task answer after the commit of their row, whoever issued it.
THEOREM AnswersDurable == Spec => []AnswersAreDurable
<1>1. TypeOK /\ TaskInv => AnswersAreDurable
  BY DEF TaskInv, RowsAreSaved, TellsItsRow, Saved, AnswersAreDurable
<1> QED BY <1>1, TypeInit, TypeStep, TaskInvInit, TaskInvStep, PTL DEF Spec

-----------------------------------------------------------------------------
\* Before the first request no message needs a session mapping.
LEMMA SessionsInit == Init => SessionsAreSaved
<1> SUFFICES ASSUME Init PROVE SessionsAreSaved
  OBVIOUS
<1>1. \A m \in Messages : tasks[m] = Absent /\ tasksDisk[m] = Absent
  <2>1. PICK seeded \in [Seeds -> SeedStates] :
          tasks = [t \in TaskIds |-> IF t \in Seeds THEN seeded[t] ELSE Absent]
    BY DEF Init
  <2> QED BY <2>1, RequestsAssumption DEF Init
<1> QED BY <1>1 DEF Init, SessionsAreSaved

\* The mapping of a context never goes away but by the start-up cleanup.
LEMMA SessionsStep ==
    TypeOK /\ TypeOK' /\ TaskInv /\ SessionsAreSaved /\ [Next]_vars => SessionsAreSaved'
<1> SUFFICES ASSUME TypeOK, TypeOK', TaskInv, SessionsAreSaved, [Next]_vars
             PROVE  SessionsAreSaved'
  OBVIOUS
<1> USE WorkloadAssumption DEF TypeOK, SessionsAreSaved
<1>1. ASSUME NEW r \in Requests, Arrive(r) PROVE SessionsAreSaved'
  BY <1>1 DEF Arrive, Goto, locals, table, mapping, history
<1>2. ASSUME NEW m \in Requests, LookUpSession(m) PROVE SessionsAreSaved'
  BY <1>2 DEF LookUpSession, Goto, table, mapping, history
<1>3. ASSUME NEW m \in Requests, HermesAnswers(m) PROVE SessionsAreSaved'
  <2>1. SidsToSave(m) \subseteq SessionIds
    BY <1>3 DEF HermesAnswers, SidsToSave, KnownSid, RanIn
  <2> QED BY <1>3, <2>1, BoundsAssumption DEF HermesAnswers, Goto, table, mapping, history
<1>4. ASSUME NEW m \in Requests, HermesFails(m) PROVE SessionsAreSaved'
  BY <1>4 DEF HermesFails, Goto, locals, table, mapping, history
<1>5. ASSUME NEW m \in Requests, SaveSession(m) PROVE SessionsAreSaved'
  BY <1>5 DEF SaveSession, SessionWritten, Goto, locals, table, metrics, history
<1>6. ASSUME NEW m \in Requests, CommitSession(m) PROVE SessionsAreSaved'
  <2>1. sessionsDisk' = sessions' /\ UNCHANGED sessions
    BY <1>6 DEF CommitSession, SessionsCommitted, TaskInv, CleanConnections
  <2> QED BY <1>6, <2>1 DEF CommitSession, Goto, locals, table, history
<1>7. ASSUME NEW r \in Requests, SaveTask(r) PROVE SessionsAreSaved'
  <2>1. /\ pc[r] = "saveTask" /\ pc' = [pc EXCEPT ![r] = "commitTask"]
        /\ UNCHANGED <<newSid, tasksDisk, sessions, sessionsDisk, expired>>
        /\ tasks' = [tasks EXCEPT ![Target(r)] = RowOf(r)]
    BY <1>7 DEF SaveTask, TaskWritten, Goto, locals, mapping
  <2>2. ASSUME NEW m \in Messages, tasks'[m] = "completed"
        PROVE  tasks[m] = "completed" \/ pc[m] = "saveTask"
    BY <2>1, <2>2, TargetType, RequestsAssumption DEF RowOf, Target
  <2> QED BY <2>1, <2>2
<1>8. ASSUME NEW r \in Requests, CommitTask(r) PROVE SessionsAreSaved'
  <2>1. /\ \A q \in Requests \ {r} : pc'[q] = pc[q]
        /\ pc[r] = "commitTask" /\ pc'[r] \in {"push", "count", "answered"}
        /\ UNCHANGED <<newSid, tasks, sessions, sessionsDisk, expired>>
        /\ \A t \in TaskIds : tasksDisk'[t] \in {tasks[t], tasksDisk[t]}
    BY <1>8 DEF CommitTask, TasksCommitted, Goto, locals, mapping, history
  <2> QED BY <2>1
<1>9. ASSUME NEW r \in Requests, Answer(r) PROVE SessionsAreSaved'
  BY <1>9 DEF Answer, Goto, locals, table, mapping, history
<1>10. ASSUME NEW r \in Requests, CountStream(r) PROVE SessionsAreSaved'
  BY <1>10 DEF CountStream, Goto, locals, table, mapping, history
<1>11. ASSUME NEW r \in Requests, FindTask(r) PROVE SessionsAreSaved'
  <2>1. /\ \A q \in Requests \ {r} : pc'[q] = pc[q]
        /\ pc'[r] \in {"saveTask", "answered"} /\ r \notin Messages
        /\ UNCHANGED <<newSid, tasks, tasksDisk, sessions, sessionsDisk, expired>>
    BY <1>11 DEF FindTask, Goto, TaskInv, WaitsByKind, table, mapping, history
  <2> QED BY <2>1
<1>12. ASSUME NEW r \in Requests, StoreFails(r) PROVE SessionsAreSaved'
  BY <1>12 DEF StoreFails, Goto, locals, table, mapping, history
<1>13. ASSUME NEW m \in Streams, Leave(m) PROVE SessionsAreSaved'
  <2>1. /\ pc' = [pc EXCEPT ![m] = "gone"]
        /\ UNCHANGED <<newSid, expired>> /\ m \in Messages
    BY <1>13 DEF Leave, Goto, locals
  <2>2. CASE pc[m] = "saveTask" /\ TaskWritten(m) /\ UNCHANGED <<tasksDisk, mapping>>
    <3>1. tasks' = [tasks EXCEPT ![m] = "completed"]
      BY <2>1, <2>2 DEF TaskWritten, Target, RowOf
    <3> QED BY <2>1, <2>2, <3>1 DEF mapping
  <2>3. CASE TasksCommitted /\ UNCHANGED <<tasks, mapping, deleted>>
    BY <2>1, <2>3 DEF TasksCommitted, mapping
  <2>4. CASE pc[m] = "saveSession" /\ SessionWritten(m) /\ UNCHANGED <<table, sessionsDisk>>
    BY <2>1, <2>4 DEF SessionWritten, table
  <2>5. CASE SessionsCommitted /\ UNCHANGED <<table, sessions, deleted>>
    BY <2>1, <2>5 DEF SessionsCommitted, table
  <2>6. CASE UNCHANGED <<table, mapping, deleted>>
    BY <2>1, <2>6 DEF table, mapping
  <2> QED BY <1>13, <2>2, <2>3, <2>4, <2>5, <2>6 DEF Leave
<1>14. ASSUME Restart PROVE SessionsAreSaved'
  BY <1>14 DEF Restart, Reopen, RestoreSessions, CleanUp, locals
<1>15. ASSUME Rest \/ UNCHANGED vars PROVE SessionsAreSaved'
  BY <1>15 DEF Rest, vars, locals, table, mapping, history
<1> QED BY <1>1, <1>2, <1>3, <1>4, <1>5, <1>6, <1>7, <1>8, <1>9, <1>10, <1>11,
           <1>12, <1>13, <1>14, <1>15 DEF Next, Step

\* The inductive invariant holds of every reachable state.
THEOREM InductiveInvariant == Spec => []IInv
  BY TypeInit, TypeStep, TaskInvInit, TaskInvStep, SessionsInit, SessionsStep, PTL
     DEF Spec, IInv

\* A completed task that a restart finds has the session of its conversation,
\* unless the cleanup judged it stale.
THEOREM DurableSessions == Spec => []DurableTasksHaveSessions
<1>1. IInv => DurableTasksHaveSessions
  BY DEF IInv, SessionsAreSaved, DurableTasksHaveSessions
<1> QED BY <1>1, InductiveInvariant, PTL

-----------------------------------------------------------------------------
(***************************************************************************)
(* The history: how the rows of the file may change, what a DELETE, a      *)
(* counter and a later turn may rely on, and that only an abandoned stream *)
(* orphans a transaction.  All of it rests on the invariant above.         *)
(***************************************************************************)
\* The states the transition table says how to cancel.
Cancelable == {s \in States : <<s, "canceled">> \in Transitions}

\* The rows of an earlier process are in states the table knows.
SeedsAreTabled == SeedStates \subseteq Cancelable \cup Terminal

\* A seed's row leaves a state the table can cancel for "canceled" only, and
\* a cancel under way has found such a state; deletes take any row away.
SeedRows ==
    \A t \in Seeds :
        /\ {tasks[t], tasksDisk[t]} \subseteq Cancelable \cup Terminal \cup {Absent}
        /\ \/ tasks[t] \in {tasksDisk[t], Absent}
           \/ tasks[t] = "canceled" /\ tasksDisk[t] \in Cancelable \cup {Absent}
        /\ \A c \in Cancels :
             Target(c) = t /\ pc[c] \in {"saveTask", "commitTask"} =>
               {tasks[t], tasksDisk[t]} \subseteq Cancelable \cup {"canceled", Absent}

\* A message that has not written its row yet.
Early == {"idle", "lookup", "hermes", "saveSession", "commitSession", "saveTask"}

\* A delete of d's row is under way or done.
Deleting(d) == pc[d] \in {"saveTask", "commitTask"} \/ told[d] = "deleted"

\* A cancel has read d's row, and may write it back.
MayComeBack(d) == \E c \in Cancels : Target(c) = Target(d) /\ saw[c] # Absent

\* A message's row is there, or found by a delete, only after its handler
\* wrote it, which it does once; a cancel writes a row it saw.
DeletesHold ==
    /\ \A m \in Messages :
         \/ Absent # tasks[m] \/ Absent # tasksDisk[m]
         \/ \E d \in Deletes : Target(d) = m /\ Deleting(d)
         => pc[m] \notin Early
    /\ \A c \in Cancels :
         /\ pc[c] \in {"idle", "getTask"} => saw[c] = Absent
         /\ pc[c] \in {"saveTask", "commitTask"} => saw[c] # Absent
    /\ \A d \in Deletes :
         /\ pc[d] = "commitTask" \/ told[d] = "deleted" =>
              tasks[Target(d)] = Absent \/ MayComeBack(d)
         /\ told[d] = "deleted" =>
              tasksDisk[Target(d)] = Absent \/ MayComeBack(d)

\* The messages that may have been counted since the process started.
Counted ==
    {m \in Sends : pc[m] = "push" \/ told[m] = "completed"}
      \cup {m \in Streams : told[m] = "completed" /\ pc[m] # "count"}

CountsHold ==
    /\ \A m \in Messages :
         /\ told[m] = "completed" => pc[m] \in {"count", "answered", "gone", "lost"}
         /\ pc[m] = "count" => told[m] = "completed" /\ m \in Streams
    /\ requestsTotal <= Cardinality(Counted)

\* A failure is counted in the step that tells it.
FailuresHold ==
    /\ \A m \in Messages : told[m] = "failed" => pc[m] = "answered"
    /\ ErrorsAreCounted

-----------------------------------------------------------------------------
\* Requests r goes on, others stay where they are.
Alone(r) == \A q \in Requests \ {r} : pc'[q] = pc[q] /\ told'[q] = told[q]

\* How a request moves, and what its client hears, in each of its steps.
LEMMA Moves ==
    ASSUME TypeOK, NEW r \in Requests
    PROVE  /\ Arrive(r) \/ Step(r) => Alone(r)
           /\ Arrive(r) =>
                /\ pc[r] = "idle" /\ told'[r] = told[r]
                /\ pc'[r] = IF r \in Messages THEN "lookup" ELSE "getTask"
           /\ LookUpSession(r) =>
                /\ pc[r] = "lookup" /\ pc'[r] = "hermes" /\ r \in Messages
                /\ told'[r] \in {told[r], "working"}
           /\ HermesAnswers(r) =>
                pc[r] = "hermes" /\ pc'[r] = "saveSession" /\ told'[r] = told[r] /\ r \in Messages
           /\ HermesFails(r) =>
                /\ pc[r] = "hermes"
                /\ \/ r \in Sends /\ pc'[r] = "error" /\ told'[r] = told[r]
                   \/ r \in Streams /\ pc'[r] = "answered" /\ told'[r] = "failed"
           /\ SaveSession(r) =>
                pc[r] = "saveSession" /\ pc'[r] = "commitSession" /\ told'[r] = told[r]
           /\ CommitSession(r) =>
                pc[r] = "commitSession" /\ pc'[r] = "saveTask" /\ told'[r] = told[r]
           /\ SaveTask(r) =>
                pc[r] = "saveTask" /\ pc'[r] = "commitTask" /\ told'[r] = told[r]
           /\ CommitTask(r) =>
                /\ pc[r] = "commitTask"
                /\ \/ r \in Sends \cup Cancels /\ pc'[r] = "push" /\ told'[r] = told[r]
                   \/ r \in Streams /\ pc'[r] = "count" /\ told'[r] = "completed"
                   \/ r \in Deletes /\ pc'[r] = "answered" /\ told'[r] = "deleted"
           /\ Answer(r) => pc[r] = "push" /\ pc'[r] = "answered" /\ told'[r] = RowOf(r)
           /\ CountStream(r) => pc[r] = "count" /\ pc'[r] = "answered" /\ told'[r] = told[r]
           /\ FindTask(r) =>
                /\ pc[r] = "getTask"
                /\ \/ pc'[r] = "saveTask" /\ told'[r] = told[r] /\ r \in Cancels \cup Deletes
                   \/ pc'[r] = "answered" /\ told'[r] \in Rows
           /\ StoreFails(r) =>
                /\ pc[r] \in {"lookup", "getTask", "saveSession", "saveTask",
                              "commitSession", "commitTask"}
                /\ pc'[r] = "error" /\ told'[r] = told[r]
<1> USE DEF TypeOK, Goto, Tell, Alone
<1>1. Arrive(r) => Alone(r) /\ pc[r] = "idle" /\ told'[r] = told[r]
                     /\ pc'[r] = IF r \in Messages THEN "lookup" ELSE "getTask"
  BY DEF Arrive
<1>2. LookUpSession(r) => /\ Alone(r) /\ pc[r] = "lookup" /\ pc'[r] = "hermes"
                          /\ r \in Messages /\ told'[r] \in {told[r], "working"}
  BY DEF LookUpSession
<1>3. HermesAnswers(r) => /\ Alone(r) /\ pc[r] = "hermes" /\ pc'[r] = "saveSession"
                          /\ r \in Messages /\ told'[r] = told[r]
  BY DEF HermesAnswers
<1>4. HermesFails(r) => /\ Alone(r) /\ pc[r] = "hermes"
                        /\ \/ r \in Sends /\ pc'[r] = "error" /\ told'[r] = told[r]
                           \/ r \in Streams /\ pc'[r] = "answered" /\ told'[r] = "failed"
  BY DEF HermesFails
<1>5. SaveSession(r) => /\ Alone(r) /\ pc[r] = "saveSession" /\ pc'[r] = "commitSession"
                        /\ told'[r] = told[r]
  BY DEF SaveSession
<1>6. CommitSession(r) => /\ Alone(r) /\ pc[r] = "commitSession" /\ pc'[r] = "saveTask"
                          /\ told'[r] = told[r]
  BY DEF CommitSession
<1>7. SaveTask(r) => /\ Alone(r) /\ pc[r] = "saveTask" /\ pc'[r] = "commitTask"
                     /\ told'[r] = told[r]
  BY DEF SaveTask
<1>8. CommitTask(r) =>
        /\ Alone(r) /\ pc[r] = "commitTask"
        /\ \/ r \in Sends \cup Cancels /\ pc'[r] = "push" /\ told'[r] = told[r]
           \/ r \in Streams /\ pc'[r] = "count" /\ told'[r] = "completed"
           \/ r \in Deletes /\ pc'[r] = "answered" /\ told'[r] = "deleted"
  BY DEF CommitTask
<1>9. Answer(r) => Alone(r) /\ pc[r] = "push" /\ pc'[r] = "answered" /\ told'[r] = RowOf(r)
  BY DEF Answer
<1>10. CountStream(r) => Alone(r) /\ pc[r] = "count" /\ pc'[r] = "answered" /\ told'[r] = told[r]
  BY DEF CountStream
<1>11. FindTask(r) =>
         /\ Alone(r) /\ pc[r] = "getTask"
         /\ \/ pc'[r] = "saveTask" /\ told'[r] = told[r] /\ r \in Cancels \cup Deletes
            \/ pc'[r] = "answered" /\ told'[r] \in Rows
  <2>1. Reported(tasks[Target(r)]) \in Rows
    BY TargetType DEF Reported, Reportable
  <2> QED BY <2>1 DEF FindTask
<1>12. StoreFails(r) =>
         /\ Alone(r)
         /\ pc[r] \in {"lookup", "getTask", "saveSession", "saveTask",
                       "commitSession", "commitTask"}
         /\ pc'[r] = "error" /\ told'[r] = told[r]
  BY DEF StoreFails
<1> QED BY <1>1, <1>2, <1>3, <1>4, <1>5, <1>6, <1>7, <1>8, <1>9, <1>10, <1>11, <1>12
        DEF Step

\* What a client that leaves, or a restart, does to the requests.
LEMMA Stops ==
    ASSUME TypeOK
    PROVE  /\ \A m \in Streams : Leave(m) =>
                /\ pc[m] \in Waiting /\ pc' = [pc EXCEPT ![m] = "gone"] /\ told' = told
           /\ Restart =>
                /\ pc' = [r \in Requests |-> IF pc[r] \in Waiting THEN "lost" ELSE pc[r]]
                /\ told' = told
           /\ Rest \/ UNCHANGED vars => pc' = pc /\ told' = told
  BY DEF Leave, Goto, Restart, Rest, vars, Waiting

-----------------------------------------------------------------------------
\* A client that was told "completed" has its context's session in the file.
ToldSessions ==
    \A m \in Messages :
        told[m] = "completed" =>
            sessionsDisk[ContextOf[m]] # NoSession \/ ContextOf[m] \in expired

\* Only the start-up cleanup removes a mapping, and it is remembered.
LEMMA MappingsStay ==
    ASSUME IInv, [Next]_vars,
           NEW c \in Contexts, sessionsDisk[c] # NoSession \/ c \in expired
    PROVE  sessionsDisk'[c] # NoSession \/ c \in expired'
<1>1. /\ sessionsDisk \in [Contexts -> SessionIds \cup {NoSession}]
      /\ sessionsDisk[c] # NoSession => sessions[c] # NoSession
  BY DEF IInv, TypeOK, SessionsAreSaved
<1>2. CASE Restart
  BY <1>1, <1>2 DEF Restart, CleanUp
<1>3. CASE expired' = expired /\ (SessionsCommitted \/ sessionsDisk' = sessionsDisk)
  BY <1>1, <1>3 DEF SessionsCommitted
<1>4. ASSUME NEW r \in Requests, Arrive(r) \/ Step(r)
      PROVE  expired' = expired /\ (SessionsCommitted \/ sessionsDisk' = sessionsDisk)
  BY <1>4 DEF Arrive, Step, LookUpSession, HermesAnswers, HermesFails, SaveSession,
     CommitSession, SaveTask, CommitTask, Answer, CountStream, FindTask, StoreFails,
     mapping, history
<1>5. ASSUME NEW m \in Streams, Leave(m)
      PROVE  expired' = expired /\ (SessionsCommitted \/ sessionsDisk' = sessionsDisk)
  BY <1>5 DEF Leave, mapping
<1>6. Rest \/ UNCHANGED vars => expired' = expired /\ sessionsDisk' = sessionsDisk
  BY DEF Rest, vars, mapping, history
<1> QED BY <1>2, <1>3, <1>4, <1>5, <1>6 DEF Next

\* A step tells a client "completed" in or after the commit of its task.
LEMMA TellsCompleted ==
    ASSUME IInv, [Next]_vars, NEW m \in Messages,
           told'[m] = "completed", told[m] # "completed"
    PROVE  pc[m] \in {"commitTask", "push"}
<1>1. TypeOK /\ m \in Requests
  BY DEF IInv
<1>2. ASSUME NEW r \in Requests, Arrive(r) \/ Step(r) PROVE pc[m] \in {"commitTask", "push"}
  <2>1. r = m
    BY <1>1, <1>2, Moves DEF Alone
  <2>2. pc[m] # "getTask"
    BY DEF IInv, TaskInv, WaitsByKind
  <2> QED BY <1>1, <1>2, <2>1, <2>2, Moves DEF Step
<1> QED BY <1>1, <1>2, Stops DEF Next

\* The invariant LaterTurnsContinue needs of the messages told so.
LEMMA Told == Spec => []ToldSessions
<1>1. Init => ToldSessions
  BY DEF Init, ToldSessions
<1>2. ASSUME IInv, ToldSessions, [Next]_vars PROVE ToldSessions'
  <2> SUFFICES ASSUME NEW m \in Messages, told'[m] = "completed"
               PROVE  sessionsDisk'[ContextOf[m]] # NoSession \/ ContextOf[m] \in expired'
    BY DEF ToldSessions
  <2>1. ContextOf[m] \in Contexts
    BY WorkloadAssumption
  <2>2. sessionsDisk[ContextOf[m]] # NoSession \/ ContextOf[m] \in expired
    BY <1>2, TellsCompleted DEF ToldSessions, IInv, SessionsAreSaved
  <2> QED BY <1>2, <2>1, <2>2, MappingsStay
<1> QED BY <1>1, <1>2, InductiveInvariant, PTL DEF Spec

\* Nothing is known of a message's session before its lookup, nor saved before
\* Hermes answered, and who was told "completed" had a session to save.
SidsComeLate ==
    \A m \in Messages :
        /\ pc[m] \in {"idle", "lookup"} => sid[m] = NoSession
        /\ pc[m] \in {"idle", "lookup", "hermes"} => newSid[m] = NoSession
        /\ \/ pc[m] \in {"saveSession", "commitSession", "saveTask", "commitTask", "push", "count"}
           \/ told[m] = "completed"
           => newSid[m] # NoSession

\* The ids that context c's first turns gave it.
Given(c) == {NoSession} \cup {newSid[f] : f \in Begun(c)}

\* Every session id in use was given by a first turn of its context.
SidsAreGiven ==
    /\ \A c \in Contexts : sessions[c] \in Given(c) /\ sessionsDisk[c] \in Given(c)
    /\ \A m \in Messages : sid[m] \in Given(ContextOf[m]) /\ newSid[m] \in Given(ContextOf[m])

SidsHold == SidsComeLate /\ SidsAreGiven

\* Who touches the session ids: a lookup and an answer those of their message.
LEMMA SidMoves ==
    ASSUME TypeOK, [Next]_vars
    PROVE  \/ UNCHANGED <<sid, newSid>>
           \/ \E m \in Messages :
                /\ LookUpSession(m) /\ newSid' = newSid
                /\ sid' = [sid EXCEPT ![m] = sessions[ContextOf[m]]]
           \/ \E m \in Messages :
                /\ HermesAnswers(m) /\ sid' = sid
                /\ \E s \in SidsToSave(m) : newSid' = [newSid EXCEPT ![m] = s]
<1>1. ASSUME NEW r \in Requests, Arrive(r) \/ Step(r), ~LookUpSession(r), ~HermesAnswers(r)
      PROVE  UNCHANGED <<sid, newSid>>
  BY <1>1 DEF Arrive, Step, HermesFails, SaveSession, CommitSession, SaveTask, CommitTask,
     Answer, CountStream, FindTask, StoreFails, locals
<1>2. (\E m \in Streams : Leave(m)) \/ Restart \/ Rest \/ UNCHANGED vars
        => UNCHANGED <<sid, newSid>>
  BY DEF Leave, Restart, Rest, vars, locals
<1>3. ASSUME NEW r \in Requests, LookUpSession(r)
      PROVE  /\ r \in Messages /\ newSid' = newSid
             /\ sid' = [sid EXCEPT ![r] = sessions[ContextOf[r]]]
  BY <1>3 DEF LookUpSession
<1>4. ASSUME NEW r \in Requests, HermesAnswers(r)
      PROVE  /\ r \in Messages /\ sid' = sid
             /\ \E s \in SidsToSave(r) : newSid' = [newSid EXCEPT ![r] = s]
  BY <1>4 DEF HermesAnswers
<1> QED BY <1>1, <1>2, <1>3, <1>4 DEF Next

\* Who began a context stays so, with the id it gave.
LEMMA GivenStays ==
    ASSUME TypeOK, SidsComeLate, [Next]_vars, NEW c \in Contexts
    PROVE  Given(c) \subseteq Given(c)'
<1>1. ASSUME NEW f \in Begun(c) PROVE f \in Begun(c)' /\ newSid'[f] = newSid[f]
  <2>1. f \in Messages /\ newSid[f] # NoSession /\ sid[f] = NoSession /\ ContextOf[f] = c
    BY <1>1 DEF Begun
  <2>2. ~LookUpSession(f) /\ ~HermesAnswers(f)
    BY <2>1 DEF SidsComeLate, LookUpSession, HermesAnswers
  <2>3. sid'[f] = sid[f] /\ newSid'[f] = newSid[f]
    BY <2>1, <2>2, SidMoves DEF TypeOK
  <2> QED BY <2>1, <2>3 DEF Begun
<1> QED BY <1>1 DEF Given

\* How a message moves up to the point where its session is to be saved, and
\* where it goes from there.
LEMMA EarlyMoves ==
    ASSUME TypeOK, WaitsByKind, [Next]_vars, NEW m \in Messages
    PROVE  /\ pc'[m] = "idle" => pc[m] = "idle"
           /\ pc'[m] = "lookup" => pc[m] \in {"idle", "lookup"}
           /\ pc'[m] = "hermes" => pc[m] = "hermes" \/ LookUpSession(m)
           /\ pc'[m] = "saveSession" => pc[m] = "saveSession" \/ HermesAnswers(m)
           /\ pc'[m] \in {"commitSession", "saveTask", "commitTask", "push", "count"}
                => pc[m] \in {"saveSession", "commitSession", "saveTask", "commitTask", "push", "count"}
<1>1. m \in Requests /\ pc[m] # "getTask"
  BY DEF WaitsByKind
<1>2. ASSUME NEW r \in Requests, Arrive(r) \/ Step(r), r # m PROVE pc'[m] = pc[m]
  BY <1>1, <1>2, Moves DEF Alone
<1>3. ASSUME (\E n \in Streams : Leave(n)) \/ Restart \/ Rest \/ UNCHANGED vars
      PROVE  pc'[m] \in {pc[m], "gone", "lost"}
  BY <1>1, <1>3, Stops DEF TypeOK
<1>4. CASE Arrive(m)
  BY <1>1, <1>4, Moves
<1>5. CASE Step(m)
  BY <1>1, <1>5, Moves DEF Step
<1> QED BY <1>2, <1>3, <1>4, <1>5 DEF Next

LEMMA ComeLateStep == IInv /\ SidsHold /\ [Next]_vars => SidsComeLate'
<1> SUFFICES ASSUME IInv, SidsHold, [Next]_vars, NEW m \in Messages
             PROVE  /\ pc'[m] \in {"idle", "lookup"} => sid'[m] = NoSession
                    /\ pc'[m] \in {"idle", "lookup", "hermes"} => newSid'[m] = NoSession
                    /\ \/ pc'[m] \in {"saveSession", "commitSession", "saveTask",
                                       "commitTask", "push", "count"}
                       \/ told'[m] = "completed"
                       => newSid'[m] # NoSession
  BY DEF SidsComeLate
<1> USE DEF SidsHold, SidsComeLate
<1>1. TypeOK /\ WaitsByKind /\ m \in Requests
  BY DEF IInv, TaskInv
<1>2. told'[m] = "completed" =>
        told[m] = "completed" \/ pc[m] \in {"commitTask", "push"}
  BY TellsCompleted
<1>3. LookUpSession(m) => pc[m] = "lookup" /\ pc'[m] = "hermes"
  BY <1>1, Moves DEF Step
<1>4. HermesAnswers(m) => pc[m] = "hermes" /\ pc'[m] = "saveSession"
  BY <1>1, Moves DEF Step
<1>5. HermesAnswers(m) => newSid'[m] # NoSession
  <2> SUFFICES ASSUME HermesAnswers(m) PROVE newSid'[m] # NoSession
    OBVIOUS
  <2>1. PICK s \in SidsToSave(m) : newSid' = [newSid EXCEPT ![m] = s]
    BY DEF HermesAnswers
  <2>2. s # NoSession
    BY BoundsAssumption DEF SidsToSave, KnownSid, RanIn, SessionIds
  <2> QED BY <1>1, <2>1, <2>2 DEF TypeOK
<1>6. ~LookUpSession(m) => sid'[m] = sid[m]
  BY <1>1, SidMoves DEF TypeOK
<1>7. ~HermesAnswers(m) => newSid'[m] = newSid[m]
  BY <1>1, SidMoves DEF TypeOK
<1> QED BY <1>1, <1>2, <1>3, <1>4, <1>5, <1>6, <1>7, EarlyMoves

\* What the session table shows is what it showed, or what a message that
\* knows its session saves; the file gets what the connection shows.
LEMMA SessionMoves ==
    ASSUME TypeOK, [Next]_vars, NEW c \in Contexts
    PROVE  /\ \/ sessions'[c] \in {sessions[c], sessionsDisk[c], NoSession}
              \/ \E m \in Messages : ContextOf[m] = c /\ sessions'[c] = newSid[m]
           /\ sessionsDisk'[c] \in {sessions[c], sessionsDisk[c], NoSession}
<1> USE WorkloadAssumption DEF TypeOK
<1>1. ASSUME NEW m \in Messages, SessionWritten(m), sessionsDisk' = sessionsDisk
      PROVE  /\ \/ sessions'[c] = sessions[c]
                \/ ContextOf[m] = c /\ sessions'[c] = newSid[m]
             /\ sessionsDisk'[c] = sessionsDisk[c]
  BY <1>1 DEF SessionWritten
<1>2. CASE SessionsCommitted /\ sessions' = sessions
  BY <1>2 DEF SessionsCommitted
<1>3. CASE UNCHANGED mapping
  BY <1>3 DEF mapping
<1>4. CASE Restart
  BY <1>4 DEF Restart, CleanUp
<1>5. ASSUME NEW r \in Requests, Arrive(r) \/ Step(r)
      PROVE  \/ UNCHANGED mapping
             \/ SessionsCommitted /\ sessions' = sessions
             \/ r \in Messages /\ SessionWritten(r) /\ sessionsDisk' = sessionsDisk
  BY <1>5 DEF Arrive, Step, LookUpSession, HermesAnswers, HermesFails, SaveSession,
     CommitSession, SaveTask, CommitTask, Answer, CountStream, FindTask, StoreFails, mapping
<1>6. ASSUME NEW m \in Streams, Leave(m)
      PROVE  \/ UNCHANGED mapping
             \/ SessionsCommitted /\ sessions' = sessions
             \/ SessionWritten(m) /\ sessionsDisk' = sessionsDisk
  BY <1>6 DEF Leave, mapping
<1>7. Rest \/ UNCHANGED vars => UNCHANGED mapping
  BY DEF Rest, vars
<1> QED BY <1>1, <1>2, <1>3, <1>4, <1>5, <1>6, <1>7 DEF Next

LEMMA GivenStep == IInv /\ SidsHold /\ [Next]_vars => SidsAreGiven'
<1> SUFFICES ASSUME IInv, SidsHold, [Next]_vars PROVE SidsAreGiven'
  OBVIOUS
<1>1. TypeOK /\ SidsComeLate /\ SidsAreGiven
  BY DEF IInv, SidsHold
<1>2. ASSUME NEW c \in Contexts
      PROVE  Given(c) \subseteq Given(c)' /\ NoSession \in Given(c)
  BY <1>1, GivenStays DEF Given
<1>3. \A m \in Messages : ContextOf[m] \in Contexts
  BY WorkloadAssumption
<1>4. ASSUME NEW c \in Contexts PROVE sessions'[c] \in Given(c)' /\ sessionsDisk'[c] \in Given(c)'
  BY <1>1, <1>2, SessionMoves DEF SidsAreGiven
<1>5. ASSUME NEW m \in Messages PROVE sid'[m] \in Given(ContextOf[m])'
  <2>1. sid'[m] \in {sid[m], sessions[ContextOf[m]]}
    BY <1>1, SidMoves DEF TypeOK
  <2> QED BY <1>1, <1>2, <1>3, <2>1 DEF SidsAreGiven
<1>6. ASSUME NEW m \in Messages PROVE newSid'[m] \in Given(ContextOf[m])'
  <2>1. CASE ~HermesAnswers(m)
    <3>1. newSid'[m] = newSid[m]
      BY <1>1, <2>1, SidMoves DEF TypeOK
    <3> QED BY <1>1, <1>2, <1>3, <3>1 DEF SidsAreGiven
  <2>2. CASE HermesAnswers(m)
    <3>1. PICK s \in SidsToSave(m) : newSid' = [newSid EXCEPT ![m] = s]
      BY <2>2 DEF HermesAnswers
    <3>2. newSid'[m] = s /\ sid'[m] = sid[m]
      BY <1>1, <2>2, <3>1 DEF TypeOK, HermesAnswers
    <3>3. CASE sid[m] # NoSession
      <4>1. s = sid[m]
        BY <3>3 DEF SidsToSave, KnownSid, RanIn
      <4> QED BY <1>5, <3>2, <4>1
    <3>4. CASE sid[m] = NoSession
      <4>1. m \in Begun(ContextOf[m])' \/ newSid'[m] = NoSession
        BY <3>2, <3>4 DEF Begun
      <4> QED BY <4>1 DEF Given
    <3> QED BY <3>3, <3>4
  <2> QED BY <2>1, <2>2
<1> QED BY <1>4, <1>5, <1>6 DEF SidsAreGiven

LEMMA Sids == Spec => []SidsHold
<1>1. ASSUME Init PROVE SidsHold
  <2>1. SidsComeLate
    BY <1>1 DEF Init, SidsComeLate
  <2>2. SidsAreGiven
    BY <1>1, WorkloadAssumption DEF Init, SidsAreGiven, Given
  <2> QED BY <2>1, <2>2 DEF SidsHold
<1>2. IInv /\ SidsHold /\ [Next]_vars => SidsHold'
  BY ComeLateStep, GivenStep DEF SidsHold
<1> QED BY <1>1, <1>2, InductiveInvariant, PTL DEF Spec

\* A later turn sends an id that a first turn of its context saved: the one
\* that the turn before it ran in, if there was one first turn and it saved
\* the session Hermes ran it in.
THEOREM LaterTurns == Spec => LaterTurnsContinue
<1>1. ASSUME IInv, ToldSessions, SidsHold, [Next]_vars
      PROVE  [\A m, n \in Messages :
                TakesUp(m, n) =>
                   \E f \in Begun(ContextOf[m]) :
                       /\ sid'[m] = newSid[f]
                       /\ \/ sid'[m] = RanIn(n)
                          \/ newSid[f] # RanIn(f)
                          \/ Begun(ContextOf[m]) # {f}]_vars
  <2> SUFFICES ASSUME NEW m \in Messages, NEW n \in Messages, TakesUp(m, n)
               PROVE  \E f \in Begun(ContextOf[m]) :
                          /\ sid'[m] = newSid[f]
                          /\ \/ sid'[m] = RanIn(n)
                             \/ newSid[f] # RanIn(f)
                             \/ Begun(ContextOf[m]) # {f}
    OBVIOUS
  <2> DEFINE c == ContextOf[m]
  <2>1. /\ pc[m] = "lookup" /\ pc'[m] = "hermes" /\ c \in Contexts /\ c \notin expired
        /\ told[n] = "completed" /\ ContextOf[n] = c
    BY WorkloadAssumption DEF TakesUp
  <2>2. TypeOK /\ m \in Requests
    BY <1>1 DEF IInv
  <2>3. ASSUME NEW r \in Requests, Arrive(r) \/ Step(r) PROVE LookUpSession(m)
    <3>1. r = m
      BY <2>1, <2>2, <2>3, Moves DEF Alone
    <3> QED BY <2>1, <2>2, <2>3, <3>1, Moves DEF Step
  <2>4. ~(\E r \in Streams : Leave(r)) /\ ~Restart /\ ~Rest /\ ~UNCHANGED vars
    BY <2>1, <2>2, Stops DEF TypeOK
  <2>5. LookUpSession(m)
    BY <1>1, <2>3, <2>4 DEF Next
  <2>6. sid'[m] = sessions[c]
    BY <2>2, <2>5 DEF LookUpSession, TypeOK
  <2>7. sessions[c] # NoSession
    BY <1>1, <2>1 DEF ToldSessions, IInv, SessionsAreSaved
  <2>8. PICK f \in Begun(c) : sid'[m] = newSid[f]
    BY <1>1, <2>1, <2>6, <2>7 DEF SidsHold, SidsAreGiven, Given
  <2>9. ASSUME newSid[f] = RanIn(f), Begun(c) = {f} PROVE sid'[m] = RanIn(n)
    <3>1. CASE sid[n] = NoSession
      <4>1. n \in Begun(c)
        BY <1>1, <2>1, <3>1 DEF SidsHold, SidsComeLate, Begun
      <4> QED BY <2>8, <2>9, <4>1
    <3>2. CASE sid[n] # NoSession
      <4>1. sid[n] = newSid[f]
        BY <1>1, <2>1, <2>9, <3>2 DEF SidsHold, SidsAreGiven, Given
      <4> QED BY <2>8, <3>2, <4>1 DEF RanIn
    <3> QED BY <3>1, <3>2
  <2> QED BY <2>8, <2>9
<1> QED BY <1>1, InductiveInvariant, Told, Sids, PTL DEF Spec, LaterTurnsContinue

-----------------------------------------------------------------------------
\* A request's statement on the task table runs, in the view of its connection.
Writes(r) ==
    /\ pc[r] = "saveTask" /\ r \notin Gets
    /\ \/ pc'[r] = "commitTask"
       \/ pc'[r] = "gone" /\ r \in Streams
    /\ Alone(r) /\ told' = told
    /\ tasks' = [tasks EXCEPT ![Target(r)] = RowOf(r)]
    /\ tasksDisk' = tasksDisk

\* What any step does to the task table: nothing, a commit of whatever the
\* connection shows, a request's own statement, or a restart from the file.
LEMMA RowMoves ==
    ASSUME TypeOK, TaskInv, [Next]_vars
    PROVE  \/ tasks' = tasks /\ tasksDisk' \in {tasksDisk, tasks}
           \/ \E r \in Requests : Writes(r)
           \/ tasks' = tasksDisk /\ tasksDisk' = tasksDisk /\ Restart
<1>1. ASSUME NEW r \in Requests, Arrive(r) \/ Step(r), ~SaveTask(r)
      PROVE  tasks' = tasks /\ tasksDisk' \in {tasksDisk, tasks}
  BY <1>1 DEF Arrive, Step, LookUpSession, HermesAnswers, HermesFails, SaveSession,
     CommitSession, CommitTask, TasksCommitted, Answer, CountStream, FindTask,
     StoreFails, table
<1>2. ASSUME NEW r \in Requests, SaveTask(r) PROVE Writes(r)
  <2>1. pc[r] = "saveTask" /\ pc'[r] = "commitTask" /\ Alone(r)
    BY <1>2, Moves DEF Step
  <2> QED BY <1>2, <2>1 DEF SaveTask, TaskWritten, Writes, TaskInv, WaitsByKind
<1>3. ASSUME NEW m \in Streams, Leave(m)
      PROVE  \/ tasks' = tasks /\ tasksDisk' \in {tasksDisk, tasks}
             \/ Writes(m)
  <2>1. pc' = [pc EXCEPT ![m] = "gone"] /\ told' = told
    BY <1>3, Stops
  <2>2. Alone(m) /\ pc'[m] = "gone"
    BY <2>1 DEF Alone, TypeOK
  <2>3. CASE pc[m] = "saveTask" /\ TaskWritten(m) /\ UNCHANGED <<tasksDisk, mapping>>
    BY <2>1, <2>2, <2>3, RequestsAssumption DEF Writes, TaskWritten
  <2>4. CASE TasksCommitted /\ UNCHANGED tasks
    BY <2>4 DEF TasksCommitted
  <2>5. CASE UNCHANGED table
    BY <2>5 DEF table
  <2> QED BY <1>3, <2>3, <2>4, <2>5 DEF Leave
<1>4. Restart => tasks' = tasksDisk /\ tasksDisk' = tasksDisk
  BY DEF Restart, Reopen
<1>5. Rest \/ UNCHANGED vars => tasks' = tasks /\ tasksDisk' = tasksDisk
  BY DEF Rest, vars, table
<1> QED BY <1>1, <1>2, <1>3, <1>4, <1>5 DEF Next

\* Who is about to write a row went on with it, or has just found it.
LEMMA Pending ==
    ASSUME TypeOK, [Next]_vars, NEW r \in Cancels \cup Deletes,
           pc'[r] \in {"saveTask", "commitTask"}
    PROVE  \/ pc[r] \in {"saveTask", "commitTask"}
           \/ FindTask(r) /\ pc[r] = "getTask" /\ pc'[r] = "saveTask"
<1>1. r \in Requests /\ r \notin Messages
  BY RequestsAssumption
<1>2. ASSUME NEW q \in Requests, Arrive(q) \/ Step(q), q # r PROVE pc'[r] = pc[r]
  BY <1>1, <1>2, Moves DEF Alone
<1>3. Arrive(r) => pc'[r] = "getTask"
  BY <1>1, Moves
<1>4. Step(r) => \/ pc[r] \in {"saveTask", "commitTask"}
                 \/ FindTask(r) /\ pc[r] = "getTask" /\ pc'[r] = "saveTask"
                 \/ CommitSession(r)
  BY <1>1, Moves DEF Step
<1>5. ~CommitSession(r)
  BY <1>1 DEF CommitSession
<1>6. (\E m \in Streams : Leave(m)) \/ Restart \/ Rest \/ UNCHANGED vars
        => pc[r] = pc'[r]  \/ pc'[r] \in {"gone", "lost"}
  BY <1>1, Stops DEF TypeOK
<1> QED BY <1>2, <1>3, <1>4, <1>5, <1>6 DEF Next

\* The table's states are cancelable or terminal only as long as nobody but a
\* cancel and a delete touch a seed's row.
LEMMA SeedsInit == SeedsAreTabled /\ Init => SeedRows
<1> SUFFICES ASSUME SeedsAreTabled, Init PROVE SeedRows
  OBVIOUS
<1>1. PICK seeded \in [Seeds -> SeedStates] :
        tasks = [t \in TaskIds |-> IF t \in Seeds THEN seeded[t] ELSE Absent]
  BY DEF Init
<1>2. \A t \in Seeds : tasks[t] \in SeedStates /\ tasksDisk[t] = tasks[t]
  BY <1>1 DEF Init
<1>3. \A c \in Cancels : pc[c] = "idle"
  BY DEF Init
<1> QED BY <1>2, <1>3 DEF SeedRows, SeedsAreTabled

LEMMA SeedsStep == TypeOK /\ TaskInv /\ SeedRows /\ [Next]_vars => SeedRows'
<1> SUFFICES ASSUME TypeOK, TaskInv, SeedRows, [Next]_vars, NEW t \in Seeds
             PROVE  /\ {tasks'[t], tasksDisk'[t]} \subseteq Cancelable \cup Terminal \cup {Absent}
                    /\ \/ tasks'[t] \in {tasksDisk'[t], Absent}
                       \/ tasks'[t] = "canceled" /\ tasksDisk'[t] \in Cancelable \cup {Absent}
                    /\ \A c \in Cancels :
                         Target(c) = t /\ pc'[c] \in {"saveTask", "commitTask"} =>
                           {tasks'[t], tasksDisk'[t]} \subseteq Cancelable \cup {"canceled", Absent}
  BY DEF SeedRows
<1>1. "canceled" \in Terminal /\ "canceled" \notin Cancelable /\ Absent \notin Cancelable
      /\ t \in TaskIds /\ Cancelable \cap Terminal = {}
  BY DEF Terminal, Cancelable, Transitions
<1>2. /\ {tasks[t], tasksDisk[t]} \subseteq Cancelable \cup Terminal \cup {Absent}
      /\ \/ tasks[t] \in {tasksDisk[t], Absent}
         \/ tasks[t] = "canceled" /\ tasksDisk[t] \in Cancelable \cup {Absent}
  BY DEF SeedRows
<1>3. ASSUME NEW c \in Cancels, Target(c) = t, pc[c] \in {"saveTask", "commitTask"}
      PROVE  {tasks[t], tasksDisk[t]} \subseteq Cancelable \cup {"canceled", Absent}
  BY <1>3 DEF SeedRows
<1>4. ASSUME NEW c \in Cancels, Target(c) = t, FindTask(c), pc'[c] = "saveTask"
      PROVE  /\ {tasks[t], tasksDisk[t]} \subseteq Cancelable \cup {"canceled", Absent}
             /\ tasks' = tasks /\ tasksDisk' = tasksDisk
  <2>1. tasks' = tasks /\ tasksDisk' = tasksDisk
    BY <1>4 DEF FindTask, table
  <2>2. tasks[t] \notin Terminal \cup {Absent}
    BY <1>4, RequestsAssumption DEF FindTask, Goto, TypeOK
  <2> QED BY <1>1, <1>2, <2>1, <2>2
<1>5. ASSUME NEW c \in Cancels, Target(c) = t, pc'[c] \in {"saveTask", "commitTask"}
      PROVE  {tasks[t], tasksDisk[t]} \subseteq Cancelable \cup {"canceled", Absent}
  BY <1>3, <1>4, <1>5, Pending
<1>6. CASE tasks' = tasks /\ tasksDisk' \in {tasksDisk, tasks}
  BY <1>2, <1>5, <1>6
<1>7. ASSUME NEW r \in Requests, Writes(r)
      PROVE  /\ \/ tasks'[t] \in {tasks[t], Absent}
                \/ tasks'[t] = "canceled" /\ tasksDisk[t] \in Cancelable \cup {"canceled", Absent}
             /\ tasksDisk' = tasksDisk
  <2>1. CASE Target(r) # t
    BY <1>1, <1>7, <2>1 DEF Writes, TypeOK
  <2>2. CASE Target(r) = t
    <3>1. r \notin Messages /\ r \in Cancels \cup Deletes
      BY <1>7, <2>2, RequestsAssumption DEF Target, Writes
    <3>2. tasks'[t] = RowOf(r)
      BY <1>1, <1>7, <2>2 DEF Writes, TypeOK
    <3> QED BY <1>3, <1>7, <2>2, <3>1, <3>2 DEF RowOf, Writes
  <2> QED BY <1>7, <2>1, <2>2 DEF Writes
<1>8. CASE \E r \in Requests : Writes(r)
  BY <1>1, <1>2, <1>5, <1>7, <1>8
<1>9. CASE tasks' = tasksDisk /\ tasksDisk' = tasksDisk
  BY <1>2, <1>5, <1>9
<1> QED BY <1>6, <1>8, <1>9, RowMoves

\* What the file says of a task changes along the transition table only, if
\* the rows of earlier processes are in states the table knows: no cancel
\* overwrites what another request made of the row it read.
THEOREM TransitionsLegal == SeedsAreTabled /\ Spec => TransitionsAreLegal
<1>1. ASSUME IInv, SeedRows, [Next]_vars
      PROVE  [\A t \in TaskIds :
                tasksDisk'[t] # tasksDisk[t] =>
                  \/ Absent \in {tasksDisk[t], tasksDisk'[t]}
                  \/ <<tasksDisk[t], tasksDisk'[t]>> \in Transitions]_vars
  <2> SUFFICES ASSUME NEW t \in TaskIds, tasksDisk'[t] # tasksDisk[t]
               PROVE  \/ Absent \in {tasksDisk[t], tasksDisk'[t]}
                      \/ <<tasksDisk[t], tasksDisk'[t]>> \in Transitions
    OBVIOUS
  <2>1. tasksDisk' = tasks
    BY <1>1, RowMoves DEF IInv, Writes
  <2>2. CASE t \in Seeds
    BY <1>1, <2>1, <2>2 DEF SeedRows, Cancelable
  <2>3. CASE t \in Messages
    BY <1>1, <2>1, <2>3 DEF IInv, TaskInv, MessageRows
  <2> QED BY <2>2, <2>3
<1> SUFFICES ASSUME SeedsAreTabled PROVE Spec => TransitionsAreLegal
  OBVIOUS
<1>2. Init => SeedRows
  BY SeedsInit
<1>3. IInv /\ SeedRows /\ [Next]_vars => SeedRows'
  BY SeedsStep DEF IInv
<1> QED BY <1>1, <1>2, <1>3, InductiveInvariant, PTL DEF Spec, TransitionsAreLegal

-----------------------------------------------------------------------------
\* A message that wrote its row never gets to write it again.
LEMMA WritesOnce ==
    ASSUME TypeOK, TaskInv, [Next]_vars, NEW m \in Messages, pc[m] \notin Early
    PROVE  pc'[m] \notin Early
<1>1. /\ m \in Requests /\ pc[m] # "getTask"
      /\ pc[m] \in {"commitTask", "push", "count", "answered", "error", "gone", "lost"}
  BY DEF TypeOK, TaskInv, WaitsByKind, Early
<1>2. ASSUME NEW r \in Requests, Arrive(r) \/ Step(r), r # m PROVE pc'[m] = pc[m]
  BY <1>1, <1>2, Moves DEF Alone
<1>3. Step(m) => pc'[m] \in {"push", "count", "answered", "error"}
  BY <1>1, Moves DEF Step
<1>4. ~Arrive(m)
  BY <1>1 DEF Arrive
<1>5. (\E n \in Streams : Leave(n)) \/ Restart \/ Rest \/ UNCHANGED vars
        => pc'[m] \in {pc[m], "gone", "lost"}
  BY <1>1, Stops DEF TypeOK
<1> QED BY <1>1, <1>2, <1>3, <1>4, <1>5 DEF Next, Early

\* A delete answers when it has committed what the connection shows.
LEMMA TellsDeleted ==
    ASSUME TypeOK, TaskInv, [Next]_vars, NEW d \in Deletes,
           told'[d] = "deleted", told[d] # "deleted"
    PROVE  pc[d] = "commitTask" /\ tasks' = tasks /\ tasksDisk' = tasks
<1>1. d \in Requests /\ "deleted" \notin Rows /\ d \notin Messages
  BY RequestsAssumption
<1>2. ASSUME NEW r \in Requests, Arrive(r) \/ Step(r) PROVE CommitTask(d)
  <2>1. r = d
    BY <1>1, <1>2, Moves DEF Alone
  <2>2. ~HermesFails(d)
    BY <1>1 DEF HermesFails
  <2> QED BY <1>1, <1>2, <2>1, <2>2, Moves, RowType DEF Step
<1>3. CommitTask(d)
  BY <1>1, <1>2, Stops DEF Next
<1> QED BY <1>3 DEF CommitTask, TasksCommitted, TaskInv, CleanConnections

\* A cancel's task_dict is set once, by the row it finds.
LEMMA Sees ==
    ASSUME TypeOK, [Next]_vars, NEW c \in Cancels
    PROVE  \/ saw'[c] = saw[c] /\ ~FindTask(c)
           \/ /\ FindTask(c) /\ pc[c] = "getTask"
              /\ pc'[c] \notin {"idle", "getTask"}
              /\ pc'[c] \in {"saveTask", "commitTask"} => saw'[c] # Absent
<1>1. c \in Requests /\ c \in Cancels \cup Deletes \cup Gets
  OBVIOUS
<1>2. CASE FindTask(c)
  <2>1. saw' = [saw EXCEPT ![c] = tasks[Target(c)]]
    BY <1>2 DEF FindTask
  <2>2. saw'[c] = tasks[Target(c)] /\ pc[c] = "getTask"
    BY <1>1, <1>2, <2>1 DEF TypeOK, FindTask
  <2>3. pc'[c] \in {"saveTask", "answered"}
    BY <1>1, <1>2, Moves
  <2>4. pc'[c] = "saveTask" => tasks[Target(c)] # Absent
    BY <1>1, <1>2, RequestsAssumption DEF FindTask, Goto, TypeOK
  <2> QED BY <1>2, <2>2, <2>3, <2>4
<1>3. CASE ~FindTask(c)
  <2>1. ASSUME NEW r \in Requests, Arrive(r) \/ Step(r), ~FindTask(r) PROVE saw' = saw
    BY <2>1 DEF Arrive, Step, LookUpSession, HermesAnswers, HermesFails, SaveSession,
       CommitSession, SaveTask, CommitTask, Answer, CountStream, StoreFails, locals
  <2>2. ASSUME NEW r \in Requests, FindTask(r) PROVE saw'[c] = saw[c]
    BY <1>1, <1>3, <2>2 DEF FindTask, TypeOK
  <2>3. (\E m \in Streams : Leave(m)) \/ Restart \/ Rest \/ UNCHANGED vars => saw' = saw
    BY DEF Leave, Restart, Rest, vars, locals
  <2> QED BY <1>3, <2>1, <2>2, <2>3 DEF Next
<1> QED BY <1>2, <1>3

LEMMA DeletesInit == Init => DeletesHold
<1> SUFFICES ASSUME Init PROVE DeletesHold
  OBVIOUS
<1>1. \A r \in Requests : pc[r] = "idle" /\ told[r] = "nothing"
  BY DEF Init
<1>2. \A m \in Messages : tasks[m] = Absent /\ tasksDisk[m] = Absent
  <2>1. PICK seeded \in [Seeds -> SeedStates] :
          tasks = [t \in TaskIds |-> IF t \in Seeds THEN seeded[t] ELSE Absent]
    BY DEF Init
  <2> QED BY <2>1, RequestsAssumption DEF Init
<1>3. \A c \in Cancels : saw[c] = Absent
  BY DEF Init
<1> QED BY <1>1, <1>2, <1>3 DEF DeletesHold, Deleting

\* Nothing but a cancel that had read the row before brings it back: its own
\* message has written it before the delete found it, and does so once.
LEMMA DeletesStep == TypeOK /\ TaskInv /\ DeletesHold /\ [Next]_vars => DeletesHold'
<1> SUFFICES ASSUME TypeOK, TaskInv, DeletesHold, [Next]_vars PROVE DeletesHold'
  OBVIOUS
<1>1. ASSUME NEW m \in Messages,
             \/ Absent # tasks'[m] \/ Absent # tasksDisk'[m]
             \/ \E d \in Deletes : Target(d) = m /\ Deleting(d)'
      PROVE  pc'[m] \notin Early
  <2> SUFFICES ASSUME pc[m] \in Early PROVE pc'[m] \notin Early
    BY WritesOnce
  <2>1. /\ m \in TaskIds /\ tasks[m] = Absent /\ tasksDisk[m] = Absent
        /\ \A d \in Deletes : Target(d) = m => ~Deleting(d)
    BY DEF DeletesHold
  <2>2. ASSUME NEW d \in Deletes, Target(d) = m, Deleting(d)' PROVE FALSE
    <3>1. pc'[d] \in {"saveTask", "commitTask"} =>
            FindTask(d) /\ pc'[d] = "saveTask"
      BY <2>1, <2>2, Pending DEF Deleting
    <3>2. ~FindTask(d) \/ pc'[d] # "saveTask"
      BY <2>1, <2>2, RequestsAssumption DEF FindTask, Goto, TypeOK
    <3>3. told'[d] # "deleted"
      BY <2>1, <2>2, TellsDeleted DEF Deleting
    <3> QED BY <2>2, <3>1, <3>2, <3>3 DEF Deleting
  <2>3. ASSUME NEW r \in Requests, Writes(r) PROVE pc'[m] \notin Early \/ tasks'[m] = Absent
    <3>1. CASE Target(r) # m
      BY <2>1, <2>3, <3>1 DEF Writes, TypeOK
    <3>2. CASE r \in Messages /\ Target(r) = m
      BY <2>3, <3>2 DEF Target, Writes, Early
    <3>3. r \in Cancels => Target(r) # m
      BY <2>3, RequestsAssumption DEF Writes, TaskInv, CancelsNameSeeds
    <3>4. CASE r \in Deletes /\ Target(r) = m
      BY <2>1, <2>3, <3>4, RequestsAssumption DEF Writes, RowOf, TypeOK
    <3> QED BY <2>3, <3>1, <3>2, <3>3, <3>4 DEF Writes
  <2> QED BY <1>1, <2>1, <2>2, <2>3, RowMoves DEF Writes
<1>2. ASSUME NEW c \in Cancels
      PROVE  /\ pc'[c] \in {"idle", "getTask"} => saw'[c] = Absent
             /\ pc'[c] \in {"saveTask", "commitTask"} => saw'[c] # Absent
             /\ saw[c] # Absent => saw'[c] # Absent
  <2>1. /\ pc[c] \in {"idle", "getTask"} => saw[c] = Absent
        /\ pc[c] \in {"saveTask", "commitTask"} => saw[c] # Absent
    BY DEF DeletesHold
  <2>2. pc'[c] \in {"idle", "getTask"} => pc[c] \in {"idle", "getTask"}
    <3>1. c \in Requests
      OBVIOUS
    <3>2. ASSUME NEW r \in Requests, Arrive(r) \/ Step(r), r # c PROVE pc'[c] = pc[c]
      BY <3>1, <3>2, Moves DEF Alone
    <3>3. Arrive(c) => pc[c] = "idle"
      BY DEF Arrive
    <3>4. Step(c) => pc'[c] \notin {"idle", "getTask"}
      BY <3>1, Moves DEF Step
    <3>5. (\E n \in Streams : Leave(n)) \/ Restart \/ Rest \/ UNCHANGED vars
            => pc'[c] \in {pc[c], "gone", "lost"}
      BY <3>1, Stops DEF TypeOK
    <3> QED BY <3>2, <3>3, <3>4, <3>5 DEF Next
  <2>3. CASE saw'[c] = saw[c] /\ ~FindTask(c)
    BY <2>1, <2>2, <2>3, Pending
  <2>4. CASE /\ FindTask(c) /\ pc[c] = "getTask" /\ pc'[c] \notin {"idle", "getTask"}
             /\ pc'[c] \in {"saveTask", "commitTask"} => saw'[c] # Absent
    BY <2>1, <2>4
  <2> QED BY <2>3, <2>4, Sees
<1>3. ASSUME NEW d \in Deletes, MayComeBack(d) PROVE MayComeBack(d)'
  BY <1>2, <1>3 DEF MayComeBack, Target
<1>4. ASSUME NEW d \in Deletes, pc[d] = "commitTask" \/ told[d] = "deleted",
             pc'[d] = "commitTask" \/ told'[d] = "deleted"
      PROVE  tasks'[Target(d)] = Absent \/ MayComeBack(d)'
  <2>1. Target(d) \in TaskIds /\ d \in Requests
    BY TargetType
  <2>2. tasks[Target(d)] = Absent \/ MayComeBack(d)
    BY <1>4 DEF DeletesHold
  <2>3. ASSUME NEW r \in Requests, Writes(r), Target(r) = Target(d)
        PROVE  tasks'[Target(d)] = Absent \/ MayComeBack(d)'
    <3>1. CASE r \in Deletes
      BY <2>1, <2>3, <3>1, RequestsAssumption DEF Writes, RowOf, TypeOK
    <3>2. CASE r \in Cancels
      <4>1. saw[r] # Absent
        BY <2>3, <3>2 DEF Writes, DeletesHold
      <4> QED BY <1>2, <2>3, <3>2, <4>1 DEF MayComeBack, Target
    <3>3. CASE r \in Messages
      BY <1>4, <2>3, <3>3 DEF Writes, DeletesHold, Deleting, Early, Target
    <3> QED BY <2>3, <3>1, <3>2, <3>3 DEF Writes
  <2>4. ASSUME NEW r \in Requests, Writes(r), Target(r) # Target(d)
        PROVE  tasks'[Target(d)] = tasks[Target(d)]
    BY <2>1, <2>4 DEF Writes, TypeOK
  <2>5. CASE Restart /\ tasks' = tasksDisk
    <3>1. told[d] = "deleted"
      BY <1>4, <2>1, <2>5, Stops
    <3> QED BY <1>3, <2>5, <3>1 DEF DeletesHold
  <2> QED BY <1>3, <2>2, <2>3, <2>4, <2>5, RowMoves
<1>5. ASSUME NEW d \in Deletes, pc'[d] = "commitTask", pc[d] # "commitTask"
      PROVE  tasks'[Target(d)] = Absent
  <2>1. Target(d) \in TaskIds /\ d \in Requests /\ d \notin Messages
    BY TargetType, RequestsAssumption
  <2>2. pc[d] = "saveTask"
    BY <1>5, Pending
  <2>3. ASSUME NEW r \in Requests, Arrive(r) \/ Step(r) PROVE SaveTask(d)
    <3>1. r = d
      BY <1>5, <2>1, <2>3, Moves DEF Alone
    <3> QED BY <1>5, <2>1, <2>2, <2>3, <3>1, Moves DEF Step
  <2>4. (\E n \in Streams : Leave(n)) \/ Restart \/ Rest \/ UNCHANGED vars
          => pc'[d] \in {pc[d], "gone", "lost"}
    BY <2>1, Stops DEF TypeOK
  <2>5. SaveTask(d)
    BY <1>5, <2>3, <2>4 DEF Next
  <2> QED BY <2>1, <2>5, RequestsAssumption DEF SaveTask, TaskWritten, RowOf, TypeOK
<1>6. ASSUME NEW d \in Deletes, told'[d] = "deleted", told[d] # "deleted"
      PROVE  /\ pc[d] = "commitTask" /\ tasksDisk' = tasks
             /\ tasks[Target(d)] = Absent \/ MayComeBack(d)
  BY <1>6, TellsDeleted DEF DeletesHold
<1>7. ASSUME NEW d \in Deletes, told'[d] = "deleted"
      PROVE  tasksDisk'[Target(d)] = Absent \/ MayComeBack(d)'
  <2>1. CASE told[d] = "deleted"
    <3>1. /\ tasks[Target(d)] = Absent \/ MayComeBack(d)
          /\ tasksDisk[Target(d)] = Absent \/ MayComeBack(d)
      BY <2>1 DEF DeletesHold
    <3>2. tasksDisk' \in {tasksDisk, tasks}
      BY RowMoves DEF Writes
    <3> QED BY <1>3, <3>1, <3>2
  <2>2. CASE told[d] # "deleted"
    BY <1>3, <1>6, <1>7, <2>2
  <2> QED BY <2>1, <2>2
<1>8. ASSUME NEW d \in Deletes, pc'[d] = "commitTask" \/ told'[d] = "deleted"
      PROVE  tasks'[Target(d)] = Absent \/ MayComeBack(d)'
  BY <1>4, <1>5, <1>6, <1>8
<1> QED BY <1>1, <1>2, <1>7, <1>8 DEF DeletesHold

\* A row whose DELETE was answered stays away from the file, through crashes
\* too, unless a cancel that had read it before writes it back.
THEOREM DeletesDurable == Spec => []DeletesAreDurable
<1>1. DeletesHold => DeletesAreDurable
  BY DEF DeletesHold, DeletesAreDurable, MayComeBack
<1>2. IInv /\ DeletesHold /\ [Next]_vars => DeletesHold'
  BY DeletesStep DEF IInv
<1> QED BY <1>1, <1>2, DeletesInit, InductiveInvariant, PTL DEF Spec

-----------------------------------------------------------------------------
\* Sets of requests are finite, and grow by one at least with a new member.
LEMMA Counting ==
    ASSUME NEW S \in SUBSET Requests
    PROVE  /\ IsFiniteSet(S) /\ Cardinality(S) \in Nat
           /\ \A T \in SUBSET S : Cardinality(T) <= Cardinality(S)
           /\ \A x \in Requests : x \notin S =>
                S \cup {x} \in SUBSET Requests
                  /\ Cardinality(S \cup {x}) = Cardinality(S) + 1
<1>1. IsFiniteSet(S)
  BY FiniteAssumption, FS_Subset
<1>2. Cardinality(S) \in Nat
  BY <1>1, FS_CardinalityType
<1>3. \A T \in SUBSET S : Cardinality(T) <= Cardinality(S)
  BY <1>1, FS_Subset
<1>4. \A x \in Requests : x \notin S => Cardinality(S \cup {x}) = Cardinality(S) + 1
  BY <1>1, FS_AddElement
<1> QED BY <1>1, <1>2, <1>3, <1>4

\* When requests_total moves.
LEMMA CountMoves ==
    ASSUME TypeOK, [Next]_vars
    PROVE  \/ requestsTotal' = requestsTotal /\ ~Restart
           \/ requestsTotal' = 0
           \/ /\ requestsTotal' = requestsTotal + 1 /\ ~Restart
              /\ \E m \in Requests : (m \in Sends /\ CommitTask(m)) \/ CountStream(m)
<1>1. CASE Restart
  BY <1>1 DEF Restart
<1>2. ASSUME NEW r \in Requests, CommitTask(r)
      PROVE  \/ requestsTotal' = requestsTotal
             \/ requestsTotal' = requestsTotal + 1 /\ r \in Sends
  BY <1>2 DEF CommitTask
<1>3. ASSUME NEW r \in Requests, CountStream(r) PROVE requestsTotal' = requestsTotal + 1
  BY <1>3 DEF CountStream
<1>4. ASSUME NEW r \in Requests, Arrive(r) \/ Step(r), ~CommitTask(r), ~CountStream(r)
      PROVE  requestsTotal' = requestsTotal
  BY <1>4 DEF Arrive, Step, LookUpSession, HermesAnswers, HermesFails, SaveSession,
     CommitSession, SaveTask, Answer, FindTask, StoreFails, metrics
<1>5. (\E m \in Streams : Leave(m)) \/ Rest \/ UNCHANGED vars
        => requestsTotal' = requestsTotal
  BY DEF Leave, Rest, vars, metrics
<1> QED BY <1>1, <1>2, <1>3, <1>4, <1>5 DEF Next

\* A message that may have been counted stays so until the process restarts.
LEMMA Kept ==
    ASSUME TypeOK, TaskInv, CountsHold, [Next]_vars, ~Restart, NEW m \in Counted
    PROVE  m \in Counted'
<1>1. m \in Messages /\ m \in Requests /\ m \in Sends \cup Streams
  BY DEF Counted
<1>2. ASSUME NEW r \in Requests, Arrive(r) \/ Step(r), r # m PROVE m \in Counted'
  <2>1. pc'[m] = pc[m] /\ told'[m] = told[m]
    BY <1>1, <1>2, Moves DEF Alone
  <2> QED BY <2>1 DEF Counted
<1>3. \/ m \in Sends /\ pc[m] = "push"
      \/ told[m] = "completed" /\ pc[m] \in {"answered", "gone", "lost"}
  BY RequestsAssumption DEF Counted, CountsHold
<1>5. ASSUME Arrive(m) \/ Step(m) PROVE m \in Counted'
  <2>1. Answer(m) /\ pc[m] = "push" /\ m \in Sends
    BY <1>1, <1>3, <1>5, Moves DEF Step
  <2>2. told'[m] = "completed" /\ pc'[m] = "answered"
    BY <1>1, <2>1, Moves DEF RowOf
  <2> QED BY <2>1, <2>2 DEF Counted
<1>6. ASSUME NEW n \in Streams, Leave(n) PROVE m \in Counted'
  BY <1>1, <1>3, <1>6, Stops, RequestsAssumption DEF Counted, TypeOK
<1>7. Rest \/ UNCHANGED vars => m \in Counted'
  BY Stops DEF Counted
<1> QED BY <1>2, <1>5, <1>6, <1>7 DEF Next

LEMMA CountsInit == Init => CountsHold
<1> SUFFICES ASSUME Init PROVE CountsHold
  OBVIOUS
<1>1. Cardinality(Counted) \in Nat
  BY Counting DEF Counted
<1> QED BY <1>1 DEF Init, CountsHold

\* The counter moves when a message joins those that may be counted, or later.
LEMMA CountsStep == IInv /\ CountsHold /\ [Next]_vars => CountsHold'
<1> SUFFICES ASSUME IInv, CountsHold, [Next]_vars PROVE CountsHold'
  OBVIOUS
<1>1. TypeOK /\ TaskInv /\ requestsTotal \in Nat
  BY DEF IInv, TypeOK
<1>2. ASSUME NEW m \in Messages
      PROVE  /\ told'[m] = "completed" => pc'[m] \in {"count", "answered", "gone", "lost"}
             /\ pc'[m] = "count" => told'[m] = "completed" /\ m \in Streams
  <2>1. m \in Requests /\ pc[m] # "getTask"
    BY <1>1 DEF TaskInv, WaitsByKind
  <2>2. /\ told[m] = "completed" => pc[m] \in {"count", "answered", "gone", "lost"}
        /\ pc[m] = "count" => told[m] = "completed" /\ m \in Streams
    BY DEF CountsHold
  <2>3. told'[m] = "completed" /\ told[m] # "completed" => pc[m] \in {"commitTask", "push"}
    BY TellsCompleted
  <2>4. ASSUME NEW r \in Requests, Arrive(r) \/ Step(r), r # m
        PROVE  pc'[m] = pc[m] /\ told'[m] = told[m]
    BY <1>1, <2>1, <2>4, Moves DEF Alone
  <2>5. Arrive(m) \/ Step(m) =>
          /\ told'[m] = "completed" => pc'[m] \in {"count", "answered", "gone", "lost"}
          /\ pc'[m] = "count" => told'[m] = "completed" /\ m \in Streams
    BY <1>1, <2>1, <2>2, <2>3, Moves DEF Step
  <2>6. ASSUME (\E n \in Streams : Leave(n)) \/ Restart \/ Rest \/ UNCHANGED vars
        PROVE  told'[m] = told[m] /\ pc'[m] \in {pc[m], "gone", "lost"}
    BY <1>1, <2>1, <2>6, Stops DEF TypeOK
  <2> QED BY <2>2, <2>4, <2>5, <2>6 DEF Next
<1>3. /\ Counted \in SUBSET Requests /\ Counted' \in SUBSET Requests
      /\ Cardinality(Counted) \in Nat /\ Cardinality(Counted') \in Nat
  BY Counting DEF Counted
<1>4. CASE requestsTotal' = 0
  BY <1>2, <1>3, <1>4 DEF CountsHold
<1>5. ASSUME ~Restart PROVE Cardinality(Counted) <= Cardinality(Counted')
  <2>1. Counted \in SUBSET (Counted')
    BY <1>1, <1>5, Kept
  <2> QED BY <1>3, <2>1, Counting
<1>6. CASE requestsTotal' = requestsTotal /\ ~Restart
  BY <1>1, <1>2, <1>3, <1>5, <1>6 DEF CountsHold
<1>7. ASSUME requestsTotal' = requestsTotal + 1, ~Restart,
             NEW m \in Requests, (m \in Sends /\ CommitTask(m)) \/ CountStream(m)
      PROVE  CountsHold'
  <2>1. m \in Messages /\ m \notin Counted
    BY <1>7, RequestsAssumption DEF CommitTask, CountStream, Counted, CountsHold,
       IInv, TaskInv, WaitsByKind
  <2>2. m \in Counted'
    <3>1. CASE m \in Sends /\ CommitTask(m)
      BY <1>1, <1>7, <3>1, Moves, RequestsAssumption DEF Counted
    <3>2. CASE CountStream(m)
      <4>1. told[m] = "completed" /\ m \in Streams
        BY <2>1, <3>2 DEF CountStream, CountsHold
      <4> QED BY <1>1, <1>7, <3>2, <4>1, Moves DEF Counted
    <3> QED BY <1>7, <2>1, <3>1, <3>2
  <2>3. Counted \cup {m} \in SUBSET (Counted')
    BY <1>1, <1>7, <2>2, Kept
  <2>4. Cardinality(Counted \cup {m}) <= Cardinality(Counted')
    BY <1>3, <2>3, Counting
  <2>5. Cardinality(Counted \cup {m}) = Cardinality(Counted) + 1
    BY <1>3, <2>1, Counting
  <2>6. requestsTotal <= Cardinality(Counted)
    BY DEF CountsHold
  <2> QED BY <1>1, <1>2, <1>3, <1>7, <2>4, <2>5, <2>6 DEF CountsHold
<1> QED BY <1>1, <1>4, <1>6, <1>7, CountMoves

\* requests_total runs behind the file: a message is counted after its commit.
THEOREM CountsBacked == Spec => []CountsAreBacked
<1>1. ASSUME IInv, CountsHold PROVE CountsAreBacked
  <2> DEFINE backed == {m \in Messages : tasksDisk[m] = "completed" \/ m \in deleted}
  <2>1. Counted \in SUBSET backed
    BY <1>1 DEF Counted, IInv, TaskInv, RowsAreSaved, Saved, Target, RowOf
  <2>2. backed \in SUBSET Requests
    OBVIOUS
  <2>3. Cardinality(Counted) <= Cardinality(backed) /\ Cardinality(backed) \in Nat
    BY <2>1, <2>2, Counting
  <2>4. Cardinality(Counted) \in Nat
    BY Counting DEF Counted
  <2>5. requestsTotal <= Cardinality(Counted) /\ requestsTotal \in Nat
    BY <1>1 DEF CountsHold, IInv, TypeOK
  <2>6. requestsTotal <= Cardinality(backed)
    BY <2>3, <2>4, <2>5
  <2> QED BY <2>6 DEF CountsAreBacked
<1> QED BY <1>1, CountsInit, CountsStep, InductiveInvariant, PTL DEF Spec

-----------------------------------------------------------------------------
\* Every open transaction has a coroutine that is about to commit it.
Owned == \A c \in Connections : txn[c] # "auto" => \E r \in Requests : pc[r] = Committing(c)

\* Who left is gone.
LEMMA Gone ==
    ASSUME TypeOK, [Next]_vars, NobodyLeft'
    PROVE  NobodyLeft /\ \A m \in Streams : ~Leave(m)
<1>1. ASSUME NEW m \in Streams, Leave(m) PROVE FALSE
  BY <1>1, Stops DEF TypeOK, NobodyLeft
<1>2. ASSUME NEW m \in Streams, pc[m] = "gone" PROVE FALSE
  <2>1. m \in Requests
    OBVIOUS
  <2>2. ASSUME NEW r \in Requests, Arrive(r) \/ Step(r) PROVE pc'[m] = "gone"
    <3>1. r # m
      BY <1>2, <2>1, <2>2, Moves DEF Step
    <3> QED BY <1>2, <2>1, <2>2, <3>1, Moves DEF Alone
  <2>3. Restart \/ Rest \/ UNCHANGED vars => pc'[m] = "gone"
    BY <1>2, <2>1, Stops
  <2> QED BY <1>1, <2>2, <2>3 DEF Next, NobodyLeft
<1> QED BY <1>1, <1>2 DEF NobodyLeft

\* Once a lock was given up on that its owner was about to release, the run
\* counts as late.
LEMMA LateStays ==
    ASSUME TypeOK, [Next]_vars, late PROVE late'
<1>1. ASSUME \E c \in Connections : ReadBusy(c) \/ WriteBusy(c) \/ CommitBusy(c) PROVE late'
  BY <1>1, BusyGivesUp, GiveUpType
<1>2. ASSUME NEW r \in Requests, Arrive(r) \/ Step(r), ~StoreFails(r) PROVE late' = late
  BY <1>2 DEF Arrive, Step, LookUpSession, HermesAnswers, HermesFails, SaveSession,
     CommitSession, SaveTask, CommitTask, Answer, CountStream, FindTask, history
<1>3. ASSUME NEW r \in Requests, StoreFails(r) PROVE late'
  BY <1>1, <1>3 DEF StoreFails
<1>4. ASSUME NEW m \in Streams, Leave(m) PROVE late'
  BY <1>1, <1>4 DEF Leave
<1>5. Restart \/ Rest \/ UNCHANGED vars => late' = late
  BY DEF Restart, Rest, vars, history
<1> QED BY <1>2, <1>3, <1>4, <1>5 DEF Next

\* With commits in time, a lock somebody owns makes nobody fail.
LEMMA StoresWork ==
    ASSUME TypeOK, Owned, ~late', NEW r \in Requests
    PROVE  ~StoreFails(r)
<1>1. ASSUME NEW c \in Connections, GiveUp(c)
      PROVE  Readable(c) /\ Writable(c) /\ Committable(c)
  <2>1. Other(c) \in Connections
    BY DEF Other
  <2>2. txn[Other(c)] = "auto"
    BY <1>1, <2>1 DEF GiveUp, Owned
  <2> QED BY <2>2 DEF Readable, Writable, Committable, MayRead, MayWrite, MayCommit
<1>2. StoreFails(r) => \E c \in Connections : ReadBusy(c) \/ WriteBusy(c) \/ CommitBusy(c)
  BY DEF StoreFails
<1> QED BY <1>1, <1>2, BusyGivesUp

\* How a request changes the transactions: a read opens none, a write opens
\* one that its coroutine is about to commit, a commit ends its own.
LEMMA TxnMoves ==
    ASSUME TypeOK, NEW r \in Requests, Arrive(r) \/ Step(r), ~StoreFails(r)
    PROVE  \/ /\ pc[r] \notin {"commitSession", "commitTask"}
              /\ \A c \in Connections : txn'[c] # "auto" => txn[c] # "auto"
           \/ /\ pc[r] \notin {"commitSession", "commitTask"}
              /\ \E c \in Connections :
                   pc'[r] = Committing(c) /\ txn'[Other(c)] = txn[Other(c)]
           \/ \E c \in Connections :
                /\ pc[r] = Committing(c)
                /\ txn'[c] = "auto" /\ txn'[Other(c)] = txn[Other(c)]
<1> USE DEF TypeOK
<1>1. ASSUME NEW c \in Connections, Read(c)
      PROVE  \A d \in Connections : txn'[d] # "auto" => txn[d] # "auto"
  BY <1>1 DEF Read, SetTxn, AfterRead
<1>2. CASE LookUpSession(r) \/ FindTask(r)
  BY <1>1, <1>2 DEF LookUpSession, FindTask
<1>3. CASE Arrive(r) \/ HermesAnswers(r) \/ HermesFails(r) \/ Answer(r) \/ CountStream(r)
  BY <1>3 DEF Arrive, HermesAnswers, HermesFails, Answer, CountStream
<1>4. CASE SaveSession(r)
  <2>1. pc[r] = "saveSession" /\ pc'[r] = Committing("session")
    BY <1>4, Moves DEF Committing
  <2>2. txn'["task"] = txn["task"] /\ Other("session") = "task"
    BY <1>4 DEF SaveSession, SessionWritten, SetTxn, Other
  <2> QED BY <2>1, <2>2
<1>5. CASE SaveTask(r)
  <2>1. pc[r] = "saveTask" /\ pc'[r] = Committing("task")
    BY <1>5, Moves DEF Committing
  <2>2. txn'["session"] = txn["session"] /\ Other("task") = "session"
    BY <1>5 DEF SaveTask, TaskWritten, SetTxn, Other
  <2> QED BY <2>1, <2>2
<1>6. CASE CommitSession(r)
  BY <1>6 DEF CommitSession, SessionsCommitted, SetTxn, AfterCommit, Other, Committing
<1>7. CASE CommitTask(r)
  BY <1>7 DEF CommitTask, TasksCommitted, SetTxn, AfterCommit, Other, Committing
<1> QED BY <1>2, <1>3, <1>4, <1>5, <1>6, <1>7 DEF Step

LEMMA OwnedStep ==
    TypeOK /\ TransactionsAreOwned /\ [Next]_vars => TransactionsAreOwned'
<1> SUFFICES ASSUME TypeOK, TransactionsAreOwned, [Next]_vars, ~late', NobodyLeft',
                    NEW c \in Connections, txn'[c] # "auto"
             PROVE  \E q \in Requests : pc'[q] = Committing(c)
  BY DEF TransactionsAreOwned, Committing
<1>1. Owned /\ \A m \in Streams : ~Leave(m)
  BY Gone, LateStays DEF TransactionsAreOwned, Owned
<1>2. ASSUME NEW r \in Requests, Arrive(r) \/ Step(r) PROVE \E q \in Requests : pc'[q] = Committing(c)
  <2>1. ASSUME NEW q \in Requests, pc[q] = Committing(c), q # r
        PROVE  pc'[q] = Committing(c)
    BY <1>2, <2>1, Moves DEF Alone
  <2>2. CASE /\ pc[r] \notin {"commitSession", "commitTask"}
             /\ \A d \in Connections : txn'[d] # "auto" => txn[d] # "auto"
    BY <1>1, <2>1, <2>2 DEF Owned, Committing
  <2>3. ASSUME pc[r] \notin {"commitSession", "commitTask"}, NEW d \in Connections,
               pc'[r] = Committing(d), txn'[Other(d)] = txn[Other(d)]
        PROVE  \E q \in Requests : pc'[q] = Committing(c)
    <3>1. CASE d = c
      BY <2>3, <3>1
    <3>2. CASE Other(d) = c
      BY <1>1, <2>1, <2>3, <3>2 DEF Owned, Committing
    <3> QED BY <3>1, <3>2 DEF Other
  <2>4. ASSUME NEW d \in Connections, pc[r] = Committing(d),
               txn'[d] = "auto", txn'[Other(d)] = txn[Other(d)]
        PROVE  \E q \in Requests : pc'[q] = Committing(c)
    <3>1. c # d /\ c = Other(d)
      BY <2>4 DEF Other
    <3>2. PICK q \in Requests : pc[q] = Committing(c)
      BY <1>1, <2>4, <3>1 DEF Owned
    <3> QED BY <2>1, <2>4, <3>1, <3>2 DEF Committing
  <2> QED BY <1>1, <1>2, <2>2, <2>3, <2>4, StoresWork, TxnMoves
<1>3. ASSUME Restart PROVE FALSE
  BY <1>3 DEF Restart, Reopen
<1>4. ASSUME Rest \/ UNCHANGED vars PROVE \E q \in Requests : pc'[q] = Committing(c)
  <2>1. txn' = txn /\ pc' = pc
    BY <1>4 DEF Rest, vars
  <2> QED BY <1>1, <2>1 DEF Owned
<1> QED BY <1>1, <1>2, <1>3, <1>4 DEF Next

\* As long as commits are faster than the busy timeout, only a stream whose
\* client left can leave a transaction open that nobody is about to commit.
THEOREM TransactionsOwned == Spec => []TransactionsAreOwned
<1>1. Init => TransactionsAreOwned
  BY DEF Init, TransactionsAreOwned
<1>2. TypeOK /\ TransactionsAreOwned /\ [Next]_vars => TransactionsAreOwned'
  BY OwnedStep
<1> QED BY <1>1, <1>2, TypeCorrect, PTL DEF Spec

-----------------------------------------------------------------------------
\* Hermes' failure is the only thing that tells FAILED to a message's client,
\* and ends it.
LEMMA TellsFailed ==
    ASSUME IInv, [Next]_vars, NEW m \in Messages, told[m] = "failed" => pc[m] = "answered"
    PROVE  /\ told'[m] = "failed" => pc'[m] = "answered"
           /\ told'[m] # told[m] /\ told'[m] = "failed" => HermesFails(m)
           /\ told[m] = "failed" => told'[m] = "failed"
<1>1. TypeOK /\ m \in Requests /\ pc[m] # "getTask"
  BY DEF IInv, TaskInv, WaitsByKind
<1>2. ASSUME NEW r \in Requests, Arrive(r) \/ Step(r), r # m
      PROVE  pc'[m] = pc[m] /\ told'[m] = told[m]
  BY <1>1, <1>2, Moves DEF Alone
<1>3. ASSUME Arrive(m) \/ Step(m)
      PROVE  /\ told[m] # "failed"
             /\ told'[m] = "failed" => HermesFails(m) /\ pc'[m] = "answered"
  <2>1. told[m] # "failed"
    BY <1>1, <1>3, Moves DEF Step
  <2> QED BY <1>1, <1>3, <2>1, Moves, RequestsAssumption DEF Step, RowOf
<1>4. ASSUME (\E n \in Streams : Leave(n)) \/ Restart \/ Rest \/ UNCHANGED vars
      PROVE  /\ told'[m] = told[m]
             /\ pc[m] = "answered" => pc'[m] = "answered"
  BY <1>1, <1>4, Stops DEF TypeOK
<1> QED BY <1>2, <1>3, <1>4 DEF Next

\* errors_total moves with HermesFails alone.
LEMMA ErrorMoves ==
    ASSUME [Next]_vars, ~Restart
    PROVE  /\ (\A m \in Messages : ~HermesFails(m)) => errorsTotal' = errorsTotal
           /\ \A m \in Messages : HermesFails(m) => errorsTotal' = errorsTotal + 1
<1>1. ASSUME NEW r \in Requests, Arrive(r) \/ Step(r), ~HermesFails(r)
      PROVE  errorsTotal' = errorsTotal
  BY <1>1 DEF Arrive, Step, LookUpSession, HermesAnswers, SaveSession, CommitSession,
     SaveTask, CommitTask, Answer, CountStream, FindTask, StoreFails, metrics
<1>2. (\E m \in Streams : Leave(m)) \/ Rest \/ UNCHANGED vars => errorsTotal' = errorsTotal
  BY DEF Leave, Rest, vars, metrics
<1>3. \A r \in Requests : HermesFails(r) => r \in Messages /\ errorsTotal' = errorsTotal + 1
  BY DEF HermesFails
<1> QED BY <1>1, <1>2, <1>3 DEF Next

\* As long as no store fails a request errs when Hermes failed it.
LEMMA Errs ==
    ASSUME TypeOK, [Next]_vars, ~Restart, \A r \in Requests : ~StoreFails(r),
           NEW q \in Requests
    PROVE  /\ pc[q] = "error" => pc'[q] = "error"
           /\ pc'[q] = "error" /\ pc[q] # "error" => HermesFails(q)
<1>1. ASSUME NEW r \in Requests, Arrive(r) \/ Step(r), r # q PROVE pc'[q] = pc[q]
  BY <1>1, Moves DEF Alone
<1>2. Arrive(q) => pc[q] = "idle" /\ pc'[q] # "error"
  BY Moves
<1>3. Step(q) => pc[q] # "error" /\ (pc'[q] = "error" => HermesFails(q))
  BY Moves DEF Step
<1>4. (\E m \in Streams : Leave(m)) \/ Rest \/ UNCHANGED vars
        => \/ pc'[q] = pc[q]
           \/ pc'[q] = "gone" /\ pc[q] # "error"
  BY Stops DEF TypeOK
<1> QED BY <1>1, <1>2, <1>3, <1>4 DEF Next

LEMMA FailuresStep ==
    IInv /\ TransactionsAreOwned /\ FailuresHold /\ [Next]_vars => FailuresHold'
<1> SUFFICES ASSUME IInv, TransactionsAreOwned, FailuresHold, [Next]_vars
             PROVE  FailuresHold'
  OBVIOUS
<1>1. TypeOK /\ errorsTotal \in Nat
  BY DEF IInv, TypeOK
<1>2. ASSUME NEW m \in Messages
      PROVE  /\ told'[m] = "failed" => pc'[m] = "answered"
             /\ told'[m] # told[m] /\ told'[m] = "failed" => HermesFails(m)
             /\ told[m] = "failed" => told'[m] = "failed"
  BY TellsFailed DEF FailuresHold
<1>3. ASSUME ~late', NobodyLeft', restarts' = 0 PROVE errorsTotal' = Cardinality(Failures')
  <2>1. ~Restart /\ restarts = 0
    <3>1. ~Restart
      BY <1>1, <1>3 DEF Restart, TypeOK
    <3>2. ASSUME NEW r \in Requests, Arrive(r) \/ Step(r) PROVE restarts' = restarts
      BY <3>2 DEF Arrive, Step, LookUpSession, HermesAnswers, HermesFails, SaveSession,
         CommitSession, SaveTask, CommitTask, Answer, CountStream, FindTask, StoreFails, history
    <3>3. (\E m \in Streams : Leave(m)) \/ Rest \/ UNCHANGED vars => restarts' = restarts
      BY DEF Leave, Rest, vars, history
    <3> QED BY <1>3, <3>1, <3>2, <3>3 DEF Next
  <2>2. ~late /\ NobodyLeft /\ Owned
    BY <1>1, <1>3, Gone, LateStays DEF TransactionsAreOwned, Owned
  <2>3. \A r \in Requests : ~StoreFails(r)
    BY <1>1, <1>3, <2>2, StoresWork
  <2>4. errorsTotal = Cardinality(Failures)
    BY <2>1, <2>2 DEF FailuresHold, ErrorsAreCounted
  <2>5. Failures \in SUBSET Requests
    BY DEF Failures
  <2>6. CASE \A m \in Messages : ~HermesFails(m)
    <3>1. \A r \in Requests : ~HermesFails(r)
      BY <2>6 DEF HermesFails
    <3>2. \A q \in Requests : pc'[q] = "error" <=> pc[q] = "error"
      BY <1>1, <2>1, <2>3, <3>1, Errs
    <3>3. \A m \in Streams : told'[m] = "failed" <=> told[m] = "failed"
      BY <1>2, <2>6
    <3>4. Failures' = Failures
      BY <3>2, <3>3 DEF Failures
    <3> QED BY <2>1, <2>4, <2>6, <3>4, ErrorMoves
  <2>7. ASSUME NEW m \in Messages, HermesFails(m) PROVE errorsTotal' = Cardinality(Failures')
    <3>1. /\ m \in Requests /\ pc[m] = "hermes" /\ Alone(m)
          /\ \/ m \in Sends /\ pc'[m] = "error" /\ told'[m] = told[m]
             \/ m \in Streams /\ pc'[m] = "answered" /\ told'[m] = "failed"
      BY <1>1, <2>7, Moves DEF Step
    <3>2. m \notin Failures
      BY <3>1 DEF Failures, FailuresHold
    <3>3. Failures' = Failures \cup {m}
      <4>1. \A q \in Requests \ {m} : pc'[q] = pc[q] /\ told'[q] = told[q]
        BY <3>1 DEF Alone
      <4>2. m \in Failures'
        BY <3>1 DEF Failures
      <4>3. \A q \in Requests \ {m} : q \in Failures' <=> q \in Failures
        BY <4>1 DEF Failures
      <4>4. Failures' \subseteq Requests
        BY DEF Failures
      <4> QED BY <2>5, <3>1, <4>2, <4>3, <4>4
    <3>4. Cardinality(Failures') = Cardinality(Failures) + 1
      BY <2>5, <3>1, <3>2, <3>3, Counting
    <3> QED BY <2>1, <2>4, <2>7, <3>4, ErrorMoves
  <2> QED BY <2>6, <2>7
<1> QED BY <1>2, <1>3 DEF FailuresHold, ErrorsAreCounted

\* As long as commits are faster than the busy timeout errors_total accounts
\* for every failure, until a client leaves its stream or the process restarts.
THEOREM ErrorsCounted == Spec => []ErrorsAreCounted
<1>1. ASSUME Init PROVE FailuresHold
  <2>1. Failures = {} /\ errorsTotal = 0
    BY <1>1 DEF Init, Failures
  <2>2. \A m \in Messages : told[m] # "failed"
    BY <1>1 DEF Init
  <2> QED BY <2>1, <2>2, FS_EmptySet DEF FailuresHold, ErrorsAreCounted
<1>2. IInv /\ TransactionsAreOwned /\ FailuresHold /\ [Next]_vars => FailuresHold'
  BY FailuresStep
<1>3. FailuresHold => ErrorsAreCounted
  BY DEF FailuresHold
<1>4. Spec => []TransactionsAreOwned
  BY TransactionsOwned
<1> QED BY <1>1, <1>2, <1>3, <1>4, InductiveInvariant, PTL DEF Spec

-----------------------------------------------------------------------------
(***************************************************************************)
(* The refinement: the file is the table of TaskLedger.                    *)
(***************************************************************************)
\* What the connection shows of a row is what the file has of it, or a change
\* that TaskLedger allows; and a cancel is about a row it may overwrite.
LedgerRows ==
    /\ \A m \in Messages :
         /\ m \in deleted => pc[m] \notin Early
         /\ \/ tasks[m] = tasksDisk[m]
            \/ tasks[m] = "completed" /\ tasksDisk[m] = Absent /\ m \notin deleted
            \/ tasks[m] = Absent /\ m \in deleted
    /\ \A t \in Seeds :
         /\ Absent \in {tasks[t], tasksDisk[t]} => t \in deleted
         /\ \/ tasks[t] \in {tasksDisk[t], Absent}
            \/ tasks[t] = "canceled" /\ tasksDisk[t] \notin Terminal
         /\ \A c \in Cancels :
              Target(c) = t /\ pc[c] \in {"saveTask", "commitTask"} =>
                {tasks[t], tasksDisk[t]} \cap Terminal \subseteq {"canceled"}

\* A promise is the last thing a client is told.
TellsLast ==
    \A r \in Messages \cup Cancels :
        told[r] \in {"completed", "canceled"} => pc[r] \in {"count", "answered", "gone", "lost"}

\* A row is asked to be removed when a DELETE's statement runs.
LEMMA Removals ==
    ASSUME TypeOK, TaskInv, [Next]_vars
    PROVE  /\ \A r \in Requests : Writes(r) =>
                deleted' = IF r \in Deletes THEN deleted \cup {Target(r)} ELSE deleted
           /\ (\A r \in Requests : ~Writes(r)) => deleted' = deleted
<1>1. ASSUME NEW q \in Requests, Arrive(q) \/ Step(q), ~SaveTask(q) PROVE deleted' = deleted
  BY <1>1 DEF Arrive, Step, LookUpSession, HermesAnswers, HermesFails, SaveSession,
     CommitSession, CommitTask, Answer, CountStream, FindTask, StoreFails, history
<1>2. ASSUME NEW q \in Requests, SaveTask(q)
      PROVE  /\ Writes(q)
             /\ deleted' = IF q \in Deletes THEN deleted \cup {Target(q)} ELSE deleted
  <2>1. pc[q] = "saveTask" /\ pc'[q] = "commitTask" /\ Alone(q)
    BY <1>2, Moves DEF Step
  <2> QED BY <1>2, <2>1 DEF SaveTask, TaskWritten, Writes, TaskInv, WaitsByKind
<1>3. ASSUME NEW m \in Streams, Leave(m)
      PROVE  deleted' = deleted /\ pc' = [pc EXCEPT ![m] = "gone"]
  <2>1. m \notin Deletes
    BY RequestsAssumption
  <2> QED BY <1>3, <2>1, Stops DEF Leave, TaskWritten
<1>4. Restart \/ Rest \/ UNCHANGED vars => deleted' = deleted
  BY DEF Restart, Rest, vars, history
<1>5. ASSUME NEW r \in Requests, Writes(r)
      PROVE  deleted' = IF r \in Deletes THEN deleted \cup {Target(r)} ELSE deleted
  <2>1. pc[r] = "saveTask" /\ (pc'[r] = "commitTask" \/ (pc'[r] = "gone" /\ r \in Streams))
    BY <1>5 DEF Writes
  <2>2. ASSUME NEW q \in Requests, Arrive(q) \/ Step(q) PROVE SaveTask(r)
    <3>1. q = r
      BY <2>1, <2>2, Moves DEF Alone
    <3> QED BY <2>1, <2>2, <3>1, Moves DEF Step
  <2>3. ASSUME NEW m \in Streams, Leave(m) PROVE r \notin Deletes
    <3>1. m = r
      BY <1>3, <2>1, <2>3 DEF TypeOK
    <3> QED BY <3>1, RequestsAssumption
  <2>4. ~Restart /\ ~Rest /\ ~UNCHANGED vars
    BY <2>1, Stops DEF TypeOK
  <2> QED BY <1>2, <1>3, <2>2, <2>3, <2>4 DEF Next
<1> QED BY <1>1, <1>2, <1>3, <1>4, <1>5 DEF Next

LEMMA LedgerInit == Init => LedgerRows /\ TellsLast
<1> SUFFICES ASSUME Init PROVE LedgerRows /\ TellsLast
  OBVIOUS
<1>1. PICK seeded \in [Seeds -> SeedStates] :
        tasks = [t \in TaskIds |-> IF t \in Seeds THEN seeded[t] ELSE Absent]
  BY DEF Init
<1>2. \A t \in Seeds : tasks[t] # Absent
  BY <1>1, WorkloadAssumption
<1>3. tasksDisk = tasks /\ deleted = {} /\ \A r \in Requests : pc[r] = "idle" /\ told[r] = "nothing"
  BY DEF Init
<1> QED BY <1>2, <1>3 DEF LedgerRows, TellsLast

\* A message's row appears once, before anybody can ask for its removal.
LEMMA MessageRowsStep ==
    ASSUME TypeOK, TaskInv, DeletesHold, LedgerRows, [Next]_vars, NEW m \in Messages
    PROVE  /\ m \in deleted' => pc'[m] \notin Early
           /\ \/ tasks'[m] = tasksDisk'[m]
              \/ tasks'[m] = "completed" /\ tasksDisk'[m] = Absent /\ m \notin deleted'
              \/ tasks'[m] = Absent /\ m \in deleted'
<1>1. /\ m \in TaskIds
      /\ m \in deleted => pc[m] \notin Early
      /\ \/ tasks[m] = tasksDisk[m]
         \/ tasks[m] = "completed" /\ tasksDisk[m] = Absent /\ m \notin deleted
         \/ tasks[m] = Absent /\ m \in deleted
  BY DEF LedgerRows
<1>2. pc[m] \notin Early => pc'[m] \notin Early
  BY WritesOnce
<1>3. CASE \A r \in Requests : ~Writes(r)
  BY <1>1, <1>2, <1>3, Removals, RowMoves
<1>4. ASSUME NEW r \in Requests, Writes(r)
      PROVE  /\ m \in deleted' => pc'[m] \notin Early
             /\ \/ tasks'[m] = tasksDisk'[m]
                \/ tasks'[m] = "completed" /\ tasksDisk'[m] = Absent /\ m \notin deleted'
                \/ tasks'[m] = Absent /\ m \in deleted'
  <2>1. deleted' = IF r \in Deletes THEN deleted \cup {Target(r)} ELSE deleted
    BY <1>4, Removals
  <2>2. pc[r] = "saveTask" /\ tasks' = [tasks EXCEPT ![Target(r)] = RowOf(r)]
        /\ tasksDisk' = tasksDisk /\ r \notin Gets
    BY <1>4 DEF Writes
  <2>3. CASE Target(r) # m
    BY <1>1, <1>2, <2>1, <2>2, <2>3 DEF TypeOK
  <2>4. CASE Target(r) = m /\ r \in Messages
    <3>1. r = m /\ pc[m] \in Early /\ r \notin Deletes
      BY <2>2, <2>4, RequestsAssumption DEF Target, Early
    <3>2. tasks[m] = Absent /\ tasksDisk[m] = Absent /\ m \notin deleted
      <4>1. tasks[m] = Absent /\ tasksDisk[m] = Absent
        BY <3>1 DEF DeletesHold
      <4> QED BY <1>1, <3>1, <4>1
    <3>3. tasks'[m] = "completed"
      BY <1>1, <2>2, <2>4, <3>1 DEF RowOf, TypeOK
    <3> QED BY <2>1, <2>2, <3>1, <3>2, <3>3
  <2>5. CASE Target(r) = m /\ r \in Deletes
    <3>1. pc[m] \notin Early
      BY <2>2, <2>5 DEF DeletesHold, Deleting
    <3>2. tasks'[m] = Absent
      BY <1>1, <2>2, <2>5, RequestsAssumption DEF RowOf, TypeOK
    <3> QED BY <1>2, <2>1, <2>5, <3>1, <3>2
  <2>6. r \in Cancels => Target(r) # m
    BY <2>2, RequestsAssumption DEF TaskInv, CancelsNameSeeds
  <2> QED BY <2>2, <2>3, <2>4, <2>5, <2>6
<1> QED BY <1>3, <1>4

\* A seed's row is canceled from a state that is not final, or removed.
LEMMA SeedRowsStep ==
    ASSUME TypeOK, TaskInv, LedgerRows, [Next]_vars, NEW t \in Seeds
    PROVE  /\ Absent \in {tasks'[t], tasksDisk'[t]} => t \in deleted'
           /\ \/ tasks'[t] \in {tasksDisk'[t], Absent}
              \/ tasks'[t] = "canceled" /\ tasksDisk'[t] \notin Terminal
           /\ \A c \in Cancels :
                Target(c) = t /\ pc'[c] \in {"saveTask", "commitTask"} =>
                  {tasks'[t], tasksDisk'[t]} \cap Terminal \subseteq {"canceled"}
<1>1. /\ t \in TaskIds /\ "canceled" \in Terminal /\ Absent \notin Terminal
      /\ Absent \in {tasks[t], tasksDisk[t]} => t \in deleted
      /\ \/ tasks[t] \in {tasksDisk[t], Absent}
         \/ tasks[t] = "canceled" /\ tasksDisk[t] \notin Terminal
  BY DEF LedgerRows, Terminal
<1>2. ASSUME NEW c \in Cancels, Target(c) = t, FindTask(c), pc'[c] = "saveTask"
      PROVE  {tasks[t], tasksDisk[t]} \cap Terminal \subseteq {"canceled"}
  <2>1. tasks[t] \notin Terminal \cup {Absent}
    BY <1>2, RequestsAssumption DEF FindTask, Goto, TypeOK
  <2> QED BY <1>1, <2>1
<1>3. ASSUME NEW c \in Cancels, Target(c) = t, pc'[c] \in {"saveTask", "commitTask"}
      PROVE  {tasks[t], tasksDisk[t]} \cap Terminal \subseteq {"canceled"}
  <2>1. CASE pc[c] \in {"saveTask", "commitTask"}
    BY <1>3, <2>1 DEF LedgerRows
  <2> QED BY <1>2, <1>3, <2>1, Pending
<1>4. CASE \A r \in Requests : ~Writes(r)
  BY <1>1, <1>3, <1>4, Removals, RowMoves
<1>5. ASSUME NEW r \in Requests, Writes(r)
      PROVE  /\ tasksDisk' = tasksDisk /\ deleted \subseteq deleted'
             /\ \/ tasks'[t] = tasks[t]
                \/ tasks'[t] = Absent /\ t \in deleted'
                \/ tasks'[t] = "canceled" /\ {tasksDisk[t]} \cap Terminal \subseteq {"canceled"}
  <2>1. deleted' = IF r \in Deletes THEN deleted \cup {Target(r)} ELSE deleted
    BY <1>5, Removals
  <2>2. pc[r] = "saveTask" /\ tasks' = [tasks EXCEPT ![Target(r)] = RowOf(r)]
        /\ tasksDisk' = tasksDisk /\ r \notin Gets
    BY <1>5 DEF Writes
  <2>3. CASE Target(r) # t
    BY <1>1, <2>1, <2>2, <2>3 DEF TypeOK
  <2>4. CASE Target(r) = t
    <3>1. r \notin Messages /\ r \in Cancels \cup Deletes
      BY <2>2, <2>4, RequestsAssumption DEF Target
    <3>2. tasks'[t] = RowOf(r)
      BY <1>1, <2>2, <2>4 DEF TypeOK
    <3>3. CASE r \in Deletes
      BY <2>1, <2>2, <2>4, <3>2, <3>3, RequestsAssumption DEF RowOf
    <3>4. CASE r \in Cancels
      <4>1. {tasksDisk[t]} \cap Terminal \subseteq {"canceled"}
        BY <2>2, <2>4, <3>4 DEF LedgerRows
      <4> QED BY <2>1, <2>2, <3>1, <3>2, <3>4, <4>1, RequestsAssumption DEF RowOf
    <3> QED BY <3>1, <3>3, <3>4
  <2> QED BY <2>3, <2>4
<1>6. CASE \E r \in Requests : Writes(r)
  BY <1>1, <1>3, <1>5, <1>6
<1> QED BY <1>4, <1>6

\* Once a client was told its result its request is over.
LEMMA TellsLastStep == TypeOK /\ TaskInv /\ TellsLast /\ [Next]_vars => TellsLast'
<1> SUFFICES ASSUME TypeOK, TaskInv, TellsLast, [Next]_vars, NEW r \in Messages \cup Cancels,
                    told'[r] \in {"completed", "canceled"}
             PROVE  pc'[r] \in {"count", "answered", "gone", "lost"}
  BY DEF TellsLast
<1>1. r \in Requests /\ r \notin Deletes \cup Gets
  BY RequestsAssumption
<1>2. told[r] \in {"completed", "canceled"} => pc[r] \in {"count", "answered", "gone", "lost"}
  BY DEF TellsLast
<1>3. ASSUME NEW q \in Requests, Arrive(q) \/ Step(q), q # r
      PROVE  pc'[r] = pc[r] /\ told'[r] = told[r]
  BY <1>1, <1>3, Moves DEF Alone
<1>4. Arrive(r) \/ Step(r) => pc'[r] \in {"count", "answered", "gone", "lost"}
  BY <1>1, <1>2, Moves DEF Step
<1>5. (\E m \in Streams : Leave(m)) \/ Restart \/ Rest \/ UNCHANGED vars
        => told'[r] = told[r] /\ pc'[r] \in {pc[r], "gone", "lost"}
  BY <1>1, Stops DEF TypeOK
<1> QED BY <1>2, <1>3, <1>4, <1>5 DEF Next

LEMMA LedgerStep ==
    TypeOK /\ TaskInv /\ DeletesHold /\ LedgerRows /\ [Next]_vars => LedgerRows'
<1> SUFFICES ASSUME TypeOK, TaskInv, DeletesHold, LedgerRows, [Next]_vars PROVE LedgerRows'
  OBVIOUS
<1>1. \A m \in Messages :
        /\ m \in deleted' => pc'[m] \notin Early
        /\ \/ tasks'[m] = tasksDisk'[m]
           \/ tasks'[m] = "completed" /\ tasksDisk'[m] = Absent /\ m \notin deleted'
           \/ tasks'[m] = Absent /\ m \in deleted'
  BY MessageRowsStep
<1>2. \A t \in Seeds :
        /\ Absent \in {tasks'[t], tasksDisk'[t]} => t \in deleted'
        /\ \/ tasks'[t] \in {tasksDisk'[t], Absent}
           \/ tasks'[t] = "canceled" /\ tasksDisk'[t] \notin Terminal
        /\ \A c \in Cancels :
             Target(c) = t /\ pc'[c] \in {"saveTask", "commitTask"} =>
               {tasks'[t], tasksDisk'[t]} \cap Terminal \subseteq {"canceled"}
  BY SeedRowsStep
<1> QED BY <1>1, <1>2 DEF LedgerRows, Target

\* What was promised stays so: nothing is told to a client after its result.
LEMMA PromisesStay ==
    ASSUME TypeOK, TaskInv, TellsLast, [Next]_vars
    PROVE  /\ Promised \subseteq Promised'
           /\ (\E r \in Requests : Writes(r)) => Promised' = Promised
<1>1. ASSUME NEW r \in Messages \cup Cancels, told[r] \in {"completed", "canceled"}
      PROVE  told'[r] = told[r]
  <2>1. r \in Requests /\ pc[r] \in {"count", "answered", "gone", "lost"}
    BY <1>1 DEF TellsLast
  <2>2. ASSUME NEW q \in Requests, Arrive(q) \/ Step(q), q # r PROVE told'[r] = told[r]
    BY <2>1, <2>2, Moves DEF Alone
  <2>3. Arrive(r) \/ Step(r) => told'[r] = told[r]
    BY <2>1, Moves DEF Step
  <2> QED BY <2>2, <2>3, Stops DEF Next
<1>2. Promised \subseteq Promised'
  <2> SUFFICES ASSUME NEW r \in Messages \cup Cancels, told[r] \in {"completed", "canceled"}
               PROVE  <<Target(r), told[r]>> \in Promised'
    BY DEF Promised
  <2> QED BY <1>1 DEF Promised, Target
<1>3. ASSUME NEW r \in Requests, Writes(r) PROVE Promised' = Promised
  BY <1>3 DEF Writes, Promised, Target
<1> QED BY <1>2, <1>3

LEMMA LedgerMoves ==
    ASSUME IInv, TaskInv', LedgerRows, TellsLast, [Next]_vars
    PROVE  [Ledger!Next]_(Ledger!vars)
<1> USE DEF Ledger!Rows, Ledger!States, Ledger!Absent, Ledger!Terminal, Terminal
<1>1. TypeOK /\ TaskInv /\ TypeOK'
  BY TypeStep DEF IInv
<1>2. ASSUME NEW r \in Requests, Writes(r), r \in Deletes PROVE Ledger!AskRemoval(Target(r))
  BY <1>1, <1>2, Removals, PromisesStay DEF Ledger!AskRemoval, Writes
<1>3. ASSUME deleted' = deleted PROVE Ledger!Commit
  <2>1. tasksDisk' \in [TaskIds -> Rows]
    BY <1>1 DEF TypeOK
  <2>2. tasksDisk' \in {tasksDisk, tasks}
    BY <1>1, RowMoves DEF Writes
  <2>3. ASSUME NEW t \in TaskIds
        PROVE  tasksDisk'[t] = tasksDisk[t] \/ Ledger!Add(t) \/ Ledger!Cancel(t) \/ Ledger!Remove(t)
    <3> SUFFICES ASSUME tasksDisk'[t] = tasks[t], tasks[t] # tasksDisk[t]
                 PROVE  Ledger!Add(t) \/ Ledger!Cancel(t) \/ Ledger!Remove(t)
      BY <2>2
    <3>1. CASE t \in Messages
      <4>1. \/ tasks[t] = "completed" /\ tasksDisk[t] = Absent /\ t \notin deleted
            \/ tasks[t] = Absent /\ t \in deleted
        BY <3>1 DEF LedgerRows
      <4> QED BY <3>1, <4>1 DEF Ledger!Add, Ledger!Remove
    <3>2. CASE t \in Seeds
      <4>1. /\ t \notin Messages
            /\ Absent \in {tasks[t], tasksDisk[t]} => t \in deleted
            /\ \/ tasks[t] = Absent
               \/ tasks[t] = "canceled" /\ tasksDisk[t] \notin Terminal
        BY <3>2, RequestsAssumption DEF LedgerRows
      <4> QED BY <4>1 DEF Ledger!Cancel, Ledger!Remove
    <3> QED BY <3>1, <3>2
  <2>4. Promised \subseteq Promised'
    BY <1>1, PromisesStay
  <2>5. ASSUME NEW r \in Messages \cup Cancels, told'[r] \in {"completed", "canceled"}
        PROVE  tasksDisk'[Target(r)] = told'[r] \/ Target(r) \in deleted'
    BY <2>5 DEF TaskInv, TellsItsRow, RowsAreSaved, Saved, Target, RowOf
  <2>6. ASSUME NEW p \in Promised' PROVE tasksDisk'[p[1]] = p[2] \/ p[1] \in deleted'
    <3>1. PICK r \in Messages \cup Cancels :
            told'[r] \in {"completed", "canceled"} /\ p = <<Target(r), told'[r]>>
      BY DEF Promised, Target
    <3> QED BY <2>5, <3>1
  <2> QED BY <1>3, <2>1, <2>3, <2>4, <2>6 DEF Ledger!Commit, Ledger!Holds
<1>4. CASE \E r \in Requests : Writes(r) /\ r \in Deletes
  BY <1>2, <1>4, TargetType DEF Ledger!Next
<1>5. CASE ~\E r \in Requests : Writes(r) /\ r \in Deletes
  <2>1. deleted' = deleted
    BY <1>1, <1>5, Removals
  <2> QED BY <1>3, <2>1 DEF Ledger!Next
<1> QED BY <1>4, <1>5

\* The gateway implements TaskLedger: commits, whoever made their changes, and
\* crashes, whatever they interrupt, show its clients one table of rows.
THEOREM ImplementsLedger == Spec => IsTaskLedger
<1>1. Init => Ledger!Init
  <2> SUFFICES ASSUME Init PROVE Ledger!Init
    OBVIOUS
  <2>1. tasksDisk \in [TaskIds -> Rows] /\ deleted = {}
    BY TypeInit DEF TypeOK, Init
  <2>2. \A m \in Messages : tasksDisk[m] = Absent
    <3>1. PICK seeded \in [Seeds -> SeedStates] :
            tasks = [t \in TaskIds |-> IF t \in Seeds THEN seeded[t] ELSE Absent]
      BY DEF Init
    <3> QED BY <3>1, RequestsAssumption DEF Init
  <2>3. Promised = {}
    BY DEF Init, Promised
  <2> QED BY <2>1, <2>2, <2>3 DEF Ledger!Init, Ledger!Rows, Ledger!States, Ledger!Absent
<1>2. Spec => []DeletesHold
  <2>1. IInv /\ DeletesHold /\ [Next]_vars => DeletesHold'
    BY DeletesStep DEF IInv
  <2> QED BY <2>1, DeletesInit, InductiveInvariant, PTL DEF Spec
<1>3. IInv /\ DeletesHold /\ LedgerRows /\ TellsLast /\ [Next]_vars => (LedgerRows /\ TellsLast)'
  BY LedgerStep, TellsLastStep DEF IInv
<1>4. IInv /\ IInv' /\ LedgerRows /\ TellsLast /\ [Next]_vars => [Ledger!Next]_(Ledger!vars)
  <2>1. IInv' => TaskInv'
    BY DEF IInv
  <2> QED BY <2>1, LedgerMoves
<1> QED BY <1>1, <1>2, <1>3, <1>4, LedgerInit, InductiveInvariant, PTL
        DEF Spec, IsTaskLedger, Ledger!Spec
=============================================================================
