------------------------- MODULE StreamRelayProofs -------------------------
(***************************************************************************)
(* What is proved of StreamRelay, for every number of chunks and every     *)
(* retry budget: types, heartbeats lose nothing, completed streams end     *)
(* with one whole response, the generator is a bounded retry loop, and     *)
(* composing it with the other operation of the client changes none of     *)
(* this.                                                                   *)
(***************************************************************************)
EXTENDS HermesClient, SequenceTheorems, TLAPS

\* What Generator's steps, and the loop's, are.
LEMMA Steps ==
  ASSUME [RelayNext]_relayVars
  PROVE  Receive \/ Open \/ Refuse \/ StreamConnectError \/ StreamTimeout \/ Break \/ Repost \/ Chunk \/ Finish
         \/ Start \/ KeepWaiting \/ Relay \/ Pull \/ Complete \/ Fail \/ Heartbeat \/ Leave
         \/ UNCHANGED relayVars
BY DEF RelayNext, Generator, Loop, Rest

LEMMA TypeInit == RelayInit => RelayTypeOK
<1> SUFFICES ASSUME RelayInit PROVE RelayTypeOK
    OBVIOUS
<1>1. held \in Seq(Nat \X Nat) /\ collected \in Seq(Nat \X Nat) /\ wire \in Seq(Nat \X Nat)
    BY EmptySeq DEF RelayInit
<1>2. attempt \in 0..1 + ConnectRetries + TimeoutRetries
    BY BudgetsAssumption DEF RelayInit
<1>3. connectAttempts \in 0..ConnectRetries + 1 /\ timeoutAttempts \in 0..TimeoutRetries + 1 /\ read \in 0..Chunks
    BY BudgetsAssumption DEF RelayInit
<1> QED  BY <1>1, <1>2, <1>3 DEF RelayInit, RelayTypeOK, Errors, Over

\* The budgets bound the attempts.
LEMMA Attempts ==
  ASSUME RelayTypeOK, Charged, gen = "sleeping"
  PROVE  attempt < 1 + ConnectRetries + TimeoutRetries
BY BudgetsAssumption DEF RelayTypeOK, Charged

\* A step of the generator other than a chunk touches no sequence.
LEMMA TypeStep == RelayTypeOK /\ Charged /\ [RelayNext]_relayVars => RelayTypeOK'
<1> SUFFICES ASSUME RelayTypeOK, Charged, [RelayNext]_relayVars PROVE RelayTypeOK'
    OBVIOUS
<1> USE BudgetsAssumption DEF RelayTypeOK, Runs, Raise, source, budgets, Over, Errors
<1>1. CASE Open  BY <1>1 DEF Open
<1>2. CASE Refuse  BY <1>2 DEF Refuse
<1>3. CASE StreamConnectError  BY <1>3 DEF StreamConnectError, Charged
<1>4. CASE StreamTimeout  BY <1>4 DEF StreamTimeout, Charged
<1>5. CASE Break  BY <1>5 DEF Break
<1>6. CASE Repost
  <2>1. attempt' \in 0..1 + ConnectRetries + TimeoutRetries  BY <1>6, Attempts DEF Repost
  <2> QED  BY <1>6, <2>1 DEF Repost
<1>7. CASE Chunk
  <2>1. read' \in 0..Chunks /\ <<attempt, read'>> \in Nat \X Nat  BY <1>7 DEF Chunk
  <2>2. held' \in Seq(Nat \X Nat)  BY <1>7, <2>1 DEF Chunk
  <2>3. wire' \in Seq(Nat \X Nat)  BY <1>7, <2>1, AppendProperties DEF Chunk
  <2> QED  BY <1>7, <2>1, <2>2, <2>3 DEF Chunk
<1>8. CASE Finish  BY <1>8 DEF Finish
<1>9. CASE Relay
  <2>1. collected' \in Seq(Nat \X Nat)  BY <1>9, ConcatProperties DEF Relay
  <2> QED  BY <1>9, <2>1 DEF Relay
<1>10. CASE Start \/ KeepWaiting \/ Pull \/ Complete \/ Fail \/ Heartbeat
    BY <1>10 DEF Start, KeepWaiting, Pull, Complete, Fail, Heartbeat
<1>11. CASE Leave  BY <1>11 DEF Leave
<1>12. CASE Receive  BY <1>12 DEF Receive
<1>13. CASE UNCHANGED relayVars  BY <1>13 DEF relayVars
<1> QED  BY <1>1, <1>2, <1>3, <1>4, <1>5, <1>6, <1>7, <1>8, <1>9, <1>10, <1>11, <1>12, <1>13,
            Steps

\* Every POST but the first follows a pause that one budget paid for.
LEMMA ChargedStep == RelayTypeOK /\ Charged /\ HandedOver /\ [RelayNext]_relayVars => Charged'
<1> SUFFICES ASSUME RelayTypeOK, Charged, HandedOver, [RelayNext]_relayVars PROVE Charged'
    OBVIOUS
<1> USE BudgetsAssumption DEF RelayTypeOK, Charged, Runs, Raise, source, budgets
<1>1. CASE Open  BY <1>1 DEF Open
<1>2. CASE Refuse  BY <1>2 DEF Refuse
<1>3. CASE StreamConnectError  BY <1>3 DEF StreamConnectError
<1>4. CASE StreamTimeout  BY <1>4 DEF StreamTimeout
<1>5. CASE Break  BY <1>5 DEF Break
<1>6. CASE Repost  BY <1>6 DEF Repost
<1>7. CASE Chunk  BY <1>7 DEF Chunk
<1>8. CASE Finish  BY <1>8 DEF Finish
<1>9. CASE Start \/ KeepWaiting \/ Relay \/ Pull \/ Complete \/ Fail \/ Heartbeat
    BY <1>9 DEF Start, KeepWaiting, Relay, Pull, Complete, Fail, Heartbeat
<1>10. CASE Leave  BY <1>10 DEF Leave, HandedOver
<1>11. CASE Receive  BY <1>11 DEF Receive, HandedOver
<1>12. CASE UNCHANGED relayVars  BY <1>12 DEF relayVars
<1> QED  BY <1>1, <1>2, <1>3, <1>4, <1>5, <1>6, <1>7, <1>8, <1>9, <1>10, <1>11, <1>12, Steps

\* A chunk that is held waits for a loop that looks for it.
LEMMA HandedOverStep == RelayTypeOK /\ HandedOver /\ [RelayNext]_relayVars => HandedOver'
<1> SUFFICES ASSUME RelayTypeOK, HandedOver, [RelayNext]_relayVars PROVE HandedOver'
    OBVIOUS
<1> USE DEF HandedOver, Runs, Raise, source, Over
<1>1. CASE Open \/ Refuse \/ StreamConnectError \/ StreamTimeout \/ Break \/ Repost \/ Finish
    BY <1>1 DEF Open, Refuse, StreamConnectError, StreamTimeout, Break, Repost, Finish
<1>2. CASE Chunk  BY <1>2 DEF Chunk
<1>3. CASE Start \/ KeepWaiting \/ Relay \/ Pull \/ Heartbeat
    BY <1>3 DEF Start, KeepWaiting, Relay, Pull, Heartbeat, TaskDone
<1>4. CASE Complete \/ Fail  BY <1>4 DEF Complete, Fail
<1>5. CASE Leave  BY <1>5 DEF Leave
<1>6. CASE Receive  BY <1>6 DEF Receive
<1>7. CASE UNCHANGED relayVars  BY <1>7 DEF relayVars
<1> QED  BY <1>1, <1>2, <1>3, <1>4, <1>5, <1>6, <1>7, Steps

-----------------------------------------------------------------------------
\* What the client got and is about to get is what was yielded.
LEMMA HeartbeatsStep ==
  RelayTypeOK /\ HandedOver /\ HeartbeatsLoseNothing /\ [RelayNext]_relayVars => HeartbeatsLoseNothing'
<1> SUFFICES ASSUME RelayTypeOK, HandedOver, HeartbeatsLoseNothing, [RelayNext]_relayVars
             PROVE  HeartbeatsLoseNothing'
    OBVIOUS
<1> USE DEF HeartbeatsLoseNothing
<1>1. CASE Chunk
  <2> DEFINE chunk == <<attempt, read'>>
  <2>1. held = <<>> /\ chunk \in Nat \X Nat  BY <1>1 DEF Chunk, Runs, HandedOver, RelayTypeOK
  <2>2. collected = wire  BY <2>1, ConcatEmptySeq DEF RelayTypeOK
  <2>3. Append(collected, chunk) = collected \o <<chunk>>  BY <2>1, AppendIsConcat DEF RelayTypeOK
  <2> QED  BY <1>1, <2>2, <2>3 DEF Chunk
<1>2. CASE Relay
  <2>1. wire \o <<>> = wire  BY ConcatEmptySeq DEF RelayTypeOK
  <2> QED  BY <1>2, <2>1 DEF Relay
<1>3. CASE UNCHANGED <<held, collected, wire>>  BY <1>3
<1> QED  BY <1>1, <1>2, <1>3, Steps
         DEF Receive, Open, Refuse, StreamConnectError, StreamTimeout, Break, Repost, Finish,
             Start, KeepWaiting, Pull, Complete, Fail, Heartbeat, Leave, relayVars

\* The end of what was yielded is what this POST has carried so far.
LEMMA EndOfWireStep ==
  RelayTypeOK /\ Charged /\ HandedOver /\ EndOfWire /\ [RelayNext]_relayVars => EndOfWire'
<1> SUFFICES ASSUME RelayTypeOK, Charged, HandedOver, EndOfWire, [RelayNext]_relayVars
             PROVE  EndOfWire'
    OBVIOUS
<1> USE DEF EndOfWire, Runs, Raise, source
<1>0. Len(wire) \in Nat /\ read \in Nat /\ attempt \in Nat
                /\ (gen # "idle" => attempt > 0)
    BY BudgetsAssumption, LenProperties DEF RelayTypeOK, Charged
<1>1. CASE Open
  <2>1. attempt = 1 => Len(wire) = 0  BY <1>1, EmptySeq DEF Open
  <2> QED  BY <1>0, <1>1, <2>1 DEF Open
<1>2. CASE Repost
  <2>1. attempt' # 1  BY <1>0, <1>2 DEF Repost
  <2> QED  BY <1>2, <2>1 DEF Repost
<1>3. CASE Chunk
  <2> DEFINE chunk == <<attempt, read + 1>>
  <2>1. /\ wire' = Append(wire, chunk) /\ read' = read + 1 /\ gen = "reading"
        /\ UNCHANGED <<gen, attempt>>
      BY <1>3 DEF Chunk
  <2>2. wire \in Seq(Nat \X Nat) /\ chunk \in Nat \X Nat
    <3>1. attempt \in Nat /\ read + 1 \in Nat  BY <1>0
    <3> QED  BY <3>1 DEF RelayTypeOK
  <2>3. /\ Len(wire') = Len(wire) + 1
        /\ \A i \in 1..Len(wire) : wire'[i] = wire[i]
        /\ wire'[Len(wire) + 1] = chunk
      BY <2>1, <2>2, AppendProperties
  <2>4. ASSUME NEW n \in 1..read'
        PROVE  wire'[Len(wire') - read' + n] = <<attempt, n>>
    <3>1. Len(wire') - read' + n = Len(wire) - read + n  BY <1>0, <2>1, <2>3
    <3>2. CASE n = read + 1  BY <1>0, <2>3, <3>1, <3>2
    <3>3. CASE n # read + 1
      <4>1. n \in 1..read /\ Len(wire) - read + n \in 1..Len(wire)  BY <1>0, <2>1, <3>3
      <4> QED  BY <2>1, <2>3, <3>1, <4>1
    <3> QED  BY <3>2, <3>3
  <2>5. Len(wire') >= read' /\ (attempt' = 1 => Len(wire') = read')  BY <1>0, <2>1, <2>3
  <2> QED  BY <2>1, <2>4, <2>5
<1>4. CASE gen' = gen /\ UNCHANGED <<wire, read, attempt>>  BY <1>4
<1>5. CASE gen' \notin {"idle", "posting", "reading", "finished"}  BY <1>5
<1>6. CASE Finish  BY <1>6 DEF Finish
<1>7. CASE Receive  BY <1>7 DEF Receive, HandedOver
<1> QED  BY <1>1, <1>2, <1>3, <1>4, <1>5, <1>6, <1>7, Steps
         DEF Refuse, StreamConnectError, StreamTimeout, Break, Start, KeepWaiting, Relay,
             Pull, Complete, Fail, Heartbeat, Leave, relayVars

LEMMA InvInit == RelayInit => IInv
<1> SUFFICES ASSUME RelayInit PROVE IInv
    OBVIOUS
<1>1. RelayTypeOK  BY TypeInit
<1>2. Charged  BY BudgetsAssumption DEF RelayInit, Charged
<1>3. HandedOver /\ EndOfWire  BY DEF RelayInit, HandedOver, EndOfWire
<1>4. HeartbeatsLoseNothing  BY <1>1, ConcatEmptySeq DEF RelayInit, RelayTypeOK, HeartbeatsLoseNothing
<1> QED  BY <1>1, <1>2, <1>3, <1>4 DEF IInv

LEMMA InvStep == IInv /\ [RelayNext]_relayVars => IInv'
BY TypeStep, ChargedStep, HandedOverStep, HeartbeatsStep, EndOfWireStep DEF IInv

\* The inductive invariant of the relay holds throughout.
THEOREM RelayInvariant == RelaySpec => []IInv
BY InvInit, InvStep, PTL DEF RelaySpec

\* A heartbeat neither loses nor repeats a chunk, whenever it arrives.
THEOREM NothingIsLost == RelaySpec => []HeartbeatsLoseNothing
<1>1. IInv => HeartbeatsLoseNothing  BY DEF IInv
<1> QED  BY <1>1, RelayInvariant, PTL

\* No read of Hermes' response outlives the client's stream.
THEOREM NoOrphanedRead == RelaySpec => []NobodyReadsForNobody
<1>1. IInv => NobodyReadsForNobody  BY DEF IInv, HandedOver, NobodyReadsForNobody, Over
<1> QED  BY <1>1, RelayInvariant, PTL

\* A stream is completed with everything its last POST carried.
THEOREM EndsWhole == RelaySpec => []CompletedStreamsEndWhole
<1>1. IInv => CompletedStreamsEndWhole
  <2> SUFFICES ASSUME IInv, loop = "completed"
               PROVE  /\ Len(collected) >= read
                      /\ LastAttempt = [n \in 1..read |-> <<attempt, n>>]
                      /\ attempt = 1 => Len(collected) = read
      BY DEF CompletedStreamsEndWhole
  <2>1. gen = "finished" /\ held = <<>>  BY DEF IInv, HandedOver
  <2>2. collected \in Seq(Nat \X Nat) /\ read \in Nat /\ attempt \in Nat
      BY BudgetsAssumption DEF IInv, RelayTypeOK
  <2>3. collected = wire  BY <2>1, <2>2, ConcatEmptySeq DEF IInv, HeartbeatsLoseNothing
  <2>4. /\ Len(collected) >= read
        /\ \A n \in 1..read : collected[Len(collected) - read + n] = <<attempt, n>>
        /\ attempt = 1 => Len(collected) = read
      BY <2>1, <2>3 DEF IInv, EndOfWire
  <2>5. LastAttempt = [n \in 1..read |-> <<attempt, n>>]
    <3> DEFINE m == Len(collected) - read + 1
               l == Len(collected)
               parts == Nat \X Nat
    <3>1. l \in Nat /\ m \in Int /\ m >= 1 /\ l - m + 1 = read
        BY <2>2, <2>4, LenProperties
    <3>2. \A i \in m..l : collected[i] \in parts  BY <2>2, <3>1, ElementOfSeq
    <3>3. /\ LastAttempt \in Seq(parts)
          /\ Len(LastAttempt) = read
          /\ \A i \in 1..read : LastAttempt[i] = collected[m + i - 1]
      <4> HIDE DEF parts, m, l
      <4>1. /\ SubSeq(collected, m, l) \in Seq(parts)
            /\ Len(SubSeq(collected, m, l)) = IF m <= l THEN l - m + 1 ELSE 0
            /\ \A i \in 1..l - m + 1 : SubSeq(collected, m, l)[i] = collected[m + i - 1]
          BY <3>1, <3>2, SubSeqProperties
      <4>2. LastAttempt = SubSeq(collected, m, l)  BY DEF LastAttempt, m, l
      <4>3. Len(LastAttempt) = read  BY <2>2, <3>1, <4>1, <4>2
      <4> QED  BY <3>1, <4>1, <4>2, <4>3
    <3>4. \A i \in 1..read : LastAttempt[i] = <<attempt, i>>
      <4> TAKE i \in 1..read
      <4>1. m + i - 1 = Len(collected) - read + i  BY <2>2, <3>1
      <4> QED  BY <2>4, <3>3, <4>1
    <3>5. LastAttempt \in [1..read -> parts]  BY <3>3, LenProperties
    <3> HIDE DEF parts
    <3> QED  BY <3>4, <3>5
  <2> QED  BY <2>4, <2>5
<1> QED  BY <1>1, RelayInvariant, PTL

\* The safety half of StreamIsBoundedRetry: the generator starts like
\* BoundedRetry, and every step is a step of BoundedRetry or changes nothing it shows.
THEOREM RefinesBoundedRetry ==
  RelaySpec => StreamRetry!Init /\ [][StreamRetry!Next]_(StreamRetry!vars)
<1>1. RelayInit => StreamRetry!Init  BY DEF RelayInit, StreamRetry!Init
<1>2. IInv /\ [RelayNext]_relayVars => [StreamRetry!Next]_(StreamRetry!vars)
  <2> SUFFICES ASSUME IInv, [RelayNext]_relayVars PROVE [StreamRetry!Next]_(StreamRetry!vars)
      OBVIOUS
  <2> USE DEF StreamRetry!Next, StreamRetry!Call, StreamRetry!Try, StreamRetry!Decide, StreamRetry!vars
  <2>1. CASE UNCHANGED <<gen, attempt>>  BY <2>1
  <2>2. gen # "idle" => attempt \in Nat /\ attempt > 0
      BY BudgetsAssumption DEF IInv, RelayTypeOK, Charged
  <2>3. CASE Repost
    <3>1. attempt < 1 + ConnectRetries + TimeoutRetries /\ gen = "sleeping"
        BY <2>3, Attempts DEF Repost, Runs, IInv
    <3>2. attempt \in 1..(1 + ConnectRetries + TimeoutRetries) - 1
        BY <2>2, <3>1, BudgetsAssumption
    <3> QED  BY <2>3, <3>1, <3>2 DEF Repost
  <2>4. CASE /\ attempt' = attempt /\ gen \in {"posting", "sleeping", "reading"}
             /\ gen' \in {"posting", "sleeping", "reading", "finished", "raised", "closed"}
      BY <2>2, <2>4
  <2>5. CASE Leave
      BY <2>1, <2>4, <2>5 DEF Leave, IInv, RelayTypeOK, HandedOver
  <2>6. CASE Receive
    <3>1. gen = "idle"  BY <2>6 DEF Receive, IInv, HandedOver
    <3>2. attempt = 0  BY <3>1, BudgetsAssumption DEF IInv, Charged, RelayTypeOK
    <3> QED  BY <2>6, <3>1, <3>2 DEF Receive
  <2> QED  BY <2>1, <2>3, <2>4, <2>5, <2>6, Steps
           DEF Open, Refuse, StreamConnectError, StreamTimeout, Break, Chunk, Finish, Start,
               KeepWaiting, Relay, Pull, Complete, Fail, Heartbeat, source, budgets, relayVars,
               Runs, Raise
<1> QED  BY <1>1, <1>2, RelayInvariant, PTL DEF RelaySpec

-----------------------------------------------------------------------------
\* The client with both its operations behaves, to each of them, like that
\* operation alone: what is proved of Spec and of RelaySpec holds of ClientSpec.
THEOREM OneCallAtATime ==
  ClientSpec => Init /\ [][Next]_vars /\ RelayInit /\ [][RelayNext]_relayVars
<1>1. ClientInit => Init /\ RelayInit  BY DEF ClientInit
<1>2. [ClientNext]_<<vars, relayVars>> => [Next]_vars /\ [RelayNext]_relayVars
    BY DEF ClientNext
<1> QED  BY <1>1, <1>2, PTL DEF ClientSpec
=============================================================================
