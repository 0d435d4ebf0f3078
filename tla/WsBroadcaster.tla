--------------------------- MODULE WsBroadcaster ----------------------------
(***************************************************************************)
(* The dashboard's WebSockets (ws_broadcaster.py): handlers that register  *)
(* and remove their connection, and broadcasters that send to all of them, *)
(* under one asyncio.Lock.  A broadcaster keeps the lock while it awaits   *)
(* each send, so a client that does not read (a stalled link) blocks       *)
(* everybody; registering and removing await nothing under the lock.       *)
(*                                                                         *)
(* asyncio.Lock is fair: who finds it taken, or others waiting, queues, and*)
(* the first in the queue is next.  Who finds it free goes on at once.     *)
(* Messages are known by their place in the order of the broadcasts.       *)
(***************************************************************************)
EXTENDS Integers, Sequences

CONSTANTS
    Clients,   \* WebSocket connections, each made once
    Events,    \* calls of broadcast_task_created and its like
    MaxTicks   \* bound on the rounds of the metrics loop, for TLC

ASSUME PartiesAssumption ==
    /\ Clients \cap Events = {}
    /\ "metrics" \notin Clients \cup Events /\ "nobody" \notin Events
    /\ MaxTicks \in Nat

Nobody       == "nobody"
Metrics      == "metrics"
Broadcasters == Events \cup {Metrics}
Parties      == Clients \cup Broadcasters

VARIABLES
    pc,           \* where each handler and broadcaster is
    link,         \* each client's end of the connection
    connections,  \* _connections
    holder,       \* the broadcaster that has the lock and sends
    queue,        \* who waits for the lock
    position,     \* each broadcaster's place in _connections
    stale,        \* each broadcaster's list of clients it could not reach
    stopping,     \* has stop_metrics_loop been called?
    ticks,        \* rounds of the metrics loop
    log,          \* history: number of broadcasts begun
    sending,      \* history: the message of each broadcaster
    heard,        \* history: messages each client was sent, in order
    joined,       \* history: messages before the client was registered
    cut           \* history: messages whose broadcast was cancelled

lock    == <<holder, queue>>
cast    == <<position, stale, sending>>
history == <<log, heard, joined, cut>>
vars    == <<pc, link, connections, lock, cast, stopping, ticks, history>>

Goto(p, where) == pc' = [pc EXCEPT ![p] = where]
Free           == holder = Nobody /\ queue = <<>>
First(p)       == holder = Nobody /\ queue # <<>> /\ Head(queue) = p
InList(list)   == {list[n] : n \in DOMAIN list}
Distinct(list) == \A i, j \in DOMAIN list : list[i] = list[j] => i = j

\* A list without some of its members, the others in their order.
Omit(list, gone) ==
    LET kept[n \in 0..Len(list)] == IF n = 0 THEN <<>>
                                    ELSE IF list[n] \in gone THEN kept[n - 1]
                                    ELSE Append(kept[n - 1], list[n])
    IN  kept[Len(list)]

Oldest(cs)  == IF connections = <<>> THEN <<>> ELSE Tail(connections)  \* Mutant of Without
Without(cs) == Omit(connections, cs)

(***************************************************************************)
(* The handler of /admin/ws.                                               *)
(***************************************************************************)
Register(c) ==
    /\ connections' = Append(connections, c)
    /\ joined' = [joined EXCEPT ![c] = log]
    /\ Goto(c, "open")

\* connect(): accept, then register, or wait for the lock.
Connect(c) ==
    /\ pc[c] = "away"
    /\ link' = [link EXCEPT ![c] = "up"]
    /\ \/ Free /\ Register(c) /\ UNCHANGED queue
       \/ /\ ~Free
          /\ queue' = Append(queue, c)
          /\ Goto(c, "joining")
          /\ UNCHANGED <<connections, joined>>
    /\ UNCHANGED <<holder, cast, stopping, ticks, log, heard, cut>>

Join(c) ==
    /\ pc[c] = "joining" /\ First(c)
    /\ queue' = Tail(queue)
    /\ Register(c)
    /\ UNCHANGED <<link, holder, cast, stopping, ticks, log, heard, cut>>

\* Mutant: disconnect() does not take the lock.
NoticeUnlocked(c) ==
    /\ pc[c] = "open" /\ link[c] = "gone"
    /\ connections' = Without({c})
    /\ Goto(c, "closed")
    /\ UNCHANGED <<link, lock, cast, stopping, ticks, history>>

\* receive_text raises WebSocketDisconnect: disconnect().
Notice(c) ==
    /\ pc[c] = "open" /\ link[c] = "gone"
    /\ \/ Free /\ connections' = Without({c}) /\ Goto(c, "closed") /\ UNCHANGED queue
       \/ /\ ~Free
          /\ queue' = Append(queue, c)
          /\ Goto(c, "leaving")
          /\ UNCHANGED connections
    /\ UNCHANGED <<link, holder, cast, stopping, ticks, history>>

\* Mutant: a client that is not in the list keeps its place in the queue.
LeaveQueued(c) ==
    /\ pc[c] = "leaving" /\ First(c)
    /\ c \in InList(connections)
    /\ queue' = Tail(queue)
    /\ connections' = Without({c})
    /\ Goto(c, "closed")
    /\ UNCHANGED <<link, holder, cast, stopping, ticks, history>>

\* A client that a broadcaster has removed already is not in the list.
Leave(c) ==
    /\ pc[c] = "leaving" /\ First(c)
    /\ queue' = Tail(queue)
    /\ connections' = Without({c})
    /\ Goto(c, "closed")
    /\ UNCHANGED <<link, holder, cast, stopping, ticks, history>>

Handler(c) == Join(c) \/ Notice(c) \/ Leave(c)

\* The network: a client stops reading, reads again, or goes away.
Stall(c)  == link[c] = "up" /\ link' = [link EXCEPT ![c] = "stalled"]
Resume(c) == link[c] = "stalled" /\ link' = [link EXCEPT ![c] = "up"]
Drop(c)   == link[c] \in {"up", "stalled"} /\ link' = [link EXCEPT ![c] = "gone"]

Network(c) ==
    /\ Stall(c) \/ Resume(c) \/ Drop(c)
    /\ UNCHANGED <<pc, connections, lock, cast, stopping, ticks, history>>

(***************************************************************************)
(* broadcast().                                                            *)
(***************************************************************************)
\* Where a broadcaster goes when its broadcast is over.
Home(b) == IF b = Metrics THEN "sleeping" ELSE "done"

\* The lock is taken and the first send awaited; with nobody to send to the
\* lock is released again at once.
Enter(b) ==
    /\ log' = log + 1
    /\ \/ /\ connections # <<>>
          /\ holder' = b
          /\ Goto(b, "sending")
          /\ sending' = [sending EXCEPT ![b] = log']
          /\ position' = [position EXCEPT ![b] = 1]
       \/ connections = <<>> /\ Goto(b, Home(b)) /\ UNCHANGED <<holder, sending, position>>
    /\ UNCHANGED <<link, connections, stale, stopping, heard, joined, cut>>

\* The metrics loop has slept and read the task table, or an event is due:
\* broadcast() takes the lock or waits for it.
Ready(b) == \/ b \in Events /\ pc[b] = "away"
            \/ b = Metrics /\ pc[b] = "collecting"

Broadcast(b) ==
    /\ Ready(b)
    /\ \/ Free /\ Enter(b) /\ UNCHANGED queue
       \/ /\ ~Free
          /\ queue' = Append(queue, b)
          /\ Goto(b, "locking")
          /\ UNCHANGED <<link, connections, holder, cast, stopping, history>>
    /\ UNCHANGED ticks

Begin(b) ==
    /\ pc[b] = "locking" /\ First(b)
    /\ queue' = Tail(queue)
    /\ Enter(b)
    /\ UNCHANGED ticks

\* The last send is over: release the lock, then remove the stale clients,
\* at once if nobody waits, else one at a time with the others.
Finish(b, left) ==
    /\ holder' = Nobody
    /\ \/ /\ queue = <<>> \/ left = <<>>
          /\ connections' = Without(InList(left))
          /\ stale' = [stale EXCEPT ![b] = <<>>]
          /\ Goto(b, Home(b))
          /\ UNCHANGED queue
       \/ /\ queue # <<>> /\ left # <<>>
          /\ queue' = Append(queue, b)
          /\ stale' = [stale EXCEPT ![b] = left]
          /\ Goto(b, "cleaning")
          /\ UNCHANGED connections

\* Mutant: an exception ends the loop over the clients.
SentOrBroken(b) ==
    /\ pc[b] = "sending"
    /\ LET c == connections[position[b]] IN
       \/ /\ link[c] = "gone"
          /\ Finish(b, <<c>>)
          /\ UNCHANGED <<heard, position>>
       \/ /\ link[c] = "up"
          /\ heard' = [heard EXCEPT ![c] = Append(@, sending[b])]
          /\ \/ /\ position[b] < Len(connections)
                /\ position' = [position EXCEPT ![b] = @ + 1]
                /\ UNCHANGED <<pc, connections, lock, stale>>
             \/ position[b] = Len(connections) /\ Finish(b, <<>>) /\ UNCHANGED position
    /\ UNCHANGED <<link, sending, stopping, ticks, log, joined, cut>>

\* The awaited send is over: the client took the message, or the send failed.
\* A send to a client that has gone may do either.
Sent(b) ==
    /\ pc[b] = "sending"
    /\ LET c == connections[position[b]] IN
       \E ok \in {TRUE, FALSE} :
         /\ ok => link[c] \in {"up", "gone"}
         /\ ~ok => link[c] = "gone"
         /\ heard' = IF ok THEN [heard EXCEPT ![c] = Append(@, sending[b])] ELSE heard
         /\ LET left == IF ok THEN stale[b] ELSE Append(stale[b], c) IN
            \/ /\ position[b] < Len(connections)
               /\ position' = [position EXCEPT ![b] = @ + 1]
               /\ stale' = [stale EXCEPT ![b] = left]
               /\ UNCHANGED <<pc, connections, lock>>
            \/ position[b] = Len(connections) /\ Finish(b, left) /\ UNCHANGED position
    /\ UNCHANGED <<link, sending, stopping, ticks, log, joined, cut>>

\* disconnect() of the next stale client, when its turn comes.
Clean(b) ==
    /\ pc[b] = "cleaning" /\ First(b)
    /\ \/ /\ Len(queue) = 1 \/ Len(stale[b]) = 1
          /\ connections' = Without(InList(stale[b]))
          /\ stale' = [stale EXCEPT ![b] = <<>>]
          /\ queue' = Tail(queue)
          /\ Goto(b, Home(b))
       \/ /\ Len(queue) > 1 /\ Len(stale[b]) > 1
          /\ connections' = Without({Head(stale[b])})
          /\ stale' = [stale EXCEPT ![b] = Tail(@)]
          /\ queue' = Append(Tail(queue), b)
          /\ UNCHANGED pc
    /\ UNCHANGED <<link, holder, position, sending, stopping, ticks, history>>

Caster(b) == Broadcast(b) \/ Begin(b) \/ Sent(b) \/ Clean(b)

(***************************************************************************)
(* The metrics loop and its end.                                           *)
(***************************************************************************)
\* The sleep is over; the loop awaits the task table.
Tick ==
    /\ pc[Metrics] = "sleeping" /\ ~stopping /\ ticks < MaxTicks
    /\ ticks' = ticks + 1
    /\ Goto(Metrics, "collecting")
    /\ UNCHANGED <<link, connections, lock, cast, stopping, history>>

\* The lifespan ends: stop_metrics_loop cancels the task and awaits it.
Stop ==
    /\ ~stopping
    /\ stopping' = TRUE
    /\ UNCHANGED <<pc, link, connections, lock, cast, ticks, history>>

\* Mutant: the lock is not released.
CancelledHolding ==
    /\ stopping /\ pc[Metrics] # "off"
    /\ Goto(Metrics, "off")
    /\ queue' = Omit(queue, {Metrics})
    /\ cut' = IF pc[Metrics] = "sending" THEN cut \cup {sending[Metrics]} ELSE cut
    /\ UNCHANGED <<link, connections, holder, cast, stopping, ticks, log, heard, joined>>

\* Mutant: the loop is asked to end between two broadcasts only.
CancelledBetween == pc[Metrics] # "sending" /\ CancelledHolding

\* CancelledError reaches the loop at whatever it awaits.  It gives the lock
\* up or leaves the queue; clients it could not reach stay in the list.  The
\* message it was sending may have gone out.
Cancelled ==
    /\ stopping /\ pc[Metrics] # "off"
    /\ Goto(Metrics, "off")
    /\ holder' = IF holder = Metrics THEN Nobody ELSE holder
    /\ queue' = Omit(queue, {Metrics})
    /\ cut' = IF pc[Metrics] = "sending" THEN cut \cup {sending[Metrics]} ELSE cut
    /\ \/ UNCHANGED heard
       \/ /\ pc[Metrics] = "sending"
          /\ LET c == connections[position[Metrics]] IN
               heard' = [heard EXCEPT ![c] = Append(@, sending[Metrics])]
    /\ UNCHANGED <<link, connections, cast, stopping, ticks, log, joined>>

Init ==
    /\ pc = [p \in Parties |-> IF p = Metrics THEN "sleeping" ELSE "away"]
    /\ link = [c \in Clients |-> "none"]
    /\ connections = <<>>
    /\ holder = Nobody /\ queue = <<>>
    /\ position = [b \in Broadcasters |-> 1]
    /\ stale = [b \in Broadcasters |-> <<>>]
    /\ stopping = FALSE /\ ticks = 0
    /\ log = 0 /\ sending = [b \in Broadcasters |-> 0]
    /\ heard = [c \in Clients |-> <<>>]
    /\ joined = [c \in Clients |-> 0]
    /\ cut = {}

Next ==
    \/ \E c \in Clients : Connect(c) \/ Handler(c) \/ Network(c)
    \/ \E b \in Broadcasters : Caster(b)
    \/ Tick \/ Stop \/ Cancelled

\* The event loop runs who can go on.  No client need come, read or leave.
Fairness ==
    /\ \A c \in Clients : WF_vars(Handler(c))
    /\ \A b \in Broadcasters : WF_vars(Caster(b))
    /\ WF_vars(Cancelled)

Spec == Init /\ [][Next]_vars /\ Fairness

-----------------------------------------------------------------------------
(***************************************************************************)
(* Properties.                                                             *)
(***************************************************************************)
Waiting == {"joining", "leaving", "locking", "cleaning"}

\* The lock is held by the one broadcaster that is sending, which is at a
\* client of the list, and the queue holds exactly those that wait, each once:
\* however a broadcast ends, cancellation included, it gives the lock up, and
\* a cancelled waiter is not handed it (asyncio.Lock under broadcast).
LockIsOwned ==
    /\ holder \in Broadcasters \cup {Nobody} /\ queue \in Seq(Parties)
    /\ \A b \in Broadcasters :
         /\ holder = b <=> pc[b] = "sending"
         /\ holder = b => position[b] \in DOMAIN connections
    /\ InList(queue) = {p \in Parties : pc[p] \in Waiting}
    /\ Distinct(queue)

\* The list has each connection at most once, none whose handler is not yet or
\* no longer served, and every one whose client is there to listen: removing
\* from two sides, the handler's and a broadcaster's, loses nobody else.
NoGhosts ==
    /\ connections \in Seq(Clients) /\ Distinct(connections)
    /\ \A c \in InList(connections) : pc[c] \in {"open", "leaving"}
    /\ \A c \in Clients :
         pc[c] = "open" /\ link[c] # "gone" => c \in InList(connections)

\* A message the client c, which is there, has yet to get: its broadcast has
\* not come to c.
Due(c) ==
    {sending[b] : b \in {a \in Broadcasters :
        holder = a /\ \E n \in DOMAIN connections : n >= position[a] /\ connections[n] = c}}

\* Everybody connected hears every broadcast begun since, once and in order,
\* but one that was cancelled, whoever else drops, stalls or leaves meanwhile.
EverybodyHears ==
    \A c \in Clients :
        /\ \A i, j \in DOMAIN heard[c] : i < j => heard[c][i] < heard[c][j]
        /\ pc[c] = "open" /\ link[c] # "gone" =>
             (joined[c] + 1)..log \subseteq InList(heard[c]) \cup Due(c) \cup cut

TypeOK ==
    /\ pc \in [Parties -> {"away", "joining", "open", "leaving", "closed", "locking",
                            "sending", "cleaning", "done", "sleeping", "collecting", "off"}]
    /\ \A b \in Broadcasters : pc[b] \notin {"joining", "open", "leaving", "closed"}
    /\ \A c \in Clients : pc[c] \in {"away", "joining", "open", "leaving", "closed"}
    /\ link \in [Clients -> {"none", "up", "stalled", "gone"}]
    /\ position \in [Broadcasters -> Nat]
    /\ stale \in [Broadcasters -> Seq(Clients)]
    /\ log \in Nat /\ sending \in [Broadcasters -> Nat]
    /\ heard \in [Clients -> Seq(Nat)] /\ joined \in [Clients -> Nat]

\* Broadcasters remove clients that have gone for good.
StaleAreGone ==
    /\ \A c \in Clients : pc[c] = "away" <=> link[c] = "none"
    /\ \A b \in Broadcasters : \A c \in InList(stale[b]) : link[c] = "gone"

\* Whom a broadcast has yet to come to has heard older messages only.
NewsIsNew ==
    /\ \A c \in Clients : \A i \in DOMAIN heard[c] : heard[c][i] <= log
    /\ \A b \in Broadcasters : holder = b =>
         /\ sending[b] = log
         /\ \A n \in DOMAIN connections : n >= position[b] =>
              \A i \in DOMAIN heard[connections[n]] : heard[connections[n]][i] < log

\* The inductive invariant behind the three.
IInv ==
    /\ TypeOK /\ LockIsOwned /\ NoGhosts /\ StaleAreGone /\ NewsIsNew /\ EverybodyHears

\* The list does not change under the loop of a broadcast that goes on.
IterationSafe ==
    [][holder # Nobody /\ holder' = holder => connections' = connections]_vars

\* Whenever clients stop stalling, everyone that waits for the lock gets it:
\* connects, disconnects, broadcasts and the removal of stale clients.
Flowing == <>[](\A c \in Clients : link[c] # "stalled")

WaitersAreServed ==
    Flowing => \A p \in Parties : pc[p] \in Waiting ~> pc[p] \notin Waiting

\* Stopping the server does not wait for a client that does not read: the
\* metrics loop ends, wherever it is (stop_metrics_loop awaits it).
StopEnds == stopping ~> pc[Metrics] = "off" /\ holder # Metrics
=============================================================================
