------------------------- MODULE WsBroadcasterProofs -------------------------
(***************************************************************************)
(* The dashboard's list, lock and messages: for any number of clients and  *)
(* events, however they come, stall, drop and leave, and whenever the      *)
(* server stops.                                                           *)
(*                                                                         *)
(* Whoever takes the lock finds the list whole, since the list changes     *)
(* under the lock only; a broadcaster removes nobody who is there, since   *)
(* it has seen each of them gone; and the message it sends is newer than   *)
(* all that those before it had, since the lock orders the broadcasts.     *)
(***************************************************************************)
EXTENDS WsBroadcaster, SequenceTheorems, WellFoundedInduction, TLAPS

-----------------------------------------------------------------------------
(***************************************************************************)
(* Lists.                                                                  *)
(***************************************************************************)
\* A list that grows by one that is not in it.
LEMMA Appended ==
    ASSUME NEW S, NEW list \in Seq(S), NEW x \in S
    PROVE  /\ Append(list, x) \in Seq(S)
           /\ Len(Append(list, x)) = Len(list) + 1 /\ Len(list) \in Nat
           /\ DOMAIN Append(list, x) = (DOMAIN list) \cup {Len(list) + 1}
           /\ DOMAIN list = 1..Len(list)
           /\ \A n \in DOMAIN list : Append(list, x)[n] = list[n]
           /\ Append(list, x)[Len(list) + 1] = x
           /\ InList(Append(list, x)) = InList(list) \cup {x}
           /\ Distinct(list) /\ x \notin InList(list) => Distinct(Append(list, x))
<1> DEFINE more == Append(list, x)
<1>1. /\ more \in Seq(S) /\ Len(more) = Len(list) + 1
      /\ \A i \in 1..Len(list) : more[i] = list[i]
      /\ more[Len(list) + 1] = x
    BY AppendProperties
<1>2. Len(list) \in Nat /\ DOMAIN list = 1..Len(list)  BY LenProperties
<1>3. DOMAIN more = 1..Len(list) + 1  BY <1>1, LenProperties
<1> HIDE DEF more
<1>4. DOMAIN more = (DOMAIN list) \cup {Len(list) + 1}  BY <1>2, <1>3
<1>5. InList(more) = InList(list) \cup {x}  BY <1>1, <1>2, <1>4 DEF InList
<1>6. ASSUME Distinct(list), x \notin InList(list) PROVE Distinct(more)
  <2>1. \A i \in DOMAIN list : more[i] # x  BY <1>1, <1>2, <1>6 DEF InList
  <2> QED  BY <1>1, <1>2, <1>4, <1>6, <2>1 DEF Distinct
<1> QED  BY <1>1, <1>2, <1>4, <1>5, <1>6 DEF more

\* A list without its first.
LEMMA Behead ==
    ASSUME NEW S, NEW list \in Seq(S), list # <<>>
    PROVE  /\ Head(list) \in S /\ Tail(list) \in Seq(S)
           /\ InList(list) = InList(Tail(list)) \cup {Head(list)}
           /\ Distinct(list) => Distinct(Tail(list)) /\ Head(list) \notin InList(Tail(list))
<1> DEFINE rest == Tail(list)
<1>1. /\ Head(list) \in S /\ rest \in Seq(S) /\ Len(rest) = Len(list) - 1
      /\ \A i \in 1..Len(rest) : rest[i] = list[i + 1]
      /\ Head(list) = list[1]
    BY HeadTailProperties
<1>2. Len(list) \in Nat /\ Len(list) # 0 /\ DOMAIN list = 1..Len(list)
    BY LenProperties, EmptySeq
<1>3. DOMAIN rest = 1..Len(list) - 1  BY <1>1, LenProperties
<1> HIDE DEF rest
<1>4. InList(list) \subseteq InList(rest) \cup {Head(list)}
  <2> SUFFICES ASSUME NEW n \in DOMAIN list, n # 1 PROVE list[n] \in InList(rest)
      BY <1>1 DEF InList
  <2>1. n - 1 \in DOMAIN rest /\ (n - 1) + 1 = n  BY <1>2, <1>3
  <2>2. rest[n - 1] = list[n]  BY <1>1, <1>2, <1>3, <2>1
  <2> QED  BY <2>1, <2>2 DEF InList
<1>5. \A n \in DOMAIN rest : n + 1 \in DOMAIN list /\ rest[n] = list[n + 1] /\ n + 1 # 1
    BY <1>1, <1>2, <1>3
<1>6. InList(rest) \cup {Head(list)} \subseteq InList(list)
    BY <1>1, <1>2, <1>5 DEF InList
<1>7. ASSUME Distinct(list) PROVE Distinct(rest) /\ Head(list) \notin InList(rest)
  <2>1. ASSUME NEW i \in DOMAIN rest, NEW j \in DOMAIN rest, rest[i] = rest[j]
        PROVE  i = j
    <3>1. i + 1 = j + 1  BY <1>5, <1>7, <2>1 DEF Distinct
    <3> QED  BY <1>2, <1>3, <3>1
  <2>2. ASSUME NEW i \in DOMAIN rest PROVE rest[i] # list[1]
    <3>1. 1 \in DOMAIN list  BY <1>2
    <3> QED  BY <1>5, <1>7, <3>1 DEF Distinct
  <2> QED  BY <1>1, <2>1, <2>2 DEF Distinct, InList
<1> QED  BY <1>1, <1>4, <1>6, <1>7 DEF rest

\* A set with 0 and with the successor of each of its numbers has them all.
LEMMA SetInduction ==
    ASSUME NEW T, 0 \in T, \A n \in Nat : n \in T => n + 1 \in T
    PROVE  Nat \subseteq T
<1> DEFINE Less == OpToRel(<, Nat)
<1>1. IsWellFoundedOn(Less, Nat)  BY NatLessThanWellFounded
<1>2. \A m, n \in Nat : m < n => <<m, n>> \in Less  BY DEF OpToRel
<1> HIDE DEF Less
<1> SUFFICES ASSUME Nat \ T # {} PROVE FALSE  OBVIOUS
<1>3. PICK n \in Nat \ T : \A m \in Nat \ T : ~(<<m, n>> \in Less)  BY <1>1, WFMin
<1>4. n # 0 /\ n - 1 \in Nat /\ n - 1 < n  BY <1>3
<1>5. n - 1 \in T  BY <1>2, <1>3, <1>4
<1> QED  BY <1>4, <1>5

\* kept has what Omit keeps of each of the first n members.
Keeps(list, gone, n, kept) ==
    /\ kept = [k \in 0..n |-> kept[k]] /\ kept[0] = <<>>
    /\ \A k \in 1..n :
         kept[k] = IF list[k] \in gone THEN kept[k - 1] ELSE Append(kept[k - 1], list[k])

LEMMA KeptExists ==
    ASSUME NEW S, NEW list \in Seq(S), NEW gone
    PROVE  \E kept : Keeps(list, gone, Len(list), kept)
<1> DEFINE T == {n \in Nat : \E kept : Keeps(list, gone, n, kept)}
<1>1. 0 \in T
  <2>1. Keeps(list, gone, 0, [k \in 0..0 |-> <<>>])  BY DEF Keeps
  <2> QED  BY <2>1
<1>2. \A n \in Nat : n \in T => n + 1 \in T
  <2> SUFFICES ASSUME NEW n \in Nat, NEW f, Keeps(list, gone, n, f)
               PROVE  \E g : Keeps(list, gone, n + 1, g)
      OBVIOUS
  <2> DEFINE last == IF list[n + 1] \in gone THEN f[n] ELSE Append(f[n], list[n + 1])
             g == [k \in 0..n + 1 |-> IF k = n + 1 THEN last ELSE f[k]]
  <2>1. g = [k \in 0..n + 1 |-> g[k]] /\ g[n + 1] = last /\ \A k \in 0..n : g[k] = f[k]
      OBVIOUS
  <2> HIDE DEF g
  <2>2. g[0] = <<>>
    <3>1. 0 \in 0..n /\ f[0] = <<>>  BY DEF Keeps
    <3> QED  BY <2>1, <3>1
  <2>3. ASSUME NEW k \in 1..n + 1
        PROVE  g[k] = IF list[k] \in gone THEN g[k - 1] ELSE Append(g[k - 1], list[k])
    <3>1. CASE k = n + 1
      <4>1. k - 1 = n /\ n \in 0..n  BY <3>1
      <4> QED  BY <2>1, <3>1, <4>1
    <3>2. CASE k # n + 1
      <4>1. k \in 1..n /\ k \in 0..n /\ k - 1 \in 0..n  BY <3>2
      <4> QED  BY <2>1, <4>1 DEF Keeps
    <3> QED  BY <3>1, <3>2
  <2> QED  BY <2>1, <2>2, <2>3 DEF Keeps
<1> HIDE DEF T
<1>3. Len(list) \in T  BY <1>1, <1>2, SetInduction, LenProperties
<1> QED  BY <1>3 DEF T

\* Omit keeps the others, each as often as before.
LEMMA Omitted ==
    ASSUME NEW S, NEW list \in Seq(S), NEW gone
    PROVE  /\ Omit(list, gone) \in Seq(S)
           /\ InList(Omit(list, gone)) = InList(list) \ gone
           /\ Distinct(list) => Distinct(Omit(list, gone))
<1> DEFINE Rec(f) == f = [n \in 0..Len(list) |->
                            IF n = 0 THEN <<>>
                            ELSE IF list[n] \in gone THEN f[n - 1]
                            ELSE Append(f[n - 1], list[n])]
           kept == CHOOSE f : Rec(f)
<1>1. Len(list) \in Nat /\ DOMAIN list = 1..Len(list) /\ \A n \in 1..Len(list) : list[n] \in S
    BY LenProperties, ElementOfSeq
<1>2. PICK f : Keeps(list, gone, Len(list), f)  BY KeptExists
<1>3. Rec(f)
  <2>1. f = [n \in 0..Len(list) |-> f[n]]  BY <1>2 DEF Keeps
  <2>2. \A n \in 0..Len(list) :
          f[n] = IF n = 0 THEN <<>>
                 ELSE IF list[n] \in gone THEN f[n - 1] ELSE Append(f[n - 1], list[n])
      BY <1>1, <1>2 DEF Keeps
  <2> QED  BY <2>1, <2>2
<1>4. Rec(kept)
  <2> HIDE DEF Rec
  <2> QED  BY <1>3
<1>5. Omit(list, gone) = kept[Len(list)]  BY DEF Omit
<1> HIDE DEF kept
<1>6. \A n \in 0..Len(list) :
        kept[n] = IF n = 0 THEN <<>>
                  ELSE IF list[n] \in gone THEN kept[n - 1] ELSE Append(kept[n - 1], list[n])
    BY <1>4
<1> HIDE DEF Rec
<1> DEFINE Before(n) == {list[k] : k \in 1..n}
           Good(n) == /\ kept[n] \in Seq(S)
                      /\ InList(kept[n]) = Before(n) \ gone
                      /\ Distinct(list) => Distinct(kept[n])
           T == {n \in Nat : n <= Len(list) => Good(n)}
<1>7. 0 \in T
  <2>1. kept[0] = <<>>  BY <1>1, <1>6
  <2>2. <<>> \in Seq(S) /\ InList(<<>>) = {} /\ Distinct(<<>>)
      BY EmptySeq DEF InList, Distinct
  <2>3. Before(0) = {}  OBVIOUS
  <2> QED  BY <2>1, <2>2, <2>3
<1> HIDE DEF Good
<1>8. \A n \in Nat : n \in T => n + 1 \in T
  <2> SUFFICES ASSUME NEW n \in Nat, n + 1 <= Len(list), Good(n) PROVE Good(n + 1)
      BY <1>1
  <2> USE DEF Good
  <2>1. /\ n + 1 \in 1..Len(list) /\ n + 1 \in 0..Len(list) /\ (n + 1) - 1 = n
        /\ n + 1 # 0
      BY <1>1
  <2>2. kept[n + 1] = IF list[n + 1] \in gone THEN kept[n] ELSE Append(kept[n], list[n + 1])
      BY <1>6, <2>1
  <2>3. Before(n + 1) = Before(n) \cup {list[n + 1]}
    <3>1. 1..n + 1 = (1..n) \cup {n + 1}  OBVIOUS
    <3> QED  BY <3>1
  <2>4. Distinct(list) => list[n + 1] \notin Before(n)
    <3>1. \A k \in 1..n : k \in DOMAIN list /\ k # n + 1  BY <1>1, <2>1
    <3> QED  BY <1>1, <2>1, <3>1 DEF Distinct
  <2> HIDE DEF Before
  <2>5. CASE list[n + 1] \in gone  BY <2>2, <2>3, <2>5
  <2>6. CASE list[n + 1] \notin gone
    <3>1. kept[n + 1] = Append(kept[n], list[n + 1]) /\ list[n + 1] \in S
        BY <1>1, <2>1, <2>2, <2>6
    <3>2. /\ kept[n + 1] \in Seq(S)
          /\ InList(kept[n + 1]) = InList(kept[n]) \cup {list[n + 1]}
          /\ Distinct(kept[n]) /\ list[n + 1] \notin InList(kept[n]) => Distinct(kept[n + 1])
        BY <3>1, Appended
    <3> QED  BY <2>3, <2>4, <2>6, <3>2
  <2> QED  BY <2>5, <2>6
<1> HIDE DEF T
<1>9. Len(list) \in T  BY <1>1, <1>7, <1>8, SetInduction
<1>10. Good(Len(list))  BY <1>1, <1>9 DEF T
<1>11. Before(Len(list)) = InList(list)  BY <1>1 DEF InList
<1> QED  BY <1>5, <1>10, <1>11 DEF Good
-----------------------------------------------------------------------------
(***************************************************************************)
(* The parts of the invariant.                                             *)
(***************************************************************************)
QueueOK ==
    /\ queue \in Seq(Parties) /\ Distinct(queue)
    /\ InList(queue) = {p \in Parties : pc[p] \in Waiting}

HolderOK ==
    /\ holder \in Broadcasters \cup {Nobody}
    /\ \A b \in Broadcasters : /\ holder = b <=> pc[b] = "sending"
                               /\ holder = b => position[b] \in DOMAIN connections

\* What EverybodyHears says of one client.
There(c) == pc[c] = "open" /\ link[c] # "gone"

Hears(c) ==
    /\ \A i, j \in DOMAIN heard[c] : i < j => heard[c][i] < heard[c][j]
    /\ There(c) => (joined[c] + 1)..log \subseteq InList(heard[c]) \cup Due(c) \cup cut

LEMMA Parts ==
    /\ LockIsOwned <=> QueueOK /\ HolderOK
    /\ EverybodyHears <=> \A c \in Clients : Hears(c)
BY DEF LockIsOwned, QueueOK, HolderOK, EverybodyHears, Hears, There

LEMMA Whole ==
    ASSUME TypeOK', QueueOK', HolderOK', NoGhosts', StaleAreGone', NewsIsNew',
           \A c \in Clients : Hears(c)'
    PROVE  IInv'
<1>1. LockIsOwned'  BY DEF LockIsOwned, QueueOK, HolderOK
<1>2. EverybodyHears'  BY DEF EverybodyHears, Hears, There
<1> QED  BY <1>1, <1>2 DEF IInv

\* Clients, events, the metrics loop and nobody are four kinds of things.
LEMMA Kinds ==
    /\ Clients \cap Broadcasters = {} /\ Nobody \notin Broadcasters
    /\ Clients \subseteq Parties /\ Broadcasters \subseteq Parties
    /\ Metrics \in Broadcasters /\ Events \subseteq Broadcasters /\ Metrics \notin Events
BY PartiesAssumption DEF Parties, Broadcasters, Nobody, Metrics

\* While nobody sends, no message is due.
LEMMA NoneDue == ASSUME holder = Nobody PROVE \A c : Due(c) = {}
BY Kinds DEF Due

\* A client hears as before when no message is begun, lost to it, or added.
LEMMA HearsOn ==
    ASSUME NEW c \in Clients, Hears(c), There(c)' => There(c),
           log' = log, cut \subseteq cut', heard'[c] = heard[c], joined'[c] = joined[c],
           Due(c) \subseteq Due(c)' \cup cut'
    PROVE  Hears(c)'
BY DEF Hears

-----------------------------------------------------------------------------
(***************************************************************************)
(* The queue of the lock.                                                  *)
(***************************************************************************)
LEMMA QueueStays ==
    ASSUME TypeOK, QueueOK, NEW p \in Parties, NEW where, Goto(p, where),
           pc[p] \notin Waiting, where \notin Waiting, queue' = queue
    PROVE  QueueOK'
<1>1. \A q \in Parties : pc'[q] = IF q = p THEN where ELSE pc[q]  BY DEF Goto, TypeOK
<1>2. \A q \in Parties : pc'[q] \in Waiting <=> pc[q] \in Waiting  BY <1>1
<1> QED  BY <1>2 DEF QueueOK

LEMMA QueueGrows ==
    ASSUME TypeOK, QueueOK, NEW p \in Parties, NEW where, Goto(p, where),
           pc[p] \notin Waiting, where \in Waiting, queue' = Append(queue, p)
    PROVE  QueueOK'
<1>1. \A q \in Parties : pc'[q] = IF q = p THEN where ELSE pc[q]  BY DEF Goto, TypeOK
<1>2. \A q \in Parties : pc'[q] \in Waiting <=> pc[q] \in Waiting \/ q = p  BY <1>1
<1>3. /\ queue' \in Seq(Parties) /\ InList(queue') = InList(queue) \cup {p}
      /\ Distinct(queue')
  <2>1. queue \in Seq(Parties) /\ Distinct(queue) /\ p \notin InList(queue)  BY DEF QueueOK
  <2> QED  BY <2>1, Appended
<1> QED  BY <1>2, <1>3 DEF QueueOK

LEMMA QueueAdvances ==
    ASSUME TypeOK, QueueOK, NEW p \in Parties, NEW where, Goto(p, where),
           First(p), where \notin Waiting, queue' = Tail(queue)
    PROVE  QueueOK'
<1>1. \A q \in Parties : pc'[q] = IF q = p THEN where ELSE pc[q]  BY DEF Goto, TypeOK
<1>2. /\ queue' \in Seq(Parties) /\ Distinct(queue')
      /\ InList(queue) = InList(queue') \cup {p} /\ p \notin InList(queue')
    BY Behead DEF First, QueueOK
<1>3. \A q \in Parties : pc'[q] \in Waiting <=> pc[q] \in Waiting /\ q # p  BY <1>1
<1> QED  BY <1>2, <1>3 DEF QueueOK

\* Who comes first goes to the end.
LEMMA QueueTurns ==
    ASSUME QueueOK, NEW p \in Parties, First(p), pc' = pc,
           queue' = Append(Tail(queue), p)
    PROVE  QueueOK'
<1>1. /\ Tail(queue) \in Seq(Parties) /\ Distinct(Tail(queue))
      /\ InList(queue) = InList(Tail(queue)) \cup {p} /\ p \notin InList(Tail(queue))
    BY Behead DEF First, QueueOK
<1>2. /\ queue' \in Seq(Parties) /\ InList(queue') = InList(Tail(queue)) \cup {p}
      /\ Distinct(queue')
  <2> DEFINE rest == Tail(queue)
  <2>1. rest \in Seq(Parties) /\ Distinct(rest) /\ p \notin InList(rest)  BY <1>1
  <2> HIDE DEF rest
  <2>2. /\ Append(rest, p) \in Seq(Parties) /\ Distinct(Append(rest, p))
        /\ InList(Append(rest, p)) = InList(rest) \cup {p}
      BY <2>1, Appended
  <2> QED  BY <2>2 DEF rest
<1> QED  BY <1>1, <1>2 DEF QueueOK

\* A cancelled waiter leaves the queue, wherever it is.
LEMMA QueueLoses ==
    ASSUME TypeOK, QueueOK, NEW p \in Parties, NEW where, Goto(p, where),
           where \notin Waiting, queue' = Omit(queue, {p})
    PROVE  QueueOK'
<1>1. \A q \in Parties : pc'[q] = IF q = p THEN where ELSE pc[q]  BY DEF Goto, TypeOK
<1>2. /\ queue' \in Seq(Parties) /\ Distinct(queue') /\ InList(queue') = InList(queue) \ {p}
    BY Omitted DEF QueueOK
<1>3. \A q \in Parties : pc'[q] \in Waiting <=> pc[q] \in Waiting /\ q # p  BY <1>1
<1> QED  BY <1>2, <1>3 DEF QueueOK

-----------------------------------------------------------------------------
(***************************************************************************)
(* The handlers.                                                           *)
(***************************************************************************)
\* Nobody but a client moves, and nobody holds the lock.
LEMMA HolderNobody ==
    ASSUME TypeOK, HolderOK, holder = Nobody, holder' = Nobody,
           NEW p \in Parties, NEW where, Goto(p, where), where # "sending"
    PROVE  HolderOK'
<1>1. \A b \in Broadcasters : pc'[b] = IF b = p THEN where ELSE pc[b]
    BY Kinds DEF Goto, TypeOK
<1>2. \A b \in Broadcasters : holder # b /\ pc[b] # "sending"  BY Kinds DEF HolderOK
<1> QED  BY <1>1, <1>2, Kinds DEF HolderOK

\* A handler appends its connection, which was not in the list.
LEMMA RegisterKeeps ==
    ASSUME IInv, NEW c \in Clients, holder = Nobody, Register(c), QueueOK',
           \/ pc[c] = "away" /\ link' = [link EXCEPT ![c] = "up"]
           \/ pc[c] = "joining" /\ link' = link,
           UNCHANGED <<holder, cast, log, heard, cut>>
    PROVE  IInv'
<1>1. TypeOK /\ HolderOK /\ NoGhosts /\ StaleAreGone /\ NewsIsNew
    BY Parts DEF IInv
<1>2. /\ connections' = Append(connections, c) /\ joined' = [joined EXCEPT ![c] = log]
      /\ Goto(c, "open") /\ UNCHANGED <<holder, position, stale, sending, log, heard, cut>>
    BY DEF Register, cast
<1>3. \A p \in Parties : pc'[p] = IF p = c THEN "open" ELSE pc[p]
    BY <1>1, <1>2, Kinds DEF Goto, TypeOK
<1>4. /\ connections' \in Seq(Clients) /\ Distinct(connections')
      /\ InList(connections') = InList(connections) \cup {c}
  <2>1. c \notin InList(connections)  BY <1>1 DEF NoGhosts
  <2> QED  BY <1>1, <1>2, <2>1, Appended DEF NoGhosts
<1>5. \A d \in Clients : d # c => pc'[d] = pc[d] /\ link'[d] = link[d] /\ joined'[d] = joined[d]
    BY <1>1, <1>2, <1>3, Kinds DEF TypeOK
<1>6. pc'[c] = "open" /\ link'[c] # "none" /\ joined'[c] = log
    BY <1>1, <1>2, <1>3, Kinds DEF TypeOK, StaleAreGone
<1>7. TypeOK'
  <2>1. pc' = [pc EXCEPT ![c] = "open"] /\ c \notin Broadcasters  BY <1>2, Kinds DEF Goto
  <2> QED  BY <1>1, <1>2, <2>1, Kinds DEF TypeOK
<1>8. HolderOK'  BY <1>1, <1>2, HolderNobody, Kinds
<1>9. NoGhosts'
  <2>1. InList(connections) \subseteq Clients
      BY <1>1, ElementOfSeq, LenProperties DEF NoGhosts, InList
  <2> QED  BY <1>1, <1>4, <1>5, <1>6, <2>1 DEF NoGhosts
<1>10. StaleAreGone'
  <2>1. \A b \in Broadcasters : c \in InList(stale[b]) => pc[c] # "away"
      BY <1>1 DEF StaleAreGone
  <2>2. \A b \in Broadcasters : \A d \in InList(stale[b]) : d \in Clients
      BY <1>1, ElementOfSeq, LenProperties DEF TypeOK, InList
  <2> QED  BY <1>1, <1>2, <1>5, <1>6, <2>1, <2>2 DEF StaleAreGone
<1>11. NewsIsNew'
  <2>1. \A b \in Broadcasters : holder' # b  BY <1>2, Kinds
  <2> QED  BY <1>1, <1>2, <2>1 DEF NewsIsNew
<1>12. ASSUME NEW d \in Clients PROVE Hears(d)'
  <2>1. Hears(d)  BY Parts DEF IInv
  <2>2. CASE d = c
    <3>1. (joined'[c] + 1)..log' = {}  BY <1>1, <1>2, <1>6 DEF TypeOK
    <3> QED  BY <1>2, <2>1, <2>2, <3>1 DEF Hears
  <2>3. CASE d # c
    <3>1. Due(d) = {}  BY NoneDue
    <3>2. There(d)' => There(d)  BY <1>5, <2>3 DEF There
    <3> QED  BY <1>2, <1>5, <2>1, <2>3, <3>1, <3>2, HearsOn
  <2> QED  BY <2>2, <2>3
<1> QED  BY <1>7, <1>8, <1>9, <1>10, <1>11, <1>12, Whole

\* A handler finds the lock taken: it waits, and nothing else changes.
LEMMA WaitKeeps ==
    ASSUME IInv, NEW c \in Clients, NEW where \in {"joining", "leaving"},
           Goto(c, where), QueueOK',
           \/ pc[c] = "away" /\ where = "joining" /\ link' = [link EXCEPT ![c] = "up"]
           \/ pc[c] = "open" /\ link[c] = "gone" /\ where = "leaving" /\ link' = link,
           UNCHANGED <<connections, joined, holder, cast, log, heard, cut>>
    PROVE  IInv'
<1>1. TypeOK /\ HolderOK /\ NoGhosts /\ StaleAreGone /\ NewsIsNew
    BY Parts DEF IInv
<1>2. UNCHANGED <<position, stale, sending>>  BY DEF cast
<1>3. \A p \in Parties : pc'[p] = IF p = c THEN where ELSE pc[p]
    BY <1>1, Kinds DEF Goto, TypeOK
<1>4. \A d \in Clients : d # c => pc'[d] = pc[d] /\ link'[d] = link[d]
    BY <1>1, <1>3, Kinds DEF TypeOK
<1>5. pc'[c] = where /\ link'[c] # "none"
    BY <1>1, <1>3, Kinds DEF TypeOK, StaleAreGone
<1>6. \A b \in Broadcasters : pc'[b] = pc[b]  BY <1>3, Kinds
<1>7. TypeOK'
  <2>1. pc' = [pc EXCEPT ![c] = where] /\ c \notin Broadcasters  BY Kinds DEF Goto
  <2> QED  BY <1>1, <1>2, <2>1, Kinds DEF TypeOK
<1>8. HolderOK'  BY <1>1, <1>2, <1>6 DEF HolderOK
<1>9. NoGhosts'
  <2>1. c \in InList(connections) => where = "leaving"  BY <1>1 DEF NoGhosts
  <2>2. InList(connections) \subseteq Clients
      BY <1>1, ElementOfSeq, LenProperties DEF NoGhosts, InList
  <2> QED  BY <1>1, <1>4, <1>5, <2>1, <2>2 DEF NoGhosts
<1>10. StaleAreGone'
  <2>1. \A b \in Broadcasters : c \in InList(stale[b]) => pc[c] # "away"
      BY <1>1 DEF StaleAreGone
  <2>2. \A b \in Broadcasters : \A d \in InList(stale[b]) : d \in Clients
      BY <1>1, ElementOfSeq, LenProperties DEF TypeOK, InList
  <2> QED  BY <1>1, <1>2, <1>4, <1>5, <2>1, <2>2 DEF StaleAreGone
<1>11. NewsIsNew'  BY <1>1, <1>2 DEF NewsIsNew
<1>12. ASSUME NEW d \in Clients PROVE Hears(d)'
  <2>1. Hears(d)  BY Parts DEF IInv
  <2>2. Due(d)' = Due(d)  BY <1>2 DEF Due
  <2>3. There(d)' => There(d)  BY <1>4, <1>5 DEF There
  <2> QED  BY <2>1, <2>2, <2>3, HearsOn
<1> QED  BY <1>7, <1>8, <1>9, <1>10, <1>11, <1>12, Whole

\* Clients that have gone or go now leave the list, and nobody else does.
LEMMA RemovalKeepsList ==
    ASSUME TypeOK, NoGhosts, NEW cs, connections' = Without(cs),
           \A c \in cs : There(c)' => FALSE,
           \A c \in Clients \ cs : pc'[c] = pc[c], link' = link
    PROVE  NoGhosts'
<1>1. /\ connections' \in Seq(Clients) /\ Distinct(connections')
      /\ InList(connections') = InList(connections) \ cs
    BY Omitted DEF NoGhosts, Without
<1>2. InList(connections) \subseteq Clients
    BY ElementOfSeq, LenProperties DEF NoGhosts, InList
<1> QED  BY <1>1, <1>2 DEF NoGhosts, There

\* A handler whose client has gone takes its connection off the list.
LEMMA RemoveKeeps ==
    ASSUME IInv, NEW c \in Clients, holder = Nobody,
           pc[c] = "leaving" \/ (pc[c] = "open" /\ link[c] = "gone"),
           connections' = Without({c}), Goto(c, "closed"), QueueOK',
           UNCHANGED <<link, holder, cast, log, heard, joined, cut>>
    PROVE  IInv'
<1>1. TypeOK /\ HolderOK /\ NoGhosts /\ StaleAreGone /\ NewsIsNew
    BY Parts DEF IInv
<1>2. UNCHANGED <<position, stale, sending>>  BY DEF cast
<1>3. \A p \in Parties : pc'[p] = IF p = c THEN "closed" ELSE pc[p]
    BY <1>1, Kinds DEF Goto, TypeOK
<1>4. \A d \in Clients : d # c => pc'[d] = pc[d]  BY <1>3, Kinds
<1>5. pc'[c] = "closed"  BY <1>3, Kinds
<1>6. TypeOK'
  <2>1. pc' = [pc EXCEPT ![c] = "closed"] /\ c \notin Broadcasters  BY Kinds DEF Goto
  <2> QED  BY <1>1, <1>2, <2>1, Kinds DEF TypeOK
<1>7. HolderOK'  BY <1>1, HolderNobody, Kinds
<1>8. NoGhosts'  BY <1>1, <1>4, <1>5, RemovalKeepsList DEF There
<1>9. StaleAreGone'  BY <1>1, <1>2, <1>4, <1>5 DEF StaleAreGone
<1>10. NewsIsNew'
  <2>1. \A b \in Broadcasters : holder' # b  BY Kinds
  <2> QED  BY <1>1, <1>2, <2>1 DEF NewsIsNew
<1>11. ASSUME NEW d \in Clients PROVE Hears(d)'
  <2>1. Hears(d)  BY Parts DEF IInv
  <2>2. Due(d) = {}  BY NoneDue
  <2>3. There(d)' => There(d)  BY <1>4, <1>5 DEF There
  <2> QED  BY <2>1, <2>2, <2>3, HearsOn
<1> QED  BY <1>6, <1>7, <1>8, <1>9, <1>10, <1>11, Whole

LEMMA ConnectKeeps == ASSUME IInv, NEW c \in Clients, Connect(c) PROVE IInv'
<1>1. TypeOK /\ QueueOK /\ c \in Parties  BY Parts, Kinds DEF IInv
<1>2. /\ pc[c] = "away" /\ link' = [link EXCEPT ![c] = "up"]
      /\ UNCHANGED <<holder, cast, log, heard, cut>>
    BY DEF Connect
<1>3. CASE Free /\ Register(c) /\ UNCHANGED queue
  <2>1. holder = Nobody  BY <1>3 DEF Free
  <2>2. QueueOK'  BY <1>1, <1>2, <1>3, QueueStays DEF Register, Waiting
  <2> QED  BY <1>2, <1>3, <2>1, <2>2, RegisterKeeps
<1>4. CASE queue' = Append(queue, c) /\ Goto(c, "joining") /\ UNCHANGED <<connections, joined>>
  <2>1. QueueOK'  BY <1>1, <1>2, <1>4, QueueGrows DEF Waiting
  <2> QED  BY <1>2, <1>4, <2>1, WaitKeeps
<1> QED  BY <1>3, <1>4 DEF Connect

LEMMA JoinKeeps == ASSUME IInv, NEW c \in Clients, Join(c) PROVE IInv'
<1>1. TypeOK /\ QueueOK /\ c \in Parties  BY Parts, Kinds DEF IInv
<1>2. holder = Nobody  BY DEF Join, First
<1>3. QueueOK'  BY <1>1, QueueAdvances DEF Join, Register, Waiting
<1> QED  BY <1>2, <1>3, RegisterKeeps DEF Join

LEMMA NoticeKeeps == ASSUME IInv, NEW c \in Clients, Notice(c) PROVE IInv'
<1>1. TypeOK /\ QueueOK /\ c \in Parties  BY Parts, Kinds DEF IInv
<1>2. /\ pc[c] = "open" /\ link[c] = "gone"
      /\ UNCHANGED <<link, holder, cast, log, heard, joined, cut>>
    BY DEF Notice, history
<1>3. CASE Free /\ connections' = Without({c}) /\ Goto(c, "closed") /\ UNCHANGED queue
  <2>1. holder = Nobody  BY <1>3 DEF Free
  <2>2. QueueOK'  BY <1>1, <1>2, <1>3, QueueStays DEF Waiting
  <2> QED  BY <1>2, <1>3, <2>1, <2>2, RemoveKeeps
<1>4. CASE queue' = Append(queue, c) /\ Goto(c, "leaving") /\ UNCHANGED connections
  <2>1. QueueOK'  BY <1>1, <1>2, <1>4, QueueGrows DEF Waiting
  <2> QED  BY <1>2, <1>4, <2>1, WaitKeeps
<1> QED  BY <1>3, <1>4 DEF Notice

LEMMA LeaveKeeps == ASSUME IInv, NEW c \in Clients, Leave(c) PROVE IInv'
<1>1. TypeOK /\ QueueOK /\ c \in Parties  BY Parts, Kinds DEF IInv
<1>2. holder = Nobody /\ UNCHANGED <<link, holder, cast, log, heard, joined, cut>>
    BY DEF Leave, First, history
<1>3. QueueOK'  BY <1>1, QueueAdvances DEF Leave, Waiting
<1> QED  BY <1>2, <1>3, RemoveKeeps DEF Leave

\* Who has gone stays gone.
LEMMA NetworkKeeps == ASSUME IInv, NEW c \in Clients, Network(c) PROVE IInv'
<1>1. TypeOK /\ QueueOK /\ HolderOK /\ NoGhosts /\ StaleAreGone /\ NewsIsNew
    BY Parts DEF IInv
<1>2. UNCHANGED <<pc, connections, holder, queue, position, stale, sending, log, heard,
                  joined, cut>>
    BY DEF Network, lock, cast, history
<1>3. /\ link[c] \in {"up", "stalled"}
      /\ \E how \in {"up", "stalled", "gone"} : link' = [link EXCEPT ![c] = how]
    BY DEF Network, Stall, Resume, Drop
<1>4. \A d \in Clients : \/ link'[d] = link[d]
                         \/ link[d] \in {"up", "stalled"} /\ link'[d] \in {"up", "stalled", "gone"}
    BY <1>1, <1>3 DEF TypeOK
<1>5. TypeOK'  BY <1>1, <1>2, <1>3 DEF TypeOK
<1>6. QueueOK' /\ HolderOK'  BY <1>1, <1>2 DEF QueueOK, HolderOK
<1>7. NoGhosts'  BY <1>1, <1>2, <1>4 DEF NoGhosts
<1>8. StaleAreGone'
  <2>1. \A b \in Broadcasters : \A d \in InList(stale[b]) : d \in Clients
      BY <1>1, ElementOfSeq, LenProperties DEF TypeOK, InList
  <2> QED  BY <1>1, <1>2, <1>4, <2>1 DEF StaleAreGone
<1>9. NewsIsNew'  BY <1>1, <1>2 DEF NewsIsNew
<1>10. ASSUME NEW d \in Clients PROVE Hears(d)'
  <2>1. Hears(d)  BY Parts DEF IInv
  <2>2. Due(d)' = Due(d)  BY <1>2 DEF Due
  <2>3. There(d)' => There(d)  BY <1>2, <1>4 DEF There
  <2> QED  BY <1>2, <2>1, <2>2, <2>3, HearsOn
<1> QED  BY <1>5, <1>6, <1>7, <1>8, <1>9, <1>10, Whole

-----------------------------------------------------------------------------
(***************************************************************************)
(* The broadcasters.                                                       *)
(***************************************************************************)
\* Where a broadcaster that neither sends nor waits for the lock is.
Elsewhere == {"away", "locking", "cleaning", "done", "sleeping", "collecting", "off"}

LEMMA Homes ==
    \A b \in Broadcasters : Home(b) \in Elsewhere /\ Home(b) \notin Waiting
BY DEF Home, Elsewhere, Waiting

\* A broadcaster's step is none of a client's.
LEMMA ClientsStay ==
    ASSUME TypeOK, NEW b \in Broadcasters, NEW where, Goto(b, where), link' = link
    PROVE  /\ \A c \in Clients : pc'[c] = pc[c] /\ (There(c)' <=> There(c))
           /\ \A a \in Broadcasters : pc'[a] = IF a = b THEN where ELSE pc[a]
BY Kinds DEF Goto, TypeOK, There

\* A broadcaster that does not send goes on without the lock.
LEMMA MoveKeeps ==
    ASSUME IInv, NEW b \in Broadcasters, pc[b] # "sending", NEW where \in Elsewhere,
           Goto(b, where), QueueOK', cut \subseteq cut',
           UNCHANGED <<link, connections, holder, cast, log, heard, joined>>
    PROVE  IInv'
<1>1. TypeOK /\ HolderOK /\ NoGhosts /\ StaleAreGone /\ NewsIsNew
    BY Parts DEF IInv
<1>2. UNCHANGED <<position, stale, sending>>  BY DEF cast
<1>3. /\ \A c \in Clients : pc'[c] = pc[c] /\ (There(c)' <=> There(c))
      /\ \A a \in Broadcasters : pc'[a] = IF a = b THEN where ELSE pc[a]
    BY <1>1, ClientsStay
<1>4. TypeOK'
  <2>1. pc' = [pc EXCEPT ![b] = where] /\ b \in Parties  BY Kinds DEF Goto
  <2> QED  BY <1>1, <1>2, <1>3, <2>1 DEF TypeOK, Elsewhere
<1>5. HolderOK'  BY <1>1, <1>2, <1>3 DEF HolderOK, Elsewhere
<1>6. NoGhosts'
  <2>1. InList(connections) \subseteq Clients
      BY <1>1, ElementOfSeq, LenProperties DEF NoGhosts, InList
  <2> QED  BY <1>1, <1>3, <2>1 DEF NoGhosts
<1>7. StaleAreGone'  BY <1>1, <1>2, <1>3 DEF StaleAreGone
<1>8. NewsIsNew'  BY <1>1, <1>2 DEF NewsIsNew
<1>9. ASSUME NEW d \in Clients PROVE Hears(d)'
  <2>1. Hears(d)  BY Parts DEF IInv
  <2>2. Due(d)' = Due(d)  BY <1>2 DEF Due
  <2> QED  BY <1>3, <2>1, <2>2, HearsOn
<1> QED  BY <1>4, <1>5, <1>6, <1>7, <1>8, <1>9, Whole

\* A broadcast begins: its message is the newest, and due to everybody.
LEMMA EnterKeeps ==
    ASSUME IInv, NEW b \in Broadcasters, holder = Nobody, Enter(b), QueueOK'
    PROVE  IInv'
<1>1. TypeOK /\ HolderOK /\ NoGhosts /\ StaleAreGone /\ NewsIsNew
    BY Parts DEF IInv
<1>2. log' = log + 1 /\ log \in Nat /\ UNCHANGED <<link, connections, stale, heard, joined, cut>>
    BY <1>1 DEF Enter, TypeOK
<1>3. \A a \in Broadcasters : holder # a /\ pc[a] # "sending"
    BY <1>1, Kinds DEF HolderOK
<1>4. Len(connections) \in Nat /\ DOMAIN connections = 1..Len(connections)
      /\ InList(connections) \subseteq Clients
    BY <1>1, ElementOfSeq, LenProperties DEF NoGhosts, InList
<1>5. \A c \in Clients : \A i \in DOMAIN heard[c] : heard[c][i] <= log /\ heard[c][i] < log'
  <2> SUFFICES ASSUME NEW c \in Clients, NEW i \in DOMAIN heard[c]
               PROVE  heard[c][i] <= log /\ heard[c][i] < log + 1
      BY <1>2
  <2>1. heard[c][i] \in Nat
      BY <1>1, ElementOfSeq, LenProperties DEF TypeOK
  <2> QED  BY <1>1, <1>2, <2>1 DEF NewsIsNew
<1>6. CASE /\ connections # <<>> /\ holder' = b /\ Goto(b, "sending")
           /\ sending' = [sending EXCEPT ![b] = log'] /\ position' = [position EXCEPT ![b] = 1]
  <2>1. /\ \A c \in Clients : pc'[c] = pc[c] /\ (There(c)' <=> There(c))
        /\ \A a \in Broadcasters : pc'[a] = IF a = b THEN "sending" ELSE pc[a]
      BY <1>1, <1>2, <1>6, ClientsStay
  <2>2. sending'[b] = log' /\ position'[b] = 1 /\ 1 \in DOMAIN connections
    <3>1. Len(connections) # 0  BY <1>1, <1>6, EmptySeq DEF NoGhosts
    <3> QED  BY <1>1, <1>4, <1>6, <3>1 DEF TypeOK
  <2>3. TypeOK'
    <3>1. pc' = [pc EXCEPT ![b] = "sending"] /\ b \in Parties  BY <1>6, Kinds DEF Goto
    <3>2. log' \in Nat /\ sending' \in [Broadcasters -> Nat]  BY <1>1, <1>2, <1>6 DEF TypeOK
    <3>3. position' \in [Broadcasters -> Nat]  BY <1>1, <1>6 DEF TypeOK
    <3> QED  BY <1>1, <1>2, <2>1, <3>1, <3>2, <3>3 DEF TypeOK
  <2>4. HolderOK'  BY <1>2, <1>3, <1>6, <2>1, <2>2 DEF HolderOK
  <2>5. NoGhosts'  BY <1>1, <1>2, <1>4, <2>1 DEF NoGhosts
  <2>6. StaleAreGone'  BY <1>1, <1>2, <2>1 DEF StaleAreGone
  <2>7. NewsIsNew'
    <3>1. \A n \in DOMAIN connections : connections[n] \in Clients
        BY <1>4 DEF InList
    <3>2. \A c \in Clients : \A i \in DOMAIN heard'[c] : heard'[c][i] <= log'
      <4> SUFFICES ASSUME NEW c \in Clients, NEW i \in DOMAIN heard[c]
                   PROVE  heard[c][i] <= log + 1
          BY <1>2
      <4>1. heard[c][i] \in Nat  BY <1>1, ElementOfSeq, LenProperties DEF TypeOK
      <4> QED  BY <1>2, <1>5, <4>1
    <3> QED  BY <1>2, <1>5, <1>6, <2>2, <3>1, <3>2 DEF NewsIsNew
  <2>8. ASSUME NEW d \in Clients PROVE Hears(d)'
    <3>1. Hears(d) /\ Due(d) = {}  BY NoneDue, Parts DEF IInv
    <3>2. ASSUME There(d)
          PROVE  (joined[d] + 1)..(log + 1) \subseteq InList(heard[d]) \cup Due(d)' \cup cut
      <4>1. PICK n \in DOMAIN connections : connections[n] = d
          BY <1>1, <3>2 DEF NoGhosts, There, InList
      <4>2. n >= position'[b]  BY <1>4, <2>2
      <4>3. log + 1 \in Due(d)'  BY <1>2, <1>6, <2>2, <4>1, <4>2 DEF Due
      <4>4. (joined[d] + 1)..(log + 1) \subseteq ((joined[d] + 1)..log) \cup {log + 1}
          BY <1>1, <1>2 DEF TypeOK
      <4> QED  BY <3>1, <3>2, <4>3, <4>4 DEF Hears
    <3> QED  BY <1>2, <2>1, <3>1, <3>2 DEF Hears
  <2> QED  BY <2>3, <2>4, <2>5, <2>6, <2>7, <2>8, Whole
<1>7. CASE connections = <<>> /\ Goto(b, Home(b)) /\ UNCHANGED <<holder, sending, position>>
  <2>1. /\ \A c \in Clients : pc'[c] = pc[c] /\ (There(c)' <=> There(c))
        /\ \A a \in Broadcasters : pc'[a] = IF a = b THEN Home(b) ELSE pc[a]
      BY <1>1, <1>2, <1>7, ClientsStay
  <2>2. TypeOK'
    <3>1. pc' = [pc EXCEPT ![b] = Home(b)] /\ b \in Parties  BY <1>7, Kinds DEF Goto
    <3>2. log' \in Nat  BY <1>2
    <3> QED  BY <1>1, <1>2, <1>7, <2>1, <3>1, <3>2, Homes DEF TypeOK, Elsewhere
  <2>3. HolderOK'  BY <1>1, <1>7, Homes, HolderNobody, Kinds DEF Elsewhere
  <2>4. NoGhosts'  BY <1>1, <1>2, <1>4, <2>1 DEF NoGhosts
  <2>5. StaleAreGone'  BY <1>1, <1>2, <2>1 DEF StaleAreGone
  <2>6. NewsIsNew'
    <3>1. \A c \in Clients : \A i \in DOMAIN heard'[c] : heard'[c][i] <= log'
      <4> SUFFICES ASSUME NEW c \in Clients, NEW i \in DOMAIN heard[c]
                   PROVE  heard[c][i] <= log + 1
          BY <1>2
      <4>1. heard[c][i] \in Nat  BY <1>1, ElementOfSeq, LenProperties DEF TypeOK
      <4> QED  BY <1>2, <1>5, <4>1
    <3> QED  BY <1>3, <1>7, <3>1 DEF NewsIsNew
  <2>7. ASSUME NEW d \in Clients PROVE Hears(d)'
    <3>1. Hears(d)  BY Parts DEF IInv
    <3>2. ~There(d)
      <4>1. InList(connections) = {}  BY <1>7, EmptySeq DEF InList
      <4> QED  BY <1>1, <4>1 DEF NoGhosts, There
    <3> QED  BY <1>2, <2>1, <3>1, <3>2 DEF Hears
  <2> QED  BY <2>2, <2>3, <2>4, <2>5, <2>6, <2>7, Whole
<1> QED  BY <1>6, <1>7 DEF Enter

LEMMA BroadcastKeeps == ASSUME IInv, NEW b \in Broadcasters, Broadcast(b) PROVE IInv'
<1>1. TypeOK /\ QueueOK /\ b \in Parties  BY Parts, Kinds DEF IInv
<1>2. pc[b] \notin Waiting /\ pc[b] # "sending"  BY DEF Broadcast, Ready, Waiting
<1>3. CASE Free /\ Enter(b) /\ UNCHANGED queue
  <2>1. holder = Nobody  BY <1>3 DEF Free
  <2>2. \E where : Goto(b, where) /\ where \notin Waiting
      BY <1>3, Homes DEF Enter, Waiting
  <2>3. QueueOK'  BY <1>1, <1>2, <1>3, <2>2, QueueStays
  <2> QED  BY <1>3, <2>1, <2>3, EnterKeeps
<1>4. CASE /\ queue' = Append(queue, b) /\ Goto(b, "locking")
           /\ UNCHANGED <<link, connections, holder, cast, stopping, history>>
  <2>1. QueueOK'  BY <1>1, <1>2, <1>4, QueueGrows DEF Waiting
  <2> QED  BY <1>2, <1>4, <2>1, MoveKeeps DEF Elsewhere, history
<1> QED  BY <1>3, <1>4 DEF Broadcast

LEMMA BeginKeeps == ASSUME IInv, NEW b \in Broadcasters, Begin(b) PROVE IInv'
<1>1. TypeOK /\ QueueOK /\ b \in Parties  BY Parts, Kinds DEF IInv
<1>2. holder = Nobody /\ First(b) /\ queue' = Tail(queue) /\ Enter(b)
    BY DEF Begin, First
<1>3. \E where : Goto(b, where) /\ where \notin Waiting
    BY <1>2, Homes DEF Enter, Waiting
<1>4. QueueOK'  BY <1>1, <1>2, <1>3, QueueAdvances
<1> QED  BY <1>2, <1>4, EnterKeeps

\* While b sends, the one message due is its own, to the rest of the list.
LEMMA DueOne ==
    ASSUME NEW b \in Broadcasters, holder = b, NEW c
    PROVE  /\ Due(c) \subseteq {sending[b]}
           /\ \A n \in DOMAIN connections :
                n >= position[b] /\ connections[n] = c => sending[b] \in Due(c)
           /\ sending[b] \in Due(c) =>
                \E n \in DOMAIN connections : n >= position[b] /\ connections[n] = c
BY DEF Due

\* The client the broadcast is at takes the message.
Delivers(b) == heard' = [heard EXCEPT ![connections[position[b]]] = Append(@, sending[b])]

LEMMA HeardMore ==
    ASSUME IInv, NEW b \in Broadcasters, holder = b, Delivers(b) \/ heard' = heard,
           NEW c, c = connections[position[b]]
    PROVE  /\ c \in Clients /\ sending[b] = log /\ log \in Nat
           /\ heard' \in [Clients -> Seq(Nat)]
           /\ \A d \in Clients : d # c => heard'[d] = heard[d]
           /\ InList(heard[c]) \subseteq InList(heard'[c])
           /\ Delivers(b) => log \in InList(heard'[c])
           /\ \A i, j \in DOMAIN heard'[c] : i < j => heard'[c][i] < heard'[c][j]
           /\ \A i \in DOMAIN heard'[c] : heard'[c][i] <= log
<1>1. TypeOK /\ HolderOK /\ NoGhosts /\ NewsIsNew /\ \A d \in Clients : Hears(d)
    BY Parts DEF IInv
<1>2. position[b] \in DOMAIN connections /\ sending[b] = log /\ log \in Nat
    BY <1>1 DEF HolderOK, NewsIsNew, TypeOK
<1>3. c \in Clients  BY <1>1, <1>2, ElementOfSeq, LenProperties DEF NoGhosts
<1>4. /\ heard[c] \in Seq(Nat)
      /\ \A i, j \in DOMAIN heard[c] : i < j => heard[c][i] < heard[c][j]
      /\ \A i \in DOMAIN heard[c] : heard[c][i] <= log
    BY <1>1, <1>3 DEF TypeOK, Hears, NewsIsNew
<1>5. CASE heard' = heard /\ ~Delivers(b)  BY <1>1, <1>2, <1>3, <1>4, <1>5 DEF TypeOK
<1>6. CASE Delivers(b)
  <2> DEFINE had == heard[c]
             has == Append(had, log)
  <2>1. heard' = [heard EXCEPT ![c] = has]  BY <1>2, <1>6 DEF Delivers
  <2>2. \A i \in DOMAIN had : had[i] < log
    <3>1. position[b] >= position[b]  BY <1>1 DEF TypeOK
    <3> QED  BY <1>1, <1>2, <3>1 DEF NewsIsNew
  <2>3. had \in Seq(Nat) /\ log \in Nat  BY <1>2, <1>4
  <2> HIDE DEF had
  <2>4. /\ has \in Seq(Nat)
        /\ Len(had) \in Nat /\ DOMAIN has = (DOMAIN had) \cup {Len(had) + 1}
        /\ DOMAIN had = 1..Len(had)
        /\ \A n \in DOMAIN had : has[n] = had[n]
        /\ has[Len(had) + 1] = log
        /\ InList(has) = InList(had) \cup {log}
      BY <2>3, Appended
  <2> HIDE DEF has
  <2>5. heard' \in [Clients -> Seq(Nat)] /\ heard'[c] = has
        /\ \A d \in Clients : d # c => heard'[d] = heard[d]
      BY <1>1, <1>3, <2>1, <2>4 DEF TypeOK
  <2>6. ASSUME NEW i \in DOMAIN has, NEW j \in DOMAIN has, i < j PROVE has[i] < has[j]
    <3>1. i \in DOMAIN had  BY <2>4, <2>6
    <3>2. CASE j \in DOMAIN had
      <4>1. had[i] < had[j]  BY <1>4, <2>6, <3>1, <3>2 DEF had
      <4> QED  BY <2>4, <3>1, <3>2, <4>1
    <3>3. CASE j = Len(had) + 1  BY <2>2, <2>4, <3>1, <3>3
    <3> QED  BY <2>4, <3>2, <3>3
  <2>7. \A i \in DOMAIN has : has[i] <= log
    <3>1. \A i \in DOMAIN had : had[i] <= log  BY <1>4 DEF had
    <3>2. log <= log  BY <1>2
    <3> QED  BY <2>4, <3>1, <3>2
  <2>8. InList(heard[c]) \subseteq InList(heard'[c]) /\ log \in InList(heard'[c])
      BY <2>4, <2>5 DEF had
  <2> QED  BY <1>2, <1>3, <2>5, <2>6, <2>7, <2>8
<1> QED  BY <1>5, <1>6

\* So everybody has heard what there was, this client the message too unless
\* it has gone or the broadcast is cancelled.
LEMMA HearsSent ==
    ASSUME IInv, NEW b \in Broadcasters, holder = b, Delivers(b) \/ heard' = heard,
           NEW c, c = connections[position[b]],
           Delivers(b) \/ ~There(c) \/ log \in cut',
           \A d \in Clients : There(d)' => There(d),
           log' = log, joined' = joined, cut \subseteq cut',
           \A d \in Clients : d # c => Due(d) \subseteq Due(d)' \cup cut'
    PROVE  \A d \in Clients : Hears(d)'
<1>1. /\ c \in Clients /\ sending[b] = log
      /\ \A d \in Clients : d # c => heard'[d] = heard[d]
      /\ InList(heard[c]) \subseteq InList(heard'[c])
      /\ Delivers(b) => log \in InList(heard'[c])
      /\ \A i, j \in DOMAIN heard'[c] : i < j => heard'[c][i] < heard'[c][j]
    BY HeardMore
<1>2. \A d \in Clients : Hears(d)  BY Parts DEF IInv
<1>3. Hears(c)'
  <2>1. ASSUME There(c)
        PROVE  (joined[c] + 1)..log \subseteq InList(heard'[c]) \cup Due(c)' \cup cut'
    <3>1. Due(c) \subseteq {log}  BY <1>1, DueOne
    <3>2. (joined[c] + 1)..log \subseteq InList(heard[c]) \cup Due(c) \cup cut
        BY <1>1, <1>2, <2>1 DEF Hears
    <3> QED  BY <1>1, <2>1, <3>1, <3>2
  <2> QED  BY <1>1, <2>1 DEF Hears
<1>4. ASSUME NEW d \in Clients, d # c PROVE Hears(d)'
  <2>1. heard'[d] = heard[d]  BY <1>1, <1>4
  <2> QED  BY <1>2, <1>4, <2>1, HearsOn
<1> QED  BY <1>3, <1>4

\* A broadcaster that had the lock, or came first for it, leaves it to the next.
LEMMA Released ==
    ASSUME IInv, NEW b \in Broadcasters, holder \in {b, Nobody}, holder' = Nobody,
           NEW where \in Elsewhere, Goto(b, where), QueueOK', NoGhosts',
           NEW left \in Seq(Clients), \A c \in InList(left) : link[c] = "gone",
           stale' = [stale EXCEPT ![b] = left],
           heard' \in [Clients -> Seq(Nat)],
           \A c \in Clients : \A i \in DOMAIN heard'[c] : heard'[c][i] <= log,
           UNCHANGED <<link, position, sending, log, joined>>,
           \A c \in Clients : Hears(c)'
    PROVE  IInv'
<1>1. TypeOK /\ HolderOK /\ StaleAreGone  BY Parts DEF IInv
<1>2. /\ \A c \in Clients : pc'[c] = pc[c]
      /\ \A a \in Broadcasters : pc'[a] = IF a = b THEN where ELSE pc[a]
    BY <1>1, ClientsStay
<1>3. TypeOK'
  <2>1. pc' = [pc EXCEPT ![b] = where] /\ b \in Parties  BY Kinds DEF Goto
  <2>2. stale' \in [Broadcasters -> Seq(Clients)]  BY <1>1 DEF TypeOK
  <2> QED  BY <1>1, <1>2, <2>1, <2>2 DEF TypeOK, Elsewhere
<1>4. HolderOK'
  <2>1. \A a \in Broadcasters : a # b => pc[a] # "sending"  BY <1>1, Kinds DEF HolderOK
  <2> QED  BY <1>2, <2>1, Kinds DEF HolderOK, Elsewhere
<1>5. StaleAreGone'
  <2>1. \A a \in Broadcasters : stale'[a] = IF a = b THEN left ELSE stale[a]
      BY <1>1 DEF TypeOK
  <2> QED  BY <1>1, <1>2, <2>1 DEF StaleAreGone
<1>6. NewsIsNew'
  <2>1. \A a \in Broadcasters : holder' # a  BY Kinds
  <2> QED  BY <2>1 DEF NewsIsNew
<1> QED  BY <1>3, <1>4, <1>5, <1>6, Whole

\* What a send that is over leaves: the message with the client, or the client
\* with those to be removed.
Noted(b, left) ==
    \/ Delivers(b) /\ left = stale[b]
    \/ /\ heard' = heard /\ link[connections[position[b]]] = "gone"
       /\ left = Append(stale[b], connections[position[b]])

LEMMA SentNotes ==
    ASSUME NEW b \in Broadcasters, Sent(b)
    PROVE  /\ pc[b] = "sending" /\ UNCHANGED <<link, sending, stopping, ticks, log, joined, cut>>
           /\ \E left :
                /\ Noted(b, left)
                /\ \/ /\ position[b] < Len(connections)
                      /\ position' = [position EXCEPT ![b] = @ + 1]
                      /\ stale' = [stale EXCEPT ![b] = left]
                      /\ UNCHANGED <<pc, connections, lock>>
                   \/ /\ position[b] = Len(connections) /\ Finish(b, left)
                      /\ UNCHANGED position
BY DEF Sent, Noted, Delivers

LEMMA NotedAreGone ==
    ASSUME IInv, NEW b \in Broadcasters, holder = b, NEW left, Noted(b, left)
    PROVE  left \in Seq(Clients) /\ \A c \in InList(left) : link[c] = "gone"
<1>1. TypeOK /\ HolderOK /\ NoGhosts /\ StaleAreGone  BY Parts DEF IInv
<1>2. stale[b] \in Seq(Clients) /\ \A c \in InList(stale[b]) : link[c] = "gone"
    BY <1>1 DEF TypeOK, StaleAreGone
<1>3. CASE left = stale[b]  BY <1>2, <1>3
<1>4. ASSUME NEW c, c = connections[position[b]], link[c] = "gone",
             left = Append(stale[b], c)
      PROVE  left \in Seq(Clients) /\ \A d \in InList(left) : link[d] = "gone"
  <2>1. c \in Clients  BY <1>1, <1>4, ElementOfSeq, LenProperties DEF HolderOK, NoGhosts
  <2>2. left \in Seq(Clients) /\ InList(left) = InList(stale[b]) \cup {c}
      BY <1>2, <1>4, <2>1, Appended
  <2> QED  BY <1>2, <1>4, <2>2
<1> QED  BY <1>3, <1>4 DEF Noted

\* The broadcast goes on to the next client of the list.
LEMMA NextKeeps ==
    ASSUME IInv, NEW b \in Broadcasters, holder = b, NEW left, Noted(b, left),
           position[b] < Len(connections), position' = [position EXCEPT ![b] = @ + 1],
           stale' = [stale EXCEPT ![b] = left],
           UNCHANGED <<pc, connections, lock, link, sending, log, joined, cut>>
    PROVE  IInv'
<1> DEFINE c == connections[position[b]]
<1>1. TypeOK /\ QueueOK /\ HolderOK /\ NoGhosts /\ StaleAreGone /\ NewsIsNew
    BY Parts DEF IInv
<1>2. UNCHANGED <<holder, queue>>  BY DEF lock
<1>3. /\ Delivers(b) \/ heard' = heard
      /\ Delivers(b) \/ link[c] = "gone"
    BY DEF Noted
<1>4. /\ c \in Clients /\ sending[b] = log
      /\ heard' \in [Clients -> Seq(Nat)]
      /\ \A d \in Clients : d # c => heard'[d] = heard[d]
      /\ \A i \in DOMAIN heard'[c] : heard'[c][i] <= log
    BY <1>3, HeardMore
<1>5. left \in Seq(Clients) /\ \A d \in InList(left) : link[d] = "gone"
    BY NotedAreGone
<1>6. /\ position[b] \in Nat /\ position'[b] = position[b] + 1
      /\ position[b] \in DOMAIN connections /\ position' \in [Broadcasters -> Nat]
      /\ Len(connections) \in Nat /\ DOMAIN connections = 1..Len(connections)
  <2>1. position[b] \in Nat  BY <1>1 DEF TypeOK
  <2>2. position[b] + 1 \in Nat  BY <2>1
  <2> QED  BY <1>1, <2>1, <2>2, LenProperties DEF TypeOK, HolderOK, NoGhosts
<1>7. position[b] + 1 \in DOMAIN connections  BY <1>6
<1>8. \A n \in DOMAIN connections : n >= position[b] + 1 <=> n >= position[b] /\ connections[n] # c
  <2>1. \A n \in DOMAIN connections : n # position[b] => connections[n] # c
      BY <1>1, <1>6 DEF NoGhosts, Distinct
  <2> QED  BY <1>6, <2>1
<1> HIDE DEF c
<1>9. TypeOK'
  <2>1. stale' \in [Broadcasters -> Seq(Clients)]  BY <1>1, <1>5 DEF TypeOK
  <2> QED  BY <1>1, <1>4, <1>6, <2>1 DEF TypeOK
<1>10. QueueOK' /\ NoGhosts'  BY <1>1, <1>2 DEF QueueOK, NoGhosts
<1>11. HolderOK'
  <2>1. \A a \in Broadcasters : holder = a => a = b  OBVIOUS
  <2> QED  BY <1>1, <1>2, <1>6, <1>7, <2>1 DEF HolderOK
<1>12. StaleAreGone'
  <2>1. \A a \in Broadcasters : stale'[a] = IF a = b THEN left ELSE stale[a]
      BY <1>1 DEF TypeOK
  <2> QED  BY <1>1, <1>5, <2>1 DEF StaleAreGone
<1>13. NewsIsNew'
  <2>1. \A d \in Clients : \A i \in DOMAIN heard'[d] : heard'[d][i] <= log
      BY <1>1, <1>4 DEF NewsIsNew
  <2>2. ASSUME NEW n \in DOMAIN connections, n >= position[b] + 1
        PROVE  \A i \in DOMAIN heard'[connections[n]] : heard'[connections[n]][i] < log
    <3>1. connections[n] \in Clients  BY <1>1, ElementOfSeq, <1>6 DEF NoGhosts
    <3>2. n >= position[b] /\ connections[n] # c  BY <1>8, <2>2
    <3>3. heard'[connections[n]] = heard[connections[n]]  BY <1>4, <3>1, <3>2
    <3> QED  BY <1>1, <1>4, <3>2, <3>3 DEF NewsIsNew
  <2> QED  BY <1>2, <1>4, <1>6, <2>1, <2>2 DEF NewsIsNew
<1>14. \A d \in Clients : Hears(d)'
  <2>1. \A d \in Clients : There(d)' => There(d)  BY DEF There
  <2>2. ASSUME NEW d \in Clients, d # c PROVE Due(d) \subseteq Due(d)'
    <3> SUFFICES ASSUME sending[b] \in Due(d) PROVE sending[b] \in Due(d)'
        BY DueOne
    <3>1. PICK n \in DOMAIN connections : n >= position[b] /\ connections[n] = d
        BY DueOne
    <3>2. n >= position'[b]  BY <1>6, <1>8, <2>2, <3>1
    <3> QED  BY <1>2, <3>1, <3>2 DEF Due
  <2>3. ~There(c) \/ Delivers(b)  BY <1>3 DEF There
  <2> QED  BY <1>3, <2>1, <2>2, <2>3, HearsSent DEF c
<1> QED  BY <1>9, <1>10, <1>11, <1>12, <1>13, <1>14, Whole

\* Nobody joins or leaves the list.
LEMMA ListStays ==
    ASSUME NoGhosts, UNCHANGED <<connections, link>>, \A c \in Clients : pc'[c] = pc[c]
    PROVE  NoGhosts'
<1>1. InList(connections) \subseteq Clients
    BY ElementOfSeq, LenProperties DEF NoGhosts, InList
<1> QED  BY <1>1 DEF NoGhosts

\* The broadcast is over: the lock goes, and then the clients that have gone.
LEMMA FinishKeeps ==
    ASSUME IInv, NEW b \in Broadcasters, holder = b, NEW left, Noted(b, left),
           position[b] = Len(connections), Finish(b, left),
           UNCHANGED <<position, link, sending, log, joined, cut>>
    PROVE  IInv'
<1> DEFINE c == connections[position[b]]
<1>1. TypeOK /\ QueueOK /\ HolderOK /\ NoGhosts /\ NewsIsNew /\ b \in Parties
    BY Parts, Kinds DEF IInv
<1>2. /\ Delivers(b) \/ heard' = heard
      /\ Delivers(b) \/ link[c] = "gone"
    BY DEF Noted
<1>3. /\ c \in Clients /\ sending[b] = log
      /\ heard' \in [Clients -> Seq(Nat)]
      /\ \A d \in Clients : d # c => heard'[d] = heard[d]
      /\ \A i \in DOMAIN heard'[c] : heard'[c][i] <= log
    BY <1>2, HeardMore
<1>4. left \in Seq(Clients) /\ \A d \in InList(left) : link[d] = "gone"
    BY NotedAreGone
<1>5. pc[b] = "sending" /\ pc[b] \notin Waiting  BY <1>1 DEF HolderOK, Waiting
<1>6. \A n \in DOMAIN connections : n >= position[b] => connections[n] = c
  <2>1. Len(connections) \in Nat /\ DOMAIN connections = 1..Len(connections)
      BY <1>1, LenProperties DEF NoGhosts
  <2>2. \A n \in DOMAIN connections : n >= position[b] => n = position[b]  BY <2>1
  <2> QED  BY <2>2
<1> HIDE DEF c
<1>7. holder' = Nobody  BY DEF Finish
<1>8. \A d \in Clients : \A i \in DOMAIN heard'[d] : heard'[d][i] <= log
    BY <1>1, <1>3 DEF NewsIsNew
<1>9. \A d \in Clients : Hears(d)'
  <2>1. ASSUME NEW where, Goto(b, where) PROVE \A d \in Clients : There(d)' => There(d)
      BY <1>1, <2>1, ClientsStay
  <2>2. \A d \in Clients : There(d)' => There(d)  BY <2>1 DEF Finish
  <2>3. ASSUME NEW d \in Clients, d # c PROVE Due(d) \subseteq Due(d)'
      BY <1>6, <2>3, DueOne
  <2>4. ~There(c) \/ Delivers(b)  BY <1>2 DEF There
  <2> QED  BY <1>2, <2>2, <2>3, <2>4, HearsSent DEF c
<1>10. CASE /\ queue = <<>> \/ left = <<>>
            /\ connections' = Without(InList(left)) /\ stale' = [stale EXCEPT ![b] = <<>>]
            /\ Goto(b, Home(b)) /\ UNCHANGED queue
  <2>1. QueueOK'  BY <1>1, <1>5, <1>10, Homes, QueueStays
  <2>2. \A d \in Clients : pc'[d] = pc[d]  BY <1>1, <1>10, ClientsStay
  <2>3. NoGhosts'
    <3>1. \A d \in InList(left) : There(d)' => FALSE  BY <1>4 DEF There
    <3> QED  BY <1>1, <1>10, <2>2, <3>1, RemovalKeepsList
  <2>4. <<>> \in Seq(Clients) /\ InList(<<>>) = {}  BY EmptySeq DEF InList
  <2> QED  BY <1>3, <1>7, <1>8, <1>9, <1>10, <2>1, <2>3, <2>4, Homes, Released
<1>11. CASE /\ queue' = Append(queue, b) /\ stale' = [stale EXCEPT ![b] = left]
            /\ Goto(b, "cleaning") /\ UNCHANGED connections
  <2>1. QueueOK'  BY <1>1, <1>5, <1>11, QueueGrows DEF Waiting
  <2>2. \A d \in Clients : pc'[d] = pc[d]  BY <1>1, <1>11, ClientsStay
  <2>3. NoGhosts'  BY <1>1, <1>11, <2>2, ListStays
  <2> QED  BY <1>3, <1>4, <1>7, <1>8, <1>9, <1>11, <2>1, <2>3, Released DEF Elsewhere
<1> QED  BY <1>10, <1>11 DEF Finish

LEMMA SentKeeps == ASSUME IInv, NEW b \in Broadcasters, Sent(b) PROVE IInv'
<1>1. pc[b] = "sending" /\ UNCHANGED <<link, sending, stopping, ticks, log, joined, cut>>
    BY SentNotes
<1>2. holder = b  BY <1>1, Parts DEF IInv, HolderOK
<1>3. PICK left :
        /\ Noted(b, left)
        /\ \/ /\ position[b] < Len(connections)
              /\ position' = [position EXCEPT ![b] = @ + 1]
              /\ stale' = [stale EXCEPT ![b] = left]
              /\ UNCHANGED <<pc, connections, lock>>
           \/ position[b] = Len(connections) /\ Finish(b, left) /\ UNCHANGED position
    BY SentNotes
<1>4. CASE position[b] < Len(connections) /\ UNCHANGED <<pc, connections, lock>>
  <2>1. /\ position' = [position EXCEPT ![b] = @ + 1] /\ stale' = [stale EXCEPT ![b] = left]
        /\ position[b] < Len(connections)
    <3>1. position[b] \in Nat /\ Len(connections) \in Nat
        BY Parts, LenProperties DEF IInv, TypeOK, NoGhosts
    <3> QED  BY <1>3, <1>4, <3>1
  <2> QED  BY <1>1, <1>2, <1>3, <1>4, <2>1, NextKeeps
<1>5. CASE position[b] = Len(connections) /\ Finish(b, left) /\ UNCHANGED position
    BY <1>1, <1>2, <1>3, <1>5, FinishKeeps
<1> QED  BY <1>3, <1>4, <1>5

\* A stale client, or all of them, go while nobody sends.
LEMMA CleanKeeps == ASSUME IInv, NEW b \in Broadcasters, Clean(b) PROVE IInv'
<1>1. TypeOK /\ QueueOK /\ HolderOK /\ NoGhosts /\ StaleAreGone /\ NewsIsNew
      /\ b \in Parties
    BY Parts, Kinds DEF IInv
<1>2. /\ pc[b] = "cleaning" /\ First(b) /\ holder = Nobody /\ holder' = Nobody
      /\ UNCHANGED <<link, position, sending, log, heard, joined, cut>>
    BY DEF Clean, First, history
<1>3. stale[b] \in Seq(Clients) /\ \A c \in InList(stale[b]) : link[c] = "gone"
    BY <1>1 DEF TypeOK, StaleAreGone
<1>4. heard' \in [Clients -> Seq(Nat)]
      /\ \A c \in Clients : \A i \in DOMAIN heard'[c] : heard'[c][i] <= log
    BY <1>1, <1>2 DEF TypeOK, NewsIsNew
<1>5. ASSUME \A c \in Clients : There(c)' => There(c) PROVE \A c \in Clients : Hears(c)'
  <2> SUFFICES ASSUME NEW c \in Clients PROVE Hears(c)'  OBVIOUS
  <2>1. Hears(c)  BY Parts DEF IInv
  <2>2. Due(c) = {}  BY <1>2, NoneDue
  <2> QED  BY <1>2, <1>5, <2>1, <2>2, HearsOn
<1>6. CASE /\ connections' = Without(InList(stale[b])) /\ stale' = [stale EXCEPT ![b] = <<>>]
           /\ queue' = Tail(queue) /\ Goto(b, Home(b))
  <2>1. QueueOK'  BY <1>1, <1>2, <1>6, Homes, QueueAdvances
  <2>2. \A c \in Clients : pc'[c] = pc[c] /\ (There(c)' <=> There(c))
      BY <1>1, <1>2, <1>6, ClientsStay
  <2>3. NoGhosts'
    <3>1. \A c \in InList(stale[b]) : There(c)' => FALSE  BY <1>2, <1>3 DEF There
    <3> QED  BY <1>1, <1>2, <1>6, <2>2, <3>1, RemovalKeepsList
  <2>4. <<>> \in Seq(Clients) /\ InList(<<>>) = {}  BY EmptySeq DEF InList
  <2>5. \A c \in Clients : Hears(c)'  BY <1>5, <2>2
  <2> QED  BY <1>2, <1>4, <1>6, <2>1, <2>3, <2>4, <2>5, Homes, Released
<1>7. CASE /\ Len(stale[b]) > 1
           /\ connections' = Without({Head(stale[b])}) /\ stale' = [stale EXCEPT ![b] = Tail(@)]
           /\ queue' = Append(Tail(queue), b) /\ UNCHANGED pc
  <2>1. QueueOK'  BY <1>1, <1>2, <1>7, QueueTurns
  <2>2. stale[b] # <<>>  BY <1>3, <1>7, EmptySeq
  <2>3. Head(stale[b]) \in InList(stale[b]) /\ Tail(stale[b]) \in Seq(Clients)
        /\ InList(Tail(stale[b])) \subseteq InList(stale[b])
      BY <1>3, <2>2, Behead
  <2>4. NoGhosts'
    <3>1. \A c \in {Head(stale[b])} : There(c)' => FALSE  BY <1>2, <1>3, <2>3 DEF There
    <3> QED  BY <1>1, <1>2, <1>7, <3>1, RemovalKeepsList
  <2>5. \A c \in Clients : Hears(c)'  BY <1>2, <1>5, <1>7 DEF There
  <2>6. Goto(b, "cleaning")  BY <1>1, <1>2, <1>7, Kinds DEF Goto, TypeOK
  <2>7. stale' = [stale EXCEPT ![b] = Tail(stale[b])]  BY <1>7
  <2> QED  BY <1>2, <1>3, <1>4, <2>1, <2>3, <2>4, <2>5, <2>6, <2>7, Released DEF Elsewhere
<1> QED  BY <1>6, <1>7 DEF Clean

-----------------------------------------------------------------------------
(***************************************************************************)
(* The metrics loop and its end.                                           *)
(***************************************************************************)
LEMMA TickKeeps == ASSUME IInv, Tick PROVE IInv'
<1>1. TypeOK /\ QueueOK /\ Metrics \in Broadcasters /\ Metrics \in Parties
    BY Parts, Kinds DEF IInv
<1>2. /\ pc[Metrics] = "sleeping" /\ Goto(Metrics, "collecting")
      /\ UNCHANGED <<queue, link, connections, holder, cast, log, heard, joined, cut>>
    BY DEF Tick, lock, history
<1>3. QueueOK'  BY <1>1, <1>2, QueueStays DEF Waiting
<1> QED  BY <1>1, <1>2, <1>3, MoveKeeps DEF Elsewhere

\* A step that touches nothing of the invariant.
LEMMA StillKeeps ==
    ASSUME IInv, UNCHANGED <<pc, link, connections, lock, cast, history>> PROVE IInv'
<1>1. UNCHANGED <<pc, link, connections, holder, queue, position, stale, sending,
                  log, heard, joined, cut>>
    BY DEF lock, cast, history
<1> QED  BY <1>1 DEF IInv, TypeOK, LockIsOwned, NoGhosts, StaleAreGone, NewsIsNew,
                     EverybodyHears, Due

\* The cancelled loop gives up the lock or its place in the queue.
LEMMA CancelledKeeps == ASSUME IInv, Cancelled PROVE IInv'
<1>1. TypeOK /\ QueueOK /\ HolderOK /\ NoGhosts /\ StaleAreGone /\ NewsIsNew
      /\ Metrics \in Broadcasters /\ Metrics \in Parties
    BY Parts, Kinds DEF IInv
<1>2. /\ Goto(Metrics, "off") /\ queue' = Omit(queue, {Metrics})
      /\ UNCHANGED <<link, connections, cast, log, joined>>
      /\ holder' = IF holder = Metrics THEN Nobody ELSE holder
    BY DEF Cancelled
<1>3. QueueOK'  BY <1>1, <1>2, QueueLoses DEF Waiting
<1>4. holder = Metrics <=> pc[Metrics] = "sending"  BY <1>1 DEF HolderOK
<1>5. CASE pc[Metrics] # "sending"
  <2>1. UNCHANGED <<holder, heard, cut>>  BY <1>2, <1>4, <1>5 DEF Cancelled
  <2> QED  BY <1>1, <1>2, <1>3, <1>5, <2>1, MoveKeeps DEF Elsewhere
<1>6. CASE pc[Metrics] = "sending"
  <2> DEFINE c == connections[position[Metrics]]
  <2>1. /\ holder = Metrics /\ holder' = Nobody
        /\ cut' = cut \cup {sending[Metrics]}
        /\ Delivers(Metrics) \/ heard' = heard
      BY <1>2, <1>4, <1>6 DEF Cancelled, Delivers
  <2>2. /\ c \in Clients /\ sending[Metrics] = log
        /\ heard' \in [Clients -> Seq(Nat)]
        /\ \A d \in Clients : d # c => heard'[d] = heard[d]
        /\ \A i \in DOMAIN heard'[c] : heard'[c][i] <= log
      BY <1>1, <2>1, HeardMore
  <2> HIDE DEF c
  <2>3. \A d \in Clients : \A i \in DOMAIN heard'[d] : heard'[d][i] <= log
      BY <1>1, <2>2 DEF NewsIsNew
  <2>4. UNCHANGED <<position, stale, sending>>  BY <1>2 DEF cast
  <2>5. \A d \in Clients : pc'[d] = pc[d] /\ (There(d)' <=> There(d))
      BY <1>1, <1>2, ClientsStay
  <2>6. NoGhosts'  BY <1>1, <1>2, <2>5, ListStays
  <2>7. \A d \in Clients : Hears(d)'
    <3>1. log \in cut'  BY <2>1, <2>2
    <3>2. \A d \in Clients : Due(d) \subseteq cut'  BY <1>1, <2>1, DueOne
    <3>3. cut \subseteq cut'  BY <2>1
    <3> QED  BY <1>1, <1>2, <2>1, <2>5, <3>1, <3>2, <3>3, HearsSent DEF c
  <2>8. /\ stale[Metrics] \in Seq(Clients)
        /\ \A d \in InList(stale[Metrics]) : link[d] = "gone"
        /\ stale' = [stale EXCEPT ![Metrics] = stale[Metrics]]
      BY <1>1, <2>4 DEF TypeOK, StaleAreGone
  <2> QED  BY <1>1, <1>2, <1>3, <2>1, <2>2, <2>3, <2>4, <2>6, <2>7, <2>8, Released DEF Elsewhere
<1> QED  BY <1>5, <1>6

LEMMA InitInv == Init => IInv
<1> SUFFICES ASSUME Init PROVE IInv  OBVIOUS
<1> USE DEF Init
<1>1. <<>> \in Seq(Clients) /\ <<>> \in Seq(Parties) /\ <<>> \in Seq(Nat)
      /\ InList(<<>>) = {} /\ Distinct(<<>>) /\ DOMAIN <<>> = {}
    BY EmptySeq DEF InList, Distinct
<1>2. /\ \A c \in Clients : pc[c] = "away" /\ link[c] = "none" /\ heard[c] = <<>>
      /\ \A b \in Broadcasters : pc[b] \in {"away", "sleeping"} /\ stale[b] = <<>>
      /\ \A p \in Parties : pc[p] \in {"away", "sleeping"}
    BY Kinds
<1>3. TypeOK  BY <1>1, <1>2 DEF TypeOK
<1>4. LockIsOwned
  <2>1. {p \in Parties : pc[p] \in Waiting} = {}  BY <1>2 DEF Waiting
  <2> QED  BY <1>1, <1>2, <2>1, Kinds DEF LockIsOwned
<1>5. NoGhosts  BY <1>1, <1>2 DEF NoGhosts
<1>6. StaleAreGone  BY <1>1, <1>2 DEF StaleAreGone
<1>7. NewsIsNew  BY <1>1, <1>2, Kinds DEF NewsIsNew
<1>8. EverybodyHears  BY <1>1, <1>2 DEF EverybodyHears
<1> QED  BY <1>3, <1>4, <1>5, <1>6, <1>7, <1>8 DEF IInv

LEMMA NextInv == IInv /\ [Next]_vars => IInv'
<1> SUFFICES ASSUME IInv, [Next]_vars PROVE IInv'  OBVIOUS
<1>1. ASSUME NEW c \in Clients, Connect(c) PROVE IInv'  BY <1>1, ConnectKeeps
<1>2. ASSUME NEW c \in Clients, Handler(c) PROVE IInv'
    BY <1>2, JoinKeeps, NoticeKeeps, LeaveKeeps DEF Handler
<1>3. ASSUME NEW c \in Clients, Network(c) PROVE IInv'  BY <1>3, NetworkKeeps
<1>4. ASSUME NEW b \in Broadcasters, Caster(b) PROVE IInv'
    BY <1>4, BroadcastKeeps, BeginKeeps, SentKeeps, CleanKeeps DEF Caster
<1>5. CASE Tick  BY <1>5, TickKeeps
<1>6. CASE Stop \/ UNCHANGED vars  BY <1>6, StillKeeps DEF Stop, vars
<1>7. CASE Cancelled  BY <1>7, CancelledKeeps
<1> QED  BY <1>1, <1>2, <1>3, <1>4, <1>5, <1>6, <1>7 DEF Next

-----------------------------------------------------------------------------
\* All of it holds at all times: clients are registered and removed, messages
\* sent and stale clients dropped under one lock, of which this is the invariant.
THEOREM BroadcastInvariant == Spec => []IInv
BY InitInv, NextInv, PTL DEF Spec

\* The lock is with the broadcaster that sends, and with nobody once a
\* broadcast has ended in any way; its queue is those who wait, each once.
THEOREM LockOwned == Spec => []LockIsOwned
<1>1. IInv => LockIsOwned  BY DEF IInv
<1> QED  BY <1>1, BroadcastInvariant, PTL

\* The list of connections has exactly those to be served, none twice, though
\* handlers and broadcasters both remove from it.
THEOREM NoGhostsEver == Spec => []NoGhosts
<1>1. IInv => NoGhosts  BY DEF IInv
<1> QED  BY <1>1, BroadcastInvariant, PTL

\* Each client that stays gets every broadcast begun since it came, once and in
\* order, unless the server's stop cut it off.
THEOREM AllHear == Spec => []EverybodyHears
<1>1. IInv => EverybodyHears  BY DEF IInv
<1> QED  BY <1>1, BroadcastInvariant, PTL

\* While a broadcast goes through the list of connections, nobody changes it.
THEOREM IterationIsSafe == Spec => IterationSafe
<1> DEFINE Still == holder # Nobody /\ holder' = holder => connections' = connections
<1>1. IInv /\ [Next]_vars => [Still]_vars
  <2> SUFFICES ASSUME IInv, Next, holder # Nobody, holder' = holder
               PROVE  connections' = connections
      BY DEF vars
  <2>1. ASSUME NEW c \in Clients, Connect(c) \/ Handler(c) \/ Network(c)
        PROVE  connections' = connections
      BY <2>1 DEF Connect, Handler, Join, Notice, Leave, Network, Free, First
  <2>2. ASSUME NEW b \in Broadcasters, Caster(b) PROVE connections' = connections
    <3>1. ~Begin(b) /\ ~Clean(b)  BY DEF Begin, Clean, First
    <3>2. CASE Broadcast(b)  BY <3>2 DEF Broadcast, Free
    <3>3. CASE Sent(b)
        BY <3>3, SentNotes DEF Finish
    <3> QED  BY <2>2, <3>1, <3>2, <3>3 DEF Caster
  <2>3. CASE Tick \/ Stop \/ Cancelled  BY <2>3 DEF Tick, Stop, Cancelled
  <2> QED  BY <2>1, <2>2, <2>3 DEF Next
<1> QED  BY <1>1, BroadcastInvariant, PTL DEF Spec, IterationSafe
=============================================================================
