-------------------------- MODULE StreamerHubProofs --------------------------
(***************************************************************************)
(* Theorems about StreamerHub, for every number of clients, rooms and      *)
(* events and every size of the buffers.                                   *)
(***************************************************************************)
EXTENDS StreamerHub, SequenceTheorems, TLAPS

USE SizesAssumption

-----------------------------------------------------------------------------
\* The shape of the hub's own state and of what the pumps are doing.
HubTypes ==
    /\ clients \subseteq Clients
    /\ rooms \in [Auctions -> SUBSET Clients]
    /\ joined \in [Clients -> SUBSET Auctions]
    /\ admitting \subseteq Clients
    /\ closed \subseteq Clients
    /\ reader \in [Clients -> {"none", "registering", "reading", "leaving", "done"}]
    /\ writer \in [Clients -> {"none", "writing", "done"}]
    /\ open \subseteq Clients
    /\ panic \in {"none", "reply", "broadcast", "close"}

\* A client has one life: it waits, it is entered, it is taken out.
OneLife ==
    /\ \A c \in Clients : reader[c] \in {"none", "registering"} =>
          c \notin clients /\ c \notin closed /\ c \notin admitting
    /\ \A c \in admitting : c \notin clients /\ c \notin closed
    /\ \A c \in clients : c \notin closed
    /\ \A c, d \in admitting : c = d

HubInv == HubTypes /\ OneLife /\ RoomsAgree /\ ClosedOnce

LEMMA InitHub == Init => HubInv
BY DEF Init, HubInv, HubTypes, OneLife, RoomsAgree, ClosedOnce

LEMMA TakeOutHub ==
    ASSUME HubInv, NEW c \in Clients, TakeOut(c), UNCHANGED <<joined, admitting>>,
           reader' = reader \/ reader' = [reader EXCEPT ![c] = "done"],
           reader[c] = "leaving" \/ reader' = reader,
           writer' = writer, open' \subseteq open
    PROVE  HubInv'
<1> USE DEF HubInv
<1>1. CASE c \notin clients
  BY <1>1 DEF TakeOut, HubTypes, OneLife, RoomsAgree, ClosedOnce
<1>2. CASE c \in clients
  <2>1. /\ rooms' = [a \in Auctions |-> IF a \in joined[c] THEN rooms[a] \ {c} ELSE rooms[a]]
        /\ closed' = closed \cup {c} /\ clients' = clients \ {c} /\ panic' = panic
    BY <1>2 DEF TakeOut, OneLife
  <2>2. HubTypes'
    BY <2>1 DEF HubTypes
  <2>3. OneLife'
    BY <1>2, <2>1 DEF OneLife, HubTypes
  <2>4. RoomsAgree'
    BY <2>1 DEF RoomsAgree, HubTypes
  <2>5. ClosedOnce'
    BY <2>1 DEF ClosedOnce
  <2> QED
    BY <2>2, <2>3, <2>4, <2>5
<1> QED
  BY <1>1, <1>2

LEMMA NextHub == ASSUME HubInv, [Next]_vars PROVE HubInv'
<1> USE DEF HubInv
<1>1. ASSUME NEW c \in Clients, ServeWS(c) PROVE HubInv'
  BY <1>1 DEF ServeWS, Read, hubVars, channelVars, HubTypes, OneLife, RoomsAgree, ClosedOnce
<1>2. ASSUME NEW c \in Clients, Register(c) PROVE HubInv'
  BY <1>2 DEF Register, Selecting, Read, Write, channelVars, HubTypes, OneLife, RoomsAgree,
              ClosedOnce
<1>3. ASSUME NEW c \in Clients, Admit(c) PROVE HubInv'
  BY <1>3 DEF Admit, channelVars, pumpVars, HubTypes, OneLife, RoomsAgree, ClosedOnce
<1>4. ASSUME NEW c \in Clients, UnregisterLeaving(c) PROVE HubInv'
  BY <1>4, TakeOutHub DEF UnregisterLeaving, Read
<1>5. ASSUME NEW c \in Clients, UnregisterSlow(c) PROVE HubInv'
  BY <1>5, TakeOutHub DEF UnregisterSlow, pumpVars
<1>6. CASE Broadcast
  BY <1>6 DEF Broadcast, pumpVars, HubTypes, OneLife, RoomsAgree, ClosedOnce
<1>7. ASSUME NEW c \in Clients, NEW a \in Auctions, JoinRoom(c, a) PROVE HubInv'
  <2>1. HubTypes'
    BY <1>7 DEF JoinRoom, channelVars, pumpVars, HubTypes
  <2>2. RoomsAgree'
    BY <1>7 DEF JoinRoom, channelVars, HubTypes, RoomsAgree
  <2> QED
    BY <1>7, <2>1, <2>2 DEF JoinRoom, channelVars, pumpVars, OneLife, ClosedOnce
<1>8. ASSUME NEW c \in Clients, NEW a \in Auctions, LeaveRoom(c, a) PROVE HubInv'
  <2>1. HubTypes'
    BY <1>8 DEF LeaveRoom, channelVars, pumpVars, HubTypes
  <2>2. RoomsAgree'
    BY <1>8 DEF LeaveRoom, channelVars, HubTypes, RoomsAgree
  <2> QED
    BY <1>8, <2>1, <2>2 DEF LeaveRoom, channelVars, pumpVars, OneLife, ClosedOnce
<1>9. ASSUME NEW c \in Clients, SendMessage(c) PROVE HubInv'
  BY <1>9 DEF SendMessage, hubVars, pumpVars, HubTypes, OneLife, RoomsAgree, ClosedOnce
<1>10. ASSUME NEW c \in Clients, EndRead(c) PROVE HubInv'
  BY <1>10 DEF EndRead, Read, hubVars, channelVars, HubTypes, OneLife, RoomsAgree, ClosedOnce
<1>11. ASSUME NEW c \in Clients, WriteMessage(c) PROVE HubInv'
  BY <1>11 DEF WriteMessage, hubVars, HubTypes, OneLife, RoomsAgree, ClosedOnce
<1>12. ASSUME NEW c \in Clients, EndWrite(c) PROVE HubInv'
  BY <1>12 DEF EndWrite, Write, hubVars, channelVars, HubTypes, OneLife, RoomsAgree, ClosedOnce
<1>13. ASSUME NEW a \in Auctions, BroadcastToAuction(a) PROVE HubInv'
  BY <1>13 DEF BroadcastToAuction, hubVars, pumpVars, HubTypes, OneLife, RoomsAgree, ClosedOnce
<1>14. CASE UNCHANGED vars
  BY <1>14 DEF vars, hubVars, channelVars, pumpVars, HubTypes, OneLife, RoomsAgree, ClosedOnce
<1> QED
  BY <1>1, <1>2, <1>3, <1>4, <1>5, <1>6, <1>7, <1>8, <1>9, <1>10, <1>11, <1>12, <1>13, <1>14
     DEF Next, HubStep

LEMMA HubInvariance == Spec => []HubInv
BY InitHub, NextHub, PTL DEF Spec

\* The hub and its clients agree on who watches what, until the client is taken
\* out (Hub.Run, JoinRoom, LeaveRoom).
THEOREM RoomsStayAgreed == Spec => []RoomsAgree
BY HubInvariance, PTL DEF HubInv

\* No buffer is closed twice (Hub.Run's unregister case, whoever asks for it).
THEOREM BuffersCloseOnce == Spec => []ClosedOnce
BY HubInvariance, PTL DEF HubInv

-----------------------------------------------------------------------------
\* The channels.

Event == [auction : Auctions, number : 1 .. MaxMessages]

\* A client is found slow once by each event that has left the queue.
ChannelTypes ==
    /\ queue \in Seq(Event) /\ Len(queue) <= QueueSize
    /\ arrived \in 0 .. MaxMessages
    /\ send = [c \in Clients |-> send[c]]
    /\ \A c \in Clients : send[c] \in Seq(Pong .. MaxMessages) /\ Len(send[c]) <= SendSize
    /\ kicks \in [Clients -> Nat]
    /\ \A c \in Clients : kicks[c] + Len(queue) <= arrived
    /\ last \in [Clients -> 0 .. MaxMessages]

\* The newest event a client has, its buffer and the queue, when the newest of all
\* events is number newest.
BufferBounded(has, buffer, newest) ==
    \A n \in 1 .. Len(buffer) :
       buffer[n] <= newest /\ (buffer[n] # Pong => has < buffer[n])

BufferRises(buffer) ==
    \A m, n \in 1 .. Len(buffer) : m < n /\ buffer[n] # Pong => buffer[m] < buffer[n]

QueueBounded(has, waiting, newest) ==
    \A n \in 1 .. Len(waiting) : waiting[n].number <= newest /\ has < waiting[n].number

QueueRises(waiting) ==
    \A m, n \in 1 .. Len(waiting) : m < n => waiting[m].number < waiting[n].number

BufferFirst(buffer, waiting) ==
    \A m \in 1 .. Len(buffer), n \in 1 .. Len(waiting) : buffer[m] < waiting[n].number

InOrder(has, buffer, waiting, newest) ==
    /\ has <= newest
    /\ BufferBounded(has, buffer, newest) /\ BufferRises(buffer)
    /\ QueueBounded(has, waiting, newest) /\ QueueRises(waiting)
    /\ BufferFirst(buffer, waiting)

ChannelInv ==
    ChannelTypes /\ \A c \in Clients : InOrder(last[c], send[c], queue, arrived)

\* Appending to a buffer and taking from it, position by position.
LEMMA Appended ==
    ASSUME NEW S, NEW s \in Seq(S), NEW x \in S
    PROVE  /\ Append(s, x) \in Seq(S) /\ Len(Append(s, x)) = Len(s) + 1
           /\ \A i \in 1 .. Len(s) + 1 :
                 Append(s, x)[i] = IF i = Len(s) + 1 THEN x ELSE s[i]
BY AppendProperties

LEMMA Taken ==
    ASSUME NEW S, NEW s \in Seq(S), s # <<>>
    PROVE  /\ Head(s) \in S /\ Head(s) = s[1] /\ Len(s) \in Nat \ {0}
           /\ Tail(s) \in Seq(S) /\ Len(Tail(s)) = Len(s) - 1
           /\ \A i \in 1 .. Len(s) - 1 : Tail(s)[i] = s[i + 1] /\ i + 1 \in 1 .. Len(s)
<1>1. Len(s) \in Nat \ {0}
  BY EmptySeq
<1>2. Head(s) = s[1]
  OBVIOUS
<1> QED
  BY <1>1, <1>2, HeadTailProperties

LEMMA EventNumbers == \A e \in Event : e.number \in 1 .. MaxMessages
BY DEF Event

\* An event arrives, ...
LEMMA OrderArrives ==
    ASSUME NEW l \in Nat, NEW s \in Seq(Pong .. MaxMessages), NEW q \in Seq(Event), NEW a \in Nat,
           InOrder(l, s, q, a), NEW e \in Event, e.number = a + 1
    PROVE  InOrder(l, s, Append(q, e), a + 1)
<1> USE DEF InOrder
<1>1. PICK t : t = Append(q, e)
  OBVIOUS
<1>2. /\ Len(t) = Len(q) + 1 /\ Len(q) \in Nat
      /\ \A i \in 1 .. Len(t) : (i = Len(t) /\ t[i] = e) \/ (i \in 1 .. Len(q) /\ t[i] = q[i])
  BY <1>1, Appended
<1>3. \A i \in 1 .. Len(q) :
         q[i].number \in Int /\ q[i].number <= a /\ l < q[i].number
  BY EventNumbers DEF QueueBounded
<1>4. \A i \in 1 .. Len(s) : s[i] \in Nat
  BY DEF Pong
<1>5. BufferBounded(l, s, a + 1)
  BY <1>4 DEF BufferBounded
<1>6. QueueBounded(l, t, a + 1)
  <2> SUFFICES ASSUME NEW i \in 1 .. Len(t) PROVE t[i].number <= a + 1 /\ l < t[i].number
    BY DEF QueueBounded
  <2>1. CASE t[i] = e
    BY <2>1
  <2>2. CASE i \in 1 .. Len(q) /\ t[i] = q[i]
    BY <1>3, <2>2
  <2> QED
    BY <1>2, <2>1, <2>2
<1>7. QueueRises(t)
  <2> SUFFICES ASSUME NEW m \in 1 .. Len(t), NEW n \in 1 .. Len(t), m < n
               PROVE  t[m].number < t[n].number
    BY DEF QueueRises
  <2>1. m \in 1 .. Len(q) /\ t[m] = q[m]
    BY <1>2
  <2>2. CASE t[n] = e
    BY <1>3, <2>1, <2>2
  <2>3. CASE n \in 1 .. Len(q) /\ t[n] = q[n]
    BY <2>1, <2>3 DEF QueueRises
  <2> QED
    BY <1>2, <2>2, <2>3
<1>8. BufferFirst(s, t)
  <2> SUFFICES ASSUME NEW m \in 1 .. Len(s), NEW n \in 1 .. Len(t) PROVE s[m] < t[n].number
    BY DEF BufferFirst
  <2>1. s[m] <= a /\ s[m] \in Nat
    BY <1>4 DEF BufferBounded
  <2>2. CASE t[n] = e
    BY <2>1, <2>2
  <2>3. CASE n \in 1 .. Len(q) /\ t[n] = q[n]
    BY <2>3 DEF BufferFirst
  <2> QED
    BY <1>2, <2>2, <2>3
<1> QED
  BY <1>1, <1>5, <1>6, <1>7, <1>8

\* ... leaves the queue, for a client that gets it and for one that does not, ...
LEMMA OrderLeaves ==
    ASSUME NEW l \in Nat, NEW s \in Seq(Pong .. MaxMessages), NEW q \in Seq(Event), NEW a \in Nat,
           InOrder(l, s, q, a), q # <<>>
    PROVE  /\ InOrder(l, s, Tail(q), a)
           /\ InOrder(l, Append(s, Head(q).number), Tail(q), a)
<1> USE DEF InOrder
<1>1. PICK t, x : t = Tail(q) /\ x = Head(q).number
  OBVIOUS
<1>2. /\ x = q[1].number /\ x \in 1 .. MaxMessages
      /\ 1 \in 1 .. Len(q) /\ Len(q) \in Nat /\ Len(t) = Len(q) - 1
      /\ \A i \in 1 .. Len(t) : t[i] = q[i + 1] /\ i + 1 \in 1 .. Len(q)
  BY <1>1, Taken, EventNumbers
<1>3. \A i \in 1 .. Len(q) : q[i].number \in Int
  BY EventNumbers
<1>4. Len(s) \in Nat /\ \A i \in 1 .. Len(s) : s[i] \in Nat
  BY DEF Pong
<1>5. QueueBounded(l, t, a)
  BY <1>2 DEF QueueBounded
<1>6. QueueRises(t)
  <2> SUFFICES ASSUME NEW m \in 1 .. Len(t), NEW n \in 1 .. Len(t), m < n
               PROVE  t[m].number < t[n].number
    BY DEF QueueRises
  <2>1. m + 1 < n + 1 /\ m + 1 \in 1 .. Len(q) /\ n + 1 \in 1 .. Len(q)
    BY <1>2
  <2>2. q[m + 1].number < q[n + 1].number
    BY <2>1 DEF QueueRises
  <2> QED
    BY <1>2, <2>2
<1>7. BufferFirst(s, t)
  BY <1>2 DEF BufferFirst
<1>8. PICK u : u = Append(s, x)
  OBVIOUS
<1>9. /\ Len(u) = Len(s) + 1
      /\ \A i \in 1 .. Len(u) : (i = Len(u) /\ u[i] = x) \/ (i \in 1 .. Len(s) /\ u[i] = s[i])
  BY <1>2, <1>4, <1>8, Appended DEF Pong
<1>10. x <= a /\ l < x /\ \A i \in 1 .. Len(s) : s[i] < x
  BY <1>2 DEF QueueBounded, BufferFirst
<1>11. \A i \in 1 .. Len(t) : x < t[i].number
  <2> SUFFICES ASSUME NEW i \in 1 .. Len(t) PROVE x < t[i].number
    OBVIOUS
  <2>1. 1 < i + 1 /\ i + 1 \in 1 .. Len(q)
    BY <1>2
  <2>2. q[1].number < q[i + 1].number
    BY <1>2, <2>1 DEF QueueRises
  <2> QED
    BY <1>2, <2>2
<1>12. BufferBounded(l, u, a)
  BY <1>9, <1>10 DEF BufferBounded
<1>13. BufferRises(u)
  <2> SUFFICES ASSUME NEW m \in 1 .. Len(u), NEW n \in 1 .. Len(u), m < n, u[n] # Pong
               PROVE  u[m] < u[n]
    BY DEF BufferRises
  <2>1. m \in 1 .. Len(s) /\ u[m] = s[m]
    BY <1>4, <1>9
  <2> QED
    BY <1>9, <1>10, <2>1 DEF BufferRises
<1>14. BufferFirst(u, t)
  BY <1>7, <1>9, <1>11 DEF BufferFirst
<1> QED
  BY <1>1, <1>5, <1>6, <1>7, <1>8, <1>12, <1>13, <1>14

\* ... a pong goes between the events, ...
LEMMA OrderPong ==
    ASSUME NEW l \in Nat, NEW s \in Seq(Pong .. MaxMessages), NEW q \in Seq(Event), NEW a \in Nat,
           InOrder(l, s, q, a)
    PROVE  InOrder(l, Append(s, Pong), q, a)
<1> USE DEF InOrder
<1>1. PICK u : u = Append(s, Pong)
  OBVIOUS
<1>2. Len(s) \in Nat /\ Pong \in Pong .. MaxMessages
  BY DEF Pong
<1>3. /\ Len(u) = Len(s) + 1
      /\ \A i \in 1 .. Len(u) : (i = Len(u) /\ u[i] = Pong) \/ (i \in 1 .. Len(s) /\ u[i] = s[i])
  BY <1>1, <1>2, Appended
<1>4. BufferBounded(l, u, a)
  BY <1>3 DEF BufferBounded, Pong
<1>5. BufferRises(u)
  <2> SUFFICES ASSUME NEW m \in 1 .. Len(u), NEW n \in 1 .. Len(u), m < n, u[n] # Pong
               PROVE  u[m] < u[n]
    BY DEF BufferRises
  <2>1. m \in 1 .. Len(s) /\ u[m] = s[m] /\ n \in 1 .. Len(s) /\ u[n] = s[n]
    BY <1>2, <1>3
  <2> QED
    BY <2>1 DEF BufferRises
<1>6. BufferFirst(u, q)
  <2>1. \A n \in 1 .. Len(q) : 0 < q[n].number
    BY EventNumbers
  <2> QED
    BY <1>3, <2>1 DEF BufferFirst, Pong
<1> QED
  BY <1>1, <1>4, <1>5, <1>6

\* ... and a message is written.
LEMMA OrderWrite ==
    ASSUME NEW l \in Nat, NEW s \in Seq(Pong .. MaxMessages), NEW q \in Seq(Event), NEW a \in Nat,
           InOrder(l, s, q, a), s # <<>>
    PROVE  InOrder(IF Head(s) = Pong THEN l ELSE Head(s), Tail(s), q, a)
<1> USE DEF InOrder
<1>1. PICK t, k : t = Tail(s) /\ k = (IF Head(s) = Pong THEN l ELSE Head(s))
  OBVIOUS
<1>2. /\ 1 \in 1 .. Len(s) /\ Len(s) \in Nat /\ Len(t) = Len(s) - 1
      /\ \A i \in 1 .. Len(t) : t[i] = s[i + 1] /\ i + 1 \in 1 .. Len(s)
      /\ k = IF s[1] = Pong THEN l ELSE s[1]
  BY <1>1, Taken
<1>3. k <= a /\ k \in Int /\ \A i \in 1 .. Len(s) : s[i] \in Int
  BY <1>2 DEF BufferBounded, Pong
<1>4. BufferBounded(k, t, a)
  <2> SUFFICES ASSUME NEW i \in 1 .. Len(t) PROVE t[i] <= a /\ (t[i] # Pong => k < t[i])
    BY DEF BufferBounded
  <2>1. t[i] = s[i + 1] /\ i + 1 \in 1 .. Len(s) /\ 1 < i + 1
    BY <1>2
  <2>2. s[i + 1] <= a /\ (s[i + 1] # Pong => l < s[i + 1])
    BY <2>1 DEF BufferBounded
  <2>3. s[i + 1] # Pong => s[1] < s[i + 1]
    BY <1>2, <2>1 DEF BufferRises
  <2> QED
    BY <1>2, <2>1, <2>2, <2>3
<1>5. BufferRises(t)
  <2> SUFFICES ASSUME NEW m \in 1 .. Len(t), NEW n \in 1 .. Len(t), m < n, t[n] # Pong
               PROVE  t[m] < t[n]
    BY DEF BufferRises
  <2>1. /\ m + 1 < n + 1 /\ m + 1 \in 1 .. Len(s) /\ n + 1 \in 1 .. Len(s)
        /\ t[m] = s[m + 1] /\ t[n] = s[n + 1]
    BY <1>2
  <2> QED
    BY <2>1 DEF BufferRises
<1>6. QueueBounded(k, q, a)
  BY <1>2 DEF QueueBounded, BufferFirst
<1>7. BufferFirst(t, q)
  BY <1>2 DEF BufferFirst
<1> QED
  BY <1>1, <1>3, <1>4, <1>5, <1>6, <1>7

\* In the steps that leave the channels alone nothing changes for them.
LEMMA SameChannels ==
    ASSUME ChannelInv, UNCHANGED <<queue, arrived, send, kicks, last>>
    PROVE  ChannelInv'
BY DEF ChannelInv, ChannelTypes

LEMMA ArriveChannels ==
    ASSUME ChannelInv, NEW a \in Auctions, BroadcastToAuction(a)
    PROVE  ChannelInv'
<1> USE DEF ChannelInv
<1>1. PICK e : e = [auction |-> a, number |-> arrived + 1]
  OBVIOUS
<1>2. /\ arrived' = arrived + 1 /\ queue' = Append(queue, e)
      /\ Len(queue) < QueueSize /\ arrived < MaxMessages
      /\ send' = send /\ kicks' = kicks /\ last' = last
  BY <1>1 DEF BroadcastToAuction, hubVars, pumpVars
<1>3. arrived \in Nat /\ arrived' \in 1 .. MaxMessages
  BY <1>2 DEF ChannelTypes
<1>4. e \in Event /\ e.number = arrived + 1
  BY <1>1, <1>2, <1>3 DEF Event
<1>5. queue' \in Seq(Event) /\ Len(queue') = Len(queue) + 1 /\ Len(queue) \in Nat
  BY <1>2, <1>4, Appended DEF ChannelTypes
<1>6. ChannelTypes'
  <2>1. \A c \in Clients : kicks'[c] + Len(queue') <= arrived'
    BY <1>2, <1>3, <1>5 DEF ChannelTypes
  <2> QED
    BY <1>2, <1>3, <1>5, <2>1 DEF ChannelTypes
<1>7. ASSUME NEW c \in Clients PROVE InOrder(last[c], send[c], queue', arrived')
  <2>1. PICK l \in Nat, s \in Seq(Pong .. MaxMessages) : l = last[c] /\ s = send[c]
    BY DEF ChannelTypes
  <2>2. InOrder(l, s, Append(queue, e), arrived + 1)
    BY <1>3, <1>4, <2>1, OrderArrives DEF ChannelTypes
  <2> QED
    BY <1>2, <2>1, <2>2
<1> QED
  BY <1>2, <1>6, <1>7

LEMMA BroadcastChannels ==
    ASSUME ChannelInv, Broadcast
    PROVE  ChannelInv'
<1> USE DEF ChannelInv
<1>1. queue # <<>> /\ queue' = Tail(queue) /\ arrived' = arrived /\ last' = last
  BY DEF Broadcast, pumpVars
<1>2. PICK x : x = Head(queue).number
  OBVIOUS
<1>3. /\ queue \in Seq(Event) /\ Len(queue) \in Nat \ {0} /\ x \in Pong .. MaxMessages
      /\ queue' \in Seq(Event) /\ Len(queue') = Len(queue) - 1 /\ arrived \in Nat
  BY <1>1, <1>2, Taken, EventNumbers DEF ChannelTypes, Pong
<1>4. /\ send' = [c \in Clients |-> send'[c]] /\ kicks' = [c \in Clients |-> kicks'[c]]
      /\ \A c \in Clients :
            /\ kicks'[c] \in {kicks[c], kicks[c] + 1}
            /\ send'[c] = send[c] \/ (send'[c] = Append(send[c], x) /\ Len(send[c]) # SendSize)
  BY <1>2 DEF Broadcast, Full, ChannelTypes
<1>5. ASSUME NEW c \in Clients
      PROVE  /\ send'[c] \in Seq(Pong .. MaxMessages) /\ Len(send'[c]) <= SendSize
             /\ InOrder(last[c], send'[c], queue', arrived)
  <2>1. PICK l \in Nat, s \in Seq(Pong .. MaxMessages), a \in Nat, q \in Seq(Event) :
           l = last[c] /\ s = send[c] /\ a = arrived /\ q = queue
    BY <1>3 DEF ChannelTypes
  <2>2. InOrder(l, s, q, a) /\ Len(s) <= SendSize /\ Len(s) \in Nat
    BY <2>1 DEF ChannelTypes
  <2>3. InOrder(l, s, Tail(q), a) /\ InOrder(l, Append(s, x), Tail(q), a)
    BY <1>1, <1>2, <2>1, <2>2, OrderLeaves
  <2>4. Append(s, x) \in Seq(Pong .. MaxMessages) /\ Len(Append(s, x)) = Len(s) + 1
    BY <1>3, Appended
  <2>5. CASE send'[c] = send[c]
    BY <1>1, <2>1, <2>2, <2>3, <2>5
  <2>6. CASE send'[c] = Append(send[c], x) /\ Len(send[c]) # SendSize
    <3>1. Len(s) + 1 <= SendSize
      BY <2>1, <2>2, <2>6
    <3> QED
      BY <1>1, <2>1, <2>3, <2>4, <2>6, <3>1
  <2> QED
    BY <1>4, <2>5, <2>6
<1>6. kicks' \in [Clients -> Nat] /\ \A c \in Clients : kicks'[c] + Len(queue') <= arrived'
  <2>1. ASSUME NEW c \in Clients
        PROVE  kicks'[c] \in Nat /\ kicks'[c] + Len(queue') <= arrived
    <3>1. PICK k \in Nat, n \in Nat \ {0} : k = kicks[c] /\ n = Len(queue) /\ k + n <= arrived
      BY <1>3 DEF ChannelTypes
    <3>2. kicks'[c] \in {k, k + 1} /\ Len(queue') = n - 1
      BY <1>3, <1>4, <3>1
    <3> QED
      BY <1>3, <3>1, <3>2
  <2> QED
    BY <1>1, <1>4, <2>1
<1>7. ChannelTypes'
  BY <1>1, <1>3, <1>4, <1>5, <1>6 DEF ChannelTypes
<1> QED
  BY <1>1, <1>5, <1>7

LEMMA SlowChannels ==
    ASSUME ChannelInv, NEW c \in Clients, UnregisterSlow(c)
    PROVE  ChannelInv'
<1>1. /\ kicks' = [kicks EXCEPT ![c] = @ - 1] /\ kicks[c] > 0
      /\ UNCHANGED <<queue, arrived, send, last>>
  BY DEF UnregisterSlow, pumpVars
<1>2. queue \in Seq(Event) /\ Len(queue) \in Nat /\ arrived \in Nat
  BY DEF ChannelInv, ChannelTypes
<1>3. \A d \in Clients : kicks'[d] \in Nat /\ kicks'[d] <= kicks[d]
  <2>1. \A d \in Clients : kicks[d] \in Nat
    BY DEF ChannelInv, ChannelTypes
  <2>2. \A d \in Clients : kicks'[d] = IF d = c THEN kicks[d] - 1 ELSE kicks[d]
    BY <1>1 DEF ChannelInv, ChannelTypes
  <2> QED
    BY <1>1, <2>1, <2>2
<1>4. kicks' \in [Clients -> Nat] /\ \A d \in Clients : kicks'[d] + Len(queue) <= arrived
  BY <1>1, <1>2, <1>3 DEF ChannelInv, ChannelTypes
<1> QED
  BY <1>1, <1>4 DEF ChannelInv, ChannelTypes

LEMMA SendMessageChannels ==
    ASSUME ChannelInv, NEW c \in Clients, SendMessage(c)
    PROVE  ChannelInv'
<1>1. /\ send' = send \/ (send' = [send EXCEPT ![c] = Append(@, Pong)] /\ Len(send[c]) # SendSize)
      /\ UNCHANGED <<queue, arrived, kicks, last>>
  BY DEF SendMessage, Full, hubVars, pumpVars
<1>2. CASE send' = send
  BY <1>1, <1>2, SameChannels
<1>3. CASE send' = [send EXCEPT ![c] = Append(@, Pong)] /\ Len(send[c]) # SendSize
  <2>1. PICK l \in Nat, s \in Seq(Pong .. MaxMessages), a \in Nat, q \in Seq(Event) :
           /\ l = last[c] /\ s = send[c] /\ a = arrived /\ q = queue
           /\ InOrder(l, s, q, a) /\ Len(s) <= SendSize /\ Len(s) \in Nat
    BY DEF ChannelInv, ChannelTypes
  <2>2. InOrder(l, Append(s, Pong), q, a)
    BY <2>1, OrderPong
  <2>3. Append(s, Pong) \in Seq(Pong .. MaxMessages) /\ Len(Append(s, Pong)) = Len(s) + 1
    <3>1. Pong \in Pong .. MaxMessages
      BY DEF Pong
    <3> QED
      BY <3>1, Appended
  <2>4. /\ send' = [d \in Clients |-> send'[d]] /\ send'[c] = Append(s, Pong)
        /\ \A d \in Clients : d # c => send'[d] = send[d]
    BY <1>3, <2>1 DEF ChannelInv, ChannelTypes
  <2>5. Len(send'[c]) <= SendSize
    BY <1>3, <2>1, <2>3, <2>4
  <2>6. ChannelTypes'
    BY <1>1, <2>3, <2>4, <2>5 DEF ChannelInv, ChannelTypes
  <2>7. \A d \in Clients : InOrder(last[d], send'[d], queue, arrived)
    BY <2>1, <2>2, <2>4 DEF ChannelInv
  <2> QED
    BY <1>1, <2>6, <2>7 DEF ChannelInv
<1> QED
  BY <1>1, <1>2, <1>3

LEMMA WriteChannels ==
    ASSUME ChannelInv, NEW c \in Clients, WriteMessage(c)
    PROVE  ChannelInv'
<1>1. /\ send[c] # <<>> /\ send' = [send EXCEPT ![c] = Tail(@)]
      /\ last' = [last EXCEPT ![c] = IF Head(send[c]) = Pong THEN @ ELSE Head(send[c])]
      /\ UNCHANGED <<queue, arrived, kicks>>
  BY DEF WriteMessage, hubVars
<1>2. PICK l \in 0 .. MaxMessages, s \in Seq(Pong .. MaxMessages), a \in Nat, q \in Seq(Event) :
         /\ l = last[c] /\ s = send[c] /\ a = arrived /\ q = queue
         /\ InOrder(l, s, q, a) /\ Len(s) <= SendSize
  BY DEF ChannelInv, ChannelTypes
<1>3. PICK k, t : k = (IF Head(s) = Pong THEN l ELSE Head(s)) /\ t = Tail(s)
  OBVIOUS
<1>4. InOrder(k, t, q, a)
  BY <1>1, <1>2, <1>3, OrderWrite
<1>5. /\ k \in 0 .. MaxMessages /\ t \in Seq(Pong .. MaxMessages)
      /\ Len(t) <= SendSize
  <2>1. /\ s # <<>> /\ Head(s) \in Pong .. MaxMessages /\ Len(s) \in Nat \ {0}
        /\ t \in Seq(Pong .. MaxMessages) /\ Len(t) = Len(s) - 1
    BY <1>1, <1>2, <1>3, Taken
  <2>2. k \in 0 .. MaxMessages
    BY <1>3, <2>1 DEF Pong
  <2> QED
    BY <1>2, <2>1, <2>2
<1>6. /\ send' = [d \in Clients |-> send'[d]] /\ send'[c] = t
      /\ \A d \in Clients : d # c => send'[d] = send[d]
  BY <1>1, <1>2, <1>3 DEF ChannelInv, ChannelTypes
<1>7. /\ last' \in [Clients -> 0 .. MaxMessages] /\ last'[c] = k
      /\ \A d \in Clients : d # c => last'[d] = last[d]
  BY <1>1, <1>2, <1>3, <1>5 DEF ChannelInv, ChannelTypes
<1>8. ChannelTypes'
  BY <1>1, <1>5, <1>6, <1>7 DEF ChannelInv, ChannelTypes
<1>9. \A d \in Clients : InOrder(last'[d], send'[d], queue, arrived)
  BY <1>2, <1>4, <1>6, <1>7 DEF ChannelInv
<1> QED
  BY <1>1, <1>8, <1>9 DEF ChannelInv

LEMMA InitChannels == Init => ChannelInv
<1> SUFFICES ASSUME Init PROVE ChannelInv
  OBVIOUS
<1>1. queue = <<>> /\ arrived = 0 /\ send = [c \in Clients |-> <<>>]
      /\ kicks = [c \in Clients |-> 0] /\ last = [c \in Clients |-> 0]
  BY DEF Init
<1>2. /\ <<>> \in Seq(Event) /\ <<>> \in Seq(Pong .. MaxMessages) /\ Len(<<>>) = 0
  BY EmptySeq
<1>3. InOrder(0, <<>>, <<>>, 0)
  BY <1>2 DEF InOrder, BufferBounded, BufferRises, QueueBounded, QueueRises, BufferFirst
<1>4. ChannelTypes
  BY <1>1, <1>2 DEF ChannelTypes
<1> QED
  BY <1>1, <1>3, <1>4 DEF ChannelInv

LEMMA NextChannels == ASSUME ChannelInv, [Next]_vars PROVE ChannelInv'
<1>1. ASSUME NEW c \in Clients, ServeWS(c) \/ Register(c) \/ Admit(c) PROVE ChannelInv'
  BY <1>1, SameChannels DEF ServeWS, Register, Admit, hubVars, channelVars, pumpVars
<1>2. ASSUME NEW c \in Clients, UnregisterLeaving(c) PROVE ChannelInv'
  BY <1>2, SameChannels DEF UnregisterLeaving
<1>3. ASSUME NEW c \in Clients, NEW a \in Auctions, JoinRoom(c, a) \/ LeaveRoom(c, a)
      PROVE  ChannelInv'
  BY <1>3, SameChannels DEF JoinRoom, LeaveRoom, channelVars, pumpVars
<1>4. ASSUME NEW c \in Clients, EndRead(c) \/ EndWrite(c) PROVE ChannelInv'
  BY <1>4, SameChannels DEF EndRead, EndWrite, hubVars, channelVars
<1>5. CASE UNCHANGED vars
  BY <1>5, SameChannels DEF vars, hubVars, channelVars, pumpVars
<1> QED
  BY <1>1, <1>2, <1>3, <1>4, <1>5, ArriveChannels, BroadcastChannels, SlowChannels,
     SendMessageChannels, WriteChannels DEF Next, HubStep

LEMMA ChannelInvariance == Spec => []ChannelInv
BY InitChannels, NextChannels, PTL DEF Spec

\* The hub, the rooms, the buffers and the queue keep their shape: nothing is put
\* into a full buffer or channel, and a slow client is found slow no more often
\* than events were sent on.
THEOREM Typing == Spec => []TypeOK
<1>1. ASSUME HubInv, ChannelInv PROVE TypeOK
  <2>1. \A n \in DOMAIN queue : queue[n] \in [auction : Auctions, number : 1 .. MaxMessages]
    <3>1. PICK q \in Seq(Event) : q = queue
      BY <1>1 DEF ChannelInv, ChannelTypes
    <3>2. \A n \in DOMAIN q : q[n] \in Event
      OBVIOUS
    <3> QED
      BY <3>1, <3>2 DEF Event
  <2>2. send \in [Clients -> BoundedSeq(Pong .. MaxMessages, SendSize)]
    <3>1. ASSUME NEW c \in Clients PROVE send[c] \in BoundedSeq(Pong .. MaxMessages, SendSize)
      <4>1. PICK s \in Seq(Pong .. MaxMessages) : s = send[c] /\ Len(s) <= SendSize
        BY <1>1 DEF ChannelInv, ChannelTypes
      <4>2. Len(s) \in Nat /\ s \in [1 .. Len(s) -> Pong .. MaxMessages]
        BY LenProperties, Zenon
      <4>3. Len(s) \in 0 .. SendSize
        BY <4>1, <4>2
      <4> QED
        BY <4>1, <4>2, <4>3, Zenon DEF BoundedSeq, SeqOf
    <3> QED
      BY <1>1, <3>1 DEF ChannelInv, ChannelTypes
  <2>3. kicks \in [Clients -> 0 .. MaxMessages]
    <3>1. Len(queue) \in Nat /\ arrived \in 0 .. MaxMessages
      BY <1>1 DEF ChannelInv, ChannelTypes
    <3> QED
      BY <1>1, <3>1 DEF ChannelInv, ChannelTypes
  <2> QED
    BY <1>1, <2>1, <2>2, <2>3 DEF HubInv, HubTypes, ChannelInv, ChannelTypes, TypeOK
<1> QED
  BY <1>1, HubInvariance, ChannelInvariance, PTL

\* A client gets the events of its rooms in the order they arrived and none twice,
\* whether it got them already or they wait in its buffer or the hub's queue (the
\* hub's one goroutine, writePump).
THEOREM EventsAreOrdered == Spec => []EventsStayInOrder
<1>1. ASSUME ChannelInv PROVE EventsStayInOrder
  <2> SUFFICES ASSUME NEW c \in Clients
               PROVE  LET waiting == [n \in DOMAIN queue |-> queue[n].number]
                          all == <<last[c]>> \o send[c] \o waiting
                      IN  \A m, n \in DOMAIN all : m < n /\ all[n] # Pong => all[m] < all[n]
    BY DEF EventsStayInOrder
  <2>1. PICK l \in 0 .. MaxMessages, s \in Seq(Pong .. MaxMessages), a \in Nat, q \in Seq(Event) :
           /\ l = last[c] /\ s = send[c] /\ a = arrived /\ q = queue
           /\ InOrder(l, s, q, a)
    BY <1>1 DEF ChannelInv, ChannelTypes
  <2>2. PICK w : w = [n \in DOMAIN q |-> q[n].number]
    OBVIOUS
  <2>3. /\ w \in Seq(Pong .. MaxMessages) /\ Len(w) = Len(q)
        /\ \A n \in 1 .. Len(q) : w[n] = q[n].number
    <3>1. DOMAIN q = 1 .. Len(q) /\ Len(q) \in Nat /\ \A n \in 1 .. Len(q) : q[n] \in Event
      OBVIOUS
    <3>2. \A n \in 1 .. Len(q) : q[n].number \in Pong .. MaxMessages
      BY <3>1, EventNumbers DEF Pong
    <3>3. w \in [1 .. Len(q) -> Pong .. MaxMessages]
      BY <2>2, <3>1, <3>2
    <3> QED
      BY <2>2, <3>1, <3>3
  <2>4. PICK h : h = <<l>> \o s
    OBVIOUS
  <2>5. /\ h \in Seq(Pong .. MaxMessages) /\ Len(h) = Len(s) + 1
        /\ \A n \in 1 .. Len(h) : (n = 1 /\ h[n] = l) \/ (n - 1 \in 1 .. Len(s) /\ h[n] = s[n - 1])
    <3>1. PICK f : f = <<l>>
      OBVIOUS
    <3>2. f \in Seq(Pong .. MaxMessages) /\ Len(f) = 1 /\ f[1] = l
      BY <3>1 DEF Pong
    <3>3. /\ f \o s \in Seq(Pong .. MaxMessages) /\ Len(f \o s) = 1 + Len(s)
          /\ \A i \in 1 .. 1 + Len(s) : (f \o s)[i] = IF i <= 1 THEN f[i] ELSE s[i - 1]
      <4>1. PICK S : S = Pong .. MaxMessages
        OBVIOUS
      <4>2. f \in Seq(S) /\ s \in Seq(S)
        BY <3>2, <4>1
      <4>3. /\ f \o s \in Seq(S) /\ Len(f \o s) = Len(f) + Len(s)
            /\ \A i \in 1 .. Len(f) + Len(s) : (f \o s)[i] = IF i <= Len(f) THEN f[i] ELSE s[i - Len(f)]
        BY <4>2, ConcatProperties
      <4> QED
        BY <3>2, <4>1, <4>3
    <3> QED
      BY <2>4, <3>1, <3>2, <3>3
  <2>6. PICK all : all = h \o w
    OBVIOUS
  <2>7. /\ DOMAIN all = 1 .. Len(h) + Len(w)
        /\ \A n \in DOMAIN all : \/ n \in 1 .. Len(h) /\ all[n] = h[n]
                                 \/ n - Len(h) \in 1 .. Len(w) /\ all[n] = w[n - Len(h)]
    <3>1. /\ h \o w \in Seq(Pong .. MaxMessages) /\ Len(h \o w) = Len(h) + Len(w)
          /\ \A i \in 1 .. Len(h) + Len(w) : (h \o w)[i] = IF i <= Len(h) THEN h[i] ELSE w[i - Len(h)]
      <4>1. PICK S : S = Pong .. MaxMessages
        OBVIOUS
      <4>2. h \in Seq(S) /\ w \in Seq(S)
        BY <2>3, <2>5, <4>1
      <4>3. /\ h \o w \in Seq(S) /\ Len(h \o w) = Len(h) + Len(w)
            /\ \A i \in 1 .. Len(h) + Len(w) : (h \o w)[i] = IF i <= Len(h) THEN h[i] ELSE w[i - Len(h)]
        BY <4>2, ConcatProperties
      <4> QED
        BY <4>1, <4>3
    <3> QED
      BY <2>3, <2>5, <2>6, <3>1
  <2>8. ASSUME NEW m \in DOMAIN all, NEW n \in DOMAIN all, m < n, all[n] # Pong
        PROVE  all[m] < all[n]
    <3>1. CASE n \in 1 .. Len(h) /\ all[n] = h[n]
      <4>1. m \in 1 .. Len(h) /\ all[m] = h[m] /\ n - 1 \in 1 .. Len(s) /\ h[n] = s[n - 1]
        BY <2>3, <2>5, <2>7, <2>8, <3>1
      <4>2. CASE m = 1 /\ h[m] = l
        BY <2>1, <2>8, <3>1, <4>1, <4>2 DEF InOrder, BufferBounded
      <4>3. CASE m - 1 \in 1 .. Len(s) /\ h[m] = s[m - 1]
        <5>1. m - 1 < n - 1 /\ s[n - 1] # Pong
          BY <2>7, <2>8, <3>1, <4>1
        <5> QED
          BY <2>1, <3>1, <4>1, <4>3, <5>1 DEF InOrder, BufferRises
      <4> QED
        BY <2>5, <4>1, <4>2, <4>3
    <3>2. CASE n - Len(h) \in 1 .. Len(w) /\ all[n] = w[n - Len(h)]
      <4>1. PICK j \in 1 .. Len(q) : j = n - Len(h) /\ all[n] = q[j].number
        BY <2>3, <3>2
      <4>2. l < q[j].number /\ \A i \in 1 .. Len(s) : s[i] < q[j].number
        BY <2>1 DEF InOrder, QueueBounded, BufferFirst
      <4>3. CASE m \in 1 .. Len(h) /\ all[m] = h[m]
        BY <2>5, <4>1, <4>2, <4>3
      <4>4. CASE m - Len(h) \in 1 .. Len(w) /\ all[m] = w[m - Len(h)]
        <5>1. PICK i \in 1 .. Len(q) : i = m - Len(h) /\ all[m] = q[i].number
          BY <2>3, <4>4
        <5>2. i < j
          BY <2>5, <2>7, <2>8, <4>1, <5>1
        <5> QED
          BY <2>1, <4>1, <5>1, <5>2 DEF InOrder, QueueRises
      <4> QED
        BY <2>7, <4>3, <4>4
    <3> QED
      BY <2>7, <3>1, <3>2
  <2> QED
    BY <2>1, <2>2, <2>4, <2>6, <2>8
<1> QED
  BY <1>1, ChannelInvariance, PTL
=============================================================================
