----------------------------- MODULE StreamerHub -----------------------------
(***************************************************************************)
(* The WebSocket streamer: Hub (internal/streamer/hub.go) and the two      *)
(* goroutines that serve each connection (handler.go).  The hub's goroutine*)
(* takes clients in, takes them out and copies each message to the buffers *)
(* of a room; readers join and leave rooms under the hub's mutex; a client *)
(* whose buffer is full is unregistered by a goroutine of its own.  An     *)
(* action is one receive or one critical section.  A panic in any          *)
(* goroutine ends the process, and with it the model.                      *)
(*                                                                         *)
(* A definition commented "Bug:" is not part of the specification.  It is  *)
(* the next one with a plausible mistake, which a property must reject.    *)
(***************************************************************************)
EXTENDS Integers, Sequences, SequencesExt

CONSTANTS Clients,      \* connections, each with a fresh uuid
          Auctions,
          SendSize,     \* capacity of a client's buffer, 256 in the code
          QueueSize,    \* capacity of the broadcast channel, 256 in the code
          MaxMessages   \* bounds the events that arrive

ASSUME SizesAssumption ==
    SendSize \in Nat \ {0} /\ QueueSize \in Nat \ {0} /\ MaxMessages \in Nat

VARIABLES clients,     \* h.clients
          rooms,       \* h.rooms: auction -> watchers; an empty room is a deleted one
          joined,      \* client -> client.Rooms
          admitting,   \* the clients the hub has received and not yet entered
          queue,       \* the broadcast channel
          arrived,     \* how many events have been put on it
          send,        \* client -> its buffer, the numbers of its messages
          closed,      \* the clients whose buffer has been closed
          kicks,       \* client -> goroutines waiting to unregister it
          reader,      \* client -> its readPump
          writer,      \* client -> its writePump
          open,        \* the clients whose connection is open
          last,        \* client -> the newest event it has received
          panic        \* what ended the process, "none" while it runs

hubVars == <<clients, rooms, joined, admitting, kicks>>
channelVars == <<queue, arrived, send, closed>>
pumpVars == <<reader, writer, open, last>>
vars == <<hubVars, channelVars, pumpVars, panic>>

Pong == 0    \* a pong or an error; events are numbered from 1

TypeOK ==
    /\ clients \subseteq Clients
    /\ rooms \in [Auctions -> SUBSET Clients]
    /\ joined \in [Clients -> SUBSET Auctions]
    /\ admitting \subseteq Clients
    /\ \A n \in DOMAIN queue : queue[n] \in [auction : Auctions, number : 1 .. MaxMessages]
    /\ Len(queue) <= QueueSize
    /\ arrived \in 0 .. MaxMessages
    /\ send \in [Clients -> BoundedSeq(Pong .. MaxMessages, SendSize)]
    /\ closed \subseteq Clients
    /\ kicks \in [Clients -> 0 .. MaxMessages]
    /\ reader \in [Clients -> {"none", "registering", "reading", "leaving", "done"}]
    /\ writer \in [Clients -> {"none", "writing", "done"}]
    /\ open \subseteq Clients
    /\ last \in [Clients -> 0 .. MaxMessages]
    /\ panic \in {"none", "reply", "broadcast", "close"}

Init ==
    /\ clients = {} /\ admitting = {} /\ closed = {} /\ open = {}
    /\ rooms = [a \in Auctions |-> {}]
    /\ joined = [c \in Clients |-> {}]
    /\ queue = <<>> /\ arrived = 0
    /\ send = [c \in Clients |-> <<>>]
    /\ kicks = [c \in Clients |-> 0]
    /\ reader = [c \in Clients |-> "none"]
    /\ writer = [c \in Clients |-> "none"]
    /\ last = [c \in Clients |-> 0]
    /\ panic = "none"

Read(c, place) == reader' = [reader EXCEPT ![c] = place]
Write(c, place) == writer' = [writer EXCEPT ![c] = place]

-----------------------------------------------------------------------------
\* The hub's goroutine.  It selects only when it has nothing left to enter.
Selecting == panic = "none" /\ admitting = {}

\* ServeWS: the upgrade, then the wait to be registered.
ServeWS(c) ==
    /\ panic = "none" /\ reader[c] = "none" /\ Read(c, "registering")
    /\ open' = open \cup {c}
    /\ UNCHANGED <<hubVars, channelVars, writer, last, panic>>

\* The hub receives the client: its two goroutines start at once ...
Register(c) ==
    /\ Selecting /\ reader[c] = "registering"
    /\ admitting' = {c}
    /\ Read(c, "reading") /\ Write(c, "writing")
    /\ UNCHANGED <<clients, rooms, joined, kicks, channelVars, open, last, panic>>

\* ... and may run before the hub has the mutex and enters it.
Admit(c) ==
    /\ panic = "none" /\ c \in admitting
    /\ clients' = clients \cup {c} /\ admitting' = {}
    /\ UNCHANGED <<rooms, joined, kicks, channelVars, pumpVars, panic>>

\* Bug: a client may be taken out twice.
TakeOutAlways(c) ==
    IF c \in closed
    THEN panic' = "close" /\ UNCHANGED <<clients, rooms, closed>>
    ELSE /\ rooms' = [a \in Auctions |-> IF a \in joined[c] THEN rooms[a] \ {c} ELSE rooms[a]]
         /\ closed' = closed \cup {c}
         /\ clients' = clients \ {c}
         /\ UNCHANGED panic

TakeOut(c) ==
    IF c \notin clients
    THEN UNCHANGED <<clients, rooms, closed, panic>>
    ELSE /\ rooms' = [a \in Auctions |-> IF a \in joined[c] THEN rooms[a] \ {c} ELSE rooms[a]]
         /\ closed' = closed \cup {c}
         /\ clients' = clients \ {c}
         /\ panic' = IF c \in closed THEN "close" ELSE panic

\* The hub unregisters a client: for its reader, which then closes the
\* connection, ...
UnregisterLeaving(c) ==
    /\ Selecting /\ reader[c] = "leaving" /\ Read(c, "done")
    /\ TakeOut(c)
    /\ open' = open \ {c}
    /\ UNCHANGED <<joined, admitting, kicks, queue, arrived, send, writer, last>>

\* Bug: a slow client only leaves its rooms.
UnregisterSlowFromRooms(c) ==
    /\ Selecting /\ kicks[c] > 0
    /\ kicks' = [kicks EXCEPT ![c] = @ - 1]
    /\ rooms' = [a \in Auctions |-> rooms[a] \ {c}]
    /\ UNCHANGED <<clients, joined, admitting, channelVars, pumpVars, panic>>

\* ... or for a goroutine that found its buffer full.
UnregisterSlow(c) ==
    /\ Selecting /\ kicks[c] > 0
    /\ kicks' = [kicks EXCEPT ![c] = @ - 1]
    /\ TakeOut(c)
    /\ UNCHANGED <<joined, admitting, queue, arrived, send, pumpVars>>

Full(c) == Len(send[c]) = SendSize

\* Bug: the newest waiting message goes out first.
BroadcastNewest ==
    /\ Selecting /\ queue # <<>> /\ queue' = Front(queue)
    /\ send' = [c \in Clients |-> IF c \in rooms[Last(queue).auction] /\ ~Full(c)
                                  THEN Append(send[c], Last(queue).number) ELSE send[c]]
    /\ UNCHANGED <<hubVars, arrived, closed, pumpVars, panic>>

\* A message is copied to each watcher's buffer; to a closed one it panics.
Broadcast ==
    LET watchers == rooms[Head(queue).auction]
    IN  /\ Selecting /\ queue # <<>> /\ queue' = Tail(queue)
        /\ IF watchers \cap closed # {}
           THEN panic' = "broadcast" /\ UNCHANGED <<send, kicks>>
           ELSE /\ send' = [c \in Clients |-> IF c \in watchers /\ ~Full(c)
                                              THEN Append(send[c], Head(queue).number)
                                              ELSE send[c]]
                /\ kicks' = [c \in Clients |-> IF c \in watchers /\ Full(c)
                                               THEN kicks[c] + 1 ELSE kicks[c]]
                /\ UNCHANGED panic
        /\ UNCHANGED <<clients, rooms, joined, admitting, arrived, closed, pumpVars>>

\* BroadcastToAuction, called for an event from NATS.
BroadcastToAuction(a) ==
    /\ panic = "none" /\ arrived < MaxMessages /\ Len(queue) < QueueSize
    /\ arrived' = arrived + 1
    /\ queue' = Append(queue, [auction |-> a, number |-> arrived + 1])
    /\ UNCHANGED <<hubVars, send, closed, pumpVars, panic>>

-----------------------------------------------------------------------------
\* readPump: the messages of a client.
Reads(c) == panic = "none" /\ reader[c] = "reading" /\ c \in open

JoinRoom(c, a) ==
    /\ Reads(c)
    /\ rooms' = [rooms EXCEPT ![a] = @ \cup {c}]
    /\ joined' = [joined EXCEPT ![c] = @ \cup {a}]
    /\ UNCHANGED <<clients, admitting, kicks, channelVars, pumpVars, panic>>

\* Bug: only the client's own set is changed.
LeaveOwnSet(c, a) ==
    /\ Reads(c)
    /\ joined' = [joined EXCEPT ![c] = @ \ {a}]
    /\ UNCHANGED <<clients, rooms, admitting, kicks, channelVars, pumpVars, panic>>

LeaveRoom(c, a) ==
    /\ Reads(c)
    /\ rooms' = [rooms EXCEPT ![a] = @ \ {c}]
    /\ joined' = [joined EXCEPT ![c] = @ \ {a}]
    /\ UNCHANGED <<clients, admitting, kicks, channelVars, pumpVars, panic>>

\* Bug: a pong is put into the buffer whether or not it is full.
SendMessageOverflows(c) ==
    /\ Reads(c) /\ c \notin closed
    /\ send' = [send EXCEPT ![c] = Append(@, Pong)]
    /\ UNCHANGED <<hubVars, queue, arrived, closed, pumpVars, panic>>

\* sendMessage, for a pong or an error: dropped when the buffer is full.
SendMessage(c) ==
    /\ Reads(c)
    /\ IF c \in closed
       THEN panic' = "reply" /\ UNCHANGED send
       ELSE /\ send' = IF Full(c) THEN send ELSE [send EXCEPT ![c] = Append(@, Pong)]
            /\ UNCHANGED panic
    /\ UNCHANGED <<hubVars, queue, arrived, closed, pumpVars>>

\* Bug: a reader that fails ends without unregistering its client.
EndReadAtOnce(c) ==
    /\ panic = "none" /\ reader[c] = "reading" /\ Read(c, "done")
    /\ UNCHANGED <<hubVars, channelVars, writer, open, last, panic>>

\* ReadMessage fails: the peer is gone or silent, or the connection is closed.
EndRead(c) ==
    /\ panic = "none" /\ reader[c] = "reading" /\ Read(c, "leaving")
    /\ UNCHANGED <<hubVars, channelVars, writer, open, last, panic>>

\* writePump: the next message of the buffer is written ...
WriteMessage(c) ==
    /\ panic = "none" /\ writer[c] = "writing" /\ c \in open /\ send[c] # <<>>
    /\ send' = [send EXCEPT ![c] = Tail(@)]
    /\ last' = [last EXCEPT ![c] = IF Head(send[c]) = Pong THEN @ ELSE Head(send[c])]
    /\ UNCHANGED <<hubVars, queue, arrived, closed, reader, writer, open, panic>>

\* ... or the buffer is closed and empty, or a write fails.
EndWrite(c) ==
    /\ panic = "none" /\ writer[c] = "writing" /\ Write(c, "done")
    /\ open' = open \ {c}
    /\ UNCHANGED <<hubVars, channelVars, reader, last, panic>>

-----------------------------------------------------------------------------
HubStep ==
    \/ Broadcast
    \/ \E c \in Clients : Register(c) \/ Admit(c) \/ UnregisterLeaving(c) \/ UnregisterSlow(c)

Next ==
    \/ HubStep
    \/ \E a \in Auctions : BroadcastToAuction(a)
    \/ \E c \in Clients : \/ ServeWS(c)
                          \/ \E a \in Auctions : JoinRoom(c, a) \/ LeaveRoom(c, a)
                          \/ SendMessage(c) \/ EndRead(c)
                          \/ WriteMessage(c) \/ EndWrite(c)

Spec == Init /\ [][Next]_vars

\* The hub's goroutine runs and its select starves no channel.  A reader and a
\* writer of a connection that has been closed are told so.
FairSpec ==
    /\ Spec
    /\ WF_vars(HubStep)
    /\ \A c \in Clients :
          /\ SF_vars(UnregisterLeaving(c)) /\ SF_vars(UnregisterSlow(c))
          /\ WF_vars(c \notin open /\ EndRead(c))
          /\ WF_vars(c \in closed /\ EndWrite(c))

-----------------------------------------------------------------------------
\* The hub's rooms and each client's own set say the same of every client that
\* has not been taken out: joins, leaves and removals, which touch one or both,
\* never drift apart (hub.go:60).
RoomsAgree ==
    \A c \in Clients \ closed, a \in Auctions : c \in rooms[a] <=> a \in joined[c]

\* A client gets the events of its rooms in the order they arrived and none
\* twice, wherever they wait: received, buffered, queued (hub.go:75).  A pong is
\* below every event.
EventsStayInOrder ==
    \A c \in Clients :
        LET waiting == [n \in DOMAIN queue |-> queue[n].number]
            all == <<last[c]>> \o send[c] \o waiting
        IN  \A m, n \in DOMAIN all : m < n /\ all[n] # Pong => all[m] < all[n]

\* A buffer is closed once, although a reader and any number of goroutines
\* unregister its client (hub.go:59).
ClosedOnce == panic # "close"

\* A client found too slow is taken out (hub.go:82).
SlowAreTakenOut ==
    \A c \in Clients : kicks[c] > 0 ~> c \notin clients \/ panic # "none"

\* A connection that is gone leaves the hub, whichever of its two goroutines
\* noticed it, and both end (handler.go:75).
GoneAreTakenOut ==
    \A c \in Clients :
        reader[c] # "none" /\ c \notin open
            ~> (c \notin clients /\ writer[c] # "writing") \/ panic # "none"

-----------------------------------------------------------------------------
\* What a comment in the code says, and the code does not do.

\* A slow client is disconnected and no more: "Client buffer full, disconnect"
\* (hub.go:82).  What it sends or joins before its connection is closed does not
\* end the process.
SlowAreOnlyDisconnected == panic = "none"
=============================================================================
