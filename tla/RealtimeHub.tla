------------------------------ MODULE RealtimeHub ------------------------------
(* The realtime hub: one goroutine owns the set of clients and hands every   *)
(* accepted event to each of them; a client has a buffered channel, a pump   *)
(* that writes it to the connection and one that reads until the connection  *)
(* ends.  Nobody waits for a slow frontend: an event the hub has no room for *)
(* is dropped, a client whose buffer is full is dropped as a whole.          *)
(*                                                                           *)
(* The accepted events are numbered from 1; the welcome is 0.                *)
EXTENDS Naturals, Sequences

CONSTANTS
  Clients,
  SendBuffer,     \* 32 in the code
  HubBuffer,      \* 256 in the code
  MaxEvents       \* bound: the events accepted

RealtimeHubAssumption ==
  SendBuffer \in Nat \ {0} /\ HubBuffer \in Nat \ {0} /\ MaxEvents \in Nat

Welcome == 0

VARIABLES
  accepted,     \* number of the last event accepted
  bus,          \* broadcast: the events accepted and not yet taken
  event,        \* the event the hub is handing out
  todo,         \* ... and to whom it still is to go
  members,      \* clients
  closed,       \* the clients whose channel is closed
  crashed,      \* the hub closed a closed channel, or sent on one
  handler,      \* where ServeHTTP of the client is
  queue,        \* send
  open,         \* the clients whose connection is up
  writer, reader,    \* the pumps
  received      \* what the frontend got

hub == <<event, todo, members, closed, crashed>>
input == <<accepted, bus>>
pumps == <<writer, reader>>
vars == <<input, hub, handler, queue, open, pumps, received>>

Init ==
  /\ accepted = 0 /\ bus = <<>>
  /\ event = 0 /\ todo = {} /\ members = {} /\ closed = {} /\ crashed = FALSE
  /\ handler = [c \in Clients |-> "none"]
  /\ queue = [c \in Clients |-> <<>>] /\ open = {}
  /\ writer = [c \in Clients |-> "none"] /\ reader = writer
  /\ received = [c \in Clients |-> <<>>]

-----------------------------------------------------------------------------
(* The producers of events.                                                  *)

(* An event the buffer has no room for is lost, and has no number.           *)
Broadcast ==
  /\ accepted < MaxEvents /\ Len(bus) < HubBuffer
  /\ accepted' = accepted + 1
  /\ bus' = Append(bus, accepted')
  /\ UNCHANGED <<hub, handler, queue, open, pumps, received>>

-----------------------------------------------------------------------------
(* ServeHTTP.                                                                *)

Upgrade(c) ==
  /\ handler[c] = "none"
  /\ handler' = [handler EXCEPT ![c] = "upgraded"]
  /\ open' = open \cup {c}
  /\ UNCHANGED <<input, hub, queue, pumps, received>>

(* The hub is ready to take a registration: it is not handing out an event.  *)
Register(c) ==
  /\ handler[c] = "upgraded" /\ todo = {}
  /\ handler' = [handler EXCEPT ![c] = "registered"]
  /\ members' = members \cup {c}
  /\ UNCHANGED <<input, event, todo, closed, crashed, queue, open, pumps, received>>

(* The welcome is queued, dropped when there is no room, and the pumps are   *)
(* started.  A channel closed meanwhile stops the handler before the pumps.  *)
Enqueue(c) ==
  /\ handler[c] = "registered"
  /\ IF c \in closed
       THEN /\ handler' = [handler EXCEPT ![c] = "panicked"]
            /\ UNCHANGED <<queue, pumps>>
       ELSE /\ handler' = [handler EXCEPT ![c] = "done"]
            /\ queue' = IF Len(queue[c]) < SendBuffer
                          THEN [queue EXCEPT ![c] = Append(@, Welcome)] ELSE queue
            /\ writer' = [writer EXCEPT ![c] = "running"]
            /\ reader' = [reader EXCEPT ![c] = "running"]
  /\ UNCHANGED <<input, hub, open, received>>

-----------------------------------------------------------------------------
(* Hub.Run.                                                                  *)

Take ==
  /\ todo = {} /\ bus # <<>>
  /\ event' = Head(bus) /\ bus' = Tail(bus) /\ todo' = members
  /\ UNCHANGED <<accepted, members, closed, crashed, handler, queue, open, pumps, received>>

(* Wrong: a client that is behind misses the event.                          *)
DeliverLossy(c) ==
  /\ c \in todo
  /\ todo' = todo \ {c}
  /\ queue' = IF Len(queue[c]) < SendBuffer
                THEN [queue EXCEPT ![c] = Append(@, event)] ELSE queue
  /\ UNCHANGED <<input, event, members, closed, crashed, handler, open, pumps, received>>

Deliver(c) ==
  /\ c \in todo
  /\ todo' = todo \ {c}
  /\ crashed' = (crashed \/ c \in closed)
  /\ IF Len(queue[c]) < SendBuffer
       THEN /\ queue' = [queue EXCEPT ![c] = Append(@, event)]
            /\ UNCHANGED <<members, closed>>
       ELSE /\ members' = members \ {c} /\ closed' = closed \cup {c}
            /\ UNCHANGED queue
  /\ UNCHANGED <<input, event, handler, open, pumps, received>>

(* The reader's last act; the connection is closed after it.                 *)
Unregister(c) ==
  /\ reader[c] = "leaving" /\ todo = {}
  /\ reader' = [reader EXCEPT ![c] = "done"]
  /\ IF c \in members
       THEN /\ members' = members \ {c} /\ closed' = closed \cup {c}
            /\ crashed' = (crashed \/ c \in closed)
       ELSE UNCHANGED <<members, closed, crashed>>
  /\ open' = open \ {c}
  /\ UNCHANGED <<input, event, todo, handler, queue, writer, received>>

-----------------------------------------------------------------------------
(* The pumps.                                                                *)

Write(c) ==
  /\ writer[c] = "running" /\ queue[c] # <<>> /\ c \in open
  /\ queue' = [queue EXCEPT ![c] = Tail(@)]
  /\ received' = [received EXCEPT ![c] = Append(@, Head(queue[c]))]
  /\ UNCHANGED <<input, hub, handler, open, pumps>>

(* An event or a ping is not taken in time, or the connection is gone; or    *)
(* the channel is closed and empty.                                          *)
WriterEnded(c) ==
  /\ writer[c] = "running"
  /\ writer' = [writer EXCEPT ![c] = "done"]
  /\ queue' = IF queue[c] # <<>> THEN [queue EXCEPT ![c] = Tail(@)] ELSE queue

WriterEnds(c) ==
  /\ WriterEnded(c)
  /\ open' = open \ {c}
  /\ UNCHANGED <<input, hub, handler, reader, received>>

(* NextReader fails once the connection is closed by either side.            *)
ReaderEnds(c) ==
  /\ reader[c] = "running" /\ c \notin open
  /\ reader' = [reader EXCEPT ![c] = "leaving"]
  /\ UNCHANGED <<input, hub, handler, queue, open, writer, received>>

(* The frontend goes, or no pong of it comes for a minute.                   *)
PeerGone(c) ==
  /\ c \in open
  /\ open' = open \ {c}
  /\ UNCHANGED <<input, hub, handler, queue, pumps, received>>

-----------------------------------------------------------------------------
HubStep == Take \/ \E c \in Clients : Register(c) \/ Deliver(c) \/ Unregister(c)

Next ==
  \/ Broadcast \/ HubStep
  \/ \E c \in Clients : \/ Upgrade(c) \/ Enqueue(c) \/ Write(c)
                        \/ WriterEnds(c) \/ ReaderEnds(c) \/ PeerGone(c)

Spec == Init /\ [][Next]_vars

-----------------------------------------------------------------------------
(* Properties.                                                               *)

(* The variables have their types, and no buffer holds more than it can.     *)
TypeOK ==
  /\ accepted \in 0..MaxEvents
  /\ bus \in Seq(1..MaxEvents) /\ Len(bus) <= HubBuffer
  /\ event \in 0..MaxEvents
  /\ todo \subseteq Clients /\ members \subseteq Clients /\ closed \subseteq Clients
  /\ crashed \in BOOLEAN
  /\ handler \in [Clients -> {"none", "upgraded", "registered", "panicked", "done"}]
  /\ open \subseteq Clients
  /\ queue \in [Clients -> Seq(0..MaxEvents)]
  /\ received \in [Clients -> Seq(0..MaxEvents)]
  /\ \A c \in Clients : Len(queue[c]) <= SendBuffer
  /\ writer \in [Clients -> {"none", "running", "done"}]
  /\ reader \in [Clients -> {"none", "running", "leaving", "done"}]

(* The hub's goroutine, on which all frontends depend, never panics: no      *)
(* channel is closed twice and nothing is sent on a closed one, whether the  *)
(* client is dropped for its full buffer, or its reader leaves, or both.     *)
HubSurvives == ~crashed

Events(s) == SelectSeq(s, LAMBDA e : e # Welcome)

(* What a frontend gets is a run of the accepted events without a gap: one   *)
(* that cannot follow loses its connection, never an event in between.  A    *)
(* client of the hub is up to the event that is being handed out.            *)
GapFree ==
  \A c \in Clients :
    LET got == Events(received[c] \o queue[c])
    IN /\ writer[c] # "done" =>
            \A i \in 1..Len(got) - 1 : got[i + 1] = got[i] + 1
       /\ \A i \in 1..Len(Events(received[c])) - 1 : got[i + 1] = got[i] + 1
       /\ c \in members /\ writer[c] # "done" /\ got # <<>> =>
            got[Len(got)] = IF c \in todo THEN event - 1 ELSE event

(* Nothing of the hub or of its clients' goroutines is left to do; a pump   *)
(* with a queue to write and a connection up has something to do.            *)
AtRest ==
  /\ ~ENABLED HubStep
  /\ \A c \in Clients :
       /\ ~ENABLED (Enqueue(c) \/ Write(c) \/ ReaderEnds(c))
       /\ writer[c] = "running" => c \in open /\ (c \in closed => queue[c] # <<>>)

(* A connection that is gone is not left in the hub, whichever of the pumps  *)
(* saw it first.                                                             *)
LostIsForgotten ==
  AtRest => \A c \in Clients : handler[c] = "done" /\ c \notin open => c \notin members

(* A client the hub has dropped is told so: its connection is closed and its *)
(* two goroutines end, unless the welcome found the channel closed.          *)
DroppedIsClosed ==
  AtRest => \A c \in closed :
    handler[c] = "done" => c \notin open /\ writer[c] = "done" /\ reader[c] = "done"
================================================================================
