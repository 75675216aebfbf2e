----------------------------- MODULE RabbitClient -----------------------------
(***************************************************************************)
(* The client of packages/rabbitmq as its callers use it: connect() while  *)
(* it says that it is not connected, disconnect() at the end. A connection *)
(* has one channel. The broker's side of a connection closes first; the    *)
(* event that tells the client comes later, and is lost on a client that   *)
(* has not set its handlers yet, which it does last of all in connect().   *)
(***************************************************************************)
EXTENDS Naturals, FiniteSets

CONSTANTS
  Callers,
  MaxConnections,   \* bound on the connections
  MaxFaults         \* bound on refused calls and lost connections and channels

ASSUME BoundsAssumption == MaxConnections \in Nat /\ MaxFaults \in Nat

VARIABLES
  connection, channel,   \* of the client, by the number of the connection
  isConnecting,
  handled,               \* connections whose handlers are set
  link,                  \* the broker's side of each connection
  pipe,                  \* and of its channel
  pc,                    \* where each caller's connect() is
  stopping,              \* where disconnect() is
  faults

client == <<connection, channel, isConnecting, handled>>
broker == <<link, pipe>>
rabbitVars == <<client, broker, pc, stopping, faults>>

Connections == 1..MaxConnections
None == 0
States == {"none", "open", "closing", "closed"}
Steps == {"dialing", "opening", "declaring"}

RabbitInit ==
  /\ connection = None /\ channel = None /\ isConnecting = FALSE /\ handled = {}
  /\ link = [n \in Connections |-> "none"]
  /\ pipe = [n \in Connections |-> "none"]
  /\ pc = [c \in Callers |-> "idle"]
  /\ stopping = "no"
  /\ faults = 0

Fault == faults < MaxFaults /\ faults' = faults + 1
Goto(c, p) == pc' = [pc EXCEPT ![c] = p]
isConnected == connection # None /\ channel # None

-----------------------------------------------------------------------------
\* Mutant: a call does not look whether another one is under way.
Wrong_connect(c) ==
  /\ pc[c] = "idle" /\ stopping = "no" /\ ~isConnected
  /\ Goto(c, "dialing")
  /\ isConnecting' = TRUE
  /\ UNCHANGED <<connection, channel, handled, broker, stopping, faults>>

\* Mutant: a connection without a channel is good enough.
Wrong_connectOnce(c) ==
  /\ pc[c] = "idle" /\ stopping = "no" /\ connection = None
  /\ Goto(c, IF isConnecting THEN "waiting" ELSE "dialing")
  /\ isConnecting' = TRUE
  /\ UNCHANGED <<connection, channel, handled, broker, stopping, faults>>

\* connect() of a caller that found the client not connected.
connect(c) ==
  /\ pc[c] = "idle" /\ stopping = "no" /\ ~isConnected
  /\ Goto(c, IF isConnecting THEN "waiting" ELSE "dialing")
  /\ isConnecting' = TRUE
  /\ UNCHANGED <<connection, channel, handled, broker, stopping, faults>>

\* The poll of a call that waits sees the end of the other one, however it ended.
waited(c) ==
  /\ pc[c] = "waiting" /\ ~isConnecting
  /\ Goto(c, "idle")
  /\ UNCHANGED <<client, broker, stopping, faults>>

\* amqplib.connect answers; an older connection that is still open is forgotten.
dialed(c, n) ==
  /\ pc[c] = "dialing" /\ link[n] = "none" /\ \A m \in 1..(n - 1) : link[m] # "none"
  /\ link' = [link EXCEPT ![n] = "open"]
  /\ connection' = n
  /\ Goto(c, "opening")
  /\ UNCHANGED <<channel, isConnecting, handled, pipe, stopping, faults>>

\* The connection that the call on its way has made.
Last(n) == link[n] # "none" /\ \A m \in Connections : m > n => link[m] = "none"

\* createChannel answers for the connection it was called on; the client's field
\* may be null by then.
opened(c, n) ==
  /\ pc[c] = "opening" /\ Last(n) /\ link[n] = "open"
  /\ pipe' = [pipe EXCEPT ![n] = "open"]
  /\ channel' = n
  /\ Goto(c, "declaring")
  /\ UNCHANGED <<connection, isConnecting, handled, link, stopping, faults>>

\* prefetch and assertExchange answer; the handlers are set, on what is there.
declared(c) ==
  /\ pc[c] = "declaring" /\ isConnected
  /\ link[connection] = "open" /\ pipe[channel] = "open"
  /\ handled' = handled \union {connection}
  /\ isConnecting' = FALSE
  /\ Goto(c, "idle")
  /\ UNCHANGED <<connection, channel, broker, stopping, faults>>

Broken(c) ==
  \/ pc[c] = "opening" /\ \E n \in Connections : Last(n) /\ link[n] # "open"
  \/ pc[c] = "declaring" /\ ~(isConnected /\ link[connection] = "open" /\ pipe[channel] = "open")

\* A step of connect() throws, and what the steps before it set stays; on a
\* client without a channel that may be all the handlers of the connection.
connectThrows(c) ==
  /\ \/ pc[c] = "dialing" /\ Fault
     \/ Broken(c) /\ UNCHANGED faults
  /\ isConnecting' = FALSE
  /\ handled' \in {handled} \union
       {handled \union {n} : n \in {m \in Connections : /\ connection = m /\ channel = None
                                                          /\ pc[c] = "declaring"}}
  /\ Goto(c, "idle")
  /\ UNCHANGED <<connection, channel, broker, stopping>>

-----------------------------------------------------------------------------
\* The broker or the network ends a connection with its channel, or a channel alone.
linkLost(n) ==
  /\ link[n] = "open"
  /\ Fault
  /\ link' = [link EXCEPT ![n] = "closing"]
  /\ pipe' = [pipe EXCEPT ![n] = IF @ = "open" THEN "closing" ELSE @]
  /\ UNCHANGED <<client, pc, stopping>>

pipeLost(n) ==
  /\ pipe[n] = "open" /\ link[n] = "open"
  /\ Fault
  /\ pipe' = [pipe EXCEPT ![n] = "closing"]
  /\ UNCHANGED <<client, link, pc, stopping>>

\* Mutant: the handler only prints.
Wrong_connectionClosed(n) ==
  /\ link[n] = "closing"
  /\ link' = [link EXCEPT ![n] = "closed"]
  /\ UNCHANGED <<client, pipe, pc, stopping, faults>>

\* The "close" event of connection n clears whatever the client has.
connectionClosed(n) ==
  /\ link[n] = "closing"
  /\ link' = [link EXCEPT ![n] = "closed"]
  /\ IF n \in handled THEN connection' = None /\ channel' = None ELSE UNCHANGED <<connection, channel>>
  /\ UNCHANGED <<isConnecting, handled, pipe, pc, stopping, faults>>

channelClosed(n) ==
  /\ pipe[n] = "closing"
  /\ pipe' = [pipe EXCEPT ![n] = "closed"]
  /\ channel' = IF n \in handled THEN None ELSE channel
  /\ UNCHANGED <<connection, isConnecting, handled, link, pc, stopping, faults>>

-----------------------------------------------------------------------------
\* disconnect(): the channel is closed, then the connection. A channel or a
\* connection that is closed already makes it give up.
disconnect ==
  /\ stopping = "no"
  /\ stopping' = "channel"
  /\ UNCHANGED <<client, broker, pc, faults>>

closeChannel ==
  /\ stopping = "channel"
  /\ \/ channel = None /\ stopping' = "connection" /\ UNCHANGED <<channel, pipe>>
     \/ /\ channel \in {n \in Connections : pipe[n] = "open"}
        /\ pipe' = [pipe EXCEPT ![channel] = "closed"]
        /\ channel' = None
        /\ stopping' = "connection"
     \/ /\ channel \in {n \in Connections : pipe[n] # "open"}
        /\ stopping' = "gaveUp"
        /\ UNCHANGED <<channel, pipe>>
  /\ UNCHANGED <<connection, isConnecting, handled, link, pc, faults>>

closeConnection ==
  /\ stopping = "connection"
  /\ \/ connection = None /\ stopping' = "done" /\ UNCHANGED <<connection, broker>>
     \/ /\ connection \in {n \in Connections : link[n] = "open"}
        /\ link' = [link EXCEPT ![connection] = "closing"]
        /\ pipe' = [pipe EXCEPT ![connection] = IF @ = "open" THEN "closing" ELSE @]
        /\ connection' = None
        /\ stopping' = "done"
     \/ /\ connection \in {n \in Connections : link[n] # "open"}
        /\ stopping' = "gaveUp"
        /\ UNCHANGED <<connection, broker>>
  /\ UNCHANGED <<channel, isConnecting, handled, pc, faults>>

-----------------------------------------------------------------------------
Connect(c) ==
  \/ connect(c) \/ waited(c) \/ declared(c) \/ connectThrows(c)
  \/ \E n \in Connections : dialed(c, n) \/ opened(c, n)

Lose(n) == linkLost(n) \/ pipeLost(n)
Notice(n) == connectionClosed(n) \/ channelClosed(n)
Disconnect == disconnect \/ closeChannel \/ closeConnection

RabbitNext ==
  \/ \E c \in Callers : Connect(c)
  \/ \E n \in Connections : Lose(n) \/ Notice(n)
  \/ Disconnect

RabbitSpec == RabbitInit /\ [][RabbitNext]_rabbitVars

\* A caller that is not connected tries again, amqplib answers every call, and
\* events are delivered.
RabbitFairSpec ==
  /\ RabbitSpec
  /\ \A c \in Callers : WF_rabbitVars(Connect(c))
  /\ \A n \in Connections : WF_rabbitVars(Notice(n))

-----------------------------------------------------------------------------
RabbitTypeOK ==
  /\ connection \in {n \in Connections : link[n] # "none"} \union {None}
  /\ channel \in {n \in Connections : pipe[n] # "none"} \union {None}
  /\ isConnecting \in BOOLEAN /\ handled \subseteq Connections
  /\ link \in [Connections -> States] /\ pipe \in [Connections -> States]
  /\ pc \in [Callers -> Steps \union {"idle", "waiting"}]
  /\ stopping \in {"no", "channel", "connection", "done", "gaveUp"}
  /\ faults \in 0..MaxFaults

\* At most one call at a time is on its way to a connection, and the flag tells
\* the others so, however calls fail and connections go.
OneDial ==
  /\ isConnecting = (\E c \in Callers : pc[c] \in Steps)
  /\ \A c, d \in Callers : pc[c] \in Steps /\ pc[d] \in Steps => c = d

\* connect() failed after it had a connection and a channel: the client takes
\* itself for connected, without handlers.
Unhandled == isConnected /\ connection \notin handled

\* The client takes a connection that is gone, or whose channel is, for a
\* working one only until the event, unless its connect() failed halfway.
GoneIsNoticed ==
  isConnected /\ connection \in handled =>
    link[connection] # "closed" /\ pipe[channel] # "closed"

Usable == isConnected /\ link[connection] = "open" /\ pipe[channel] = "open"

\* After any fault, and the late events of connections it has replaced, the
\* client is connected again, unless its connect() failed halfway: then it stays
\* as it is and every publish fails.
Reconnects == (stopping = "no") ~> (Usable \/ Unhandled \/ stopping # "no")
=============================================================================
