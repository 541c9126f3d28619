------------------------------ MODULE HostLink ------------------------------
(***************************************************************************)
(* The link between the reconfiguration server and the agents on the       *)
(* hosts: VMTDServer with its server-side VMTDHostProtocolHandlers, the    *)
(* websocket server VMTDHostServer below them, the TCP connections, and on *)
(* each host a VMTDHostClient with the client-side handler of VMTDClient.  *)
(*                                                                         *)
(* All of the server's objects live in the thread of VMTDController::run,  *)
(* so each Qt slot runs to completion before the next one: one slot is one *)
(* action, with every directly connected slot it calls inside it.          *)
(*                                                                         *)
(* A document (one JSON request object, or one JSON array with a batch) is *)
(* represented by the id of its first request, and the reply to it by the  *)
(* same number: the client answers every document with exactly one reply,  *)
(* whatever its elements are (a result or an error object each).  Both     *)
(* ends write their documents with QJsonDocument::toJson, so the branches  *)
(* of receiveMessageSlot for empty and unparsable data are not reached.    *)
(***************************************************************************)
EXTENDS Integers, Sequences, FiniteSets

CONSTANTS
  Ips,           \* addresses of the hosts on which an agent runs
  Ports,         \* ephemeral ports an agent's socket may be given
  NoPort,        \* not a port: no handler, or an agent without a socket
  ListSizes,     \* lengths of the request lists handed to appendRequestListSlot
  MaxCommands    \* bound: ids one handler hands out

ASSUME ConstantsAssumption ==
  /\ NoPort \notin Ports
  /\ ListSizes \subseteq Nat
  /\ MaxCommands \in Nat

VARIABLES
  listening,            \* m_wsServer->isListening()
  sock,                 \* the server's end of each connection: none, open, closing
  WsClientSockets,      \* the connections VMTDHostServer lists
  hostPort,             \* m_hostHandlers: the m_port of the handler of an ip, or NoPort
  m_requests,           \* the queue of documents of each handler
  m_queueState,         \* READY_TO_SEND or WAIT_FOR_TICKET
  m_ticketTimeoutTimer, \* the single-shot ticket timer is running
  m_commandCounter,     \* id of the handler's next request
  ipOnline,             \* last value sent by updateIpOnlineSignal, FALSE before
  clientState,          \* m_socket->state() of each agent
  clientPort,           \* the local port of the agent's m_socket
  down, up,             \* documents, replies in transit on each connection
  ranTo,                \* history: last document the agent ran on a connection
  shared,               \* history: connections that met another one of their ip
  left,                 \* history: connections a stop of the server did not close
  strayed               \* history: tickets of a handler closed by a timeout or by
                        \* a reply that came on another connection

serverVars  == <<listening, sock, WsClientSockets>>
handlerVars == <<hostPort, m_requests, m_queueState, m_ticketTimeoutTimer,
                 m_commandCounter>>
clientVars  == <<clientState, clientPort>>
netVars     == <<down, up>>
histVars    == <<ranTo, shared, left, strayed>>
vars        == <<serverVars, handlerVars, ipOnline, clientVars, netVars, histVars>>

Conns    == Ips \X Ports
Own(ip)  == <<ip, hostPort[ip]>>             \* the connection a handler talks on
Handled(ip) == hostPort[ip] # NoPort         \* m_hostHandlers.contains(ip)
Siblings(c) == {d \in Conns : d[1] = c[1] /\ d # c /\ sock[d] # "none"}
OnClient(c) == clientPort[c[1]] = c[2]       \* the agent's socket is this connection

Init ==
  /\ listening = FALSE
  /\ sock = [c \in Conns |-> "none"]
  /\ WsClientSockets = {}
  /\ hostPort = [ip \in Ips |-> NoPort]
  /\ m_requests = [ip \in Ips |-> <<>>]
  /\ m_queueState = [ip \in Ips |-> "READY_TO_SEND"]
  /\ m_ticketTimeoutTimer = [ip \in Ips |-> FALSE]
  /\ m_commandCounter = [ip \in Ips |-> 0]
  /\ ipOnline = [ip \in Ips |-> FALSE]
  /\ clientState = [ip \in Ips |-> "Unconnected"]
  /\ clientPort = [ip \in Ips |-> NoPort]
  /\ down = [c \in Conns |-> <<>>]
  /\ up = [c \in Conns |-> <<>>]
  /\ ranTo = [c \in Conns |-> -1]
  /\ shared = {}
  /\ left = {}
  /\ strayed = [ip \in Ips |-> 0]

-----------------------------------------------------------------------------
(* The handlers of the server. *)

\* A handler is created: queue empty, nothing awaited, ids from 0.
NewHandler(ip, port) ==
  /\ hostPort' = [hostPort EXCEPT ![ip] = port]
  /\ m_requests' = [m_requests EXCEPT ![ip] = <<>>]
  /\ m_queueState' = [m_queueState EXCEPT ![ip] = "READY_TO_SEND"]
  /\ m_ticketTimeoutTimer' = [m_ticketTimeoutTimer EXCEPT ![ip] = FALSE]
  /\ m_commandCounter' = [m_commandCounter EXCEPT ![ip] = 0]
  /\ strayed' = [strayed EXCEPT ![ip] = 0]

\* The handlers of the given addresses are deleted with their queues and timers.
RemoveHandlers(ips) ==
  /\ hostPort' = [ip \in Ips |-> IF ip \in ips THEN NoPort ELSE hostPort[ip]]
  /\ m_requests' = [ip \in Ips |-> IF ip \in ips THEN <<>> ELSE m_requests[ip]]
  /\ m_queueState' =
       [ip \in Ips |-> IF ip \in ips THEN "READY_TO_SEND" ELSE m_queueState[ip]]
  /\ m_ticketTimeoutTimer' =
       [ip \in Ips |-> IF ip \in ips THEN FALSE ELSE m_ticketTimeoutTimer[ip]]
  /\ m_commandCounter' =
       [ip \in Ips |-> IF ip \in ips THEN 0 ELSE m_commandCounter[ip]]
  /\ strayed' = [ip \in Ips |-> IF ip \in ips THEN 0 ELSE strayed[ip]]

\* A socket of an address that has a handler changes nothing: the old handler,
\* and with it the old port, is kept.
clientConnectedSlot(c) ==
  IF Handled(c[1])
  THEN UNCHANGED <<handlerVars, strayed>>
  ELSE NewHandler(c[1], c[2])

\* Variants: the newest document first; the id before the next one.
QueuedInFront(ip) == <<m_commandCounter[ip]>> \o m_requests[ip]
QueuedPrevious(ip) == Append(m_requests[ip], m_commandCounter[ip] - 1)

\* m_requests.append of a document that starts with the next id.
Queued(ip) == Append(m_requests[ip], m_commandCounter[ip])

\* The queue and the counter of the handlers in ips after a request list of
\* length n: one document for the list, none for an empty list.
Enqueue(ips, n) ==
  /\ \A ip \in ips : m_commandCounter[ip] + n <= MaxCommands
  /\ m_requests' =
       [ip \in Ips |-> IF ip \in ips /\ n > 0
                       THEN Queued(ip) ELSE m_requests[ip]]
  /\ m_commandCounter' =
       [ip \in Ips |-> IF ip \in ips THEN m_commandCounter[ip] + n
                       ELSE m_commandCounter[ip]]
  /\ UNCHANGED <<serverVars, hostPort, m_queueState, m_ticketTimeoutTimer,
                 ipOnline, clientVars, netVars, histVars>>

\* A list from the engine; without a handler for the address it is dropped.
appendRequestListSlot(ip, n) ==
  Enqueue(IF Handled(ip) THEN {ip} ELSE {}, n)

\* One check_connection request for every handler.
checkConnectionTimerTickSlot ==
  Enqueue({ip \in Ips : Handled(ip)}, 1)

\* Variant: the ticket is closed too, but its timer is left running.
clearQueueAndTicket(ip) ==
  /\ Handled(ip)
  /\ m_requests' = [m_requests EXCEPT ![ip] = <<>>]
  /\ m_queueState' = [m_queueState EXCEPT ![ip] = "READY_TO_SEND"]
  /\ UNCHANGED <<serverVars, hostPort, m_ticketTimeoutTimer, m_commandCounter,
                 ipOnline, clientVars, netVars, histVars>>

\* The operator clears the queue; an open ticket stays open.
clearQueueSlot(ip) ==
  /\ Handled(ip)
  /\ m_requests' = [m_requests EXCEPT ![ip] = <<>>]
  /\ UNCHANGED <<serverVars, hostPort, m_queueState, m_ticketTimeoutTimer,
                 m_commandCounter, ipOnline, clientVars, netVars, histVars>>

\* VMTDHostServer sends to the listed, connected socket of this ip and port, and
\* silently drops the document when there is none.
sendMessageSlot(c, doc) ==
  down' = IF c \in WsClientSockets /\ sock[c] = "open"
          THEN [down EXCEPT ![c] = Append(@, doc)]
          ELSE down

\* Variants: the state of the queue is not looked at; only hosts known to be online
\* are sent to; the document is looked at but not taken.
NotEmpty(ip)       == m_requests[ip] # <<>>
NotEmptyOnline(ip) == m_requests[ip] # <<>> /\ ipOnline[ip]
                        /\ m_queueState[ip] = "READY_TO_SEND"
AsBefore(ip)       == m_requests[ip]

ReadyToSend(ip) == m_requests[ip] # <<>> /\ m_queueState[ip] = "READY_TO_SEND"
Dequeued(ip)    == Tail(m_requests[ip])

checkQueueTimerSlot(ip) ==
  /\ Handled(ip)
  /\ ReadyToSend(ip)
  /\ m_queueState' = [m_queueState EXCEPT ![ip] = "WAIT_FOR_TICKET"]
  /\ m_requests' = [m_requests EXCEPT ![ip] = Dequeued(ip)]
  /\ sendMessageSlot(Own(ip), Head(m_requests[ip]))
  /\ m_ticketTimeoutTimer' = [m_ticketTimeoutTimer EXCEPT ![ip] = TRUE]
  /\ UNCHANGED <<serverVars, hostPort, m_commandCounter, ipOnline, clientVars,
                 up, histVars>>

\* The ticket timer may fire at any moment while it runs.
ticketTimeoutSlot(ip) ==
  /\ m_ticketTimeoutTimer[ip]
  /\ m_ticketTimeoutTimer' = [m_ticketTimeoutTimer EXCEPT ![ip] = FALSE]
  /\ m_queueState' = [m_queueState EXCEPT ![ip] = "READY_TO_SEND"]
  /\ ipOnline' = [ipOnline EXCEPT ![ip] = FALSE]
  /\ strayed' = [strayed EXCEPT ![ip] = @ + 1]
  /\ UNCHANGED <<serverVars, hostPort, m_requests, m_commandCounter, clientVars,
                 netVars, ranTo, shared, left>>

\* A reply arrives on connection c.  receiveMessageSignal is connected to every
\* handler, and a handler that expects another address only logs the difference:
\* each one marks its own host online, stops its timer and is ready again.
receiveMessageSlot(c) ==
  /\ sock[c] = "open"
  /\ up[c] # <<>>
  /\ up' = [up EXCEPT ![c] = Tail(@)]
  /\ ipOnline' = [ip \in Ips |-> Handled(ip) \/ ipOnline[ip]]
  /\ m_ticketTimeoutTimer' =
       [ip \in Ips |-> ~Handled(ip) /\ m_ticketTimeoutTimer[ip]]
  /\ m_queueState' =
       [ip \in Ips |-> IF Handled(ip) THEN "READY_TO_SEND" ELSE m_queueState[ip]]
  /\ strayed' =
       [ip \in Ips |-> IF m_queueState[ip] = "WAIT_FOR_TICKET" /\ Own(ip) # c
                       THEN strayed[ip] + 1 ELSE strayed[ip]]
  /\ UNCHANGED <<serverVars, hostPort, m_requests, m_commandCounter, clientVars,
                 down, ranTo, shared, left>>

-----------------------------------------------------------------------------
(* The websocket server. *)

startListenSlot ==
  /\ ~listening
  /\ listening' = TRUE
  /\ UNCHANGED <<sock, WsClientSockets, handlerVars, ipOnline, clientVars, netVars,
                 histVars>>

\* Variant: handlers stay when their sockets go.
DisconnectOnly(cs) ==
  /\ up' = [c \in Conns |-> IF c \in cs THEN <<>> ELSE up[c]]
  /\ shared' = shared \ cs
  /\ UNCHANGED <<handlerVars, strayed>>

\* What the disconnected signal of the sockets in cs does: the handlers of their
\* addresses are removed, whichever socket they were created for.
Disconnect(cs) ==
  /\ RemoveHandlers({c[1] : c \in cs})
  /\ up' = [c \in Conns |-> IF c \in cs THEN <<>> ELSE up[c]]
  /\ shared' = shared \ cs

\* Every listed socket is closed and the list is cleared.  A socket without
\* unsent data disconnects at once, inside close(), others later (closing).  The
\* slot of the former removes the socket from the list under the loop's
\* iterators: later sockets (skipped) may then not be closed at all.  They stay
\* open, with their handlers, and no list names them any more.
stopListenSlot ==
  /\ listening
  /\ listening' = FALSE
  /\ WsClientSockets' = {}
  /\ \E atOnce, skipped \in SUBSET {c \in WsClientSockets : sock[c] = "open"} :
       /\ atOnce \cap skipped = {}
       /\ atOnce = {} => skipped = {}
       /\ sock' = [c \in Conns |->
                     CASE c \in atOnce -> "none"
                       [] c \in WsClientSockets \ (atOnce \cup skipped) -> "closing"
                       [] OTHER -> sock[c]]
       /\ left' = left \cup skipped
       /\ Disconnect(atOnce)
  /\ UNCHANGED <<ipOnline, clientVars, down, ranTo>>

\* Variant: a second connection of an address that has a handler is turned away.
AcceptsNew(c) == /\ listening /\ ~Handled(c[1])
                 /\ clientState[c[1]] = "Connecting" /\ OnClient(c)

\* The server takes the connection that the agent is opening.
Accepts(c) == listening /\ clientState[c[1]] = "Connecting" /\ OnClient(c)

\* The handshake of an agent's connection is done: newConnectionSlot, and the
\* agent's socket is connected.
newConnectionSlot(c) ==
  /\ Accepts(c)
  /\ clientState' = [clientState EXCEPT ![c[1]] = "Connected"]
  /\ sock' = [sock EXCEPT ![c] = "open"]
  /\ WsClientSockets' = WsClientSockets \cup {c}
  /\ clientConnectedSlot(c)
  /\ down' = [down EXCEPT ![c] = <<>>]
  /\ up' = [up EXCEPT ![c] = <<>>]
  /\ ranTo' = [ranTo EXCEPT ![c] = -1]
  /\ shared' = IF Siblings(c) = {} THEN shared ELSE shared \cup Siblings(c) \cup {c}
  /\ UNCHANGED <<listening, ipOnline, clientPort, left>>

\* Variants: the socket is looked for by its address only, or by its port only.
DelistedPort(c) == {d \in WsClientSockets : d[2] # c[2]}
DelistedAddress(c) == {d \in WsClientSockets : d[1] # c[1]}

Delisted(c) == WsClientSockets \ {c}

\* The server's end of connection c is gone: the agent has left, the close has
\* completed, or the network failed.  Replies that have not been read are lost.
disconnectedSlot(c) ==
  /\ sock[c] # "none"
  /\ sock' = [sock EXCEPT ![c] = "none"]
  /\ WsClientSockets' = Delisted(c)
  /\ left' = left \ {c}
  /\ Disconnect({c})
  /\ UNCHANGED <<listening, ipOnline, clientVars, down, ranTo>>

-----------------------------------------------------------------------------
(* The agents. *)

\* reconnectTimerTickSlot, or the first connect: the socket is opened only when it
\* is unconnected, from a port no live connection of this host uses.
connectSocketSlot(ip, port) ==
  /\ clientState[ip] = "Unconnected"
  /\ sock[<<ip, port>>] = "none"
  /\ clientState' = [clientState EXCEPT ![ip] = "Connecting"]
  /\ clientPort' = [clientPort EXCEPT ![ip] = port]
  /\ UNCHANGED <<serverVars, handlerVars, ipOnline, netVars, histVars>>

HasSocket(ip) == clientState[ip] # "Unconnected"

\* The agent's end of its connection is gone: closed by disconnectSocketSlot, by
\* the end of the process, by the server or by the network.  The server learns of
\* it only when its own end disconnects.  Requests that have not been read are lost.
clientDisconnected(ip) ==
  /\ HasSocket(ip)
  /\ clientState' = [clientState EXCEPT ![ip] = "Unconnected"]
  /\ clientPort' = [clientPort EXCEPT ![ip] = NoPort]
  /\ down' = [c \in Conns |-> IF c[1] = ip THEN <<>> ELSE down[c]]
  /\ UNCHANGED <<serverVars, handlerVars, ipOnline, up, histVars>>

\* The agent runs a document and answers it on the same socket.
handleClient(c) ==
  /\ clientState[c[1]] = "Connected" /\ OnClient(c)
  /\ down[c] # <<>>
  /\ down' = [down EXCEPT ![c] = Tail(@)]
  /\ ranTo' = [ranTo EXCEPT ![c] = Head(down[c])]
  /\ up' = IF sock[c] = "open" THEN [up EXCEPT ![c] = Append(@, Head(down[c]))] ELSE up
  /\ UNCHANGED <<serverVars, handlerVars, ipOnline, clientVars, shared, left,
                 strayed>>

-----------------------------------------------------------------------------
Next ==
  \/ startListenSlot
  \/ stopListenSlot
  \/ checkConnectionTimerTickSlot
  \/ \E ip \in Ips :
       \/ \E n \in ListSizes : appendRequestListSlot(ip, n)
       \/ clearQueueSlot(ip)
       \/ checkQueueTimerSlot(ip)
       \/ ticketTimeoutSlot(ip)
       \/ \E port \in Ports : connectSocketSlot(ip, port)
       \/ clientDisconnected(ip)
  \/ \E c \in Conns :
       \/ receiveMessageSlot(c)
       \/ newConnectionSlot(c)
       \/ disconnectedSlot(c)
       \/ handleClient(c)

Spec == Init /\ [][Next]_vars

\* The agent takes its connection for open, and the server's end is not: the
\* server closed it, or its end failed, and the agent has not been told.
HalfOpen(ip) ==
  clientState[ip] = "Connected" /\ \A c \in Conns : OnClient(c) => sock[c] # "open"

\* Every port of the host is still taken at the server's end.
PortsTaken(ip) == \A port \in Ports : sock[<<ip, port>>] # "none"

\* What the running system does without anybody's help: the queue and ticket
\* timers fire, an agent whose shouldReconnect is set opens its socket again, and
\* a handshake that is tried over and over with a listening server succeeds.  No
\* end has to notice that the other end of its connection is gone: neither sends
\* pings.  The last conjunct is about the bound Ports only: a host has more
\* ephemeral ports than the server keeps forgotten connections.
Fairness ==
  \A ip \in Ips :
    /\ WF_vars(checkQueueTimerSlot(ip))
    /\ WF_vars(ticketTimeoutSlot(ip))
    /\ WF_vars(\E port \in Ports : connectSocketSlot(ip, port))
    /\ SF_vars(\E port \in Ports : newConnectionSlot(<<ip, port>>))
    /\ WF_vars(PortsTaken(ip) /\ ~HasSocket(ip)
                 /\ \E port \in Ports : disconnectedSlot(<<ip, port>>))

FairSpec == Spec /\ Fairness

-----------------------------------------------------------------------------
(* Properties. *)

Ascending(s) == \A i, j \in 1..Len(s) : i < j => s[i] < s[j]
Elements(s)  == {s[i] : i \in 1..Len(s)}

TypeOK ==
  /\ listening \in BOOLEAN
  /\ sock \in [Conns -> {"none", "open", "closing"}]
  /\ WsClientSockets \subseteq Conns
  /\ hostPort \in [Ips -> Ports \cup {NoPort}]
  /\ m_requests \in [Ips -> Seq(Nat)]
  /\ m_queueState \in [Ips -> {"READY_TO_SEND", "WAIT_FOR_TICKET"}]
  /\ m_ticketTimeoutTimer \in [Ips -> BOOLEAN]
  /\ m_commandCounter \in [Ips -> Nat]
  /\ ipOnline \in [Ips -> BOOLEAN]
  /\ clientState \in [Ips -> {"Unconnected", "Connecting", "Connected"}]
  /\ clientPort \in [Ips -> Ports \cup {NoPort}]
  /\ down \in [Conns -> Seq(Nat)]
  /\ up \in [Conns -> Seq(Nat)]
  /\ ranTo \in [Conns -> Nat \cup {-1}]
  /\ shared \subseteq Conns
  /\ left \subseteq Conns
  /\ strayed \in [Ips -> Nat]

\* A handler waits for a ticket exactly while its ticket timer runs, whatever
\* mixture of replies, timeouts, clears and reconnections came before: no ticket
\* can be waited for without an end, and no timer can fire on a ready handler.
TicketHasTimer ==
  \A ip \in Ips :
    (m_queueState[ip] = "WAIT_FOR_TICKET") <=> m_ticketTimeoutTimer[ip]

\* The connection a handler was created for is still there: although handlers are
\* kept when their host connects again from another port, no handler outlives the
\* socket whose port it sends to (clientDisconnectedSlot removes it with the first
\* socket of the address that disconnects).
HandlerHasSocket ==
  \A ip \in Ips : Handled(ip) => sock[Own(ip)] # "none"

\* A host whose connection is open is within the engine's reach, because its
\* address's handler talks on this very connection and VMTDHostServer lists it, so
\* that sendMessageSlot finds it.  Only two things take that away: a connection
\* that met another one of its address may have lost the handler, and one that a
\* stop of the server skipped (VMTDHostServer.cpp:99-102) has lost its place in
\* the list, for as long as it stays open.
SoleOwner ==
  \A c \in Conns :
    /\ sock[c] # "none" /\ c \notin shared => Own(c[1]) = c
    /\ sock[c] = "open" /\ c \notin left => c \in WsClientSockets

\* Requests keep their order from the queue through the connection to the agent:
\* what the agent ran, what is in transit and what is queued is one ascending
\* sequence of ids below the handler's next id.
InOrder ==
  \A c \in Conns :
    /\ Ascending(down[c])
    /\ \A d \in Elements(down[c]) : ranTo[c] < d
    /\ Own(c[1]) = c =>
         /\ Ascending(m_requests[c[1]])
         /\ \A q \in Elements(m_requests[c[1]]) :
              /\ ranTo[c] < q /\ q < m_commandCounter[c[1]]
              /\ \A d \in Elements(down[c]) : d < q

Outstanding(c) == Len(down[c]) + Len(up[c])
OpenTicket(ip) == IF m_queueState[ip] = "WAIT_FOR_TICKET" THEN 1 ELSE 0

\* The protocol is stop-and-wait only as long as tickets are closed by their own
\* replies: the documents and replies a handler has outstanding exceed its open
\* ticket by at most the tickets that a timeout or another connection's reply
\* has closed.
WindowBound ==
  \A ip \in Ips :
    Handled(ip) => Outstanding(Own(ip)) <= strayed[ip] + OpenTicket(ip)

\* A document that is queued leaves the queue: it is sent, cleared, or deleted
\* with its handler, also when no reply to its predecessors ever arrives.
QueueDrains ==
  \A ip \in Ips : \A d \in 0..MaxCommands - 1 :
    d \in Elements(m_requests[ip]) ~> d \notin Elements(m_requests[ip])

Online(ip) == \E c \in Conns : c[1] = ip /\ OnClient(c) /\ sock[c] = "open"

\* While the server listens, an agent whose shouldReconnect is set (it is not by
\* default) is connected to it again and again, whatever end its connections come
\* to and whatever they leave behind at the server.  Only a half-open connection
\* that the agent never notices keeps it out: reconnectTimerTickSlot does nothing
\* in ConnectedState (VMTDHostClient.cpp:182), and the agent sends nothing unasked.
Reconnects ==
  \A ip \in Ips : <>[]HalfOpen(ip) \/ []<>(~listening \/ Online(ip))

\* The log of receiveMessageSlot says which address a handler expects a reply
\* from: only a reply on the handler's own connection closes its ticket.
OwnReplyClosesTicket ==
  [][\A c \in Conns : receiveMessageSlot(c) =>
       \A ip \in Ips : m_queueState'[ip] # m_queueState[ip] => Own(ip) = c]_vars

\* Towards the agents the link is an ordered, lossy delivery without duplicates.
Delivery == INSTANCE OrderedDelivery WITH
  transit <- [c \in Conns |->
                Elements(down[c]) \cup
                  (IF Own(c[1]) = c THEN Elements(m_requests[c[1]]) ELSE {})]

\* Each agent runs the requests of one connection in the order in which they were
\* queued and none of them twice, over all losses, timeouts and reconnections.
DeliveredInOrder == Delivery!Spec
=============================================================================
