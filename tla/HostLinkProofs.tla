--------------------------- MODULE HostLinkProofs ---------------------------
(***************************************************************************)
(* Proofs about HostLink, for any set of hosts and ports, any lengths of   *)
(* request lists and any number of requests.                               *)
(***************************************************************************)
EXTENDS HostLink, TLAPS

\* A connection is an address and a port.
LEMMA ConnParts ==
  \A c \in Conns : c[1] \in Ips /\ c[2] \in Ports /\ c = <<c[1], c[2]>>
BY DEF Conns

\* Deleting handlers and disconnecting sockets keep the types of what they change.
LEMMA DisconnectType ==
  ASSUME TypeOK, NEW cs \in SUBSET Conns, Disconnect(cs)
  PROVE  /\ hostPort' \in [Ips -> Ports \cup {NoPort}]
         /\ m_requests' \in [Ips -> Seq(Nat)]
         /\ m_queueState' \in [Ips -> {"READY_TO_SEND", "WAIT_FOR_TICKET"}]
         /\ m_ticketTimeoutTimer' \in [Ips -> BOOLEAN]
         /\ m_commandCounter' \in [Ips -> Nat]
         /\ up' \in [Conns -> Seq(Nat)]
         /\ shared' \subseteq Conns
         /\ strayed' \in [Ips -> Nat]
<1> DEFINE ips == {c[1] : c \in cs}
<1>1. RemoveHandlers(ips)
  BY DEF Disconnect
<1> HIDE DEF ips
<1>2. m_ticketTimeoutTimer' \in [Ips -> BOOLEAN]
  BY <1>1 DEF TypeOK, RemoveHandlers
<1>3. m_requests' \in [Ips -> Seq(Nat)]
  BY <1>1 DEF TypeOK, RemoveHandlers
<1>4. /\ hostPort' \in [Ips -> Ports \cup {NoPort}]
      /\ m_queueState' \in [Ips -> {"READY_TO_SEND", "WAIT_FOR_TICKET"}]
      /\ m_commandCounter' \in [Ips -> Nat]
      /\ strayed' \in [Ips -> Nat]
  BY <1>1 DEF TypeOK, RemoveHandlers
<1>5. up' \in [Conns -> Seq(Nat)] /\ shared' \subseteq Conns
  BY DEF TypeOK, Disconnect
<1> QED
  BY <1>2, <1>3, <1>4, <1>5

\* A new handler has the types of a handler.
LEMMA NewHandlerType ==
  ASSUME TypeOK, NEW ip \in Ips, NEW port \in Ports, NewHandler(ip, port)
  PROVE  /\ hostPort' \in [Ips -> Ports \cup {NoPort}]
         /\ m_requests' \in [Ips -> Seq(Nat)]
         /\ m_queueState' \in [Ips -> {"READY_TO_SEND", "WAIT_FOR_TICKET"}]
         /\ m_ticketTimeoutTimer' \in [Ips -> BOOLEAN]
         /\ m_commandCounter' \in [Ips -> Nat]
         /\ strayed' \in [Ips -> Nat]
<1>1. m_requests' \in [Ips -> Seq(Nat)]
  BY DEF TypeOK, NewHandler
<1>2. m_ticketTimeoutTimer' \in [Ips -> BOOLEAN]
  BY DEF TypeOK, NewHandler
<1> QED
  BY <1>1, <1>2 DEF TypeOK, NewHandler

\* Every variable keeps its type.
LEMMA TypeStep == ASSUME TypeOK, [Next]_vars PROVE TypeOK'
<1> USE ConstantsAssumption, ConnParts DEF Handled
<1>1. CASE startListenSlot
  BY <1>1 DEF TypeOK, startListenSlot, handlerVars, clientVars, netVars, histVars
<1>2. CASE stopListenSlot
  <2>1. PICK atOnce \in SUBSET Conns, skipped \in SUBSET Conns :
          /\ sock' = [c \in Conns |->
                        CASE c \in atOnce -> "none"
                          [] c \in WsClientSockets \ (atOnce \cup skipped) -> "closing"
                          [] OTHER -> sock[c]]
          /\ Disconnect(atOnce)
    BY <1>2 DEF stopListenSlot, TypeOK
  <2>2. sock' \in [Conns -> {"none", "open", "closing"}]
    BY <2>1 DEF TypeOK
  <2>3. left' \subseteq Conns
    BY <1>2 DEF stopListenSlot, TypeOK
  <2> QED
    BY <1>2, <2>1, <2>2, <2>3, DisconnectType DEF TypeOK, stopListenSlot, clientVars
<1>3. ASSUME NEW ips \in SUBSET Ips, NEW n \in Nat, Enqueue(ips, n)
      PROVE TypeOK'
  BY <1>3 DEF TypeOK, Enqueue, Queued, serverVars, clientVars, netVars, histVars
<1>4. CASE checkConnectionTimerTickSlot
  BY <1>4, <1>3 DEF checkConnectionTimerTickSlot
<1>5. ASSUME NEW ip \in Ips, NEW n \in ListSizes, appendRequestListSlot(ip, n)
      PROVE TypeOK'
  BY <1>5, <1>3 DEF appendRequestListSlot
<1>6. ASSUME NEW ip \in Ips, clearQueueSlot(ip)
      PROVE TypeOK'
  BY <1>6 DEF TypeOK, clearQueueSlot, serverVars, clientVars, netVars, histVars
<1>7. ASSUME NEW ip \in Ips, checkQueueTimerSlot(ip)
      PROVE TypeOK'
  BY <1>7 DEF TypeOK, checkQueueTimerSlot, ReadyToSend, Dequeued, sendMessageSlot,
              serverVars, clientVars, histVars
<1>8. ASSUME NEW ip \in Ips, ticketTimeoutSlot(ip)
      PROVE TypeOK'
  BY <1>8 DEF TypeOK, ticketTimeoutSlot, serverVars, clientVars, netVars
<1>9. ASSUME NEW ip \in Ips, NEW port \in Ports, connectSocketSlot(ip, port)
      PROVE TypeOK'
  BY <1>9 DEF TypeOK, connectSocketSlot, serverVars, handlerVars, netVars, histVars
<1>10. ASSUME NEW ip \in Ips, clientDisconnected(ip)
       PROVE TypeOK'
  BY <1>10 DEF TypeOK, clientDisconnected, serverVars, handlerVars, histVars
<1>11. ASSUME NEW c \in Conns, receiveMessageSlot(c)
       PROVE TypeOK'
  BY <1>11 DEF TypeOK, receiveMessageSlot, serverVars, clientVars
<1>12. ASSUME NEW c \in Conns, newConnectionSlot(c)
       PROVE TypeOK'
  <2>1. /\ hostPort' \in [Ips -> Ports \cup {NoPort}]
        /\ m_requests' \in [Ips -> Seq(Nat)]
        /\ m_queueState' \in [Ips -> {"READY_TO_SEND", "WAIT_FOR_TICKET"}]
        /\ m_ticketTimeoutTimer' \in [Ips -> BOOLEAN]
        /\ m_commandCounter' \in [Ips -> Nat]
        /\ strayed' \in [Ips -> Nat]
    <3>1. CASE Handled(c[1])
      BY <1>12, <3>1
      DEF TypeOK, newConnectionSlot, clientConnectedSlot, handlerVars
    <3>2. CASE ~Handled(c[1])
      <4>1. NewHandler(c[1], c[2]) /\ c[1] \in Ips /\ c[2] \in Ports
        BY <1>12, <3>2 DEF newConnectionSlot, clientConnectedSlot
      <4> QED
        BY <4>1, NewHandlerType
    <3> QED
      BY <3>1, <3>2
  <2>2. /\ sock' \in [Conns -> {"none", "open", "closing"}]
        /\ clientState' \in [Ips -> {"Unconnected", "Connecting", "Connected"}]
        /\ ranTo' \in [Conns -> Nat \cup {-1}]
    BY <1>12 DEF TypeOK, newConnectionSlot
  <2>3. /\ down' \in [Conns -> Seq(Nat)]
        /\ up' \in [Conns -> Seq(Nat)]
    BY <1>12 DEF TypeOK, newConnectionSlot
  <2>4. WsClientSockets' \subseteq Conns /\ shared' \subseteq Conns
    BY <1>12 DEF TypeOK, newConnectionSlot, Siblings
  <2> QED
    BY <1>12, <2>1, <2>2, <2>3, <2>4 DEF TypeOK, newConnectionSlot
<1>13. ASSUME NEW c \in Conns, disconnectedSlot(c)
       PROVE TypeOK'
  <2>1. {c} \in SUBSET Conns /\ Disconnect({c})
    BY <1>13 DEF disconnectedSlot
  <2>2. /\ sock' \in [Conns -> {"none", "open", "closing"}]
        /\ WsClientSockets' \subseteq Conns /\ left' \subseteq Conns
    BY <1>13 DEF disconnectedSlot, Delisted, TypeOK
  <2> QED
    BY <1>13, <2>1, <2>2, DisconnectType DEF TypeOK, disconnectedSlot, clientVars
<1>14. ASSUME NEW c \in Conns, handleClient(c)
       PROVE TypeOK'
  <2>1. down' \in [Conns -> Seq(Nat)]
    BY <1>14 DEF TypeOK, handleClient
  <2>2. up' \in [Conns -> Seq(Nat)]
    BY <1>14 DEF TypeOK, handleClient
  <2>3. ranTo' \in [Conns -> Nat \cup {-1}]
    BY <1>14 DEF TypeOK, handleClient
  <2> QED
    BY <1>14, <2>1, <2>2, <2>3
    DEF TypeOK, handleClient, serverVars, handlerVars, clientVars
<1>15. CASE UNCHANGED vars
  BY <1>15 DEF TypeOK, vars, serverVars, handlerVars, clientVars, netVars, histVars
<1> QED
  BY <1>1, <1>2, <1>4, <1>5, <1>6, <1>7, <1>8, <1>9, <1>10, <1>11, <1>12, <1>13,
     <1>14, <1>15 DEF Next

\* Type correctness of the link.
THEOREM TypeCorrect == Spec => []TypeOK
<1>1. Init => TypeOK
  <2> SUFFICES ASSUME Init PROVE TypeOK
    OBVIOUS
  <2>1. /\ listening \in BOOLEAN
        /\ m_ticketTimeoutTimer \in [Ips -> BOOLEAN]
        /\ ipOnline \in [Ips -> BOOLEAN]
    BY DEF Init
  <2>2. /\ m_requests \in [Ips -> Seq(Nat)]
        /\ down \in [Conns -> Seq(Nat)]
        /\ up \in [Conns -> Seq(Nat)]
    BY DEF Init
  <2>3. ranTo \in [Conns -> Nat \cup {-1}]
    BY DEF Init
  <2> QED
    BY <2>1, <2>2, <2>3 DEF Init, TypeOK
<1> QED
  BY <1>1, TypeStep, PTL DEF Spec

-----------------------------------------------------------------------------
(* A handler waits exactly while its ticket timer runs. *)

LEMMA TicketStep ==
  ASSUME TypeOK, TicketHasTimer, [Next]_vars PROVE TicketHasTimer'
<1> USE DEF TicketHasTimer
<1>1. ASSUME NEW ip \in Ips, NEW n \in ListSizes, appendRequestListSlot(ip, n)
      PROVE TicketHasTimer'
  BY <1>1 DEF appendRequestListSlot, Enqueue
<1>2. CASE checkConnectionTimerTickSlot
  BY <1>2 DEF checkConnectionTimerTickSlot, Enqueue
<1>3. ASSUME NEW ip \in Ips, checkQueueTimerSlot(ip)
      PROVE TicketHasTimer'
  BY <1>3 DEF checkQueueTimerSlot, TypeOK
<1>4. ASSUME NEW ip \in Ips, ticketTimeoutSlot(ip)
      PROVE TicketHasTimer'
  BY <1>4 DEF ticketTimeoutSlot, TypeOK
<1>5. ASSUME NEW c \in Conns, receiveMessageSlot(c)
      PROVE TicketHasTimer'
  BY <1>5 DEF receiveMessageSlot, TypeOK
<1>6. ASSUME NEW cs, Disconnect(cs)
      PROVE TicketHasTimer'
  BY <1>6 DEF Disconnect, RemoveHandlers
<1>7. CASE stopListenSlot
  BY <1>6, <1>7 DEF stopListenSlot
<1>8. ASSUME NEW c \in Conns, disconnectedSlot(c)
      PROVE TicketHasTimer'
  BY <1>6, <1>8 DEF disconnectedSlot
<1>9. ASSUME NEW c \in Conns, newConnectionSlot(c)
      PROVE TicketHasTimer'
  <2>1. CASE UNCHANGED handlerVars
    BY <2>1 DEF handlerVars
  <2>2. CASE NewHandler(c[1], c[2])
    BY <2>2 DEF NewHandler, TypeOK
  <2> QED
    BY <1>9, <2>1, <2>2 DEF newConnectionSlot, clientConnectedSlot
<1>10. ASSUME UNCHANGED <<m_queueState, m_ticketTimeoutTimer>>
       PROVE TicketHasTimer'
  BY <1>10
<1> QED
  BY <1>1, <1>2, <1>3, <1>4, <1>5, <1>7, <1>8, <1>9, <1>10
  DEF Next, startListenSlot, clearQueueSlot, connectSocketSlot, clientDisconnected,
      handleClient, vars, handlerVars

\* No ticket without a timer and no timer without a ticket: checkQueueTimerSlot,
\* handleServer and ticketTimeoutSlot always change the two together.
THEOREM TicketTimers == Spec => []TicketHasTimer
<1>1. Init => TicketHasTimer
  BY DEF Init, TicketHasTimer
<1> QED
  BY <1>1, TypeCorrect, TicketStep, PTL DEF Spec

-----------------------------------------------------------------------------
(* Handlers and their sockets. *)

LEMMA SocketStep ==
  ASSUME TypeOK, HandlerHasSocket, [Next]_vars PROVE HandlerHasSocket'
<1> USE ConnParts DEF HandlerHasSocket, Handled, Own
<1>1. CASE stopListenSlot
  <2>1. PICK atOnce \in SUBSET Conns, skipped \in SUBSET Conns :
          /\ sock' = [c \in Conns |->
                        CASE c \in atOnce -> "none"
                          [] c \in WsClientSockets \ (atOnce \cup skipped) -> "closing"
                          [] OTHER -> sock[c]]
          /\ hostPort' = [ip \in Ips |-> IF ip \in {c[1] : c \in atOnce} THEN NoPort
                                         ELSE hostPort[ip]]
    BY <1>1 DEF stopListenSlot, TypeOK, Disconnect, RemoveHandlers
  <2> SUFFICES ASSUME NEW ip \in Ips, hostPort'[ip] # NoPort
               PROVE  sock'[<<ip, hostPort'[ip]>>] # "none"
    OBVIOUS
  <2>2. hostPort'[ip] = hostPort[ip] /\ hostPort[ip] \in Ports
    BY <2>1 DEF TypeOK
  <2>3. <<ip, hostPort[ip]>> \in Conns /\ <<ip, hostPort[ip]>> \notin atOnce
    BY <2>1, <2>2 DEF Conns
  <2> QED
    BY <2>1, <2>2, <2>3
<1>2. ASSUME NEW c \in Conns, disconnectedSlot(c)
      PROVE HandlerHasSocket'
  <2>1. /\ hostPort' = [ip \in Ips |-> IF ip = c[1] THEN NoPort ELSE hostPort[ip]]
        /\ sock' = [sock EXCEPT ![c] = "none"]
    BY <1>2 DEF disconnectedSlot, Disconnect, RemoveHandlers
  <2> QED
    BY <2>1 DEF TypeOK, Conns
<1>3. ASSUME NEW c \in Conns, newConnectionSlot(c)
      PROVE HandlerHasSocket'
  BY <1>3 DEF newConnectionSlot, clientConnectedSlot, NewHandler, handlerVars, TypeOK,
              Conns
<1>4. ASSUME UNCHANGED <<hostPort, sock>>
      PROVE HandlerHasSocket'
  BY <1>4
<1> QED
  BY <1>1, <1>2, <1>3, <1>4
  DEF Next, startListenSlot, appendRequestListSlot, checkConnectionTimerTickSlot, Enqueue,
      clearQueueSlot, checkQueueTimerSlot, ticketTimeoutSlot, receiveMessageSlot,
      connectSocketSlot, clientDisconnected, handleClient, vars, serverVars, handlerVars

\* No handler outlives the socket whose port it sends to.
THEOREM HandlersHaveSockets == Spec => []HandlerHasSocket
<1>1. Init => HandlerHasSocket
  BY DEF Init, HandlerHasSocket, Handled
<1> QED
  BY <1>1, TypeCorrect, SocketStep, PTL DEF Spec

-----------------------------------------------------------------------------
(* Ownership.  SoleOwner is not inductive: that a connection has its handler   *)
(* depends on where its siblings were when it was accepted.                    *)

\* Two live connections of one address have both met another one, and a
\* connection that is still being opened has no end at the server; the connections
\* in the list of VMTDHostServer are open.
Overlaps ==
  /\ \A c \in WsClientSockets : sock[c] = "open"
  /\ \A c, d \in Conns :
       c[1] = d[1] /\ c # d /\ sock[c] # "none" /\ sock[d] # "none" => c \in shared
  /\ \A c \in Conns :
       clientState[c[1]] = "Connecting" /\ OnClient(c) => sock[c] = "none"

\* The two halves of SoleOwner: the handler, and the list.
OwnHandler ==
  \A c \in Conns : sock[c] # "none" /\ c \notin shared => Own(c[1]) = c
Listed ==
  \A c \in Conns : sock[c] = "open" /\ c \notin left => c \in WsClientSockets

OwnerInv == HandlerHasSocket /\ Overlaps /\ OwnHandler

\* What disconnecting sockets does to ownership.
LEMMA DisconnectOwner ==
  ASSUME TypeOK, OwnerInv, NEW cs \in SUBSET Conns, Disconnect(cs),
         \A c \in cs : sock[c] # "none",
         sock' \in [Conns -> {"none", "open", "closing"}],
         \A c \in Conns : sock'[c] # "none" => c \notin cs /\ sock[c] # "none",
         \A c \in WsClientSockets' : sock'[c] = "open",
         UNCHANGED clientVars
  PROVE  Overlaps' /\ OwnHandler'
<1> DEFINE ips == {c[1] : c \in cs}
<1>1. /\ hostPort' = [ip \in Ips |-> IF ip \in ips THEN NoPort ELSE hostPort[ip]]
      /\ shared' = shared \ cs
  BY DEF Disconnect, RemoveHandlers
<1>2. ASSUME NEW c \in Conns, sock'[c] # "none", c[1] \in ips
      PROVE c \in shared'
  <2>1. PICK d \in cs : d[1] = c[1]
    BY <1>2
  <2>2. c # d /\ sock[c] # "none" /\ sock[d] # "none"
    BY <1>2
  <2> QED
    BY <1>1, <1>2, <2>1, <2>2 DEF OwnerInv, Overlaps
<1>3. OwnHandler'
  <2> SUFFICES ASSUME NEW c \in Conns, sock'[c] # "none", c \notin shared'
               PROVE  Own(c[1])' = c
    BY DEF OwnHandler
  <2>1. c[1] \notin ips
    BY <1>2
  <2>2. c \notin shared
    BY <1>1, <2>1
  <2> QED
    BY <1>1, <2>1, <2>2, ConnParts DEF OwnerInv, OwnHandler, Own
<1>4. Overlaps'
  <2>1. ASSUME NEW c \in Conns, NEW d \in Conns, c[1] = d[1], c # d,
               sock'[c] # "none", sock'[d] # "none"
        PROVE c \in shared'
    BY <1>1, <2>1 DEF OwnerInv, Overlaps
  <2>2. ASSUME NEW c \in Conns, clientState'[c[1]] = "Connecting", OnClient(c)'
        PROVE sock'[c] = "none"
    BY <2>2, ConnParts DEF OwnerInv, Overlaps, OnClient, clientVars
  <2> QED
    BY <2>1, <2>2 DEF Overlaps
<1> QED
  BY <1>3, <1>4

LEMMA OwnerStep ==
  ASSUME TypeOK, OwnerInv, [Next]_vars PROVE OwnerInv'
<1> USE ConnParts
<1>1. TypeOK' /\ HandlerHasSocket'
  BY TypeStep, SocketStep DEF OwnerInv
<1>2. CASE stopListenSlot
  <2>1. PICK atOnce \in SUBSET Conns, skipped \in SUBSET Conns :
          /\ \A c \in atOnce : sock[c] = "open"
          /\ sock' = [c \in Conns |->
                        CASE c \in atOnce -> "none"
                          [] c \in WsClientSockets \ (atOnce \cup skipped) -> "closing"
                          [] OTHER -> sock[c]]
          /\ Disconnect(atOnce)
    BY <1>2 DEF stopListenSlot, TypeOK
  <2>2. \A c \in Conns : sock'[c] # "none" => c \notin atOnce /\ sock[c] # "none"
    BY <2>1 DEF OwnerInv, Overlaps
  <2>3. /\ sock' \in [Conns -> {"none", "open", "closing"}]
        /\ \A c \in WsClientSockets' : sock'[c] = "open"
        /\ \A c \in atOnce : sock[c] # "none"
        /\ UNCHANGED clientVars
    BY <1>1, <1>2, <2>1 DEF stopListenSlot, TypeOK
  <2> QED
    BY <1>1, <2>1, <2>2, <2>3, DisconnectOwner DEF OwnerInv
<1>3. ASSUME NEW c \in Conns, disconnectedSlot(c)
      PROVE OwnerInv'
  <2>1. /\ {c} \in SUBSET Conns /\ Disconnect({c})
        /\ sock' = [sock EXCEPT ![c] = "none"] /\ sock[c] # "none"
        /\ WsClientSockets' = WsClientSockets \ {c}
        /\ UNCHANGED clientVars
    BY <1>3 DEF disconnectedSlot, Delisted
  <2>2. /\ \A d \in Conns : sock'[d] # "none" => d \notin {c} /\ sock[d] # "none"
        /\ \A d \in WsClientSockets' : sock'[d] = "open"
    BY <2>1 DEF OwnerInv, Overlaps, TypeOK
  <2>3. /\ sock' \in [Conns -> {"none", "open", "closing"}]
        /\ \A d \in {c} : sock[d] # "none"
    BY <1>1, <2>1 DEF TypeOK
  <2> QED
    BY <1>1, <2>1, <2>2, <2>3, DisconnectOwner DEF OwnerInv
<1>4. ASSUME NEW c \in Conns, newConnectionSlot(c)
      PROVE OwnerInv'
  <2>1. /\ sock[c] = "none"
        /\ sock' = [sock EXCEPT ![c] = "open"]
        /\ WsClientSockets' = WsClientSockets \cup {c}
        /\ shared' = IF Siblings(c) = {} THEN shared ELSE shared \cup Siblings(c) \cup {c}
        /\ clientState' = [clientState EXCEPT ![c[1]] = "Connected"]
        /\ clientPort' = clientPort
    BY <1>4 DEF newConnectionSlot, Accepts, OwnerInv, Overlaps
  <2>2. Overlaps'
    <3>1. \A d \in WsClientSockets' : sock'[d] = "open"
      BY <2>1 DEF OwnerInv, Overlaps, TypeOK
    <3>2. ASSUME NEW d \in Conns, NEW e \in Conns, d[1] = e[1], d # e,
                 sock'[d] # "none", sock'[e] # "none"
          PROVE d \in shared'
      <4>1. CASE d = c
        BY <2>1, <3>2, <4>1 DEF Siblings, TypeOK
      <4>2. CASE e = c
        BY <2>1, <3>2, <4>2 DEF Siblings, TypeOK
      <4>3. CASE d # c /\ e # c
        BY <2>1, <3>2, <4>3 DEF OwnerInv, Overlaps, TypeOK
      <4> QED
        BY <4>1, <4>2, <4>3
    <3>3. ASSUME NEW d \in Conns, clientState'[d[1]] = "Connecting", OnClient(d)'
          PROVE sock'[d] = "none"
      BY <2>1, <3>3 DEF OwnerInv, Overlaps, TypeOK, OnClient
    <3> QED
      BY <3>1, <3>2, <3>3 DEF Overlaps
  <2>3. OwnHandler'
    <3> SUFFICES ASSUME NEW d \in Conns, sock'[d] # "none", d \notin shared'
                 PROVE  Own(d[1])' = d
      BY DEF OwnHandler
    <3>1. d \notin shared
      BY <2>1
    <3>2. CASE d = c
      <4>1. Siblings(c) = {}
        BY <2>1, <3>2
      <4>2. ~Handled(c[1])
        <5> SUFFICES ASSUME Handled(c[1]) PROVE FALSE
          OBVIOUS
        <5>1. Own(c[1]) \in Conns /\ sock[Own(c[1])] # "none"
          BY DEF OwnerInv, HandlerHasSocket, Handled, Own, TypeOK, Conns
        <5> QED
          BY <2>1, <4>1, <5>1 DEF Siblings, Own
      <4>3. hostPort' = [hostPort EXCEPT ![c[1]] = c[2]]
        BY <1>4, <4>2 DEF newConnectionSlot, clientConnectedSlot, NewHandler
      <4> QED
        BY <3>2, <4>3 DEF Own, TypeOK
    <3>3. CASE d # c
      <4>1. sock[d] # "none" /\ Own(d[1]) = d
        BY <2>1, <3>1, <3>3 DEF OwnerInv, OwnHandler, TypeOK
      <4>2. d[1] # c[1]
        BY <2>1, <3>3, <4>1 DEF Siblings
      <4>3. hostPort'[d[1]] = hostPort[d[1]]
        BY <1>4, <4>2
        DEF newConnectionSlot, clientConnectedSlot, NewHandler, handlerVars, TypeOK
      <4> QED
        BY <4>1, <4>3 DEF Own
    <3> QED
      BY <3>2, <3>3
  <2> QED
    BY <1>1, <2>2, <2>3 DEF OwnerInv
<1>5. ASSUME NEW ip \in Ips, NEW port \in Ports, connectSocketSlot(ip, port)
      PROVE OwnerInv'
  <2>1. UNCHANGED <<hostPort, sock, WsClientSockets, shared>>
    BY <1>5 DEF connectSocketSlot, serverVars, handlerVars, histVars
  <2>2. ASSUME NEW c \in Conns, clientState'[c[1]] = "Connecting", OnClient(c)'
        PROVE sock'[c] = "none"
    BY <1>5, <2>1, <2>2 DEF connectSocketSlot, OwnerInv, Overlaps, OnClient, TypeOK
  <2> QED
    BY <1>1, <2>1, <2>2 DEF OwnerInv, Overlaps, OwnHandler, Own
<1>6. ASSUME NEW ip \in Ips, clientDisconnected(ip)
      PROVE OwnerInv'
  <2>1. UNCHANGED <<hostPort, sock, WsClientSockets, shared>>
    BY <1>6 DEF clientDisconnected, serverVars, handlerVars, histVars
  <2>2. ASSUME NEW c \in Conns, clientState'[c[1]] = "Connecting", OnClient(c)'
        PROVE sock'[c] = "none"
    BY <1>6, <2>1, <2>2 DEF clientDisconnected, OwnerInv, Overlaps, OnClient, TypeOK
  <2> QED
    BY <1>1, <2>1, <2>2 DEF OwnerInv, Overlaps, OwnHandler, Own
<1>7. ASSUME UNCHANGED <<hostPort, sock, WsClientSockets, shared, clientVars>>
      PROVE OwnerInv'
  BY <1>1, <1>7 DEF OwnerInv, Overlaps, OwnHandler, OnClient, Own, clientVars
<1>8. ASSUME NEW c \in Conns, handleClient(c)
      PROVE OwnerInv'
  BY <1>7, <1>8 DEF handleClient, serverVars, handlerVars
<1>9. ASSUME NEW c \in Conns, receiveMessageSlot(c)
      PROVE OwnerInv'
  BY <1>7, <1>9 DEF receiveMessageSlot, serverVars
<1>10. ASSUME NEW ip \in Ips,
              \/ clearQueueSlot(ip)
              \/ checkQueueTimerSlot(ip)
              \/ ticketTimeoutSlot(ip)
              \/ \E n \in ListSizes : appendRequestListSlot(ip, n)
       PROVE OwnerInv'
  BY <1>7, <1>10
  DEF clearQueueSlot, checkQueueTimerSlot, ticketTimeoutSlot, appendRequestListSlot,
      Enqueue, serverVars, histVars
<1>11. CASE checkConnectionTimerTickSlot \/ startListenSlot \/ UNCHANGED vars
  BY <1>7, <1>11
  DEF checkConnectionTimerTickSlot, Enqueue, startListenSlot, vars, serverVars,
      handlerVars, histVars
<1> QED
  BY <1>2, <1>3, <1>4, <1>5, <1>6, <1>8, <1>9, <1>10, <1>11 DEF Next

\* Open sockets stay in the list: only a stop of the server takes a socket out
\* that stays open, and left remembers it until it disconnects.
LEMMA ListedStep ==
  ASSUME TypeOK, Listed, [Next]_vars PROVE Listed'
<1>1. CASE stopListenSlot
  <2>1. PICK atOnce, skipped \in SUBSET {c \in WsClientSockets : sock[c] = "open"} :
          /\ sock' = [c \in Conns |->
                        CASE c \in atOnce -> "none"
                          [] c \in WsClientSockets \ (atOnce \cup skipped) -> "closing"
                          [] OTHER -> sock[c]]
          /\ left' = left \cup skipped
    BY <1>1 DEF stopListenSlot
  <2>2. ASSUME NEW c \in Conns, sock'[c] = "open"
        PROVE  c \in skipped \/ (c \notin WsClientSockets /\ sock[c] = "open")
    BY <2>1, <2>2
  <2> QED
    BY <2>1, <2>2 DEF Listed
<1>2. ASSUME NEW c \in Conns, disconnectedSlot(c)
      PROVE Listed'
  BY <1>2 DEF Listed, disconnectedSlot, Delisted, TypeOK
<1>3. ASSUME NEW c \in Conns, newConnectionSlot(c)
      PROVE Listed'
  BY <1>3 DEF Listed, newConnectionSlot, TypeOK
<1>4. ASSUME UNCHANGED <<sock, WsClientSockets, left>>
      PROVE Listed'
  BY <1>4 DEF Listed
<1> QED
  BY <1>1, <1>2, <1>3, <1>4
  DEF Next, startListenSlot, appendRequestListSlot, checkConnectionTimerTickSlot, Enqueue,
      clearQueueSlot, checkQueueTimerSlot, ticketTimeoutSlot, receiveMessageSlot,
      connectSocketSlot, clientDisconnected, handleClient, vars, serverVars, histVars

\* A connected host is within the engine's reach, unless two connections of its
\* address overlapped or a stop of the server left its socket open but unlisted.
THEOREM SoleOwners == Spec => []SoleOwner
<1>1. Init => OwnerInv /\ Listed
  BY DEF Init, OwnerInv, HandlerHasSocket, Handled, Overlaps, OwnHandler, Listed
<1>2. OwnerInv /\ Listed => SoleOwner
  BY DEF OwnerInv, OwnHandler, Listed, SoleOwner
<1> QED
  BY <1>1, <1>2, TypeCorrect, OwnerStep, ListedStep, PTL DEF Spec

-----------------------------------------------------------------------------
(* The window of a handler. *)

LEMMA LenNat == \A s \in Seq(Nat) : Len(s) \in Nat
  OBVIOUS

LEMMA LenTail == \A s \in Seq(Nat) : s # <<>> => Len(s) >= 1 /\ Len(Tail(s)) = Len(s) - 1
  OBVIOUS

LEMMA LenAppend == \A s \in Seq(Nat) : \A e \in Nat : Len(Append(s, e)) = Len(s) + 1
  OBVIOUS

\* The arithmetic of the steps: a and b documents and replies are outstanding
\* before the step, s tickets have strayed and t is open.
LEMMA Shrinks ==
  \A a, b, d, e, s, t \in Nat : a + b <= s + t /\ d <= a /\ e <= b => d + e <= s + t
  OBVIOUS

LEMMA Sent ==
  \A a, b, d, s \in Nat : a + b <= s + 0 /\ d <= a + 1 => d + b <= s + 1
  OBVIOUS

LEMMA Strays ==
  \A a, b, s, t \in Nat : a + b <= s + t => a + b <= (s + t) + 0
  OBVIOUS

LEMMA TimedOut ==
  \A a, b, s, t \in Nat : a + b <= s + t /\ t <= 1 => a + b <= (s + 1) + 0
  OBVIOUS

LEMMA Replied ==
  \A a, b, e, s, t \in Nat :
    a + b <= s + t /\ t <= 1 /\ b >= 1 /\ e = b - 1 => a + e <= s + 0
  OBVIOUS

LEMMA Ran ==
  \A a, b, d, e, s, t \in Nat :
    a + b <= s + t /\ a >= 1 /\ d = a - 1 /\ e <= b + 1 => d + e <= s + t
  OBVIOUS

LEMMA Reflexive == \A a \in Nat : a <= a /\ a <= a + 1
  OBVIOUS

LEMMA Numbers ==
  ASSUME TypeOK
  PROVE  /\ \A c \in Conns : Len(down[c]) \in Nat /\ Len(up[c]) \in Nat
         /\ \A ip \in Ips : strayed[ip] \in Nat
<1>1. \A c \in Conns : down[c] \in Seq(Nat) /\ up[c] \in Seq(Nat)
  BY DEF TypeOK
<1>2. \A ip \in Ips : strayed[ip] \in Nat
  BY DEF TypeOK
<1> QED
  BY <1>1, <1>2, LenNat

LEMMA NumbersNext ==
  ASSUME TypeOK'
  PROVE  /\ \A c \in Conns : Len(down'[c]) \in Nat /\ Len(up'[c]) \in Nat
         /\ \A ip \in Ips : strayed'[ip] \in Nat
<1>1. \A c \in Conns : down'[c] \in Seq(Nat) /\ up'[c] \in Seq(Nat)
  BY DEF TypeOK
<1>2. \A ip \in Ips : strayed'[ip] \in Nat
  BY DEF TypeOK
<1> QED
  BY <1>1, <1>2, LenNat

LEMMA Tickets ==
  \A ip \in Ips : /\ OpenTicket(ip) \in Nat /\ OpenTicket(ip) <= 1
                  /\ OpenTicket(ip)' \in Nat
  BY DEF OpenTicket

LEMMA WindowStep ==
  ASSUME TypeOK, WindowBound, [Next]_vars PROVE WindowBound'
<1>1. TypeOK'
  BY TypeStep
<1> SUFFICES ASSUME NEW ip \in Ips, hostPort'[ip] # NoPort
             PROVE  Outstanding(Own(ip))' <= strayed'[ip] + OpenTicket(ip)'
  BY DEF WindowBound, Handled
<1> DEFINE own == <<ip, hostPort[ip]>>
           Goal == Outstanding(Own(ip))' <= strayed'[ip] + OpenTicket(ip)'
<1>2. ASSUME hostPort'[ip] = hostPort[ip]
      PROVE  /\ own \in Conns
             /\ Own(ip) = own /\ Own(ip)' = own
             /\ Outstanding(own) <= strayed[ip] + OpenTicket(ip)
  BY <1>2 DEF Own, TypeOK, Conns, WindowBound, Handled
<1> HIDE DEF own
\* What is known of a handler that stays, and what is then to be shown.
<1>3. ASSUME hostPort'[ip] = hostPort[ip]
      PROVE  /\ own \in Conns /\ Own(ip) = own
             /\ Len(down[own]) \in Nat /\ Len(up[own]) \in Nat
             /\ Len(down'[own]) \in Nat /\ Len(up'[own]) \in Nat
             /\ strayed[ip] \in Nat /\ OpenTicket(ip) \in Nat
             /\ Len(down[own]) + Len(up[own]) <= strayed[ip] + OpenTicket(ip)
  <2>1. own \in Conns /\ Own(ip) = own
    BY <1>2, <1>3
  <2>2. Outstanding(own) <= strayed[ip] + OpenTicket(ip)
    BY <1>2, <1>3
  <2>3. Len(down[own]) + Len(up[own]) <= strayed[ip] + OpenTicket(ip)
    BY <2>2 DEF Outstanding
  <2>4. Len(down[own]) \in Nat /\ Len(up[own]) \in Nat /\ strayed[ip] \in Nat
    BY <2>1, Numbers
  <2>5. Len(down'[own]) \in Nat /\ Len(up'[own]) \in Nat
    BY <1>1, <2>1, NumbersNext
  <2>6. OpenTicket(ip) \in Nat
    BY Tickets
  <2> QED
    BY <2>1, <2>3, <2>4, <2>5, <2>6, Zenon
<1>4. ASSUME hostPort'[ip] = hostPort[ip],
             Len(down'[own]) + Len(up'[own]) <= strayed'[ip] + OpenTicket(ip)'
      PROVE  Goal
  <2>1. Own(ip)' = own
    BY <1>2, <1>4
  <2> QED
    BY <1>4, <2>1 DEF Outstanding
<1>5. ASSUME hostPort'[ip] = hostPort[ip],
             Len(down'[own]) <= Len(down[own]), Len(up'[own]) <= Len(up[own]),
             strayed'[ip] = strayed[ip], m_queueState'[ip] = m_queueState[ip]
      PROVE  Goal
  <2>1. OpenTicket(ip)' = OpenTicket(ip)
    BY <1>5 DEF OpenTicket
  <2>2. Len(down'[own]) + Len(up'[own]) <= strayed[ip] + OpenTicket(ip)
    BY <1>3, <1>5, Shrinks
  <2> QED
    BY <1>4, <1>5, <2>1, <2>2, Zenon
<1>6. ASSUME UNCHANGED <<hostPort, m_queueState, strayed, netVars>>
      PROVE  Goal
  BY <1>6 DEF WindowBound, Handled, Own, netVars, Outstanding, OpenTicket
<1>7. ASSUME NEW cs, Disconnect(cs), down' = down
      PROVE  Goal
  <2>1. /\ hostPort'[ip] = hostPort[ip]
        /\ m_queueState'[ip] = m_queueState[ip]
        /\ strayed'[ip] = strayed[ip]
    BY <1>7 DEF Disconnect, RemoveHandlers
  <2>2. up'[own] = <<>> \/ up'[own] = up[own]
    BY <1>3, <1>7, <2>1 DEF Disconnect
  <2>3. Len(up'[own]) <= Len(up[own])
    BY <1>3, <2>1, <2>2
  <2>4. Len(down'[own]) <= Len(down[own])
    BY <1>3, <1>7, <2>1
  <2> QED
    BY <1>5, <2>1, <2>3, <2>4
<1>8. ASSUME NEW i \in Ips, checkQueueTimerSlot(i)
      PROVE  Goal
  <2>1. /\ hostPort' = hostPort /\ strayed' = strayed /\ up' = up
        /\ m_queueState[i] = "READY_TO_SEND"
        /\ m_queueState' = [m_queueState EXCEPT ![i] = "WAIT_FOR_TICKET"]
    BY <1>8 DEF checkQueueTimerSlot, ReadyToSend, histVars
  <2>2. \/ down' = down
        \/ down' = [down EXCEPT ![Own(i)] = Append(@, Head(m_requests[i]))]
    BY <1>8 DEF checkQueueTimerSlot, sendMessageSlot
  <2>3. /\ hostPort'[ip] = hostPort[ip] /\ own \in Conns /\ Own(ip) = own
        /\ Len(down[own]) \in Nat /\ Len(up[own]) \in Nat
    BY <1>3, <2>1
  <2>4. CASE i # ip
    <3>1. Own(i) # own
      BY <2>4, <2>3 DEF Own
    <3>2. down'[own] = down[own] /\ up'[own] = up[own]
      BY <2>1, <2>2, <2>3, <3>1 DEF TypeOK
    <3>3. m_queueState'[ip] = m_queueState[ip] /\ strayed'[ip] = strayed[ip]
      BY <2>1, <2>4 DEF TypeOK
    <3>4. Len(down'[own]) <= Len(down[own]) /\ Len(up'[own]) <= Len(up[own])
      BY <2>3, <3>2, Reflexive, Zenon
    <3> QED
      BY <1>5, <2>3, <3>3, <3>4
  <2>5. CASE i = ip
    <3>1. m_queueState[ip] # "WAIT_FOR_TICKET" /\ m_queueState'[ip] = "WAIT_FOR_TICKET"
      BY <2>1, <2>5 DEF TypeOK
    <3>2. OpenTicket(ip) = 0 /\ OpenTicket(ip)' = 1
      BY <3>1 DEF OpenTicket
    <3>3. down[own] \in Seq(Nat) /\ Head(m_requests[ip]) \in Nat
      BY <1>8, <2>3, <2>5 DEF checkQueueTimerSlot, ReadyToSend, TypeOK
    <3>4. \/ down'[own] = down[own]
          \/ down'[own] = Append(down[own], Head(m_requests[ip]))
      BY <2>2, <2>3, <2>5 DEF TypeOK
    <3>5. Len(down'[own]) <= Len(down[own]) + 1
      <4>1. CASE down'[own] = down[own]
        BY <2>3, <4>1, Reflexive
      <4>2. CASE down'[own] = Append(down[own], Head(m_requests[ip]))
        BY <2>3, <3>3, <4>2, LenAppend
      <4> QED
        BY <3>4, <4>1, <4>2
    <3>6. Len(down[own]) + Len(up[own]) <= strayed[ip] + 0
      BY <1>3, <2>3, <3>2
    <3>7. Len(down'[own]) + Len(up[own]) <= strayed[ip] + 1
      BY <1>3, <2>3, <3>5, <3>6, Sent
    <3> QED
      BY <1>4, <2>1, <2>3, <3>2, <3>7
  <2> QED
    BY <2>4, <2>5
<1>9. ASSUME NEW i \in Ips, ticketTimeoutSlot(i)
      PROVE  Goal
  <2>1. /\ hostPort' = hostPort /\ down' = down /\ up' = up
        /\ m_queueState' = [m_queueState EXCEPT ![i] = "READY_TO_SEND"]
        /\ strayed' = [strayed EXCEPT ![i] = @ + 1]
    BY <1>9 DEF ticketTimeoutSlot, netVars
  <2>2. CASE i # ip
    <3>1. strayed'[ip] = strayed[ip] /\ m_queueState'[ip] = m_queueState[ip]
      BY <2>1, <2>2 DEF TypeOK
    <3>2. Len(down'[own]) <= Len(down[own]) /\ Len(up'[own]) <= Len(up[own])
      BY <1>3, <2>1, Reflexive
    <3> QED
      BY <1>5, <2>1, <3>1, <3>2
  <2>3. CASE i = ip
    <3>1. strayed'[ip] = strayed[ip] + 1
      BY <2>1, <2>3 DEF TypeOK
    <3>2. m_queueState'[ip] # "WAIT_FOR_TICKET"
      BY <2>1, <2>3 DEF TypeOK
    <3>3. OpenTicket(ip)' = 0
      BY <3>2 DEF OpenTicket
    <3>4. OpenTicket(ip) <= 1
      BY Tickets
    <3>5. Len(down[own]) + Len(up[own]) <= (strayed[ip] + 1) + 0
      BY <1>3, <2>1, <3>4, TimedOut
    <3> QED
      BY <1>4, <2>1, <3>1, <3>3, <3>5, Zenon
  <2> QED
    BY <2>2, <2>3
<1>10. ASSUME NEW c \in Conns, receiveMessageSlot(c)
       PROVE  Goal
  <2>1. /\ hostPort' = hostPort /\ down' = down
        /\ up' = [up EXCEPT ![c] = Tail(@)] /\ up[c] # <<>>
        /\ m_queueState'[ip] = "READY_TO_SEND"
        /\ strayed'[ip] = IF m_queueState[ip] = "WAIT_FOR_TICKET" /\ Own(ip) # c
                          THEN strayed[ip] + 1 ELSE strayed[ip]
    BY <1>10 DEF receiveMessageSlot, Handled
  <2>2. hostPort'[ip] = hostPort[ip] /\ own \in Conns /\ Own(ip) = own
    BY <1>3, <2>1
  <2>3. OpenTicket(ip)' = 0 /\ OpenTicket(ip) <= 1
    BY <2>1, Tickets DEF OpenTicket
  <2>4. CASE own = c
    <3>1. up[own] \in Seq(Nat) /\ up[own] # <<>> /\ up'[own] = Tail(up[own])
      BY <2>1, <2>4 DEF TypeOK
    <3>2. Len(up[own]) >= 1 /\ Len(up'[own]) = Len(up[own]) - 1
      BY <3>1, LenTail
    <3>3. strayed'[ip] = strayed[ip]
      BY <2>1, <2>2, <2>4
    <3>4. Len(down[own]) + Len(up'[own]) <= strayed[ip] + 0
      BY <1>3, <2>2, <2>3, <3>2, Replied
    <3> QED
      BY <1>4, <2>1, <2>2, <2>3, <3>3, <3>4, Zenon
  <2>5. CASE own # c
    <3>1. up'[own] = up[own]
      BY <2>1, <2>2, <2>5 DEF TypeOK
    <3>2. CASE m_queueState[ip] = "WAIT_FOR_TICKET"
      <4>1. strayed'[ip] = strayed[ip] + 1
        BY <2>1, <2>2, <2>5, <3>2
      <4>2. Len(down[own]) + Len(up[own]) <= (strayed[ip] + 1) + 0
        BY <1>3, <2>2, <2>3, TimedOut
      <4> QED
        BY <1>4, <2>1, <2>2, <2>3, <3>1, <4>1, <4>2, Zenon
    <3>3. CASE m_queueState[ip] # "WAIT_FOR_TICKET"
      <4>1. strayed'[ip] = strayed[ip] /\ OpenTicket(ip) = 0
        BY <2>1, <3>3 DEF OpenTicket
      <4>2. Len(down[own]) + Len(up[own]) <= strayed[ip] + 0
        BY <1>3, <2>2, <4>1
      <4> QED
        BY <1>4, <2>1, <2>2, <2>3, <3>1, <4>1, <4>2, Zenon
    <3> QED
      BY <3>2, <3>3
  <2> QED
    BY <2>4, <2>5
<1>11. ASSUME NEW c \in Conns, newConnectionSlot(c)
       PROVE  Goal
  <2>1. /\ down' = [down EXCEPT ![c] = <<>>]
        /\ up' = [up EXCEPT ![c] = <<>>]
    BY <1>11 DEF newConnectionSlot
  <2>2. CASE Own(ip)' = c
    <3>1. down'[c] = <<>> /\ up'[c] = <<>>
      BY <2>1 DEF TypeOK
    <3>2. Outstanding(Own(ip))' = Len(<<>>) + Len(<<>>)
      BY <2>2, <3>1, Zenon DEF Outstanding
    <3>3. strayed'[ip] \in Nat /\ OpenTicket(ip)' \in Nat
      BY <1>1, NumbersNext, Tickets
    <3>4. \A s, t \in Nat : Len(<<>>) + Len(<<>>) <= s + t
      OBVIOUS
    <3> QED
      BY <3>2, <3>3, <3>4, Zenon
  <2>3. CASE Own(ip)' # c
    <3>1. /\ hostPort'[ip] = hostPort[ip] /\ strayed'[ip] = strayed[ip]
          /\ m_queueState'[ip] = m_queueState[ip]
      <4>1. CASE Handled(c[1])
        BY <1>11, <4>1 DEF newConnectionSlot, clientConnectedSlot, handlerVars
      <4>2. CASE ~Handled(c[1])
        <5>1. NewHandler(c[1], c[2])
          BY <1>11, <4>2 DEF newConnectionSlot, clientConnectedSlot
        <5>2. ip # c[1]
          BY <2>3, <5>1, ConnParts DEF NewHandler, Own, TypeOK
        <5> QED
          BY <5>1, <5>2 DEF NewHandler, TypeOK
      <4> QED
        BY <4>1, <4>2
    <3>2. own \in Conns /\ own # c
      BY <1>2, <2>3, <3>1
    <3>3. down'[own] = down[own] /\ up'[own] = up[own]
      BY <2>1, <3>2 DEF TypeOK
    <3>4. Len(down'[own]) <= Len(down[own]) /\ Len(up'[own]) <= Len(up[own])
      BY <1>3, <3>1, <3>3, Reflexive
    <3> QED
      BY <1>5, <3>1, <3>4
  <2> QED
    BY <2>2, <2>3
<1>12. ASSUME NEW i \in Ips, clientDisconnected(i)
       PROVE  Goal
  <2>1. /\ hostPort' = hostPort /\ up' = up
        /\ m_queueState' = m_queueState /\ strayed' = strayed
        /\ down' = [c \in Conns |-> IF c[1] = i THEN <<>> ELSE down[c]]
    BY <1>12 DEF clientDisconnected, handlerVars, histVars
  <2>2. down'[own] = <<>> \/ down'[own] = down[own]
    BY <1>3, <2>1
  <2>3. Len(down'[own]) <= Len(down[own])
    BY <1>3, <2>1, <2>2
  <2>4. Len(up'[own]) <= Len(up[own])
    BY <1>3, <2>1, Reflexive
  <2> QED
    BY <1>5, <2>1, <2>3, <2>4
<1>13. ASSUME NEW c \in Conns, handleClient(c)
       PROVE  Goal
  <2>1. /\ hostPort' = hostPort /\ m_queueState' = m_queueState /\ strayed' = strayed
        /\ down[c] # <<>> /\ down' = [down EXCEPT ![c] = Tail(@)]
        /\ up' = IF sock[c] = "open" THEN [up EXCEPT ![c] = Append(@, Head(down[c]))]
                 ELSE up
    BY <1>13 DEF handleClient, handlerVars
  <2>2. hostPort'[ip] = hostPort[ip] /\ own \in Conns
    BY <1>3, <2>1
  <2>3. CASE own # c
    <3>1. down'[own] = down[own] /\ up'[own] = up[own]
      BY <2>1, <2>2, <2>3 DEF TypeOK
    <3>2. Len(down'[own]) <= Len(down[own]) /\ Len(up'[own]) <= Len(up[own])
      BY <1>3, <2>2, <3>1, Reflexive
    <3> QED
      BY <1>5, <2>1, <2>2, <3>2
  <2>4. CASE own = c
    <3>1. /\ down[own] \in Seq(Nat) /\ up[own] \in Seq(Nat) /\ down[own] # <<>>
          /\ Head(down[own]) \in Nat
          /\ down'[own] = Tail(down[own])
          /\ up'[own] = up[own] \/ up'[own] = Append(up[own], Head(down[own]))
      BY <2>1, <2>4 DEF TypeOK
    <3>2. Len(down[own]) >= 1 /\ Len(down'[own]) = Len(down[own]) - 1
      BY <3>1, LenTail
    <3>3. Len(up'[own]) <= Len(up[own]) + 1
      <4>1. CASE up'[own] = up[own]
        BY <1>3, <2>2, <4>1, Reflexive
      <4>2. CASE up'[own] = Append(up[own], Head(down[own]))
        BY <1>3, <2>2, <3>1, <4>2, LenAppend
      <4> QED
        BY <3>1, <4>1, <4>2
    <3>4. Len(down'[own]) + Len(up'[own]) <= strayed[ip] + OpenTicket(ip)
      BY <1>3, <2>2, <3>2, <3>3, Ran
    <3>5. OpenTicket(ip)' = OpenTicket(ip) /\ strayed'[ip] = strayed[ip]
      BY <2>1 DEF OpenTicket
    <3> QED
      BY <1>4, <2>2, <3>4, <3>5, Zenon
  <2> QED
    BY <2>3, <2>4
<1>14. CASE stopListenSlot
  BY <1>7, <1>14 DEF stopListenSlot
<1>15. ASSUME NEW c \in Conns, disconnectedSlot(c)
       PROVE  Goal
  BY <1>7, <1>15 DEF disconnectedSlot
<1>16. ASSUME NEW i \in Ips,
              \/ clearQueueSlot(i)
              \/ \E n \in ListSizes : appendRequestListSlot(i, n)
              \/ \E port \in Ports : connectSocketSlot(i, port)
       PROVE  Goal
  BY <1>6, <1>16
  DEF clearQueueSlot, appendRequestListSlot, Enqueue, connectSocketSlot, handlerVars,
      histVars
<1>17. CASE checkConnectionTimerTickSlot \/ startListenSlot \/ UNCHANGED vars
  BY <1>6, <1>17
  DEF checkConnectionTimerTickSlot, Enqueue, startListenSlot, vars, handlerVars, histVars
<1> QED
  BY <1>8, <1>9, <1>10, <1>11, <1>12, <1>13, <1>14, <1>15, <1>16, <1>17 DEF Next

\* How far the link is from stop-and-wait: every ticket closed without its own
\* reply lets one more document be outstanding, and nothing else does.
THEOREM WindowBounded == Spec => []WindowBound
<1>1. Init => WindowBound
  BY DEF Init, WindowBound, Handled
<1> QED
  BY <1>1, TypeCorrect, WindowStep, PTL DEF Spec
=============================================================================
