------------------------ MODULE HostLinkOrderProofs ------------------------
(***************************************************************************)
(* The order of requests, for any hosts, ports and lengths of lists, and   *)
(* that HostLink implements OrderedDelivery on every connection.           *)
(***************************************************************************)
EXTENDS HostLinkProofs

-----------------------------------------------------------------------------
(* Ascending sequences.                                                     *)

LEMMA EmptySequence == Ascending(<<>>) /\ Elements(<<>>) = {}
BY DEF Ascending, Elements

LEMMA ElementsNat ==
  ASSUME NEW s \in Seq(Nat) PROVE Elements(s) \subseteq Nat
BY DEF Elements

\* A later element at the end.
LEMMA AppendAscending ==
  ASSUME NEW s \in Seq(Nat), NEW n \in Nat
  PROVE  /\ Elements(Append(s, n)) = Elements(s) \cup {n}
         /\ Ascending(s) /\ (\A e \in Elements(s) : e < n) => Ascending(Append(s, n))
<1> DEFINE t == Append(s, n)
<1>1. /\ Len(s) \in Nat /\ Len(t) = Len(s) + 1 /\ t[Len(s) + 1] = n
      /\ \A i \in 1..Len(s) : t[i] = s[i]
  OBVIOUS
<1> HIDE DEF t
<1>2. Elements(t) = Elements(s) \cup {n}
  <2>1. 1..Len(t) = 1..Len(s) \cup {Len(s) + 1}
    BY <1>1
  <2> QED
    BY <1>1, <2>1 DEF Elements
<1>3. ASSUME Ascending(s), \A e \in Elements(s) : e < n
      PROVE  Ascending(t)
  <2> SUFFICES ASSUME NEW i \in 1..Len(t), NEW j \in 1..Len(t), i < j
               PROVE  t[i] < t[j]
    BY DEF Ascending
  <2>1. i \in 1..Len(s)
    BY <1>1
  <2>2. CASE j \in 1..Len(s)
    BY <2>1, <2>2, <1>1, <1>3 DEF Ascending
  <2>3. CASE j = Len(s) + 1
    BY <2>1, <2>3, <1>1, <1>3 DEF Elements
  <2> QED
    BY <2>2, <2>3, <1>1
<1> QED
  BY <1>2, <1>3 DEF t

\* The first element, and the others.
LEMMA TailAscending ==
  ASSUME NEW s \in Seq(Nat), s # <<>>
  PROVE  /\ Tail(s) \in Seq(Nat) /\ Head(s) \in Nat
         /\ Elements(s) = {Head(s)} \cup Elements(Tail(s))
         /\ Ascending(s) => /\ Ascending(Tail(s))
                            /\ \A e \in Elements(Tail(s)) : Head(s) < e
<1> DEFINE t == Tail(s)
<1>1. /\ Len(s) \in Nat /\ Len(s) >= 1 /\ Len(t) = Len(s) - 1
      /\ Head(s) = s[1] /\ t \in Seq(Nat) /\ s[1] \in Nat
      /\ \A i \in 1..Len(t) : t[i] = s[i + 1]
  OBVIOUS
<1> HIDE DEF t
<1>2. Elements(s) = {Head(s)} \cup Elements(t)
  <2>1. \A i \in 1..Len(s) : i = 1 \/ i - 1 \in 1..Len(t)
    BY <1>1
  <2>2. \A i \in 1..Len(t) : i + 1 \in 1..Len(s)
    BY <1>1
  <2>3. ASSUME NEW i \in 1..Len(s) PROVE s[i] \in {Head(s)} \cup Elements(t)
    <3>1. CASE i = 1
      BY <3>1, <1>1
    <3>2. CASE i - 1 \in 1..Len(t)
      <4>1. t[i - 1] = s[i]
        BY <3>2, <1>1
      <4> QED
        BY <3>2, <4>1 DEF Elements
    <3> QED
      BY <2>1, <3>1, <3>2
  <2>4. Elements(s) \subseteq {Head(s)} \cup Elements(t)
    BY <2>3 DEF Elements
  <2>5. Head(s) \in Elements(s)
    <3>1. 1 \in 1..Len(s) /\ Head(s) = s[1]
      BY <1>1
    <3> QED
      BY <3>1 DEF Elements
  <2>6. ASSUME NEW i \in 1..Len(t) PROVE t[i] \in Elements(s)
    <3>1. i + 1 \in 1..Len(s) /\ t[i] = s[i + 1]
      BY <2>2, <1>1
    <3> QED
      BY <3>1 DEF Elements
  <2>7. Elements(t) \subseteq Elements(s)
    BY <2>6 DEF Elements
  <2> QED
    BY <2>4, <2>5, <2>7
<1>3. ASSUME Ascending(s)
      PROVE  Ascending(t) /\ \A e \in Elements(t) : Head(s) < e
  <2>1. ASSUME NEW i \in 1..Len(t), NEW j \in 1..Len(t), i < j
        PROVE  t[i] < t[j]
    <3>1. /\ i + 1 \in 1..Len(s) /\ j + 1 \in 1..Len(s) /\ i + 1 < j + 1
          /\ t[i] = s[i + 1] /\ t[j] = s[j + 1]
      BY <1>1, <2>1
    <3>2. s[i + 1] < s[j + 1]
      BY <1>3, <3>1 DEF Ascending
    <3> QED
      BY <3>1, <3>2
  <2>2. ASSUME NEW i \in 1..Len(t) PROVE Head(s) < t[i]
    <3>1. /\ 1 \in 1..Len(s) /\ i + 1 \in 1..Len(s) /\ 1 < i + 1
          /\ t[i] = s[i + 1] /\ Head(s) = s[1]
      BY <1>1
    <3>2. s[1] < s[i + 1]
      BY <1>3, <3>1 DEF Ascending
    <3> QED
      BY <3>1, <3>2
  <2> QED
    BY <2>1, <2>2 DEF Ascending, Elements
<1> QED
  BY <1>1, <1>2, <1>3 DEF t

-----------------------------------------------------------------------------
(* What a step can do to one connection: its documents in transit, the last  *)
(* one that ran, and the queue of the handler, if the handler talks on it.   *)

Queue(c)   == m_requests[c[1]]
Counter(c) == m_commandCounter[c[1]]
Owned(c)   == Own(c[1]) = c

\* Documents stay where they are or get lost, or the handler goes.
Loses(c) ==
  /\ ranTo'[c] = ranTo[c]
  /\ down'[c] \in {down[c], <<>>}
  /\ Owned(c)' => /\ Owned(c)
                  /\ Queue(c)' \in {Queue(c), <<>>}
                  /\ Counter(c)' = Counter(c)

\* A document is queued.
Queues(c) ==
  /\ UNCHANGED <<ranTo[c], down[c]>>
  /\ Owned(c) /\ Owned(c)'
  /\ Queue(c)' = Append(Queue(c), Counter(c))
  /\ Counter(c) < Counter(c)'

\* The first one is sent, perhaps in vain.
Sends(c) ==
  /\ ranTo'[c] = ranTo[c]
  /\ Owned(c) /\ Owned(c)'
  /\ Queue(c) # <<>>
  /\ Queue(c)' = Tail(Queue(c))
  /\ Counter(c)' = Counter(c)
  /\ down'[c] \in {down[c], Append(down[c], Head(Queue(c)))}

\* The agent runs one.
Runs(c) ==
  /\ down[c] # <<>>
  /\ ranTo'[c] = Head(down[c])
  /\ down'[c] = Tail(down[c])
  /\ Owned(c)' <=> Owned(c)
  /\ UNCHANGED <<Queue(c), Counter(c)>>

\* The connection is new.
Opens(c) ==
  /\ ranTo'[c] = -1
  /\ down'[c] = <<>>
  /\ Owned(c)' => Queue(c)' = <<>>

Moves(c) == Loses(c) \/ Queues(c) \/ Sends(c) \/ Runs(c) \/ Opens(c)

\* Sockets that disconnect take handlers with them and leave the rest.
LEMMA DisconnectLoses ==
  ASSUME TypeOK, NEW cs \in SUBSET Conns, Disconnect(cs), UNCHANGED <<down, ranTo>>,
         NEW c \in Conns
  PROVE  Loses(c)
<1>1. c[1] \in Ips /\ c = <<c[1], c[2]>> /\ c[2] \in Ports
  BY ConnParts
<1>2. CASE c[1] \in {d[1] : d \in cs}
  <2>1. hostPort'[c[1]] = NoPort
    BY <1>1, <1>2 DEF Disconnect, RemoveHandlers
  <2>2. ~Owned(c)'
    BY <2>1, <1>1, ConstantsAssumption DEF Owned, Own
  <2> QED
    BY <2>2 DEF Loses
<1>3. CASE c[1] \notin {d[1] : d \in cs}
  <2>1. /\ hostPort'[c[1]] = hostPort[c[1]]
        /\ m_requests'[c[1]] = m_requests[c[1]]
        /\ m_commandCounter'[c[1]] = m_commandCounter[c[1]]
    BY <1>1, <1>3 DEF Disconnect, RemoveHandlers
  <2> QED
    BY <2>1 DEF Loses, Owned, Own, Queue, Counter
<1> QED
  BY <1>2, <1>3

\* Lists and checks queue one document, or none if the list is empty.
LEMMA EnqueueMoves ==
  ASSUME TypeOK, NEW ips \in SUBSET Ips, NEW n \in Nat, Enqueue(ips, n), NEW c \in Conns
  PROVE  Moves(c)
<1>1. c[1] \in Ips
  BY ConnParts
<1>2. UNCHANGED <<hostPort, down, ranTo>>
  BY DEF Enqueue, netVars, histVars
<1>3. CASE c[1] \in ips /\ n > 0 /\ Owned(c)
  <2>1. /\ m_requests'[c[1]] = Append(m_requests[c[1]], m_commandCounter[c[1]])
        /\ m_commandCounter'[c[1]] = m_commandCounter[c[1]] + n
        /\ m_commandCounter[c[1]] \in Nat
    BY <1>1, <1>3 DEF Enqueue, Queued, TypeOK
  <2>2. m_commandCounter[c[1]] < m_commandCounter'[c[1]]
    BY <2>1, <1>3
  <2> QED
    BY <2>1, <2>2, <1>2, <1>3 DEF Moves, Queues, Owned, Own, Queue, Counter
<1>4. CASE c[1] \notin ips \/ ~(n > 0)
  <2>1. /\ m_requests'[c[1]] = m_requests[c[1]]
        /\ m_commandCounter'[c[1]] = m_commandCounter[c[1]]
    BY <1>1, <1>4 DEF Enqueue, TypeOK
  <2> QED
    BY <2>1, <1>2 DEF Moves, Loses, Owned, Own, Queue, Counter
<1>5. CASE ~Owned(c)
  BY <1>5, <1>2 DEF Moves, Loses, Owned, Own
<1> QED
  BY <1>3, <1>4, <1>5

\* Every step does one of these to every connection.
LEMMA StepMoves ==
  ASSUME TypeOK, OwnerInv, [Next]_vars, NEW c \in Conns
  PROVE  Moves(c)
<1>0. c[1] \in Ips /\ c[2] \in Ports /\ c = <<c[1], c[2]>>
  BY ConnParts
<1>1. CASE stopListenSlot
  <2>1. PICK atOnce \in SUBSET WsClientSockets : Disconnect(atOnce)
    BY <1>1 DEF stopListenSlot
  <2>2. UNCHANGED <<down, ranTo>> /\ atOnce \in SUBSET Conns
    BY <1>1 DEF stopListenSlot, TypeOK
  <2> QED
    BY <2>1, <2>2, DisconnectLoses DEF Moves
<1>2. ASSUME NEW d \in Conns, disconnectedSlot(d)
      PROVE  Moves(c)
  BY <1>2, DisconnectLoses DEF disconnectedSlot, Moves
<1>3. CASE checkConnectionTimerTickSlot
  BY <1>3, EnqueueMoves DEF checkConnectionTimerTickSlot
<1>4. ASSUME NEW ip \in Ips, NEW n \in ListSizes, appendRequestListSlot(ip, n)
      PROVE  Moves(c)
  <2>1. n \in Nat
    BY ConstantsAssumption
  <2> QED
    BY <1>4, <2>1, EnqueueMoves DEF appendRequestListSlot
<1>5. ASSUME NEW ip \in Ips, clearQueueSlot(ip)
      PROVE  Moves(c)
  BY <1>5, <1>0 DEF clearQueueSlot, TypeOK, netVars, histVars, Moves, Loses, Owned, Own,
                    Queue, Counter
<1>6. ASSUME NEW ip \in Ips, checkQueueTimerSlot(ip)
      PROVE  Moves(c)
  <2>1. /\ UNCHANGED <<hostPort, m_commandCounter, ranTo>>
        /\ m_requests[ip] # <<>>
        /\ m_requests' = [m_requests EXCEPT ![ip] = Tail(m_requests[ip])]
        /\ down' \in {down, [down EXCEPT ![Own(ip)] = Append(@, Head(m_requests[ip]))]}
    BY <1>6 DEF checkQueueTimerSlot, ReadyToSend, Dequeued, sendMessageSlot, histVars
  <2>2. CASE c[1] = ip /\ Owned(c)
    <3>1. /\ m_requests'[c[1]] = Tail(m_requests[c[1]])
          /\ down'[c] \in {down[c], Append(down[c], Head(m_requests[c[1]]))}
      BY <2>1, <2>2, <1>0 DEF Owned, TypeOK
    <3> QED
      BY <3>1, <2>1, <2>2 DEF Moves, Sends, Owned, Own, Queue, Counter
  <2>3. CASE ~(c[1] = ip /\ Owned(c))
    <3>1. down'[c] = down[c]
      BY <2>1, <2>3, <1>0 DEF Owned, Own, TypeOK
    <3>2. Owned(c) => m_requests'[c[1]] = m_requests[c[1]]
      BY <2>1, <2>3, <1>0 DEF TypeOK
    <3> QED
      BY <3>1, <3>2, <2>1 DEF Moves, Loses, Owned, Own, Queue, Counter
  <2> QED
    BY <2>2, <2>3
<1>7. ASSUME NEW d \in Conns, newConnectionSlot(d)
      PROVE  Moves(c)
  <2>1. d[1] \in Ips /\ d[2] \in Ports /\ d = <<d[1], d[2]>>
    BY ConnParts
  <2>2. /\ down' = [down EXCEPT ![d] = <<>>]
        /\ ranTo' = [ranTo EXCEPT ![d] = -1]
        /\ clientConnectedSlot(d)
    BY <1>7 DEF newConnectionSlot
  <2>3. Handled(d[1]) => Own(d[1]) # d
    BY <1>7, <2>1 DEF newConnectionSlot, Accepts, OwnerInv, HandlerHasSocket, Overlaps
  <2>4. CASE Handled(d[1])
    <3>1. UNCHANGED <<hostPort, m_requests, m_commandCounter>>
      BY <2>2, <2>4 DEF clientConnectedSlot, handlerVars
    <3>2. CASE c = d
      <4>1. ~Owned(c)'
        BY <2>3, <2>4, <3>1, <3>2 DEF Owned, Own
      <4> QED
        BY <4>1, <3>2, <2>2 DEF TypeOK, Moves, Opens
    <3>3. CASE c # d
      <4>1. down'[c] = down[c] /\ ranTo'[c] = ranTo[c]
        BY <3>3, <2>2 DEF TypeOK
      <4> QED
        BY <3>1, <4>1 DEF Moves, Loses, Owned, Own, Queue, Counter
    <3> QED
      BY <3>2, <3>3
  <2>5. CASE ~Handled(d[1])
    <3>1. NewHandler(d[1], d[2])
      BY <2>2, <2>5 DEF clientConnectedSlot
    <3>2. CASE c = d
      <4>1. m_requests'[c[1]] = <<>>
        BY <3>1, <3>2, <1>0 DEF NewHandler, TypeOK
      <4> QED
        BY <4>1, <3>2, <2>2 DEF TypeOK, Moves, Opens, Queue
    <3>3. CASE c # d /\ c[1] = d[1]
      <4>1. down'[c] = down[c] /\ ranTo'[c] = ranTo[c]
        BY <3>3, <2>2 DEF TypeOK
      <4>2. hostPort'[c[1]] = d[2]
        BY <3>1, <3>3, <1>0 DEF NewHandler, TypeOK
      <4>3. ~Owned(c)'
        BY <4>2, <3>3, <1>0, <2>1 DEF Owned, Own
      <4> QED
        BY <4>1, <4>3 DEF Moves, Loses
    <3>4. CASE c[1] # d[1]
      <4>1. down'[c] = down[c] /\ ranTo'[c] = ranTo[c]
        BY <3>4, <2>2 DEF TypeOK
      <4>2. /\ hostPort'[c[1]] = hostPort[c[1]]
            /\ m_requests'[c[1]] = m_requests[c[1]]
            /\ m_commandCounter'[c[1]] = m_commandCounter[c[1]]
        BY <3>1, <3>4, <1>0 DEF NewHandler, TypeOK
      <4> QED
        BY <4>1, <4>2 DEF Moves, Loses, Owned, Own, Queue, Counter
    <3> QED
      BY <3>2, <3>3, <3>4
  <2> QED
    BY <2>4, <2>5
<1>8. ASSUME NEW ip \in Ips, clientDisconnected(ip)
      PROVE  Moves(c)
  BY <1>8 DEF clientDisconnected, handlerVars, histVars, Moves, Loses, Owned, Own, Queue,
              Counter
<1>9. ASSUME NEW d \in Conns, handleClient(d)
      PROVE  Moves(c)
  <2>1. /\ UNCHANGED handlerVars
        /\ down[d] # <<>>
        /\ down' = [down EXCEPT ![d] = Tail(down[d])]
        /\ ranTo' = [ranTo EXCEPT ![d] = Head(down[d])]
    BY <1>9 DEF handleClient
  <2>2. CASE c = d
    <3>1. down'[c] = Tail(down[c]) /\ ranTo'[c] = Head(down[c])
      BY <2>1, <2>2 DEF TypeOK
    <3> QED
      BY <3>1, <2>1, <2>2 DEF handlerVars, Moves, Runs, Owned, Own, Queue, Counter
  <2>3. CASE c # d
    <3>1. down'[c] = down[c] /\ ranTo'[c] = ranTo[c]
      BY <2>1, <2>3 DEF TypeOK
    <3> QED
      BY <3>1, <2>1 DEF handlerVars, Moves, Loses, Owned, Own, Queue, Counter
  <2> QED
    BY <2>2, <2>3
<1>10. CASE UNCHANGED <<hostPort, m_requests, m_commandCounter, down, ranTo>>
  BY <1>10 DEF Moves, Loses, Owned, Own, Queue, Counter
<1> QED
  BY <1>1, <1>2, <1>3, <1>4, <1>5, <1>6, <1>7, <1>8, <1>9, <1>10
  DEF Next, startListenSlot, ticketTimeoutSlot, receiveMessageSlot, connectSocketSlot,
      vars, handlerVars, netVars, histVars

-----------------------------------------------------------------------------
(* The order is kept.  InOrder is strengthened by what it says of an empty   *)
(* queue: the next id is later than all that was sent.                       *)

Order(c) ==
  /\ Ascending(down[c])
  /\ \A d \in Elements(down[c]) : ranTo[c] < d
  /\ Owned(c) =>
       /\ Ascending(Queue(c))
       /\ ranTo[c] < Counter(c)
       /\ \A d \in Elements(down[c]) : d < Counter(c)
       /\ \A q \in Elements(Queue(c)) :
            /\ ranTo[c] < q /\ q < Counter(c)
            /\ \A d \in Elements(down[c]) : d < q

\* The types of what a connection's steps change.
Typed(c) ==
  /\ down[c] \in Seq(Nat)
  /\ Queue(c) \in Seq(Nat)
  /\ Counter(c) \in Nat
  /\ ranTo[c] \in Nat \cup {-1}

\* The types of one connection and of the handler of its address, now and after a step.
LEMMA ConnTyped == TypeOK => \A c \in Conns : Typed(c)
BY ConnParts DEF TypeOK, Typed, Queue, Counter

LEMMA ConnTypedNext == ASSUME TypeOK' PROVE \A c \in Conns : Typed(c)'
BY ConnParts DEF TypeOK, Typed, Queue, Counter

\* Whatever a step does to a connection, its requests stay in order.
LEMMA MovesInOrder ==
  ASSUME NEW c \in Conns, Typed(c), Typed(c)', Order(c), Moves(c)
  PROVE  Order(c)'
<1>1. CASE Loses(c)
  BY <1>1, EmptySequence DEF Loses, Order
<1>2. CASE Queues(c)
  <2>1. /\ Elements(Queue(c)') = Elements(Queue(c)) \cup {Counter(c)}
        /\ Ascending(Queue(c)')
    BY <1>2, AppendAscending DEF Queues, Order, Typed
  <2>2. Elements(Queue(c)) \subseteq Nat /\ Elements(down[c]) \subseteq Nat
    BY ElementsNat DEF Typed
  <2> QED
    BY <1>2, <2>1, <2>2 DEF Queues, Order, Typed
<1>3. CASE Sends(c)
  <2>1. /\ Elements(Queue(c)) = {Head(Queue(c))} \cup Elements(Queue(c)')
        /\ Head(Queue(c)) \in Nat
        /\ Ascending(Queue(c)')
        /\ \A e \in Elements(Queue(c)') : Head(Queue(c)) < e
    BY <1>3, TailAscending DEF Sends, Order, Typed
  <2>2. CASE down'[c] = down[c]
    BY <1>3, <2>1, <2>2 DEF Sends, Order
  <2>3. CASE down'[c] = Append(down[c], Head(Queue(c)))
    <3>1. /\ Elements(down'[c]) = Elements(down[c]) \cup {Head(Queue(c))}
          /\ Ascending(down'[c])
      BY <1>3, <2>1, <2>3, AppendAscending DEF Sends, Order, Typed
    <3> QED
      BY <1>3, <2>1, <3>1 DEF Sends, Order
  <2> QED
    BY <1>3, <2>2, <2>3 DEF Sends
<1>4. CASE Runs(c)
  <2>1. /\ Elements(down[c]) = {ranTo'[c]} \cup Elements(down'[c])
        /\ Ascending(down'[c])
        /\ \A e \in Elements(down'[c]) : ranTo'[c] < e
    BY <1>4, TailAscending DEF Runs, Order, Typed
  <2> QED
    BY <1>4, <2>1 DEF Runs, Order
<1>5. CASE Opens(c)
  BY <1>5, EmptySequence DEF Opens, Order, Typed
<1> QED
  BY <1>1, <1>2, <1>3, <1>4, <1>5 DEF Moves

OrderInv == \A c \in Conns : Order(c)

\* The order is inductive; OwnerInv keeps a new connection from being its handler's.
LEMMA OrderStep ==
  ASSUME TypeOK, OwnerInv, OrderInv, [Next]_vars PROVE OrderInv'
<1>1. TypeOK'
  BY TypeStep
<1>2. ASSUME NEW c \in Conns PROVE Order(c)'
  <2>1. Typed(c) /\ Typed(c)'
    BY <1>1, ConnTyped, ConnTypedNext
  <2> QED
    BY <2>1, StepMoves, MovesInOrder DEF OrderInv
<1> QED
  BY <1>2 DEF OrderInv

LEMMA InitInv == Init => OwnerInv /\ OrderInv
<1> SUFFICES ASSUME Init PROVE OwnerInv /\ OrderInv
  OBVIOUS
<1>1. OwnerInv
  BY DEF Init, OwnerInv, HandlerHasSocket, Handled, Overlaps, OwnHandler
<1>2. ASSUME NEW c \in Conns PROVE Order(c)
  <2>1. down[c] = <<>> /\ ~Owned(c)
    BY ConnParts, ConstantsAssumption DEF Init, Owned, Own
  <2> QED
    BY <2>1, EmptySequence DEF Order
<1> QED
  BY <1>1, <1>2 DEF OrderInv

LEMMA OrderHolds == Spec => [](TypeOK /\ OwnerInv /\ OrderInv)
<1>1. ASSUME TypeOK, OwnerInv, OrderInv, [Next]_vars
      PROVE  OwnerInv' /\ OrderInv'
  BY <1>1, OwnerStep, OrderStep
<1> QED
  BY <1>1, InitInv, TypeCorrect, PTL DEF Spec

\* From the queue of its handler through the connection to the agent, the requests of
\* appendRequestListSlot keep their order.
THEOREM RequestsInOrder == Spec => []InOrder
<1>1. OrderInv => InOrder
  BY DEF OrderInv, Order, InOrder, Owned, Queue, Counter
<1> QED
  BY <1>1, OrderHolds, PTL

-----------------------------------------------------------------------------
(* The refinement.                                                          *)

Transit(c) == Elements(down[c]) \cup (IF Owned(c) THEN Elements(Queue(c)) ELSE {})

AbstractOpen(c)  == Transit(c)' = {} /\ ranTo'[c] = -1
AbstractIssue(c) ==
  \E n \in Transit(c)' :
    /\ \A m \in Transit(c) \cup {ranTo[c]} : m < n
    /\ Transit(c)' = Transit(c) \cup {n}
    /\ ranTo'[c] = ranTo[c]
AbstractLose(c) == Transit(c)' \subseteq Transit(c) /\ ranTo'[c] = ranTo[c]
AbstractRun(c) ==
  /\ ranTo'[c] \in Transit(c)
  /\ ranTo[c] < ranTo'[c]
  /\ Transit(c)' = {m \in Transit(c) : ranTo'[c] < m}

\* Losses lose, queueing issues, sending stutters or loses, running runs.
LEMMA MovesDeliver ==
  ASSUME NEW c \in Conns, Typed(c), Typed(c)', Order(c), Moves(c)
  PROVE  AbstractOpen(c) \/ AbstractIssue(c) \/ AbstractLose(c) \/ AbstractRun(c)
<1>1. CASE Loses(c)
  BY <1>1, EmptySequence DEF Loses, AbstractLose, Transit
<1>2. CASE Queues(c)
  <2>1. Elements(Queue(c)') = Elements(Queue(c)) \cup {Counter(c)}
    BY <1>2, AppendAscending DEF Queues, Typed
  <2>2. \A m \in Transit(c) \cup {ranTo[c]} : m < Counter(c)
    BY <1>2 DEF Queues, Order, Transit
  <2>3. /\ Counter(c) \in Transit(c)'
        /\ Transit(c)' = Transit(c) \cup {Counter(c)}
    BY <1>2, <2>1 DEF Queues, Transit
  <2> QED
    BY <1>2, <2>2, <2>3 DEF Queues, AbstractIssue
<1>3. CASE Sends(c)
  <2>1. /\ Elements(Queue(c)) = {Head(Queue(c))} \cup Elements(Queue(c)')
        /\ Head(Queue(c)) \in Nat
    BY <1>3, TailAscending DEF Sends, Typed
  <2>2. Elements(down'[c]) \subseteq Elements(down[c]) \cup {Head(Queue(c))}
    BY <1>3, <2>1, AppendAscending DEF Sends, Typed
  <2> QED
    BY <1>3, <2>1, <2>2 DEF Sends, AbstractLose, Transit
<1>4. CASE Runs(c)
  <2>1. /\ Elements(down[c]) = {ranTo'[c]} \cup Elements(down'[c])
        /\ \A e \in Elements(down'[c]) : ranTo'[c] < e
        /\ ranTo'[c] \in Nat
    BY <1>4, TailAscending DEF Runs, Order, Typed
  <2>2. /\ ranTo'[c] \in Transit(c)
        /\ ranTo[c] < ranTo'[c]
        /\ ~(ranTo'[c] < ranTo'[c])
    BY <2>1 DEF Order, Transit
  <2>3. Transit(c) = {ranTo'[c]} \cup Transit(c)'
    BY <1>4, <2>1 DEF Runs, Transit
  <2>4. \A e \in Transit(c)' : ranTo'[c] < e
    BY <1>4, <2>1 DEF Runs, Order, Transit
  <2> QED
    BY <2>2, <2>3, <2>4 DEF AbstractRun
<1>5. CASE Opens(c)
  BY <1>5, EmptySequence DEF Opens, AbstractOpen, Transit
<1> QED
  BY <1>1, <1>2, <1>3, <1>4, <1>5 DEF Moves

\* The link implements OrderedDelivery: what VMTDServer is given for a host is run by
\* the agent in order, and nothing twice, over all losses and reconnections.
THEOREM DeliveryInOrder == Spec => DeliveredInOrder
<1>1. Init => Delivery!Init
  <2> SUFFICES ASSUME Init PROVE Delivery!Init
    OBVIOUS
  <2>1. ASSUME NEW c \in Conns PROVE down[c] = <<>> /\ Own(c[1]) # c
    BY ConnParts, ConstantsAssumption DEF Init, Own
  <2> QED
    BY <2>1, EmptySequence DEF Delivery!Init, Init
<1>2. TypeOK /\ TypeOK' /\ OwnerInv /\ OrderInv /\ [Next]_vars => Delivery!Next
  <2> SUFFICES ASSUME TypeOK, TypeOK', OwnerInv, OrderInv, [Next]_vars, NEW c \in Conns
               PROVE  Delivery!Open(c) \/ Delivery!Issue(c) \/ Delivery!Lose(c)
                        \/ Delivery!Run(c)
    BY DEF Delivery!Next
  <2>1. Typed(c) /\ Typed(c)'
    BY ConnTyped, ConnTypedNext
  <2>2. AbstractOpen(c) \/ AbstractIssue(c) \/ AbstractLose(c) \/ AbstractRun(c)
    BY <2>1, StepMoves, MovesDeliver DEF OrderInv
  <2> QED
    BY <2>2 DEF AbstractOpen, AbstractIssue, AbstractLose, AbstractRun, Transit, Owned,
                Queue, Delivery!Open, Delivery!Issue, Delivery!Lose, Delivery!Run
<1>3. Spec => [](TypeOK /\ OwnerInv /\ OrderInv)
  BY OrderHolds
<1> QED
  BY <1>1, <1>2, <1>3, PTL DEF Spec, DeliveredInOrder, Delivery!Spec
=============================================================================
