-------------------------- MODULE NxApiLinkProofs --------------------------
(***************************************************************************)
(* The safety of the link to the switches, for every set of switches and   *)
(* all intervals: types, that no handler waits without a timer, and that   *)
(* the link implements OrderedDelivery towards every switch.               *)
(***************************************************************************)
EXTENDS NxApiLink, TLAPS

USE ConstantsAssumption

\* The inductive invariant of tickets: without a listening server there is no handler,
\* so handlers are always created in their initial state.
WaitInv == WaitHasTimer /\ (~m_isListening => m_nxApiHandlers = {})

-----------------------------------------------------------------------------
(* Types. *)

\* What a request does to the variables it writes.
LEMMA RequestType ==
  ASSUME TypeOK, NEW urls \in SUBSET Urls, Request(urls)
  PROVE  /\ m_queueState' \in [Urls -> {"READY_TO_SEND", "WAIT_FOR_TICKET"}]
         /\ ticketLeft' \in [Urls -> 0..ticketTimeoutInterval \cup {Stopped}]
         /\ unanswered' \subseteq Urls
  BY DEF TypeOK, Request, Stopped

\* A timer with time left stays in its range.
LEMMA RunDownType ==
  ASSUME NEW n \in Nat, NEW left \in 0..n \cup {Stopped}, left # 0
  PROVE  RunDown(left) \in 0..n \cup {Stopped}
  BY DEF RunDown, Stopped

LEMMA TypeStep ==
  ASSUME TypeOK, WaitHasTimer, [Next]_vars PROVE TypeOK'
<1> USE DEF TypeOK
<1>1. CASE startListenSlot
  <2>1. m_isListening' \in BOOLEAN /\ m_nxApiHandlers' \subseteq Urls
    BY <1>1 DEF startListenSlot
  <2>2. UNCHANGED <<m_queue, m_queueState, ticketLeft, queueLeft, checkLeft, urlOnline,
                    unanswered, nextList, clicks, lastPosted>>
    BY <1>1 DEF startListenSlot, handlerVars
  <2> QED
    BY <2>1, <2>2
<1>2. CASE stopListenSlot
  <2>1. m_isListening' \in BOOLEAN /\ m_nxApiHandlers' \subseteq Urls
    BY <1>2 DEF stopListenSlot
  <2>2. /\ m_queue' \in [Urls -> Seq(Nat)]
        /\ m_queueState' \in [Urls -> {"READY_TO_SEND", "WAIT_FOR_TICKET"}]
    BY <1>2 DEF stopListenSlot
  <2>3. /\ ticketLeft' \in [Urls -> 0..ticketTimeoutInterval \cup {Stopped}]
        /\ queueLeft' \in [Urls -> 0..checkQueueInterval]
    BY <1>2 DEF stopListenSlot, Stopped
  <2>4. UNCHANGED <<checkLeft, urlOnline, unanswered, nextList, clicks, lastPosted>>
    BY <1>2 DEF stopListenSlot
  <2> QED
    BY <2>1, <2>2, <2>3, <2>4
<1>3. CASE checkConnectionTimerTickSlot
  <2>1. Request(m_nxApiHandlers)
    BY <1>3 DEF checkConnectionTimerTickSlot
  <2> QED
    BY <1>3, <2>1, RequestType DEF checkConnectionTimerTickSlot
<1>4. ASSUME NEW url \in Urls, appendCommandListSlot(url)
      PROVE  TypeOK'
  <2>1. m_queue' \in [Urls -> Seq(Nat)]
    BY <1>4 DEF appendCommandListSlot, Enqueued
  <2> QED
    BY <1>4, <2>1 DEF appendCommandListSlot
<1>5. ASSUME NEW url \in Urls, checkConnectionSlot(url)
      PROVE  TypeOK'
  <2>1. Request({url})
    BY <1>5 DEF checkConnectionSlot
  <2> QED
    BY <1>5, <2>1, RequestType DEF checkConnectionSlot
<1>6. ASSUME NEW url \in Urls, clearQueueSlot(url)
      PROVE  TypeOK'
  BY <1>6 DEF clearQueueSlot
<1>7. ASSUME NEW url \in Urls, checkQueueTimerSlot(url)
      PROVE  TypeOK'
  <2>1. queueLeft' \in [Urls -> 0..checkQueueInterval]
    BY <1>7 DEF checkQueueTimerSlot
  <2>2. CASE ReadyToSend(url)
    <3>1. /\ Request({url})
          /\ m_queue' = [m_queue EXCEPT ![url] = Dequeued(url)]
          /\ lastPosted' = [lastPosted EXCEPT ![url] = Head(m_queue[url])]
      BY <1>7, <2>2 DEF checkQueueTimerSlot
    <3>2. m_queue[url] \in Seq(Nat) /\ m_queue[url] # <<>>
      BY <2>2 DEF ReadyToSend
    <3>3. Dequeued(url) \in Seq(Nat) /\ Head(m_queue[url]) \in Nat
      BY <3>2 DEF Dequeued
    <3>4. m_queue' \in [Urls -> Seq(Nat)] /\ lastPosted' \in [Urls -> Nat \cup {-1}]
      BY <3>1, <3>3
    <3> QED
      BY <1>7, <2>1, <3>1, <3>4, RequestType DEF checkQueueTimerSlot
  <2>3. CASE ~ReadyToSend(url)
    BY <1>7, <2>1, <2>3 DEF checkQueueTimerSlot
  <2> QED
    BY <2>2, <2>3
<1>8. ASSUME NEW url \in Urls, ticketTimeoutSlot(url)
      PROVE  TypeOK'
  BY <1>8 DEF ticketTimeoutSlot, Stopped
<1>9. ASSUME NEW url \in Urls, NEW isOnline \in BOOLEAN, replyFinishedSlot(url, isOnline)
      PROVE  TypeOK'
  BY <1>9 DEF replyFinishedSlot, Stopped
<1>10. CASE Tick
  <2>1. ticketLeft' \in [Urls -> 0..ticketTimeoutInterval \cup {Stopped}]
    <3>1. ASSUME NEW url \in Urls
          PROVE  RunDown(ticketLeft[url]) \in 0..ticketTimeoutInterval \cup {Stopped}
      <4>1. ticketLeft[url] # 0
        BY <1>10 DEF Tick, WaitHasTimer, Stopped
      <4> QED
        BY <4>1, RunDownType
    <3> QED
      BY <1>10, <3>1 DEF Tick
  <2>2. queueLeft' \in [Urls -> 0..checkQueueInterval]
    BY <1>10 DEF Tick
  <2>3. checkLeft' \in 0..checkConnectionInterval
    BY <1>10 DEF Tick
  <2> QED
    BY <1>10, <2>1, <2>2, <2>3 DEF Tick
<1>11. CASE UNCHANGED vars
  BY <1>11 DEF vars, handlerVars
<1> QED
  BY <1>1, <1>2, <1>3, <1>4, <1>5, <1>6, <1>7, <1>8, <1>9, <1>10, <1>11 DEF Next

-----------------------------------------------------------------------------
(* Tickets and timers. *)

\* The timers of requests that a handler of the server makes are running.
LEMMA RequestWaits ==
  ASSUME TypeOK, WaitHasTimer, NEW urls \in SUBSET m_nxApiHandlers, Request(urls)
  PROVE  \A url \in Urls :
           /\ m_queueState'[url] = "WAIT_FOR_TICKET" => ticketLeft'[url] # Stopped
           /\ url \notin m_nxApiHandlers => ticketLeft'[url] = Stopped
  BY DEF TypeOK, WaitHasTimer, Request, Stopped

LEMMA WaitStep ==
  ASSUME TypeOK, WaitInv, [Next]_vars PROVE WaitInv'
<1> USE DEF TypeOK, WaitHasTimer, WaitInv
<1>1. CASE startListenSlot
  BY <1>1 DEF startListenSlot, handlerVars
<1>2. CASE stopListenSlot
  BY <1>2 DEF stopListenSlot
<1>3. CASE checkConnectionTimerTickSlot
  <2>1. Request(m_nxApiHandlers) /\ UNCHANGED <<m_isListening, m_nxApiHandlers, m_queue>>
    BY <1>3 DEF checkConnectionTimerTickSlot
  <2> QED
    BY <2>1, RequestWaits
<1>4. ASSUME NEW url \in Urls, appendCommandListSlot(url)
      PROVE  WaitInv'
  BY <1>4 DEF appendCommandListSlot
<1>5. ASSUME NEW url \in Urls, checkConnectionSlot(url)
      PROVE  WaitInv'
  <2>1. Request({url}) /\ {url} \subseteq m_nxApiHandlers
        /\ UNCHANGED <<m_isListening, m_nxApiHandlers, m_queue>>
    BY <1>5 DEF checkConnectionSlot
  <2> QED
    BY <2>1, RequestWaits
<1>6. ASSUME NEW url \in Urls, clearQueueSlot(url)
      PROVE  WaitInv'
  BY <1>6 DEF clearQueueSlot
<1>7. ASSUME NEW url \in Urls, checkQueueTimerSlot(url)
      PROVE  WaitInv'
  <2>1. url \in m_nxApiHandlers /\ UNCHANGED <<m_isListening, m_nxApiHandlers>>
    BY <1>7 DEF checkQueueTimerSlot
  <2>2. CASE ReadyToSend(url)
    <3>1. Request({url}) /\ m_queue' = [m_queue EXCEPT ![url] = Dequeued(url)]
      BY <1>7, <2>2 DEF checkQueueTimerSlot
    <3> QED
      BY <2>1, <3>1, RequestWaits
  <2>3. CASE ~ReadyToSend(url)
    BY <1>7, <2>3 DEF checkQueueTimerSlot
  <2> QED
    BY <2>2, <2>3
<1>8. ASSUME NEW url \in Urls, ticketTimeoutSlot(url)
      PROVE  WaitInv'
  BY <1>8 DEF ticketTimeoutSlot
<1>9. ASSUME NEW url \in Urls, NEW isOnline \in BOOLEAN, replyFinishedSlot(url, isOnline)
      PROVE  WaitInv'
  BY <1>9 DEF replyFinishedSlot
<1>10. CASE Tick
  BY <1>10 DEF Tick, RunDown, Stopped
<1>11. CASE UNCHANGED vars
  BY <1>11 DEF vars, handlerVars
<1> QED
  BY <1>1, <1>2, <1>3, <1>4, <1>5, <1>6, <1>7, <1>8, <1>9, <1>10, <1>11 DEF Next

\* Types and tickets hold together: a timer can only be kept in its range while it
\* belongs to a handler, for which time waits.
LEMMA TypedWaits == Spec => [](TypeOK /\ WaitInv)
<1>1. Init => TypeOK
  <2> SUFFICES ASSUME Init PROVE TypeOK
    OBVIOUS
  <2>1. /\ m_isListening \in BOOLEAN /\ m_nxApiHandlers \subseteq Urls
        /\ unanswered \subseteq Urls /\ urlOnline \in [Urls -> BOOLEAN]
        /\ nextList \in Nat /\ clicks \in Nat
    BY DEF Init
  <2>2. /\ m_queue \in [Urls -> Seq(Nat)]
        /\ m_queueState \in [Urls -> {"READY_TO_SEND", "WAIT_FOR_TICKET"}]
    BY DEF Init
  <2>3. /\ ticketLeft \in [Urls -> 0..ticketTimeoutInterval \cup {Stopped}]
        /\ lastPosted \in [Urls -> Nat \cup {-1}]
    BY DEF Init
  <2>4. /\ queueLeft \in [Urls -> 0..checkQueueInterval]
        /\ checkLeft \in 0..checkConnectionInterval
    BY DEF Init
  <2> QED
    BY <2>1, <2>2, <2>3, <2>4 DEF TypeOK
<1>2. Init => WaitInv
  BY DEF Init, WaitInv, WaitHasTimer, Stopped
<1>3. TypeOK /\ WaitInv /\ [Next]_vars => (TypeOK /\ WaitInv)'
  BY TypeStep, WaitStep DEF WaitInv
<1> QED
  BY <1>1, <1>2, <1>3, PTL DEF Spec

\* Every variable keeps its type; in particular no timer runs past its end.
THEOREM TypeCorrect == Spec => []TypeOK
  BY TypedWaits, PTL

\* No handler waits without a running ticket timer, and none of a switch without a
\* handler, whatever the intervals are.
THEOREM WaitTimers == Spec => []WaitHasTimer
  BY TypedWaits, PTL DEF WaitInv
-----------------------------------------------------------------------------
(* The order of the lists.                                                  *)

Ascending(s) == \A i, j \in 1..Len(s) : i < j => s[i] < s[j]

\* A list later than those in the queue at its end.
LEMMA AppendAscending ==
  ASSUME NEW s \in Seq(Nat), NEW n \in Nat
  PROVE  /\ Elements(Append(s, n)) = Elements(s) \cup {n}
         /\ Ascending(s) /\ (\A e \in Elements(s) : e < n) => Ascending(Append(s, n))
<1> DEFINE t == Append(s, n)
<1>1. /\ Len(s) \in Nat /\ Len(t) = Len(s) + 1 /\ t[Len(s) + 1] = n
      /\ \A i \in 1..Len(s) : t[i] = s[i]
  OBVIOUS
<1> HIDE DEF t
<1>2. 1..Len(t) = 1..Len(s) \cup {Len(s) + 1}
  BY <1>1
<1>3. Elements(t) = Elements(s) \cup {n}
  BY <1>1, <1>2 DEF Elements
<1>4. ASSUME Ascending(s), \A e \in Elements(s) : e < n,
             NEW i \in 1..Len(t), NEW j \in 1..Len(t), i < j
      PROVE  t[i] < t[j]
  <2>1. i \in 1..Len(s) /\ t[i] = s[i]
    BY <1>1, <1>4
  <2>2. CASE j \in 1..Len(s)
    BY <2>1, <2>2, <1>1, <1>4 DEF Ascending
  <2>3. CASE j = Len(s) + 1
    BY <2>1, <2>3, <1>1, <1>4 DEF Elements
  <2> QED
    BY <1>2, <2>2, <2>3
<1> QED
  BY <1>3, <1>4 DEF t, Ascending

\* The first list of the queue, and the later ones.
LEMMA TailAscending ==
  ASSUME NEW s \in Seq(Nat), s # <<>>, Ascending(s)
  PROVE  /\ Tail(s) \in Seq(Nat) /\ Ascending(Tail(s))
         /\ Head(s) \in Elements(s)
         /\ Elements(Tail(s)) = {m \in Elements(s) : Head(s) < m}
<1> DEFINE t == Tail(s)
<1>1. /\ Len(s) \in Nat /\ Len(s) >= 1 /\ Len(t) = Len(s) - 1
      /\ Head(s) = s[1] /\ t \in Seq(Nat) /\ s[1] \in Nat
      /\ \A i \in 1..Len(t) : i + 1 \in 1..Len(s) /\ t[i] = s[i + 1]
  OBVIOUS
<1> HIDE DEF t
<1>2. 1 \in 1..Len(s) /\ Head(s) \in Elements(s)
  BY <1>1 DEF Elements
<1>3. ASSUME NEW i \in 1..Len(t), NEW j \in 1..Len(t), i < j
      PROVE  t[i] < t[j]
  <2>1. /\ i + 1 \in 1..Len(s) /\ j + 1 \in 1..Len(s) /\ i + 1 < j + 1
        /\ t[i] = s[i + 1] /\ t[j] = s[j + 1]
    BY <1>1, <1>3
  <2>2. s[i + 1] < s[j + 1]
    BY <2>1 DEF Ascending
  <2> QED
    BY <2>1, <2>2
<1>4. ASSUME NEW i \in 1..Len(t) PROVE t[i] \in Elements(s) /\ Head(s) < t[i]
  <2>1. i + 1 \in 1..Len(s) /\ t[i] = s[i + 1] /\ 1 < i + 1
    BY <1>1
  <2>2. s[1] < s[i + 1]
    BY <2>1, <1>2 DEF Ascending
  <2> QED
    BY <1>1, <2>1, <2>2 DEF Elements
<1>5. ASSUME NEW i \in 1..Len(s), Head(s) < s[i] PROVE s[i] \in Elements(t)
  <2>1. i # 1
    BY <1>1, <1>5
  <2>2. i - 1 \in 1..Len(t) /\ (i - 1) + 1 = i
    BY <2>1, <1>1
  <2>3. t[i - 1] = s[i]
    BY <2>2, <1>1
  <2> QED
    BY <2>2, <2>3 DEF Elements
<1>6. Elements(t) \subseteq {m \in Elements(s) : Head(s) < m}
  BY <1>4 DEF Elements
<1>7. {m \in Elements(s) : Head(s) < m} \subseteq Elements(t)
  BY <1>5 DEF Elements
<1> QED
  BY <1>1, <1>2, <1>3, <1>6, <1>7 DEF t, Ascending

\* What is queued comes after what was posted and before what will be handed out.
QueueInOrder(url) ==
  /\ Ascending(m_queue[url])
  /\ \A d \in Elements(m_queue[url]) : lastPosted[url] < d /\ d < nextList
  /\ lastPosted[url] < nextList

OrderInv == \A url \in Urls : QueueInOrder(url)

\* What a step does to the lists of one switch: its queue stays or gets lost, the
\* next list is queued or dropped, or the first one is posted.
KeepsOrLoses(url) ==
  /\ m_queue'[url] \in {m_queue[url], <<>>}
  /\ UNCHANGED <<lastPosted[url], nextList>>

HandsOut(url) ==
  /\ m_queue'[url] \in {m_queue[url], Append(m_queue[url], nextList)}
  /\ lastPosted'[url] = lastPosted[url]
  /\ nextList' = nextList + 1

Posts(url) ==
  /\ m_queue[url] # <<>>
  /\ m_queue'[url] = Tail(m_queue[url])
  /\ lastPosted'[url] = Head(m_queue[url])
  /\ nextList' = nextList

LEMMA StepOfLists ==
  ASSUME TypeOK, [Next]_vars, NEW url \in Urls
  PROVE  KeepsOrLoses(url) \/ HandsOut(url) \/ Posts(url)
<1>1. CASE stopListenSlot
  BY <1>1 DEF stopListenSlot, KeepsOrLoses
<1>2. ASSUME NEW u \in Urls, appendCommandListSlot(u)
      PROVE  HandsOut(url)
  BY <1>2 DEF appendCommandListSlot, Enqueued, HandsOut, TypeOK
<1>3. ASSUME NEW u \in Urls, clearQueueSlot(u)
      PROVE  KeepsOrLoses(url)
  BY <1>3 DEF clearQueueSlot, KeepsOrLoses, TypeOK
<1>4. ASSUME NEW u \in Urls, checkQueueTimerSlot(u)
      PROVE  KeepsOrLoses(url) \/ Posts(url)
  <2>1. nextList' = nextList
    BY <1>4 DEF checkQueueTimerSlot
  <2>2. CASE ReadyToSend(u)
    <3>1. /\ m_queue[u] # <<>>
          /\ m_queue' = [m_queue EXCEPT ![u] = Tail(m_queue[u])]
          /\ lastPosted' = [lastPosted EXCEPT ![u] = Head(m_queue[u])]
      BY <1>4, <2>2 DEF checkQueueTimerSlot, Dequeued, ReadyToSend
    <3>2. CASE u = url
      BY <2>1, <3>1, <3>2 DEF Posts, TypeOK
    <3>3. CASE u # url
      BY <2>1, <3>1, <3>3 DEF KeepsOrLoses, TypeOK
    <3> QED
      BY <3>2, <3>3
  <2>3. CASE ~ReadyToSend(u)
    BY <1>4, <2>1, <2>3 DEF checkQueueTimerSlot, KeepsOrLoses
  <2> QED
    BY <2>2, <2>3
<1>5. CASE UNCHANGED <<m_queue, lastPosted, nextList>>
  BY <1>5 DEF KeepsOrLoses
<1> QED
  BY <1>1, <1>2, <1>3, <1>4, <1>5
  DEF Next, vars, handlerVars, startListenSlot, checkConnectionTimerTickSlot,
      checkConnectionSlot, ticketTimeoutSlot, replyFinishedSlot, Tick

\* The same on the abstract link to a switch.
Abstract(url) ==
  \/ /\ Elements(m_queue'[url]) \subseteq Elements(m_queue[url])
     /\ lastPosted'[url] = lastPosted[url]
  \/ \E n \in Elements(m_queue'[url]) :
       /\ \A m \in Elements(m_queue[url]) \cup {lastPosted[url]} : m < n
       /\ Elements(m_queue'[url]) = Elements(m_queue[url]) \cup {n}
       /\ lastPosted'[url] = lastPosted[url]
  \/ /\ lastPosted'[url] \in Elements(m_queue[url])
     /\ lastPosted[url] < lastPosted'[url]
     /\ Elements(m_queue'[url]) = {m \in Elements(m_queue[url]) : lastPosted'[url] < m}

\* Each keeps the order and is a step of OrderedDelivery.
LEMMA ListsStayInOrder ==
  ASSUME TypeOK, TypeOK', [Next]_vars, NEW url \in Urls, QueueInOrder(url)
  PROVE  QueueInOrder(url)' /\ Abstract(url)
<1> DEFINE q == m_queue[url]
           r == m_queue'[url]
<1>0. /\ q \in Seq(Nat) /\ nextList \in Nat
      /\ lastPosted[url] \in Nat \cup {-1}
      /\ Elements(<<>>) = {} /\ Ascending(<<>>)
  BY DEF TypeOK, Elements, Ascending
<1>1. CASE KeepsOrLoses(url)
  <2>1. Elements(r) \subseteq Elements(q) /\ Ascending(r)
    BY <1>0, <1>1 DEF KeepsOrLoses, QueueInOrder
  <2> QED
    BY <1>1, <2>1 DEF KeepsOrLoses, QueueInOrder, Abstract
<1>2. CASE HandsOut(url)
  <2>1. \/ r = q
        \/ Elements(r) = Elements(q) \cup {nextList} /\ Ascending(r)
    BY <1>0, <1>2, AppendAscending DEF HandsOut, QueueInOrder
  <2>2. \A d \in Elements(q) : d \in Nat
    BY <1>0 DEF Elements
  <2>3. QueueInOrder(url)'
    BY <1>0, <1>2, <2>1, <2>2 DEF HandsOut, QueueInOrder
  <2>4. Abstract(url)
    BY <1>2, <2>1 DEF HandsOut, QueueInOrder, Abstract
  <2> QED
    BY <2>3, <2>4
<1>3. CASE Posts(url)
  <2>1. /\ Ascending(r) /\ Head(q) \in Elements(q)
        /\ Elements(r) = {m \in Elements(q) : Head(q) < m}
    BY <1>0, <1>3, TailAscending DEF Posts, QueueInOrder
  <2> QED
    BY <1>3, <2>1 DEF Posts, QueueInOrder, Abstract
<1> QED
  BY <1>1, <1>2, <1>3, StepOfLists

\* The link implements OrderedDelivery: the command lists of a switch are posted in
\* the order in which appendCommandListSlot was given them, each at most once, over
\* all clears, timeouts, foreign replies and restarts of the server.
THEOREM ListsPostedInOrder == Spec => PostedInOrder
<1>1. Init => OrderInv /\ Delivery!Init
  BY DEF Init, OrderInv, QueueInOrder, Ascending, Elements, Delivery!Init
<1>2. ASSUME TypeOK, TypeOK', OrderInv, [Next]_vars
      PROVE  OrderInv' /\ Delivery!Next
  <2>1. ASSUME NEW url \in Urls PROVE QueueInOrder(url)' /\ Abstract(url)
    BY <1>2, ListsStayInOrder DEF OrderInv
  <2>2. ASSUME NEW url \in Urls
        PROVE  \/ Delivery!Open(url) \/ Delivery!Issue(url)
               \/ Delivery!Lose(url) \/ Delivery!Run(url)
    <3>1. Abstract(url)
      BY <2>1
    <3> QED
      BY <3>1 DEF Abstract, Delivery!Issue, Delivery!Lose, Delivery!Run
  <2> QED
    BY <2>1, <2>2 DEF OrderInv, Delivery!Next
<1> QED
  BY <1>1, <1>2, TypeCorrect, PTL DEF Spec, PostedInOrder, Delivery!Spec
=============================================================================
