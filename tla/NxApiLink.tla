----------------------------- MODULE NxApiLink -----------------------------
(***************************************************************************)
(* The link between the reconfiguration server and the switches:           *)
(* VMTDNxApiServer with an adapter per switch, the one                     *)
(* QNetworkAccessManager all adapters share, and the handlers VMTDServer   *)
(* keeps for them.                                                         *)
(*                                                                         *)
(* The three timers of a handler interfere, so time is explicit: a tick is *)
(* some unit all intervals are multiples of.  A timer that has run down    *)
(* fires before time goes on; timers that run down together fire in any    *)
(* order.  The network answers when it likes, or not at all.               *)
(*                                                                         *)
(* A command list is a number: lists are numbered as the engine hands them *)
(* out.  Two switches with one url share a handler, so a switch is its url.*)
(***************************************************************************)
EXTENDS Integers, Sequences, FiniteSets

CONSTANTS
  Urls,                     \* urls of switches, as in the table of the device manager
  shouldCheckConnection,    \* the server checks all connections periodically
  checkConnectionInterval, checkQueueInterval, ticketTimeoutInterval,   \* in ticks
  MaxLists,                 \* bound: command lists the engine hands out
  MaxClicks                 \* bound: connections checked by the operator

ASSUME ConstantsAssumption ==
  /\ shouldCheckConnection \in BOOLEAN
  /\ checkConnectionInterval \in Nat \ {0}
  /\ checkQueueInterval \in Nat \ {0}
  /\ ticketTimeoutInterval \in Nat \ {0}
  /\ MaxLists \in Nat /\ MaxClicks \in Nat

VARIABLES
  m_isListening,        \* startListenSlot was called, stopListenSlot not yet
  m_nxApiHandlers,      \* the urls that have an adapter, and with it a handler
  m_queue,              \* the command lists a handler has not posted yet
  m_queueState,         \* READY_TO_SEND or WAIT_FOR_TICKET
  ticketLeft,           \* ticks until m_ticketTimeoutTimer fires, or Stopped
  queueLeft,            \* ticks until m_checkQueueTimer fires
  checkLeft,            \* ticks until the server's m_checkConnectionTimer fires
  urlOnline,            \* last value sent by updateUrlOnlineSignal, FALSE before
  unanswered,           \* switches some request to which has not finished
  nextList, clicks,     \* the next list's number; clicks so far
  lastPosted            \* history: the last list posted to a switch, or -1

handlerVars == <<m_queue, m_queueState, ticketLeft, queueLeft>>
vars == <<m_isListening, m_nxApiHandlers, handlerVars, checkLeft, urlOnline,
          unanswered, nextList, clicks, lastPosted>>

Stopped == -1

Init ==
  /\ m_isListening = FALSE
  /\ m_nxApiHandlers = {}
  /\ m_queue = [url \in Urls |-> <<>>]
  /\ m_queueState = [url \in Urls |-> "READY_TO_SEND"]
  /\ ticketLeft = [url \in Urls |-> Stopped]
  /\ queueLeft = [url \in Urls |-> checkQueueInterval]
  /\ checkLeft = checkConnectionInterval
  /\ urlOnline = [url \in Urls |-> FALSE]
  /\ unanswered = {}
  /\ nextList = 0 /\ clicks = 0
  /\ lastPosted = [url \in Urls |-> -1]

-----------------------------------------------------------------------------
(* VMTDNxApiServer: adapters come and go together, each with its handler. *)

\* The table of switches may have changed since the last call.
startListenSlot ==
  /\ ~m_isListening
  /\ m_isListening' = TRUE
  /\ m_nxApiHandlers' \in SUBSET Urls
  /\ UNCHANGED <<handlerVars, checkLeft, urlOnline, unanswered, nextList, clicks,
                 lastPosted>>

\* Requests that are under way are not aborted.
stopListenSlot ==
  /\ m_isListening
  /\ m_isListening' = FALSE
  /\ m_nxApiHandlers' = {}
  /\ m_queue' = [url \in Urls |-> <<>>]
  /\ m_queueState' = [url \in Urls |-> "READY_TO_SEND"]
  /\ ticketLeft' = [url \in Urls |-> Stopped]
  /\ queueLeft' = [url \in Urls |-> checkQueueInterval]
  /\ UNCHANGED <<checkLeft, urlOnline, unanswered, nextList, clicks, lastPosted>>

-----------------------------------------------------------------------------
(* VMTDNxApiProtocolHandler. *)

\* Variant: the newest list first.
EnqueuedInFront(url) == <<nextList>> \o m_queue[url]

Enqueued(url) == Append(m_queue[url], nextList)

\* A list from the engine; without a handler for the url it is dropped.
appendCommandListSlot(url) ==
  /\ nextList < MaxLists
  /\ nextList' = nextList + 1
  /\ m_queue' = IF url \in m_nxApiHandlers
                THEN [m_queue EXCEPT ![url] = Enqueued(url)] ELSE m_queue
  /\ UNCHANGED <<m_isListening, m_nxApiHandlers, m_queueState, ticketLeft, queueLeft,
                 checkLeft, urlOnline, unanswered, clicks, lastPosted>>

\* Variant: the ticket timer is left as it is.
RequestOnly(urls) ==
  /\ m_queueState' = [url \in Urls |->
                        IF url \in urls THEN "WAIT_FOR_TICKET" ELSE m_queueState[url]]
  /\ unanswered' = unanswered \cup urls
  /\ UNCHANGED ticketLeft

\* A request to each of the urls: the handlers wait for a ticket, whatever they did
\* before, and their ticket timers start anew.
Request(urls) ==
  /\ m_queueState' = [url \in Urls |->
                        IF url \in urls THEN "WAIT_FOR_TICKET" ELSE m_queueState[url]]
  /\ unanswered' = unanswered \cup urls
  /\ ticketLeft' = [url \in Urls |->
                      IF url \in urls THEN ticketTimeoutInterval ELSE ticketLeft[url]]

\* The operator checks a connection.
checkConnectionSlot(url) ==
  /\ url \in m_nxApiHandlers
  /\ clicks < MaxClicks
  /\ clicks' = clicks + 1
  /\ Request({url})
  /\ UNCHANGED <<m_isListening, m_nxApiHandlers, m_queue, queueLeft, checkLeft,
                 urlOnline, nextList, lastPosted>>

\* The server checks the connections of all handlers.
checkConnectionTimerTickSlot ==
  /\ shouldCheckConnection
  /\ checkLeft = 0
  /\ checkLeft' = checkConnectionInterval
  /\ Request(m_nxApiHandlers)
  /\ UNCHANGED <<m_isListening, m_nxApiHandlers, m_queue, queueLeft, urlOnline,
                 nextList, clicks, lastPosted>>

\* The operator clears the queue; a ticket is closed, its timer is left running.
clearQueueSlot(url) ==
  /\ url \in m_nxApiHandlers
  /\ m_queueState' = [m_queueState EXCEPT ![url] = "READY_TO_SEND"]
  /\ m_queue' = [m_queue EXCEPT ![url] = <<>>]
  /\ UNCHANGED <<m_isListening, m_nxApiHandlers, ticketLeft, queueLeft, checkLeft,
                 urlOnline, unanswered, nextList, clicks, lastPosted>>

\* Variants: only switches known to be online; the list stays in the queue.
ReadyOnline(url) == m_queue[url] # <<>> /\ m_queueState[url] = "READY_TO_SEND"
                      /\ urlOnline[url]
AsBefore(url)    == m_queue[url]

ReadyToSend(url) == m_queue[url] # <<>> /\ m_queueState[url] = "READY_TO_SEND"
Dequeued(url)    == Tail(m_queue[url])

checkQueueTimerSlot(url) ==
  /\ url \in m_nxApiHandlers
  /\ queueLeft[url] = 0
  /\ queueLeft' = [queueLeft EXCEPT ![url] = checkQueueInterval]
  /\ IF ReadyToSend(url)
     THEN /\ m_queue' = [m_queue EXCEPT ![url] = Dequeued(url)]
          /\ lastPosted' = [lastPosted EXCEPT ![url] = Head(m_queue[url])]
          /\ Request({url})
     ELSE UNCHANGED <<m_queue, lastPosted, m_queueState, unanswered, ticketLeft>>
  /\ UNCHANGED <<m_isListening, m_nxApiHandlers, checkLeft, urlOnline, nextList, clicks>>

\* Variant: the ticket stays open.
timeoutKeepsTicket(url) ==
  /\ ticketLeft[url] = 0
  /\ ticketLeft' = [ticketLeft EXCEPT ![url] = Stopped]
  /\ urlOnline' = [urlOnline EXCEPT ![url] = FALSE]
  /\ UNCHANGED <<m_isListening, m_nxApiHandlers, m_queue, m_queueState, queueLeft,
                 checkLeft, unanswered, nextList, clicks, lastPosted>>

ticketTimeoutSlot(url) ==
  /\ ticketLeft[url] = 0
  /\ ticketLeft' = [ticketLeft EXCEPT ![url] = Stopped]
  /\ m_queueState' = [m_queueState EXCEPT ![url] = "READY_TO_SEND"]
  /\ urlOnline' = [urlOnline EXCEPT ![url] = FALSE]
  /\ UNCHANGED <<m_isListening, m_nxApiHandlers, m_queue, queueLeft, checkLeft,
                 unanswered, nextList, clicks, lastPosted>>

-----------------------------------------------------------------------------
(* VMTDNxApiAdapter. *)

\* A request to a switch finishes, with a reply or an error (isOnline unless the
\* connection was refused).  Every adapter is connected to the shared manager, so
\* every handler that waits takes it for the answer to its own request.
replyFinishedSlot(url, isOnline) ==
  LET waiting == {u \in m_nxApiHandlers : m_queueState[u] = "WAIT_FOR_TICKET"}
  IN  /\ url \in unanswered
      /\ unanswered' \in {unanswered, unanswered \ {url}}   \* more may be under way
      /\ m_queueState' = [u \in Urls |->
                            IF u \in waiting THEN "READY_TO_SEND" ELSE m_queueState[u]]
      /\ ticketLeft' = [u \in Urls |-> IF u \in waiting THEN Stopped ELSE ticketLeft[u]]
      /\ urlOnline' = [u \in Urls |-> IF u \in waiting THEN isOnline ELSE urlOnline[u]]
      /\ UNCHANGED <<m_isListening, m_nxApiHandlers, m_queue, queueLeft, checkLeft,
                     nextList, clicks, lastPosted>>

-----------------------------------------------------------------------------
(* Time. *)

\* Variant: stopped timers run, too.
RunDownAlways(left) == left - 1

\* A running timer with one tick less; a stopped one stays stopped.
RunDown(left) == IF left = Stopped THEN Stopped ELSE left - 1

Tick ==
  /\ \A url \in m_nxApiHandlers : ticketLeft[url] # 0 /\ queueLeft[url] # 0
  /\ shouldCheckConnection => checkLeft # 0
  /\ ticketLeft' = [url \in Urls |-> RunDown(ticketLeft[url])]
  /\ queueLeft' = [url \in Urls |-> IF url \in m_nxApiHandlers THEN queueLeft[url] - 1
                                    ELSE queueLeft[url]]
  /\ checkLeft' = IF shouldCheckConnection THEN checkLeft - 1 ELSE checkLeft
  /\ UNCHANGED <<m_isListening, m_nxApiHandlers, m_queue, m_queueState, urlOnline,
                 unanswered, nextList, clicks, lastPosted>>

Next ==
  \/ startListenSlot
  \/ stopListenSlot
  \/ checkConnectionTimerTickSlot
  \/ \E url \in Urls :
       \/ appendCommandListSlot(url)
       \/ checkConnectionSlot(url)
       \/ clearQueueSlot(url)
       \/ checkQueueTimerSlot(url)
       \/ ticketTimeoutSlot(url)
       \/ \E isOnline \in BOOLEAN : replyFinishedSlot(url, isOnline)
  \/ Tick

Spec == Init /\ [][Next]_vars

\* Time passes and timers that have run down fire.
Fairness ==
  /\ WF_vars(Tick)
  /\ WF_vars(checkConnectionTimerTickSlot)
  /\ \A url \in Urls : /\ WF_vars(checkQueueTimerSlot(url))
                       /\ WF_vars(ticketTimeoutSlot(url))

FairSpec == Spec /\ Fairness

-----------------------------------------------------------------------------
(* Properties. *)

Elements(s) == {s[i] : i \in 1..Len(s)}

TypeOK ==
  /\ m_isListening \in BOOLEAN
  /\ m_nxApiHandlers \subseteq Urls
  /\ m_queue \in [Urls -> Seq(Nat)]
  /\ m_queueState \in [Urls -> {"READY_TO_SEND", "WAIT_FOR_TICKET"}]
  /\ ticketLeft \in [Urls -> 0..ticketTimeoutInterval \cup {Stopped}]
  /\ queueLeft \in [Urls -> 0..checkQueueInterval]
  /\ checkLeft \in 0..checkConnectionInterval
  /\ urlOnline \in [Urls -> BOOLEAN]
  /\ unanswered \subseteq Urls
  /\ nextList \in Nat /\ clicks \in Nat
  /\ lastPosted \in [Urls -> Nat \cup {-1}]

\* A handler that waits for a ticket has its ticket timer running, and only handlers
\* that exist wait: although clears, replies of other switches, checks and restarts
\* of the server all write the queue's state, no path leaves a handler waiting for
\* a reply that nothing bounds.
WaitHasTimer ==
  \A url \in Urls :
    /\ m_queueState[url] = "WAIT_FOR_TICKET" => ticketLeft[url] # Stopped
    /\ url \notin m_nxApiHandlers => ticketLeft[url] = Stopped /\ m_queue[url] = <<>>

\* Towards a switch the link is an ordered delivery without duplicates: command
\* lists are posted in the order in which the engine handed them out, over clears,
\* timeouts and restarts of the server (whose handlers lose their queues).
Delivery == INSTANCE OrderedDelivery WITH
  Conns   <- Urls,
  transit <- [url \in Urls |-> Elements(m_queue[url])],
  ranTo   <- lastPosted

PostedInOrder == Delivery!Spec

\* An interval is set for tickets to time out in: a handler that waits stops waiting.
TicketEnds ==
  \A url \in Urls :
    m_queueState[url] = "WAIT_FOR_TICKET" ~> m_queueState[url] # "WAIT_FOR_TICKET"

\* A list that is queued leaves the queue: it is posted or cleared, also when the
\* switch never answers and connections are being checked meanwhile.
QueueDrains ==
  \A url \in Urls : \A d \in 0..MaxLists - 1 :
    d \in Elements(m_queue[url]) ~> d \notin Elements(m_queue[url])
=============================================================================
