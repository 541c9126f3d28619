-------------------------- MODULE OrderedDelivery --------------------------
(***************************************************************************)
(* What the server promises the hosts and the switches: on each connection *)
(* numbered documents are issued in ascending order and run in that order, *)
(* each at most once.  Documents may get lost; nothing is said of replies. *)
(***************************************************************************)
EXTENDS Integers

CONSTANT Conns         \* the connections

VARIABLES
  transit,             \* documents issued on a connection and not yet run
  ranTo                \* the last document run on a connection, or -1

Init ==
  /\ transit = [c \in Conns |-> {}]
  /\ ranTo = [c \in Conns |-> -1]

\* A new connection starts from nothing.
Open(c) ==
  /\ transit'[c] = {}
  /\ ranTo'[c] = -1

\* A document later than every other one is issued.
Issue(c) ==
  \E n \in transit'[c] :
    /\ \A m \in transit[c] \cup {ranTo[c]} : m < n
    /\ transit'[c] = transit[c] \cup {n}
    /\ ranTo'[c] = ranTo[c]

\* Documents get lost.
Lose(c) ==
  /\ transit'[c] \subseteq transit[c]
  /\ ranTo'[c] = ranTo[c]

\* A document runs; what was issued before it will not run any more.
Run(c) ==
  /\ ranTo'[c] \in transit[c]
  /\ ranTo[c] < ranTo'[c]
  /\ transit'[c] = {m \in transit[c] : ranTo'[c] < m}

\* One step may concern several connections, each in its own way.
Next == \A c \in Conns : Open(c) \/ Issue(c) \/ Lose(c) \/ Run(c)

Spec == Init /\ [][Next]_<<transit, ranTo>>
=============================================================================
