--------------------------- MODULE Reconfiguration ---------------------------
(***************************************************************************)
(* One reconfiguration of the moving network, as VMTDEngine computes it:   *)
(* the hosts that take part are divided into groups, each group gets a     *)
(* VLAN and a network, each host an address in its group's, and a chain of *)
(* gateways, each with a second interface in its predecessor's group, is   *)
(* laid through all groups, with the routes along it.                      *)
(*                                                                         *)
(* An address 100.100.x.y is [net |-> x, octet |-> y]; the MAC address is  *)
(* made of the same two numbers.  Groups are numbered from 1.  What the    *)
(* random generators draw, and the order of the hosts in the table, is a   *)
(* choice.  generate runs in one piece; its steps are actions here because *)
(* each of them chooses.                                                   *)
(***************************************************************************)
EXTENDS Integers, Sequences, FiniteSets, Functions

CONSTANTS
  Hosts,                   \* hosts the device manager may know
  Node1, Node10,           \* the hosts of these names, or no host
  minVlanId, maxVlanId,    \* range of the VLAN ids, 20 and 50 by default
  defaultVlanId,           \* the VLAN of the server and the agents, 19 by default
  MaxOctet,                \* bound: the greatest random octet, 252 in the code
  SettingsChoices          \* settings the operator may choose

Flags == {"shouldCheckOnline", "shouldRandomizeVlan", "shouldRandomizeNetwork",
          "shouldRandomizeGateway"}

ASSUME ConstantsAssumption ==
  /\ IsFiniteSet(Hosts)
  /\ minVlanId \in Nat \ {0} /\ maxVlanId \in Nat /\ MaxOctet \in Nat
  /\ SettingsChoices \subseteq [Flags -> BOOLEAN]

ASSUME DefaultVlanAssumption == defaultVlanId \in Nat

VARIABLES
  phase,          \* how far generate is: idle, built, grouped, ready
  settings,       \* the settings it runs with
  participants,   \* m_participants of the device manager
  m_groups,       \* sequence of groups: their vlan, net and members
  interface1, interface2, routes1, routes2,   \* of each host
  gateways        \* history: the hosts with role GATEWAY

config == <<m_groups, interface1, interface2, routes1, routes2, gateways>>
vars   == <<phase, settings, participants, config>>

NoInterface == [group |-> 0, vlan |-> 0, net |-> 0, octet |-> 0]   \* ~isExist()
AnyNet      == 0          \* 100.100.0.0/16; every other network is a /24
Net17       == 17         \* the networks behind Node-1 and Node-10
Net18       == 18
Elems(s)    == {s[k] : k \in 1..Len(s)}
Address(i)  == [net |-> i.net, octet |-> i.octet]

Init ==
  /\ phase = "idle"
  /\ settings \in SettingsChoices
  /\ participants = {}
  /\ m_groups = <<>>
  /\ interface1 = [h \in Hosts |-> NoInterface]
  /\ interface2 = [h \in Hosts |-> NoInterface]
  /\ routes1 = [h \in Hosts |-> {}]
  /\ routes2 = [h \in Hosts |-> {}]
  /\ gateways = {}

\* A host takes part if it is in the table and, when this is to be checked, its
\* address and its switch have an entry in m_ipOnline and m_urlOnline: the value of
\* the entries is not looked at.
TakesPart(s, registered, known) ==
  {h \in registered : s["shouldCheckOnline"] => h \in known}

\* The participants are built anew, without interfaces.  Fewer than two are not
\* enough for groups.  (The groups of the last time then stay and point to deleted
\* participants; only VMTDEngineForm looks at them, and they are forgotten here.)
buildParticipants ==
  /\ phase \in {"idle", "ready"}
  /\ settings' \in SettingsChoices
  /\ \E registered \in SUBSET Hosts :
     \E known \in IF settings'["shouldCheckOnline"] THEN SUBSET registered ELSE {{}} :
       participants' = TakesPart(settings', registered, known)
  /\ phase' = IF Cardinality(participants') < 2 THEN "idle" ELSE "built"
  /\ m_groups' = <<>>
  /\ interface1' = [h \in Hosts |-> NoInterface]
  /\ interface2' = [h \in Hosts |-> NoInterface]
  /\ routes1' = [h \in Hosts |-> {}]
  /\ routes2' = [h \in Hosts |-> {}]
  /\ gateways' = {}

-----------------------------------------------------------------------------
(* createGroups *)

\* QRandomGenerator::bounded(2, n), which is 2 also for n = 2.
GroupCounts(n) == IF n = 2 THEN {2} ELSE 2..n - 1

\* Variant: the remainder of the division is left out.
SizeWithoutRest(n, count, i) == n \div count

\* The first group takes the remainder.
Size(n, count, i) == n \div count + (IF i = 1 THEN n % count ELSE 0)

\* The members of group i when the hosts are dealt out in this order.
Members(order, count, i) ==
  LET n     == Len(order)
      first == IF i = 1 THEN 1 ELSE 1 + Size(n, count, 1) + (i - 2) * Size(n, count, 2)
  IN  SubSeq(order, first, first + Size(n, count, i) - 1)

\* Variant: ids are drawn without looking at those drawn before.
VlansDrawn(count) ==
  IF settings["shouldRandomizeVlan"] THEN [1..count -> minVlanId..maxVlanId - 1]
  ELSE {[i \in 1..count |-> minVlanId + i - 1]}

Vlans(count) ==
  IF settings["shouldRandomizeVlan"] THEN Injection(1..count, minVlanId..maxVlanId - 1)
  ELSE {[i \in 1..count |-> minVlanId + i - 1]}

Nets(vlans) ==
  IF settings["shouldRandomizeNetwork"] THEN Injection(DOMAIN vlans, 1..MaxOctet)
  ELSE {vlans}

\* The fourth octets of the members of one group: all different.
Octets(members) ==
  IF settings["shouldRandomizeNetwork"]
  THEN {o \in [1..Len(members) -> 1..MaxOctet] : IsInjective(o)}
  ELSE {[k \in 1..Len(members) |-> k]}

\* The groups these choices make, and the interfaces of their members.
SetGroups(order, count, vlans, nets, octets) ==
  LET members(i) == Members(order, count, i)
  IN  /\ m_groups' = [i \in 1..count |->
           [vlan |-> vlans[i], net |-> nets[i], members |-> members(i)]]
      /\ interface1' = [h \in Hosts |->
           IF \E i \in 1..count : h \in Elems(members(i))
           THEN LET i == CHOOSE i \in 1..count : h \in Elems(members(i))
                    k == CHOOSE k \in 1..Len(members(i)) : members(i)[k] = h
                IN  [group |-> i, vlan |-> vlans[i], net |-> nets[i],
                     octet |-> octets[i][k]]
           ELSE NoInterface]

\* Shuffled or in the order of the table, the order of the participants is any.
createGroups ==
  /\ phase = "built"
  /\ \E order \in Bijection(1..Cardinality(participants), participants) :
     \E count \in GroupCounts(Len(order)) :
     \E vlans \in Vlans(count) : \E nets \in Nets(vlans) :
     \E octets \in [1..count -> UNION {Octets(Members(order, count, i)) : i \in 1..count}] :
       /\ \A i \in 1..count : octets[i] \in Octets(Members(order, count, i))
       /\ SetGroups(order, count, vlans, nets, octets)
  /\ phase' = "grouped"
  /\ UNCHANGED <<settings, participants, interface2, routes1, routes2, gateways>>

-----------------------------------------------------------------------------
(* createGateways *)

Group(h) == interface1[h].group

\* The host of a group that may become its gateway.
Candidates(i) ==
  LET members == m_groups[i].members
  IN  IF settings["shouldRandomizeGateway"] THEN Elems(members)
      ELSE {members[IF i = Len(m_groups) THEN Len(members) ELSE 1]}

\* The gateways, one per group, in the order of the groups or shuffled.
Chains ==
  LET count == Len(m_groups)
  IN  {[k \in 1..count |-> pick[order[k]]] :
         pick \in {p \in [1..count -> participants] : \A i \in 1..count : p[i] \in Candidates(i)},
         order \in IF settings["shouldRandomizeGateway"] THEN Bijection(1..count, 1..count)
                   ELSE {[i \in 1..count |-> i]}}

\* Variant: the next free number whatever the settings are, minus the gateway's own.
GuestOctetsOff(i) == {Len(m_groups[i].members)}

\* The fourth octet of the gateway that joins group i from the next group.
GuestOctets(i) ==
  IF settings["shouldRandomizeGateway"]
  THEN 1..MaxOctet \ {interface1[h].octet : h \in Elems(m_groups[i].members)}
  ELSE {Len(m_groups[i].members) + 1}

\* Variant: the far groups are reached through the gateway's own group.
RoutesOnlyNear(chain, k, second) ==
  IF k = Len(chain) THEN {}
  ELSE {[net |-> m_groups[Group(chain[l])].net, via |-> Address(second[chain[k + 1]])] :
          l \in {k + 1}}

\* Routes of the k-th gateway towards the end of the chain, via the second interface
\* of the next gateway, which is in the k-th one's group.
RoutesForward(chain, k, second) ==
  IF k = Len(chain) THEN {}
  ELSE LET via  == Address(second[chain[k + 1]])
           nets == {m_groups[Group(chain[l])].net : l \in k + 1..Len(chain)}
       IN  {[net |-> n, via |-> via] :
              n \in nets \cup (IF chain[k] = Node10 THEN {} ELSE {Net18})}

\* Variant: the route to the network behind Node-10 is laid in this direction, too.
RoutesBothWays(chain, k) ==
  IF k = 1 THEN {}
  ELSE LET via  == Address(interface1[chain[k - 1]])
           nets == {m_groups[Group(chain[l])].net : l \in 1..k - 2}
       IN  {[net |-> n, via |-> via] : n \in nets \cup {Net18}}

\* Routes towards the start of the chain, via the previous gateway; the previous
\* group is not among them, the second interface is in it.
RoutesBack(chain, k) ==
  IF k = 1 THEN {}
  ELSE LET via  == Address(interface1[chain[k - 1]])
           nets == {m_groups[Group(chain[l])].net : l \in 1..k - 2}
       IN  {[net |-> n, via |-> via] :
              n \in nets \cup (IF chain[k] = Node1 THEN {} ELSE {Net17})}

\* A gateway's place in the chain.
Place(chain, h) == CHOOSE k \in 1..Len(chain) : chain[k] = h

\* Each gateway but the first joins the group of the one before it.
SecondInterfaces(chain, octet) ==
  [h \in Hosts |->
     IF h \in Elems(chain) /\ Place(chain, h) # 1
     THEN LET k == Place(chain, h) - 1
              i == Group(chain[k])
          IN  [group |-> i, vlan |-> m_groups[i].vlan, net |-> m_groups[i].net,
               octet |-> octet[k]]
     ELSE NoInterface]

\* The gateway of the group of h has the default route of h.
DefaultRoute(chain, h) ==
  LET gateway == CHOOSE g \in Elems(chain) : Group(g) = Group(h)
  IN  [net |-> AnyNet, via |-> Address(interface1[gateway])]

createGateways ==
  /\ phase = "grouped"
  /\ \E chain \in Chains : \E octet \in [1..Len(m_groups) - 1 -> 1..MaxOctet] :
     LET second == SecondInterfaces(chain, octet)
     IN  /\ \A k \in 1..Len(chain) - 1 : octet[k] \in GuestOctets(Group(chain[k]))
         /\ gateways' = Elems(chain)
         /\ interface2' = second
         /\ routes1' = [h \in Hosts |->
              IF h \in Elems(chain) THEN RoutesForward(chain, Place(chain, h), second)
              ELSE IF h \in participants THEN {DefaultRoute(chain, h)}
              ELSE {}]
         /\ routes2' = [h \in Hosts |->
              IF h \in Elems(chain) THEN RoutesBack(chain, Place(chain, h)) ELSE {}]
  /\ phase' = "ready"
  /\ UNCHANGED <<settings, participants, m_groups, interface1>>

Next ==
  \/ buildParticipants
  \/ createGroups
  \/ createGateways

Spec == Init /\ [][Next]_vars

-----------------------------------------------------------------------------
(* What run sends: requests to the hosts, command lists to their switches.  It *)
(* changes nothing, and may be called any time after generate.                 *)

SecondSetUp(h) == h \in gateways /\ interface2[h] # NoInterface

\* The interfaces a host is told to set up, with their routes.
buildRequests(h) ==
  {[at |-> interface1[h], routes |-> routes1[h]]} \cup
  (IF SecondSetUp(h) THEN {[at |-> interface2[h], routes |-> routes2[h]]} ELSE {})

\* The VLANs that every port lets through: the default one, and those of the
\* networks behind Node-1 and Node-10.  The ids of groups may be among them: the
\* settings do not keep the range apart, and ids counted up may leave it.
ServiceVlans == {defaultVlanId, 17, 18}

\* The VLANs its switch port is told to let through.
buildCommands(h) ==
  ServiceVlans \cup {interface1[h].vlan}
    \cup (IF SecondSetUp(h) THEN {interface2[h].vlan} ELSE {})

-----------------------------------------------------------------------------
(* How the network that results forwards a packet to an address. *)

Interfaces(h) == {r.at : r \in {q \in buildRequests(h) : q.at.vlan \in buildCommands(h)}}
Routes(h)     == UNION {r.routes : r \in buildRequests(h)}

\* The hosts that answer to an address on a VLAN.
Answer(vlan, a) == {h \in participants : \E i \in Interfaces(h) : i.vlan = vlan /\ Address(i) = a}

\* The address a host hands a packet for a to: a itself if it is on one of its
\* networks, else the gateway of the route to its network, else the default one.
Vias(h, a) ==
  LET exact == {r.via : r \in {q \in Routes(h) : q.net = a.net}}
  IN  IF \E i \in Interfaces(h) : i.net = a.net THEN {a}
      ELSE IF exact # {} THEN exact
      ELSE {r.via : r \in {q \in Routes(h) : q.net = AnyNet}}

Hops(h, a) ==
  IF \E i \in Interfaces(h) : Address(i) = a THEN {h}
  ELSE UNION {IF i.net = v.net THEN Answer(i.vlan, v) ELSE {} :
                i \in Interfaces(h), v \in Vias(h, a)}

\* The hosts a packet from h for address a can be at after as many hops as there are
\* hosts: where it has been delivered, or still goes round; none if it is lost.
Journey(h, a) ==
  LET at[k \in 0..Cardinality(participants)] ==
        IF k = 0 THEN {h} ELSE UNION {Hops(p, a) : p \in at[k - 1]}
  IN  at[Cardinality(participants)]

-----------------------------------------------------------------------------
(* Properties. *)

TypeOK ==
  /\ phase \in {"idle", "built", "grouped", "ready"}
  /\ settings \in SettingsChoices
  /\ participants \subseteq Hosts
  /\ gateways \subseteq participants
  /\ \A h \in Hosts : h \in participants /\ phase \in {"grouped", "ready"} <=>
                        interface1[h].group \in 1..Len(m_groups)

\* Every participant reaches every other one at its new address, whatever groups,
\* gateways and chain were drawn: over the VLANs the switch ports let through, and
\* along default routes, chain routes and second interfaces, without a loop.
FullMesh ==
  phase = "ready" =>
    \A p, q \in participants : Journey(p, Address(interface1[q])) = {q}

\* A packet for the networks behind Node-1 and Node-10 leaves the groups or is
\* dropped at the end of the chain: the extra routes never send it round.
NoLoops ==
  phase = "ready" =>
    \A p \in participants : \A n \in {Net17, Net18} :
      Journey(p, [net |-> n, octet |-> 1]) = {}

\* The groups are separated: every participant is in exactly one group of its own
\* VLAN and network; the port of a host lets one VLAN through besides those all ports
\* do, only a gateway's may do two; and the VLAN of a group reaches the port of at most
\* one host of the other groups, a gateway's, unless it is one of those open to all.
Segmented ==
  phase = "ready" =>
    /\ \A i, j \in 1..Len(m_groups) :
         i # j => /\ m_groups[i].vlan # m_groups[j].vlan
                  /\ m_groups[i].net # m_groups[j].net
                  /\ Elems(m_groups[i].members) \cap Elems(m_groups[j].members) = {}
    /\ participants = UNION {Elems(m_groups[i].members) : i \in 1..Len(m_groups)}
    /\ \A h \in participants \ gateways :
         buildCommands(h) = ServiceVlans \cup {m_groups[Group(h)].vlan}
    /\ \A i \in 1..Len(m_groups) :
         m_groups[i].vlan \notin ServiceVlans =>
           LET others == {h \in participants :
                            Group(h) # i /\ m_groups[i].vlan \in buildCommands(h)}
           IN  Cardinality(others) <= 1 /\ others \subseteq gateways

\* Group addresses are drawn until they are free: no two interfaces of a network
\* have the same address.
UniqueAddresses ==
  phase = "ready" =>
    \A p, q \in participants : \A i \in Interfaces(p), j \in Interfaces(q) :
      Address(i) = Address(j) => p = q /\ i = j
=============================================================================
