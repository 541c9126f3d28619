------------------------ MODULE ReconfigurationProofs ------------------------
(***************************************************************************)
(* Theorems about Reconfiguration, for any number of hosts and any draw.   *)
(*                                                                         *)
(* The invariant says what the groups are once they have been made         *)
(* (Divided, Addressed) and what the chain of gateways is once it has been *)
(* laid (Chained).  That hosts are divided without rest is arithmetic of   *)
(* the division (Dealt, CutOnce).  That all hosts reach one another is a   *)
(* descent: each hop of a packet leads to its destination, or to a gateway *)
(* nearer to it along the chain, and there are not more gateways than a    *)
(* journey has hops (Descent).                                             *)
(***************************************************************************)
EXTENDS Reconfiguration, FiniteSetTheorems, SequenceTheorems, WellFoundedInduction, TLAPS

-----------------------------------------------------------------------------
(* Induction over the natural numbers, for a set of numbers. *)

Below == {p \in Nat \X Nat : p[1] < p[2]}

LEMMA BelowWellFounded == IsWellFoundedOn(Below, Nat)
BY NatLessThanWellFounded, Zenon DEF OpToRel, Below

LEMMA NaturalNumbers ==
  ASSUME NEW S, 0 \in S, \A n \in Nat : n \in S => n + 1 \in S
  PROVE  Nat \subseteq S
<1> DEFINE T == {n \in Nat : n \notin S}
<1> SUFFICES ASSUME T # {} PROVE FALSE
  OBVIOUS
<1>1. PICK x \in T : \A y \in T : <<y, x>> \notin Below
  <2>1. T \subseteq Nat
    OBVIOUS
  <2> HIDE DEF T
  <2> QED
    BY <2>1, WFMin, BelowWellFounded
<1>2. x \in Nat /\ x # 0 /\ x \notin S
  OBVIOUS
<1>3. x - 1 \in Nat /\ (x - 1) + 1 = x /\ x - 1 < x
  BY <1>2
<1>4. x - 1 \in T
  BY <1>2, <1>3
<1>5. <<x - 1, x>> \in Below
  <2> DEFINE y == x - 1
  <2>1. <<y, x>> \in Nat \X Nat /\ y < x
    BY <1>2, <1>3
  <2>2. <<y, x>>[1] = y /\ <<y, x>>[2] = x
    OBVIOUS
  <2> HIDE DEF y
  <2>3. <<y, x>> \in Below
    BY <2>1, <2>2, Zenon DEF Below
  <2> QED
    BY <2>3 DEF y
<1> QED
  BY <1>1, <1>4, <1>5

-----------------------------------------------------------------------------
(* Dealing out the hosts. *)

\* The number of hosts dealt out before group i and after it.
Before(n, count, i) == IF i = 1 THEN 0 ELSE (n % count) + (i - 1) * (n \div count)
After(n, count, i)  == (n % count) + i * (n \div count)

\* Quotient and remainder.
LEMMA Division ==
  ASSUME NEW n \in Nat, NEW count \in 1..n
  PROVE  /\ n \div count \in Nat \ {0} /\ n % count \in 0..count - 1
         /\ n = count * (n \div count) + (n % count)
OBVIOUS

LEMMA Monotone ==
  ASSUME NEW i \in Nat, NEW j \in Nat, NEW s \in Nat, i <= j
  PROVE  i * s \in Nat /\ j * s \in Nat /\ i * s <= j * s
OBVIOUS

\* Group i gets the hosts after Before up to After, none of the groups is empty, and
\* together they get each host once.
LEMMA Dealt ==
  ASSUME NEW n \in Nat, NEW count \in 1..n
  PROVE  /\ \A i \in 1..count :
              /\ Before(n, count, i) \in Nat /\ After(n, count, i) \in 1..n
              /\ Before(n, count, i) < After(n, count, i)
         /\ \A i, j \in 1..count : i < j => After(n, count, i) <= Before(n, count, j)
         /\ \A k \in 1..n : \E i \in 1..count :
              Before(n, count, i) < k /\ k <= After(n, count, i)
<1> DEFINE s == n \div count
           r == n % count
<1>1. s \in Nat \ {0} /\ r \in 0..count - 1 /\ n = count * s + r
  BY Division
<1>2. \A i : Before(n, count, i) = IF i = 1 THEN 0 ELSE r + (i - 1) * s
  BY DEF Before
<1>3. \A i : After(n, count, i) = r + i * s
  BY DEF After
<1> HIDE DEF s, r
<1>4. \A i \in 1..count : (i - 1) * s \in Nat /\ i * s = (i - 1) * s + s
  BY <1>1
<1>5. \A i \in 1..count :
        /\ Before(n, count, i) \in Nat /\ After(n, count, i) \in 1..n
        /\ Before(n, count, i) < After(n, count, i)
  <2> TAKE i \in 1..count
  <2>1. i * s \in Nat /\ i * s <= count * s /\ count * s \in Nat
    BY <1>1, Monotone
  <2> QED
    BY <2>1, <1>1, <1>2, <1>3, <1>4
<1>6. \A i, j \in 1..count : i < j => After(n, count, i) <= Before(n, count, j)
  <2> SUFFICES ASSUME NEW i \in 1..count, NEW j \in 1..count, i < j
               PROVE  r + i * s <= r + (j - 1) * s
    BY <1>2, <1>3
  <2>1. i * s \in Nat /\ (j - 1) * s \in Nat /\ i * s <= (j - 1) * s
    BY <1>1, Monotone
  <2> QED
    BY <2>1, <1>1
<1>7. \A k \in 1..n : \E i \in 1..count :
        Before(n, count, i) < k /\ k <= After(n, count, i)
  <2> TAKE k \in 1..n
  <2>1. CASE k <= r + s
    <3>1. Before(n, count, 1) = 0 /\ After(n, count, 1) = r + s /\ 1 \in 1..count
      BY <1>1, <1>2, <1>3
    <3> QED
      BY <3>1, <2>1
  <2>2. CASE k > r + s
    <3> DEFINE m == k - 1 - r
               d == m \div s
    <3>1. m \in Nat /\ m >= s
      BY <1>1, <2>2
    <3>2. d \in Nat /\ d * s <= m /\ m < d * s + s
      BY <3>1, <1>1
    <3>3. d >= 1
      BY <3>1, <3>2, <1>1
    <3>4. d < count
      <4> SUFFICES ASSUME count <= d PROVE FALSE
        BY <3>2
      <4>1. count * s <= d * s /\ count * s \in Nat /\ d * s \in Nat
        BY <1>1, <3>2, Monotone
      <4>2. m < n - r
        BY <1>1
      <4> HIDE DEF d, m
      <4> QED
        BY <4>1, <4>2, <3>1, <3>2, <1>1
    <3>5. d + 1 \in 1..count /\ d + 1 # 1
      BY <3>2, <3>3, <3>4
    <3>6. Before(n, count, d + 1) = r + d * s
      BY <1>2, <3>2, <3>5
    <3>7. After(n, count, d + 1) = r + d * s + s
      BY <1>1, <1>3, <3>2
    <3>8. d * s \in Nat
      BY <1>1, <3>2, Monotone
    <3> QED
      BY <3>2, <3>5, <3>6, <3>7, <3>8, <1>1
  <2> QED
    BY <2>1, <2>2, <1>1
<1> QED
  BY <1>5, <1>6, <1>7

\* What group i is of the order.
IsPiece(P, n, order, count, i, piece) ==
  /\ piece \in Seq(P)
  /\ Len(piece) = After(n, count, i) - Before(n, count, i)
  /\ \A k \in 1..Len(piece) : piece[k] = order[Before(n, count, i) + k]

LEMMA MembersAre ==
  ASSUME NEW P, NEW n \in Nat, NEW order \in [1..n -> P], NEW count \in 1..n,
         NEW i \in 1..count
  PROVE  IsPiece(P, n, order, count, i, Members(order, count, i))
<1> DEFINE s == n \div count
           r == n % count
           before == Before(n, count, i)
           after == After(n, count, i)
<1>0. Len(order) = n
  OBVIOUS
<1>1. s \in Nat \ {0} /\ r \in 0..count - 1 /\ n = count * s + r
  BY Division
<1>2. before \in Nat /\ after \in 1..n /\ before < after
  BY Dealt
<1>3. i = 1 => Size(n, count, i) = s + r
  BY DEF Size
<1>4. i # 1 => Size(n, count, i) = s
  BY <1>1 DEF Size
<1>5. Size(n, count, 1) = s + r /\ Size(n, count, 2) = s
  BY <1>1 DEF Size
<1>6. (i - 1) * s = (i - 2) * s + s /\ i * s = (i - 1) * s + s
  BY <1>1
<1>7. (i - 2) * s \in Int /\ (i - 1) * s \in Int
  BY <1>1
<1>8. /\ before = IF i = 1 THEN 0 ELSE r + (i - 1) * s
      /\ after = r + i * s
  BY DEF Before, After
<1>9. Members(order, count, i) =
        SubSeq(order, IF i = 1 THEN 1 ELSE 1 + (s + r) + (i - 2) * s,
               (IF i = 1 THEN 1 ELSE 1 + (s + r) + (i - 2) * s) + Size(n, count, i) - 1)
  BY <1>0, <1>5 DEF Members
<1> HIDE DEF s, r, before, after
<1>10. Members(order, count, i) = SubSeq(order, before + 1, after)
  <2>1. CASE i = 1
    <3>1. Members(order, count, i) = SubSeq(order, 1, 1 + (s + r) - 1)
      BY <2>1, <1>3, <1>9
    <3>2. before = 0 /\ after = r + s
      BY <2>1, <1>1, <1>8
    <3> QED
      BY <3>1, <3>2, <1>1
  <2>2. CASE i # 1
    <3> DEFINE t == (i - 2) * s
    <3>1. Members(order, count, i) = SubSeq(order, 1 + (s + r) + t, 1 + (s + r) + t + s - 1)
      BY <2>2, <1>4, <1>9
    <3>2. t \in Int /\ before = r + t + s /\ after = r + t + s + s
      BY <2>2, <1>1, <1>6, <1>7, <1>8
    <3> HIDE DEF t
    <3>3. 1 + (s + r) + t = before + 1 /\ 1 + (s + r) + t + s - 1 = after
      BY <3>2, <1>1
    <3> QED
      BY <3>1, <3>3
  <2> QED
    BY <2>1, <2>2
<1>11. \A k \in before + 1..after : order[k] \in P
  BY <1>2
<1>12. /\ SubSeq(order, before + 1, after) \in Seq(P)
       /\ Len(SubSeq(order, before + 1, after)) = after - before
       /\ \A k \in 1..after - before :
            SubSeq(order, before + 1, after)[k] = order[before + k]
  <2> DEFINE m == before + 1
  <2>1. m \in Int /\ after \in Int /\ m <= after /\ after - m + 1 = after - before
    BY <1>2
  <2>2. \A k \in 1..after - before : m + k - 1 = before + k
    BY <1>2
  <2>3. \A k \in m..after : order[k] \in P
    BY <1>11
  <2> HIDE DEF m
  <2>4. /\ SubSeq(order, m, after) \in Seq(P)
        /\ Len(SubSeq(order, m, after)) = IF m <= after THEN after - m + 1 ELSE 0
        /\ \A k \in 1..after - m + 1 : SubSeq(order, m, after)[k] = order[m + k - 1]
    BY <2>1, <2>3, SubSeqProperties
  <2> QED
    BY <2>1, <2>2, <2>4 DEF m
<1> QED
  BY <1>10, <1>12 DEF before, after, IsPiece

\* A list of the elements of P,
Lists(P, n, order) ==
  /\ order \in [1..n -> P]
  /\ \A k, l \in 1..n : order[k] = order[l] => k = l
  /\ \A h \in P : \E k \in 1..n : order[k] = h

\* split into intervals,
Splits(n, count, before, after) ==
  /\ before \in [1..count -> Nat] /\ after \in [1..count -> Nat]
  /\ \A i \in 1..count : before[i] < after[i] /\ after[i] <= n
  /\ \A i, j \in 1..count : i < j => after[i] <= before[j]
  /\ \A k \in 1..n : \E i \in 1..count : before[i] < k /\ k <= after[i]

\* and cut there: in no piece, and in no two, an element is twice.
Cuts(order, count, before, after, m, size) ==
  \A i \in 1..count :
    /\ size[i] = after[i] - before[i]
    /\ \A k \in 1..size[i] : m[i][k] = order[before[i] + k]

Once(P, count, m, size) ==
  /\ \A i, j \in 1..count : \A k \in 1..size[i], l \in 1..size[j] :
       m[i][k] = m[j][l] => i = j /\ k = l
  /\ \A h \in P : \E i \in 1..count : \E k \in 1..size[i] : m[i][k] = h

LEMMA CutOnce ==
  ASSUME NEW P, NEW n \in Nat, NEW count \in Nat, NEW order, NEW before, NEW after,
         NEW m, NEW size, Lists(P, n, order), Splits(n, count, before, after),
         Cuts(order, count, before, after, m, size)
  PROVE  Once(P, count, m, size)
<1>1. \A i \in 1..count : before[i] \in Nat /\ after[i] \in Nat /\ before[i] < after[i] /\ after[i] <= n
  BY DEF Splits
<1>2. \A i \in 1..count : \A k \in 1..(after[i] - before[i]) : m[i][k] = order[before[i] + k]
  BY <1>1 DEF Cuts
<1>3. \A i \in 1..count : size[i] = after[i] - before[i]
  BY DEF Cuts
<1>4. ASSUME NEW i \in 1..count, NEW j \in 1..count, NEW k \in 1..size[i],
             NEW l \in 1..size[j], m[i][k] = m[j][l]
      PROVE  i = j /\ k = l
  <2> DEFINE b == before[i]
             c == before[j]
             x == after[i]
             y == after[j]
  <2>0. b \in Nat /\ c \in Nat /\ x \in Nat /\ y \in Nat /\ x <= n /\ y <= n
        /\ k \in 1..(x - b) /\ l \in 1..(y - c)
    BY <1>1, <1>3
  <2>1. m[i][k] = order[b + k] /\ m[j][l] = order[c + l]
    BY <1>2, <2>0
  <2>2. (i < j => x <= c) /\ (j < i => y <= b) /\ (i = j => b = c)
    BY DEF Splits
  <2> HIDE DEF b, c, x, y
  <2>3. b + k \in 1..n /\ c + l \in 1..n
    BY <2>0
  <2>4. b + k = c + l
    BY <1>4, <2>1, <2>3 DEF Lists
  <2>5. ~(i < j) /\ ~(j < i)
    BY <2>0, <2>2, <2>4
  <2>6. i = j
    BY <2>5
  <2> QED
    BY <2>0, <2>2, <2>4, <2>6
<1>5. ASSUME NEW h \in P PROVE \E i \in 1..count : \E k \in 1..size[i] : m[i][k] = h
  <2>1. PICK x \in 1..n : order[x] = h
    BY DEF Lists
  <2>2. PICK i \in 1..count : before[i] < x /\ x <= after[i]
    BY DEF Splits
  <2> DEFINE k == x - before[i]
  <2>3. k \in 1..(after[i] - before[i]) /\ before[i] + k = x
    BY <2>2, <1>1
  <2>4. k \in 1..size[i]
    BY <2>3, <1>3
  <2>5. m[i][k] = order[before[i] + k]
    BY <1>2, <2>3
  <2> QED
    BY <2>1, <2>3, <2>4, <2>5
<1> QED
  BY <1>4, <1>5 DEF Once

\* So each host is a member of one group, once.
LEMMA EachOnce ==
  ASSUME NEW P, NEW n \in Nat, NEW order, Lists(P, n, order), NEW count \in 1..n,
         NEW m, NEW size,
         \A i \in 1..count : m[i] = Members(order, count, i) /\ size[i] = Len(m[i])
  PROVE  /\ \A i \in 1..count : m[i] \in Seq(P) /\ size[i] \in Nat \ {0}
         /\ Once(P, count, m, size)
<1> DEFINE before == [i \in 1..count |-> Before(n, count, i)]
           after == [i \in 1..count |-> After(n, count, i)]
<1>0. order \in [1..n -> P]
  BY DEF Lists
<1>1. \A i \in 1..count : IsPiece(P, n, order, count, i, m[i])
  BY <1>0, MembersAre
<1>2. \A i \in 1..count : before[i] = Before(n, count, i) /\ after[i] = After(n, count, i)
  OBVIOUS
<1>3. Splits(n, count, before, after)
  <2>1. \A i \in 1..count :
          /\ before[i] \in Nat /\ after[i] \in Nat
          /\ before[i] < after[i] /\ after[i] <= n
    BY <1>2, Dealt
  <2>2. before \in [1..count -> Nat] /\ after \in [1..count -> Nat]
    BY <1>2, <2>1
  <2> HIDE DEF before, after
  <2>3. \A i, j \in 1..count : i < j => after[i] <= before[j]
    BY <1>2, Dealt
  <2>4. \A k \in 1..n : \E i \in 1..count : before[i] < k /\ k <= after[i]
    BY <1>2, Dealt
  <2> QED
    BY <2>1, <2>2, <2>3, <2>4, Zenon DEF Splits
<1> HIDE DEF before, after
<1>4. Cuts(order, count, before, after, m, size)
  <2> SUFFICES ASSUME NEW i \in 1..count
               PROVE  /\ size[i] = after[i] - before[i]
                      /\ \A k \in 1..size[i] : m[i][k] = order[before[i] + k]
    BY Zenon DEF Cuts
  <2>1. IsPiece(P, n, order, count, i, m[i])
    BY <1>1
  <2>2. /\ Len(m[i]) = after[i] - before[i]
        /\ \A k \in 1..Len(m[i]) : m[i][k] = order[before[i] + k]
    BY <1>2, <2>1, Zenon DEF IsPiece
  <2> QED
    BY <2>2, Zenon
<1>5. \A i \in 1..count : m[i] \in Seq(P)
  BY <1>1 DEF IsPiece
<1>6. \A i \in 1..count : size[i] \in Nat \ {0}
  <2>1. \A i \in 1..count : before[i] \in Nat /\ after[i] \in Nat /\ before[i] < after[i]
    BY <1>3 DEF Splits
  <2>2. \A i \in 1..count : size[i] = after[i] - before[i]
    BY <1>4 DEF Cuts
  <2> QED
    BY <2>1, <2>2
<1>7. Once(P, count, m, size)
  BY <1>3, <1>4, CutOnce
<1> QED
  BY <1>5, <1>6, <1>7

-----------------------------------------------------------------------------
(* What holds once groups have been made. *)

GroupNumbers == 1..Len(m_groups)
GroupRecords == [vlan : Nat \ {0}, net : Nat \ {0}, members : Seq(participants)]

\* The groups divide the participants, and differ in VLAN and network.
Divided ==
  /\ m_groups \in Seq(GroupRecords)
  /\ \A i \in GroupNumbers :
       /\ m_groups[i].members # <<>>
       /\ Elems(m_groups[i].members) = {h \in participants : Group(h) = i}
  /\ \A i, j \in GroupNumbers :
       i # j => m_groups[i].vlan # m_groups[j].vlan /\ m_groups[i].net # m_groups[j].net

\* Each has an interface in its group, and an octet of its own there.
Addressed ==
  /\ \A h \in participants :
       /\ Group(h) \in GroupNumbers
       /\ interface1[h] =
            [group |-> Group(h), vlan |-> m_groups[Group(h)].vlan,
             net |-> m_groups[Group(h)].net, octet |-> interface1[h].octet]
       /\ ~settings["shouldRandomizeNetwork"] =>
            interface1[h].octet \in 1..Len(m_groups[Group(h)].members)
  /\ \A p, q \in participants :
       Group(p) = Group(q) /\ interface1[p].octet = interface1[q].octet => p = q
  /\ \A h \in Hosts \ participants : Group(h) = 0

\* The interface of the k-th member of group i.
LEMMA MemberInterface ==
  ASSUME NEW order, NEW count, NEW vlans, NEW nets, NEW octets, NEW m, NEW size,
         SetGroups(order, count, vlans, nets, octets), participants \subseteq Hosts,
         \A i \in 1..count : m[i] = Members(order, count, i) /\ size[i] = Len(m[i]),
         Once(participants, count, m, size),
         NEW i \in 1..count, NEW k \in 1..size[i], m[i][k] \in participants
  PROVE  interface1'[m[i][k]] =
           [group |-> i, vlan |-> vlans[i], net |-> nets[i], octet |-> octets[i][k]]
<1> DEFINE h == m[i][k]
<1>1. \A j \in 1..count :
        Elems(Members(order, count, j)) = {m[j][l] : l \in 1..size[j]}
  BY Zenon DEF Elems
<1>2. \A j \in 1..count : h \in Elems(Members(order, count, j)) <=> j = i
  <2>1. h \in Elems(Members(order, count, i))
    BY <1>1, Zenon
  <2>2. ASSUME NEW j \in 1..count, h \in Elems(Members(order, count, j))
        PROVE  j = i
    <3>1. PICK l \in 1..size[j] : m[j][l] = h
      BY <1>1, <2>2, Zenon
    <3> QED
      BY <3>1, Zenon DEF Once
  <2> QED
    BY <2>1, <2>2, Zenon
<1>3. \A l \in 1..Len(Members(order, count, i)) : Members(order, count, i)[l] = h <=> l = k
  <2>1. m[i] = Members(order, count, i) /\ size[i] = Len(Members(order, count, i))
    BY Zenon
  <2>2. ASSUME NEW l \in 1..size[i], m[i][l] = h PROVE l = k
    BY <2>2 DEF Once
  <2>3. \A l \in 1..size[i] : m[i][l] = h <=> l = k
    BY <2>2, Zenon
  <2> QED
    BY <2>1, <2>3, Zenon
<1>4. k \in 1..Len(Members(order, count, i))
  BY Zenon
<1> HIDE DEF h
<1>5. (CHOOSE j \in 1..count : h \in Elems(Members(order, count, j))) = i
  BY <1>2
<1>6. (CHOOSE l \in 1..Len(Members(order, count, i)) : Members(order, count, i)[l] = h) = k
  BY <1>3, <1>4
<1>7. h \in Hosts
  BY DEF h
<1>8. interface1'[h] =
        [group |-> i, vlan |-> vlans[i], net |-> nets[i], octet |-> octets[i][k]]
  BY <1>2, <1>5, <1>6, <1>7 DEF SetGroups
<1> QED
  BY <1>8 DEF h

\* The ids and the third octets: one per group, all different.
LEMMA Numbering ==
  ASSUME NEW n \in Nat, NEW count \in 1..n, NEW vlans \in Vlans(count),
         NEW nets \in Nets(vlans)
  PROVE  /\ vlans \in [1..count -> Nat \ {0}] /\ nets \in [1..count -> Nat \ {0}]
         /\ \A i, j \in 1..count : i # j => vlans[i] # vlans[j] /\ nets[i] # nets[j]
<1>1. vlans \in [1..count -> Nat \ {0}] /\ \A i, j \in 1..count : i # j => vlans[i] # vlans[j]
  BY ConstantsAssumption DEF Vlans, Injection, IsInjective
<1>2. nets \in [1..count -> Nat \ {0}] /\ \A i, j \in 1..count : i # j => nets[i] # nets[j]
  BY <1>1, ConstantsAssumption DEF Nets, Injection, IsInjective
<1> QED
  BY <1>1, <1>2

\* The fourth octets of a group.
OctetsOf(size, a) ==
  /\ \A k, l \in 1..size : a[k] = a[l] => k = l
  /\ ~settings["shouldRandomizeNetwork"] => \A k \in 1..size : a[k] \in 1..size

LEMMA OctetsDiffer ==
  ASSUME NEW members \in Seq(participants), NEW a \in Octets(members)
  PROVE  OctetsOf(Len(members), a)
BY DEF Octets, OctetsOf, IsInjective

\* What the choices of createGroups are, and what follows for the pieces of the order.
Choices(n, count, order, vlans, nets, octets) ==
  /\ Lists(participants, n, order)
  /\ vlans \in Vlans(count) /\ nets \in Nets(vlans)
  /\ \A i \in 1..count : octets[i] \in Octets(Members(order, count, i))

LEMMA ChoicesMade ==
  ASSUME participants \subseteq Hosts, createGroups
  PROVE  \E n \in Nat : \E count \in 1..n : \E order, vlans, nets, octets :
           /\ Choices(n, count, order, vlans, nets, octets)
           /\ SetGroups(order, count, vlans, nets, octets)
<1> DEFINE P == participants
           n == Cardinality(P)
<1>1. n \in Nat
  BY ConstantsAssumption, FS_Subset, FS_CardinalityType
<1>2. PICK order \in Bijection(1..n, P) : \E count \in GroupCounts(Len(order)) :
        \E vlans \in Vlans(count) : \E nets \in Nets(vlans) :
        \E octets \in [1..count -> UNION {Octets(Members(order, count, i)) : i \in 1..count}] :
           /\ \A i \in 1..count : octets[i] \in Octets(Members(order, count, i))
           /\ SetGroups(order, count, vlans, nets, octets)
  BY Zenon DEF createGroups
<1>3. Lists(P, n, order)
  BY DEF Bijection, Injection, Surjection, IsInjective, Lists
<1>4. Len(order) = n
  BY <1>1, <1>3 DEF Lists
<1>5. GroupCounts(Len(order)) \subseteq 1..n
  BY <1>1, <1>4 DEF GroupCounts
<1> HIDE DEF n
<1>6. PICK count \in GroupCounts(Len(order)) :
        \E vlans \in Vlans(count) : \E nets \in Nets(vlans) : \E octets :
           /\ \A i \in 1..count : octets[i] \in Octets(Members(order, count, i))
           /\ SetGroups(order, count, vlans, nets, octets)
  BY <1>2, Zenon
<1>7. PICK vlans, nets, octets :
           /\ vlans \in Vlans(count) /\ nets \in Nets(vlans)
           /\ \A i \in 1..count : octets[i] \in Octets(Members(order, count, i))
           /\ SetGroups(order, count, vlans, nets, octets)
  BY <1>6, Zenon
<1>8. Choices(n, count, order, vlans, nets, octets)
  BY <1>3, <1>7, Zenon DEF Choices
<1> QED
  BY <1>1, <1>5, <1>7, <1>8, Zenon

\* The groups in terms of these pieces.
LEMMA GroupsFrom ==
  ASSUME participants \subseteq Hosts, UNCHANGED <<settings, participants>>,
         NEW n \in Nat, NEW count \in 1..n,
         NEW order, NEW vlans, NEW nets, NEW octets,
         Choices(n, count, order, vlans, nets, octets),
         SetGroups(order, count, vlans, nets, octets)
  PROVE  Divided' /\ Addressed'
<1> DEFINE P == participants
<1>4. /\ vlans \in [1..count -> Nat \ {0}] /\ nets \in [1..count -> Nat \ {0}]
      /\ \A i, j \in 1..count : i # j => vlans[i] # vlans[j] /\ nets[i] # nets[j]
  BY Numbering DEF Choices
<1> DEFINE m == [i \in 1..count |-> Members(order, count, i)]
           size == [i \in 1..count |-> Len(Members(order, count, i))]
<1>5. \A i \in 1..count : m[i] = Members(order, count, i) /\ size[i] = Len(m[i])
  OBVIOUS
<1>6. m_groups' = [i \in 1..count |->
                     [vlan |-> vlans[i], net |-> nets[i], members |-> m[i]]]
  BY DEF SetGroups
<1> HIDE DEF m, size
<1>7. /\ \A i \in 1..count : m[i] \in Seq(P) /\ size[i] \in Nat \ {0}
      /\ Once(P, count, m, size)
  <2>1. Lists(P, n, order)
    BY DEF Choices
  <2> QED
    BY <2>1, <1>5, EachOnce
<1>8. ASSUME NEW i \in 1..count PROVE OctetsOf(size[i], octets[i])
  <2>1. m[i] \in Seq(P) /\ octets[i] \in Octets(m[i])
    BY <1>5, <1>7 DEF Choices
  <2> QED
    BY <1>5, <2>1, OctetsDiffer
<1>9. ASSUME NEW i \in 1..count, NEW k \in 1..size[i] PROVE m[i][k] \in P
  <2>1. m[i] \in Seq(P) /\ size[i] = Len(m[i])
    BY <1>5, <1>7
  <2> QED
    BY <2>1
<1>10. ASSUME NEW i \in 1..count, NEW k \in 1..size[i]
       PROVE  interface1'[m[i][k]] =
          [group |-> i, vlan |-> vlans[i], net |-> nets[i], octet |-> octets[i][k]]
  <2>1. Once(P, count, m, size) /\ m[i][k] \in P
    BY <1>7, <1>9
  <2> QED
    BY <1>5, <2>1, MemberInterface
<1>11. \A i \in 1..count : Elems(m[i]) = {m[i][k] : k \in 1..size[i]}
  BY <1>5, Zenon DEF Elems
<1>12. \A i \in 1..count : Elems(m[i]) \subseteq P
  BY <1>9, <1>11
<1>13. ASSUME NEW h \in Hosts \ P PROVE interface1'[h] = NoInterface
  <2>1. \A i \in 1..count : h \notin Elems(Members(order, count, i))
    BY <1>5, <1>12
  <2> QED
    BY <2>1 DEF SetGroups
<1> DEFINE Is(h, i, k) ==
             /\ i \in 1..count /\ k \in 1..size[i] /\ m[i][k] = h
             /\ interface1'[h] =
                  [group |-> i, vlan |-> vlans[i], net |-> nets[i], octet |-> octets[i][k]]
             /\ Group(h)' = i /\ interface1'[h].octet = octets[i][k]
<1>14. ASSUME NEW h \in P PROVE \E i, k : Is(h, i, k)
  <2>1. PICK i \in 1..count : \E k \in 1..size[i] : m[i][k] = h
    BY <1>7, Zenon DEF Once
  <2>2. PICK k \in 1..size[i] : m[i][k] = h
    BY <2>1
  <2>3. interface1'[h] =
          [group |-> i, vlan |-> vlans[i], net |-> nets[i], octet |-> octets[i][k]]
    BY <1>10, <2>2
  <2>4. Group(h)' = i /\ interface1'[h].octet = octets[i][k]
    BY <2>3 DEF Group
  <2> QED
    BY <2>2, <2>3, <2>4, Zenon
<1> HIDE DEF Is
<1>15. /\ Len(m_groups') = count
       /\ \A i \in 1..count : m_groups'[i] =
            [vlan |-> vlans[i], net |-> nets[i], members |-> m[i]]
       /\ m_groups' \in Seq(GroupRecords')
  <2>1. count \in Nat
    OBVIOUS
  <2>2. \A i \in 1..count :
          [vlan |-> vlans[i], net |-> nets[i], members |-> m[i]] \in GroupRecords'
    BY <1>4, <1>7 DEF GroupRecords
  <2>3. m_groups' \in [1..count -> GroupRecords']
    BY <1>6, <2>2
  <2> QED
    BY <1>6, <2>1, <2>3
<1>16. ASSUME NEW h \in P, NEW i \in 1..count
       PROVE  h \in Elems(m[i]) <=> Group(h)' = i
  <2>1. PICK j, k : Is(h, j, k)
    BY <1>14
  <2>2. Group(h)' = j /\ h \in Elems(m[j])
    BY <1>11, <2>1 DEF Is
  <2>3. ASSUME h \in Elems(m[i]) PROVE i = j
    <3>1. PICK l \in 1..size[i] : m[i][l] = h
      BY <1>11, <2>3
    <3> QED
      BY <1>7, <2>1, <3>1 DEF Once, Is
  <2> QED
    BY <2>2, <2>3
<1>17. Divided'
  <2>1. ASSUME NEW i \in 1..count
        PROVE  /\ m_groups'[i].members = m[i] /\ m[i] # <<>>
               /\ Elems(m[i]) = {h \in P : Group(h)' = i}
    <3>1. m[i] # <<>>
      BY <1>5, <1>7
    <3> QED
      BY <1>12, <1>15, <1>16, <3>1
  <2>2. \A i, j \in 1..count : i # j =>
          m_groups'[i].vlan # m_groups'[j].vlan /\ m_groups'[i].net # m_groups'[j].net
    BY <1>4, <1>15
  <2> QED
    BY <1>15, <2>1, <2>2 DEF Divided, GroupNumbers
<1>18. Addressed'
  <2>1. ASSUME NEW h \in P
        PROVE  /\ Group(h)' \in 1..count
               /\ interface1'[h] = [group |-> Group(h)', vlan |-> m_groups'[Group(h)'].vlan,
                    net |-> m_groups'[Group(h)'].net, octet |-> interface1'[h].octet]
               /\ ~settings["shouldRandomizeNetwork"] =>
                    interface1'[h].octet \in 1..Len(m_groups'[Group(h)'].members)
    <3>1. PICK i, k : Is(h, i, k)
      BY <1>14
    <3>2. i \in 1..count /\ k \in 1..size[i]
      BY <3>1 DEF Is
    <3>3. /\ interface1'[h] = [group |-> i, vlan |-> vlans[i], net |-> nets[i],
                               octet |-> octets[i][k]]
          /\ Group(h)' = i /\ interface1'[h].octet = octets[i][k]
      BY <3>1 DEF Is
    <3>4. ~settings["shouldRandomizeNetwork"] => octets[i][k] \in 1..size[i]
      BY <1>8, <3>2 DEF OctetsOf
    <3>5. m_groups'[i].members = m[i] /\ size[i] = Len(m[i])
      BY <1>5, <1>15, <3>2
    <3> QED
      BY <1>15, <3>2, <3>3, <3>4, <3>5
  <2>2. ASSUME NEW p \in P, NEW q \in P, Group(p)' = Group(q)',
               interface1'[p].octet = interface1'[q].octet
        PROVE  p = q
    <3>1. PICK i, k : Is(p, i, k)
      BY <1>14
    <3>2. PICK j, l : Is(q, j, l)
      BY <1>14
    <3>3. i = j /\ octets[i][k] = octets[j][l]
      BY <2>2, <3>1, <3>2 DEF Is
    <3>4. OctetsOf(size[i], octets[i]) /\ k \in 1..size[i] /\ l \in 1..size[i]
      BY <1>8, <3>1, <3>2, <3>3 DEF Is
    <3>5. k = l
      BY <3>3, <3>4 DEF OctetsOf
    <3> QED
      BY <3>1, <3>2, <3>3, <3>5 DEF Is
  <2>3. \A h \in Hosts \ P : Group(h)' = 0
    BY <1>13 DEF Group, NoInterface
  <2> QED
    BY <1>15, <2>1, <2>2, <2>3 DEF Addressed, GroupNumbers
<1> QED
  BY <1>17, <1>18

LEMMA GroupsMade ==
  ASSUME participants \subseteq Hosts, createGroups PROVE Divided' /\ Addressed'
<1>1. UNCHANGED <<settings, participants>>
  BY DEF createGroups
<1>2. PICK n \in Nat : \E count \in 1..n : \E order, vlans, nets, octets :
           /\ Choices(n, count, order, vlans, nets, octets)
           /\ SetGroups(order, count, vlans, nets, octets)
  BY ChoicesMade
<1>3. PICK count \in 1..n : \E order, vlans, nets, octets :
           /\ Choices(n, count, order, vlans, nets, octets)
           /\ SetGroups(order, count, vlans, nets, octets)
  BY <1>2, Zenon
<1>4. PICK order, vlans, nets, octets :
           /\ Choices(n, count, order, vlans, nets, octets)
           /\ SetGroups(order, count, vlans, nets, octets)
  BY <1>3, Zenon
<1> QED
  BY <1>1, <1>4, GroupsFrom

-----------------------------------------------------------------------------
(* What holds once the chain of gateways has been laid. *)

\* A gateway of each group, in some order.
IsChain(chain) ==
  /\ chain \in Seq(participants) /\ Len(chain) = Len(m_groups)
  /\ \A k \in 1..Len(chain) : Group(chain[k]) \in GroupNumbers
  /\ \A k, l \in 1..Len(chain) : Group(chain[k]) = Group(chain[l]) => k = l
  /\ \A i \in GroupNumbers : \E k \in 1..Len(chain) : Group(chain[k]) = i

\* The second interfaces.
Joined(chain) ==
  /\ \A h \in Hosts \ Elems(chain) : interface2[h] = NoInterface
  /\ Len(chain) # 0 => interface2[chain[1]] = NoInterface
  /\ \A k \in 2..Len(chain) :
       LET i == Group(chain[k - 1])
       IN  /\ interface2[chain[k]] =
                [group |-> i, vlan |-> m_groups[i].vlan, net |-> m_groups[i].net,
                 octet |-> interface2[chain[k]].octet]
           /\ interface2[chain[k]].octet \in GuestOctets(i)

\* The routes.
Routed(chain) ==
  /\ \A k \in 1..Len(chain) :
       /\ routes1[chain[k]] = RoutesForward(chain, k, interface2)
       /\ routes2[chain[k]] = RoutesBack(chain, k)
  /\ \A h \in participants \ Elems(chain) : \E k \in 1..Len(chain) :
       /\ Group(chain[k]) = Group(h)
       /\ routes1[h] = {[net |-> AnyNet, via |-> Address(interface1[chain[k]])]}

Chained(chain) ==
  IsChain(chain) /\ gateways = Elems(chain) /\ Joined(chain) /\ Routed(chain)

LEMMA CandidatesOfGroup ==
  ASSUME Divided, NEW i \in GroupNumbers, NEW h \in Candidates(i)
  PROVE  h \in participants /\ Group(h) = i
<1> DEFINE members == m_groups[i].members
<1>1. members \in Seq(participants) /\ members # <<>>
      /\ Elems(members) = {g \in participants : Group(g) = i}
  <2>1. m_groups[i] \in GroupRecords
    BY DEF Divided, GroupNumbers
  <2> QED
    BY <2>1 DEF Divided, GroupRecords
<1>2. members[1] \in Elems(members) /\ members[Len(members)] \in Elems(members)
  <2>1. 1 \in 1..Len(members) /\ Len(members) \in 1..Len(members)
    BY <1>1
  <2> QED
    BY <2>1 DEF Elems
<1>3. h \in Elems(members)
  BY <1>2 DEF Candidates
<1> QED
  BY <1>1, <1>3

LEMMA ChainsAreChains ==
  ASSUME Divided, NEW chain \in Chains PROVE IsChain(chain)
<1> DEFINE count == Len(m_groups)
<1>0. count \in Nat
  BY DEF Divided
<1>1. PICK pick \in {p \in [1..count -> participants] : \A i \in 1..count : p[i] \in Candidates(i)},
           order \in IF settings["shouldRandomizeGateway"] THEN Bijection(1..count, 1..count)
                     ELSE {[i \in 1..count |-> i]} :
        chain = [k \in 1..count |-> pick[order[k]]]
  BY DEF Chains
<1>5. /\ pick \in [1..count -> participants] /\ \A i \in 1..count : pick[i] \in Candidates(i)
      /\ order \in [1..count -> 1..count]
  BY <1>1 DEF Bijection, Injection
<1>2. /\ \A k, l \in 1..count : order[k] = order[l] => k = l
      /\ \A i \in 1..count : \E k \in 1..count : order[k] = i
  BY <1>1 DEF Bijection, Injection, Surjection, IsInjective
<1>3. \A i \in 1..count : Group(pick[i]) = i
  BY <1>5, CandidatesOfGroup DEF GroupNumbers
<1> HIDE DEF count
<1>4. chain \in [1..count -> participants] /\ \A k \in 1..count : Group(chain[k]) = order[k]
  BY <1>1, <1>3, <1>5
<1>6. chain \in Seq(participants) /\ Len(chain) = count
  BY <1>0, <1>4
<1>7. /\ \A k \in 1..count : Group(chain[k]) \in 1..count
      /\ \A k, l \in 1..count : Group(chain[k]) = Group(chain[l]) => k = l
  BY <1>2, <1>4, <1>5
<1>8. \A i \in 1..count : \E k \in 1..count : Group(chain[k]) = i
  BY <1>2, <1>4
<1> QED
  BY <1>6, <1>7, <1>8 DEF IsChain, GroupNumbers, count

\* Every gateway is in the chain once.
LEMMA Placed ==
  ASSUME NEW chain, IsChain(chain), NEW k \in 1..Len(chain)
  PROVE  Place(chain, chain[k]) = k
BY DEF Place, IsChain

LEMMA ChainMade ==
  ASSUME participants \subseteq Hosts, Divided, Addressed, createGateways
  PROVE  \E chain : Chained(chain)'
<1>1. PICK chain \in Chains, octet \in [1..Len(m_groups) - 1 -> 1..MaxOctet] :
        LET second == SecondInterfaces(chain, octet)
        IN  /\ \A k \in 1..Len(chain) - 1 : octet[k] \in GuestOctets(Group(chain[k]))
            /\ gateways' = Elems(chain)
            /\ interface2' = second
            /\ routes1' = [h \in Hosts |->
                 IF h \in Elems(chain) THEN RoutesForward(chain, Place(chain, h), second)
                 ELSE IF h \in participants THEN {DefaultRoute(chain, h)}
                 ELSE {}]
            /\ routes2' = [h \in Hosts |->
                 IF h \in Elems(chain) THEN RoutesBack(chain, Place(chain, h)) ELSE {}]
  BY DEF createGateways
<1>2. UNCHANGED <<settings, participants, m_groups, interface1>>
  BY DEF createGateways
<1>3. IsChain(chain) /\ IsChain(chain)'
  BY <1>2, ChainsAreChains DEF IsChain, GroupNumbers, Group
<1>4. /\ Len(chain) \in Nat /\ Elems(chain) \subseteq Hosts
      /\ \A k \in 1..Len(chain) : chain[k] \in Elems(chain) /\ Place(chain, chain[k]) = k
  BY <1>3, Placed DEF IsChain, Elems
<1> DEFINE second == SecondInterfaces(chain, octet)
<1>5. interface2' = second
  BY <1>1
<1>6. \A i : GuestOctets(i)' = GuestOctets(i)
  BY <1>2 DEF GuestOctets
<1>7. ASSUME NEW k \in 2..Len(chain), NEW i, i = Group(chain[k - 1])
      PROVE  second[chain[k]] = [group |-> i, vlan |-> m_groups[i].vlan,
                                 net |-> m_groups[i].net, octet |-> octet[k - 1]]
  <2>1. chain[k] \in Elems(chain) /\ chain[k] \in Hosts /\ Place(chain, chain[k]) = k /\ k # 1
    BY <1>4
  <2> QED
    BY <1>7, <2>1, Zenon DEF SecondInterfaces
<1>8. \A h \in Hosts \ Elems(chain) : second[h] = NoInterface
  BY DEF SecondInterfaces
<1>9. Len(chain) # 0 => second[chain[1]] = NoInterface
  <2> SUFFICES ASSUME Len(chain) # 0 PROVE second[chain[1]] = NoInterface
    OBVIOUS
  <2>1. 1 \in 1..Len(chain)
    BY <1>4
  <2>2. chain[1] \in Hosts /\ Place(chain, chain[1]) = 1
    BY <1>4, <2>1
  <2> QED
    BY <2>2, Zenon DEF SecondInterfaces
<1> HIDE DEF second
<1>10. Joined(chain)'
  <2>1. ASSUME NEW k \in 2..Len(chain), NEW i, i = Group(chain[k - 1])
        PROVE  /\ second[chain[k]] = [group |-> i, vlan |-> m_groups[i].vlan,
                                      net |-> m_groups[i].net, octet |-> second[chain[k]].octet]
               /\ second[chain[k]].octet \in GuestOctets(i)
    <3>1. k - 1 \in 1..Len(chain) - 1
      BY <1>4
    <3>2. octet[k - 1] \in GuestOctets(i)
      BY <1>1, <2>1, <3>1, Zenon
    <3>3. second[chain[k]] = [group |-> i, vlan |-> m_groups[i].vlan,
                              net |-> m_groups[i].net, octet |-> octet[k - 1]]
      BY <1>7, <2>1
    <3>4. second[chain[k]].octet = octet[k - 1]
      BY <3>3
    <3> QED
      BY <3>2, <3>3, <3>4, Zenon
  <2> QED
    BY <1>2, <1>5, <1>6, <1>8, <1>9, <2>1 DEF Joined, Elems, Group
<1>11. Routed(chain)'
  <2>1. \A k : RoutesForward(chain, k, interface2)' = RoutesForward(chain, k, second)
    BY <1>2, <1>5 DEF RoutesForward, Group
  <2>2. \A k : RoutesBack(chain, k)' = RoutesBack(chain, k)
    BY <1>2 DEF RoutesBack, Group
  <2>3. ASSUME NEW k \in 1..Len(chain)
        PROVE  /\ routes1'[chain[k]] = RoutesForward(chain, k, second)
               /\ routes2'[chain[k]] = RoutesBack(chain, k)
    <3>1. chain[k] \in Elems(chain) /\ chain[k] \in Hosts /\ Place(chain, chain[k]) = k
      BY <1>4
    <3> QED
      BY <1>1, <3>1 DEF second
  <2>4. ASSUME NEW h \in participants \ Elems(chain)
        PROVE  \E k \in 1..Len(chain) :
                 /\ Group(chain[k]) = Group(h)
                 /\ routes1'[h] = {[net |-> AnyNet, via |-> Address(interface1[chain[k]])]}
    <3>1. Group(h) \in GroupNumbers
      BY DEF Addressed
    <3>2. PICK l \in 1..Len(chain) : Group(chain[l]) = Group(h)
      BY <1>3, <3>1 DEF IsChain
    <3> DEFINE g == CHOOSE g \in Elems(chain) : Group(g) = Group(h)
    <3>3. \E x \in Elems(chain) : Group(x) = Group(h)
      BY <1>4, <3>2
    <3>4. g \in Elems(chain) /\ Group(g) = Group(h)
      BY <3>3
    <3>5. DefaultRoute(chain, h) = [net |-> AnyNet, via |-> Address(interface1[g])]
      BY DEF DefaultRoute
    <3> HIDE DEF g
    <3>6. PICK k \in 1..Len(chain) : chain[k] = g
      BY <3>4 DEF Elems
    <3>7. routes1'[h] = {DefaultRoute(chain, h)}
      BY <1>1
    <3> QED
      BY <3>4, <3>5, <3>6, <3>7
  <2> QED
    BY <1>2, <2>1, <2>2, <2>3, <2>4 DEF Routed, Elems, Group
<1> QED
  BY <1>1, <1>3, <1>10, <1>11 DEF Chained, Elems

-----------------------------------------------------------------------------
(* The invariant. *)

ReconfigurationInv ==
  /\ phase \in {"idle", "built", "grouped", "ready"}
  /\ settings \in SettingsChoices
  /\ participants \subseteq Hosts
  /\ phase \in {"idle", "built"} => m_groups = <<>>
  /\ phase \in {"grouped", "ready"} => Divided /\ Addressed
  /\ phase # "ready" => gateways = {}
  /\ phase = "ready" => \E chain : Chained(chain)

LEMMA InvInitially == Init => ReconfigurationInv
BY DEF Init, ReconfigurationInv

LEMMA InvKept == ReconfigurationInv /\ [Next]_vars => ReconfigurationInv'
<1> SUFFICES ASSUME ReconfigurationInv, [Next]_vars PROVE ReconfigurationInv'
  OBVIOUS
<1>1. CASE buildParticipants
  <2>1. participants' \subseteq Hosts
    BY <1>1 DEF buildParticipants, TakesPart
  <2>2. phase' \in {"idle", "built"} /\ settings' \in SettingsChoices
        /\ m_groups' = <<>> /\ gateways' = {}
    BY <1>1 DEF buildParticipants
  <2> QED
    BY <2>1, <2>2 DEF ReconfigurationInv
<1>2. CASE createGroups
  <2>1. participants \subseteq Hosts /\ gateways = {}
    BY <1>2 DEF ReconfigurationInv, createGroups
  <2>2. Divided' /\ Addressed'
    BY <1>2, <2>1, GroupsMade
  <2>3. phase' = "grouped" /\ UNCHANGED <<settings, participants, gateways>>
    BY <1>2 DEF createGroups
  <2> QED
    BY <2>1, <2>2, <2>3 DEF ReconfigurationInv
<1>3. CASE createGateways
  <2>1. participants \subseteq Hosts /\ Divided /\ Addressed
    BY <1>3 DEF ReconfigurationInv, createGateways
  <2>2. \E chain : Chained(chain)'
    BY <1>3, <2>1, ChainMade
  <2>3. phase' = "ready" /\ UNCHANGED <<settings, participants, m_groups, interface1>>
    BY <1>3 DEF createGateways
  <2>4. Divided' /\ Addressed'
    BY <2>1, <2>3 DEF Divided, Addressed, GroupNumbers, GroupRecords, Group
  <2> QED
    BY <2>1, <2>2, <2>3, <2>4 DEF ReconfigurationInv
<1>4. CASE UNCHANGED vars
  <2>1. Divided' <=> Divided
    BY <1>4 DEF vars, config, Divided, GroupNumbers, GroupRecords, Group
  <2>2. Addressed' <=> Addressed
    BY <1>4 DEF vars, config, Addressed, GroupNumbers, Group
  <2>3. \A chain : Chained(chain)' <=> Chained(chain)
    <3>1. \A i : GuestOctets(i)' = GuestOctets(i)
      BY <1>4 DEF vars, config, GuestOctets
    <3>2. \A chain : IsChain(chain)' <=> IsChain(chain)
      BY <1>4 DEF vars, config, IsChain, GroupNumbers, Group
    <3>3. \A chain : Joined(chain)' <=> Joined(chain)
      BY <1>4, <3>1 DEF vars, config, Joined, Group, Elems
    <3>4. \A chain : Routed(chain)' <=> Routed(chain)
      BY <1>4 DEF vars, config, Routed, RoutesForward, RoutesBack, Group, Elems
    <3> QED
      BY <1>4, <3>2, <3>3, <3>4 DEF vars, config, Chained, Elems
  <2> QED
    BY <1>4, <2>1, <2>2, <2>3 DEF vars, config, ReconfigurationInv
<1> QED
  BY <1>1, <1>2, <1>3, <1>4 DEF Next

\* The invariant holds: groups and chain are as generate is to leave them.
\* (VMTDEngine::generate)
THEOREM Invariant == Spec => []ReconfigurationInv
BY InvInitially, InvKept, PTL DEF Spec

\* Each participant has its group, and nobody else has one.
\* (VMTDEngine::createGroups, VMTDEngine::createGateways)
THEOREM TypeCorrect == Spec => []TypeOK
<1>1. ReconfigurationInv => TypeOK
  <2> SUFFICES ASSUME ReconfigurationInv PROVE TypeOK
    OBVIOUS
  <2>1. gateways \subseteq participants
    <3>1. CASE phase # "ready"
      BY <3>1 DEF ReconfigurationInv
    <3>2. CASE phase = "ready"
      <4>1. PICK chain : IsChain(chain) /\ gateways = Elems(chain)
        BY <3>2 DEF ReconfigurationInv, Chained
      <4> QED
        BY <4>1 DEF IsChain, Elems
    <3> QED
      BY <3>1, <3>2
  <2>2. CASE phase \in {"idle", "built"}
    <3>1. 1..Len(m_groups) = {}
      BY <2>2 DEF ReconfigurationInv
    <3> QED
      BY <2>1, <2>2, <3>1 DEF ReconfigurationInv, TypeOK
  <2>3. CASE phase \in {"grouped", "ready"}
    <3>1. Addressed
      BY <2>3 DEF ReconfigurationInv
    <3>2. \A h \in Hosts : h \in participants <=> Group(h) \in 1..Len(m_groups)
      <4> TAKE h \in Hosts
      <4>1. CASE h \in participants
        BY <3>1, <4>1 DEF Addressed, GroupNumbers
      <4>2. CASE h \notin participants
        <5>1. Group(h) = 0
          BY <3>1, <4>2 DEF Addressed
        <5> QED
          BY <4>2, <5>1
      <4> QED
        BY <4>1, <4>2
    <3> QED
      BY <2>1, <2>3, <3>2 DEF ReconfigurationInv, TypeOK, Group
  <2> QED
    BY <2>2, <2>3 DEF ReconfigurationInv
<1> QED
  BY <1>1, Invariant, PTL

-----------------------------------------------------------------------------
(* The interfaces of a participant. *)

LEMMA InterfacesAre ==
  ASSUME NEW h
  PROVE  /\ Interfaces(h) = {interface1[h]} \cup
                            (IF SecondSetUp(h) THEN {interface2[h]} ELSE {})
         /\ Routes(h) = routes1[h] \cup (IF SecondSetUp(h) THEN routes2[h] ELSE {})
<1> DEFINE one == [at |-> interface1[h], routes |-> routes1[h]]
           two == [at |-> interface2[h], routes |-> routes2[h]]
<1>1. one.at = interface1[h] /\ one.routes = routes1[h]
      /\ two.at = interface2[h] /\ two.routes = routes2[h]
  OBVIOUS
<1>2. buildRequests(h) = {one} \cup (IF SecondSetUp(h) THEN {two} ELSE {})
  BY DEF buildRequests
<1> HIDE DEF one, two
<1>3. CASE SecondSetUp(h)
  <2>1. /\ buildRequests(h) = {one, two}
        /\ {one.at.vlan, two.at.vlan} \subseteq buildCommands(h)
    BY <1>1, <1>2, <1>3 DEF buildCommands
  <2>2. Interfaces(h) = {one.at, two.at} /\ Routes(h) = one.routes \cup two.routes
    BY <2>1 DEF Interfaces, Routes
  <2> QED
    BY <1>1, <1>3, <2>2
<1>4. CASE ~SecondSetUp(h)
  <2>1. buildRequests(h) = {one} /\ one.at.vlan \in buildCommands(h)
    BY <1>1, <1>2, <1>4 DEF buildCommands
  <2>2. Interfaces(h) = {one.at} /\ Routes(h) = one.routes
    BY <2>1 DEF Interfaces, Routes
  <2> QED
    BY <1>1, <1>4, <2>2
<1> QED
  BY <1>3, <1>4

\* Interface i of host h is in group g: as a member, or as the guest gateway.
Member(h, g, i) == h \in participants /\ i = interface1[h] /\ g = Group(h)
Guest(chain, h, g, i) ==
  \E k \in 2..Len(chain) : h = chain[k] /\ g = Group(chain[k - 1]) /\ i = interface2[h]
On(chain, h, g, i) == Member(h, g, i) \/ Guest(chain, h, g, i)

\* What is known when generate is through.
Laid(chain) == participants \subseteq Hosts /\ Divided /\ Addressed /\ Chained(chain)

LEMMA GuestGateway ==
  ASSUME NEW chain, Laid(chain), NEW k \in 2..Len(chain)
  PROVE  \E g \in GroupNumbers :
           /\ g = Group(chain[k - 1])
           /\ interface2[chain[k]] = [group |-> g, vlan |-> m_groups[g].vlan,
                net |-> m_groups[g].net, octet |-> interface2[chain[k]].octet]
           /\ interface2[chain[k]].octet \in GuestOctets(g)
           /\ interface2[chain[k]] # NoInterface /\ SecondSetUp(chain[k])
<1> DEFINE g == Group(chain[k - 1])
<1>1. Len(chain) \in Nat /\ k - 1 \in 1..Len(chain) /\ k \in 1..Len(chain)
  BY DEF Laid, Chained, IsChain
<1>2. g \in GroupNumbers /\ g # 0
  <2>1. g \in GroupNumbers
    BY <1>1, Zenon DEF Laid, Chained, IsChain
  <2> HIDE DEF g
  <2> QED
    BY <2>1 DEF GroupNumbers
<1>3. /\ interface2[chain[k]] = [group |-> g, vlan |-> m_groups[g].vlan,
           net |-> m_groups[g].net, octet |-> interface2[chain[k]].octet]
      /\ interface2[chain[k]].octet \in GuestOctets(g)
  BY Zenon DEF Laid, Chained, Joined
<1> HIDE DEF g
<1>4. interface2[chain[k]].group = g
  BY <1>3
<1>5. interface2[chain[k]] # NoInterface
  BY <1>2, <1>4 DEF NoInterface
<1>6. chain[k] \in gateways
  BY <1>1 DEF Laid, Chained, Elems
<1> QED
  BY <1>2, <1>3, <1>5, <1>6 DEF SecondSetUp, g

LEMMA InterfacesOn ==
  ASSUME NEW chain, Laid(chain), NEW h \in participants, NEW i
  PROVE  i \in Interfaces(h) <=> \E g \in GroupNumbers : On(chain, h, g, i)
<1>1. Group(h) \in GroupNumbers
  BY DEF Laid, Addressed
<1>2. ASSUME NEW g, Guest(chain, h, g, i) PROVE i \in Interfaces(h)
  <2>1. PICK k \in 2..Len(chain) : h = chain[k] /\ i = interface2[h]
    BY <1>2 DEF Guest
  <2>2. SecondSetUp(h)
    BY <2>1, GuestGateway
  <2> QED
    BY <2>1, <2>2, InterfacesAre
<1>3. ASSUME SecondSetUp(h), i = interface2[h]
      PROVE  \E g \in GroupNumbers : Guest(chain, h, g, i)
  <2>1. h \in Elems(chain) /\ interface2[h] # NoInterface
    BY <1>3 DEF SecondSetUp, Laid, Chained
  <2>2. PICK k \in 1..Len(chain) : h = chain[k]
    BY <2>1 DEF Elems
  <2>3. Len(chain) \in Nat
    BY DEF Laid, Chained, IsChain
  <2>4. k # 1
    BY <2>1, <2>2, <2>3 DEF Laid, Chained, Joined
  <2>5. k \in 2..Len(chain)
    BY <2>2, <2>3, <2>4
  <2>6. PICK g \in GroupNumbers : g = Group(chain[k - 1])
    BY <2>5, GuestGateway
  <2> QED
    BY <1>3, <2>2, <2>5, <2>6 DEF Guest
<1> QED
  BY <1>1, <1>2, <1>3, InterfacesAre DEF On, Member

LEMMA OnGroup ==
  ASSUME NEW chain, Laid(chain), NEW h, NEW g, NEW i, On(chain, h, g, i)
  PROVE  /\ h \in participants /\ g \in GroupNumbers
         /\ i.vlan = m_groups[g].vlan /\ i.net = m_groups[g].net
<1>1. CASE Member(h, g, i)
  <2>1. h \in participants /\ g \in GroupNumbers
    BY <1>1 DEF Member, Laid, Addressed
  <2>2. i = [group |-> g, vlan |-> m_groups[g].vlan, net |-> m_groups[g].net,
             octet |-> interface1[h].octet]
    BY <1>1 DEF Member, Laid, Addressed
  <2> QED
    BY <2>1, <2>2
<1>2. CASE Guest(chain, h, g, i)
  <2>1. PICK k \in 2..Len(chain) : h = chain[k] /\ g = Group(chain[k - 1]) /\ i = interface2[h]
    BY <1>2 DEF Guest
  <2>2. Len(chain) \in Nat /\ chain \in Seq(participants)
    BY DEF Laid, Chained, IsChain
  <2>3. h \in participants
    BY <2>1, <2>2
  <2>4. g \in GroupNumbers
        /\ i = [group |-> g, vlan |-> m_groups[g].vlan, net |-> m_groups[g].net,
                octet |-> interface2[h].octet]
    BY <2>1, GuestGateway
  <2> QED
    BY <2>3, <2>4
<1> QED
  BY <1>1, <1>2 DEF On

\* The octet of a guest gateway is drawn until it is free, or the one after those of
\* the members: as long as theirs are not drawn while it is counted.
Consistent == settings["shouldRandomizeNetwork"] => settings["shouldRandomizeGateway"]

LEMMA GuestOctetFree ==
  ASSUME NEW chain, Laid(chain), Consistent, NEW g \in GroupNumbers,
         NEW o \in GuestOctets(g), NEW h \in participants, Group(h) = g
  PROVE  interface1[h].octet # o
<1> DEFINE members == m_groups[g].members
           n == Len(members)
<1>1. m_groups[g] \in GroupRecords /\ Elems(members) = {x \in participants : Group(x) = g}
  BY DEF Laid, Divided, GroupNumbers
<1>2. members \in Seq(participants)
  BY <1>1 DEF GroupRecords
<1>3. h \in Elems(members) /\ n \in Nat
  BY <1>1, <1>2
<1> HIDE DEF members
<1>4. CASE settings["shouldRandomizeGateway"]
  <2>1. o \notin {interface1[x].octet : x \in Elems(members)}
    BY <1>4 DEF GuestOctets, members
  <2> QED
    BY <1>3, <2>1
<1>5. CASE ~settings["shouldRandomizeGateway"]
  <2>1. o = n + 1
    BY <1>5 DEF GuestOctets, members
  <2>2. interface1[h].octet \in 1..n
    BY <1>5 DEF Laid, Addressed, Consistent, members
  <2> QED
    BY <1>3, <2>1, <2>2
<1> QED
  BY <1>4, <1>5

LEMMA OneGuest ==
  ASSUME NEW chain, Laid(chain), NEW p, NEW q, NEW g, NEW i, NEW j,
         Guest(chain, p, g, i), Guest(chain, q, g, j)
  PROVE  p = q /\ i = j
<1>1. PICK k \in 2..Len(chain) : p = chain[k] /\ g = Group(chain[k - 1]) /\ i = interface2[p]
  BY DEF Guest
<1>2. PICK l \in 2..Len(chain) : q = chain[l] /\ g = Group(chain[l - 1]) /\ j = interface2[q]
  BY DEF Guest
<1>3. IsChain(chain) /\ Len(chain) \in Nat
  BY DEF Laid, Chained, IsChain
<1>4. k - 1 = l - 1
  <2>1. k - 1 \in 1..Len(chain) /\ l - 1 \in 1..Len(chain)
    BY <1>3
  <2>2. Group(chain[k - 1]) = Group(chain[l - 1])
    BY <1>1, <1>2
  <2> QED
    BY <1>3, <2>1, <2>2, Zenon DEF IsChain
<1> QED
  BY <1>1, <1>2, <1>4

LEMMA Distinct ==
  ASSUME NEW chain, Laid(chain), Consistent, NEW p, NEW q, NEW g, NEW i, NEW j,
         On(chain, p, g, i), On(chain, q, g, j), i.octet = j.octet
  PROVE  p = q /\ i = j
<1>1. p \in participants /\ q \in participants /\ g \in GroupNumbers
  BY OnGroup
<1>2. CASE Member(p, g, i) /\ Member(q, g, j)
  BY <1>2 DEF Member, Laid, Addressed
<1>3. ASSUME NEW x, NEW y, NEW k, NEW l, Member(x, g, k), Guest(chain, y, g, l)
      PROVE  k.octet # l.octet
  <2>1. PICK m \in 2..Len(chain) : y = chain[m] /\ g = Group(chain[m - 1]) /\ l = interface2[y]
    BY <1>3 DEF Guest
  <2>2. l.octet \in GuestOctets(g)
    BY <2>1, GuestGateway
  <2>3. x \in participants /\ k = interface1[x] /\ Group(x) = g
    BY <1>3 DEF Member
  <2> QED
    BY <1>1, <2>2, <2>3, GuestOctetFree
<1>4. CASE Guest(chain, p, g, i) /\ Guest(chain, q, g, j)
  BY <1>4, OneGuest
<1> QED
  BY <1>2, <1>3, <1>4 DEF On

\* Different groups are different networks and VLANs.
LEMMA SameNet ==
  ASSUME NEW chain, Laid(chain), NEW g \in GroupNumbers, NEW f \in GroupNumbers,
         m_groups[g].net = m_groups[f].net \/ m_groups[g].vlan = m_groups[f].vlan
  PROVE  g = f
BY DEF Laid, Divided

LEMMA LaidWhenReady ==
  ASSUME ReconfigurationInv, phase = "ready" PROVE \E chain : Laid(chain)
BY DEF ReconfigurationInv, Laid

ConsistentSettings ==
  \A s \in SettingsChoices : s["shouldRandomizeNetwork"] => s["shouldRandomizeGateway"]

\* If networks are random only when gateways are, too, no address is given twice.
\* (VMTDGroup::addParticipant, VMTDGroup::setExternalGateway)
THEOREM AddressesUnique == ConsistentSettings => (Spec => []UniqueAddresses)
<1> SUFFICES ASSUME ConsistentSettings PROVE Spec => []UniqueAddresses
  OBVIOUS
<1>1. ReconfigurationInv => UniqueAddresses
  <2> SUFFICES ASSUME ReconfigurationInv, phase = "ready",
                      NEW p \in participants, NEW q \in participants,
                      NEW i \in Interfaces(p), NEW j \in Interfaces(q),
                      Address(i) = Address(j)
               PROVE  p = q /\ i = j
    BY DEF UniqueAddresses
  <2>1. Consistent
    BY DEF ReconfigurationInv, ConsistentSettings, Consistent
  <2>2. PICK chain : Laid(chain)
    BY LaidWhenReady
  <2>3. PICK g \in GroupNumbers : On(chain, p, g, i)
    BY <2>2, InterfacesOn
  <2>4. PICK f \in GroupNumbers : On(chain, q, f, j)
    BY <2>2, InterfacesOn
  <2>5. i.net = j.net /\ i.octet = j.octet
    BY DEF Address
  <2>6. i.net = m_groups[g].net /\ j.net = m_groups[f].net
    BY <2>2, <2>3, <2>4, OnGroup
  <2>7. g = f
    BY <2>2, <2>5, <2>6, SameNet
  <2> QED
    BY <2>1, <2>2, <2>3, <2>4, <2>5, <2>7, Distinct
<1> QED
  BY <1>1, Invariant, PTL

LEMMA VlansOn ==
  ASSUME NEW chain, Laid(chain), NEW h \in participants, NEW g \in GroupNumbers
  PROVE  /\ Group(h) \in GroupNumbers
         /\ h \notin gateways =>
              buildCommands(h) = ServiceVlans \cup {m_groups[Group(h)].vlan}
         /\ m_groups[g].vlan \in buildCommands(h) \ ServiceVlans =>
              \E i : On(chain, h, g, i)
<1>1. Member(h, Group(h), interface1[h])
  BY DEF Member
<1>2. Group(h) \in GroupNumbers /\ interface1[h].vlan = m_groups[Group(h)].vlan
  BY <1>1, OnGroup DEF On
<1>3. h \notin gateways => buildCommands(h) = ServiceVlans \cup {interface1[h].vlan}
  BY DEF buildCommands, SecondSetUp
<1>4. ASSUME m_groups[g].vlan \in buildCommands(h) \ ServiceVlans
      PROVE  \E i : On(chain, h, g, i)
  <2>1. PICK i \in Interfaces(h) : i.vlan = m_groups[g].vlan
    BY <1>4, InterfacesAre DEF buildCommands
  <2>2. PICK f \in GroupNumbers : On(chain, h, f, i)
    BY <2>1, InterfacesOn
  <2>3. f = g
    BY <2>1, <2>2, OnGroup, SameNet
  <2> QED
    BY <2>2, <2>3
<1> QED
  BY <1>2, <1>3, <1>4

\* The groups are separated, but for one gateway in the group of its predecessor.
\* (VMTDEngine::createGroups, VMTDEngine::createGateways, VMTDParticipant::buildCommands)
THEOREM GroupsSegmented == Spec => []Segmented
<1>1. ReconfigurationInv => Segmented
  <2> SUFFICES ASSUME ReconfigurationInv, phase = "ready" PROVE Segmented
    BY DEF Segmented
  <2>1. PICK chain : Laid(chain)
    BY LaidWhenReady
  <2>2. \A i \in GroupNumbers :
          Elems(m_groups[i].members) = {h \in participants : Group(h) = i}
    BY <2>1 DEF Laid, Divided
  <2>3. \A h \in participants : Group(h) \in GroupNumbers
    BY <2>1 DEF Laid, Addressed
  <2>4. \A i, j \in GroupNumbers :
          i # j => /\ m_groups[i].vlan # m_groups[j].vlan
                   /\ m_groups[i].net # m_groups[j].net
                   /\ Elems(m_groups[i].members) \cap Elems(m_groups[j].members) = {}
    BY <2>1, <2>2 DEF Laid, Divided
  <2>5. participants = UNION {Elems(m_groups[i].members) : i \in GroupNumbers}
    BY <2>2, <2>3
  <2>6. \A h \in participants \ gateways :
          buildCommands(h) = ServiceVlans \cup {m_groups[Group(h)].vlan}
    BY <2>1, <2>3, VlansOn
  <2>7. ASSUME NEW i \in GroupNumbers, m_groups[i].vlan \notin ServiceVlans
        PROVE  /\ Cardinality({h \in participants : Group(h) # i
                                 /\ m_groups[i].vlan \in buildCommands(h)}) <= 1
               /\ {h \in participants : Group(h) # i
                     /\ m_groups[i].vlan \in buildCommands(h)} \subseteq gateways
    <3> DEFINE S == {h \in participants : Group(h) # i
                       /\ m_groups[i].vlan \in buildCommands(h)}
    <3>1. \A h \in S : \E x : Guest(chain, h, i, x)
      BY <2>1, <2>7, VlansOn DEF On, Member
    <3>2. \A p, q \in S : p = q
      BY <2>1, <3>1, OneGuest
    <3>6. S \subseteq gateways
      BY <2>3, <2>6, <2>7, <2>4
    <3> HIDE DEF S
    <3>3. S = {} \/ \E x : S = {x}
      BY <3>2
    <3>4. CASE S = {}
      <4>1. Cardinality(S) = 0
        BY <3>4, FS_EmptySet
      <4>2. Cardinality(S) <= 1
        BY <4>1
      <4> QED
        BY <3>6, <4>2, Zenon DEF S
    <3>5. ASSUME NEW x, S = {x} PROVE Cardinality(S) <= 1
      <4>1. Cardinality({x}) = 1
        BY FS_Singleton
      <4>2. Cardinality(S) = 1
        BY <3>5, <4>1, Zenon
      <4> QED
        BY <4>2
    <3> QED
      BY <3>3, <3>4, <3>5, <3>6, Zenon DEF S
  <2> QED
    BY <2>4, <2>5, <2>6, <2>7 DEF Segmented, GroupNumbers
<1> QED
  BY <1>1, Invariant, PTL

-----------------------------------------------------------------------------
(* The journey of a packet. *)

\* Where the packet is after each hop.
Onward(X, a) == UNION {Hops(p, a) : p \in X}
Itinerary(f, c, h, a) ==
  f = [k \in 0..c |-> IF k = 0 THEN {h} ELSE Onward(f[k - 1], a)]

LEMMA ItineraryExists ==
  ASSUME NEW c \in Nat, NEW h, NEW a
  PROVE  \E f : Itinerary(f, c, h, a)
<1> DEFINE S == {n \in Nat : \E f : Itinerary(f, n, h, a)}
<1>1. 0 \in S
  <2> DEFINE f == [k \in 0..0 |-> {h}]
  <2>1. f = [k \in 0..0 |-> IF k = 0 THEN {h} ELSE Onward(f[k - 1], a)]
    OBVIOUS
  <2> QED
    BY <2>1 DEF Itinerary
<1>2. ASSUME NEW n \in Nat, n \in S PROVE n + 1 \in S
  <2>1. PICK f : f = [k \in 0..n |-> IF k = 0 THEN {h} ELSE Onward(f[k - 1], a)]
    BY <1>2 DEF Itinerary
  <2> DEFINE e == [k \in 0..n + 1 |-> IF k = n + 1 THEN Onward(f[n], a) ELSE f[k]]
  <2>2. \A k \in 0..n + 1 : e[k] = IF k = 0 THEN {h} ELSE Onward(e[k - 1], a)
    <3> SUFFICES ASSUME NEW k \in 0..n + 1
                 PROVE  e[k] = IF k = 0 THEN {h} ELSE Onward(e[k - 1], a)
      OBVIOUS
    <3>1. CASE k = n + 1
      <4>1. k # 0 /\ k - 1 = n /\ n \in 0..n + 1 /\ n # n + 1
        BY <3>1
      <4>2. e[k] = Onward(f[n], a) /\ e[n] = f[n]
        BY <3>1, <4>1
      <4> QED
        BY <4>1, <4>2, Zenon
    <3>2. CASE k = 0
      <4>1. e[0] = f[0] /\ f[0] = {h}
        BY <2>1
      <4> QED
        BY <3>2, <4>1
    <3>3. CASE k \in 1..n
      <4>1. k - 1 \in 0..n /\ k - 1 \in 0..n + 1 /\ k - 1 # n + 1 /\ k # n + 1 /\ k # 0
            /\ k \in 0..n
        BY <3>3
      <4>2. e[k] = f[k] /\ e[k - 1] = f[k - 1]
        BY <4>1
      <4>3. f[k] = Onward(f[k - 1], a)
        BY <2>1, <4>1
      <4> QED
        BY <4>1, <4>2, <4>3, Zenon
    <3> QED
      BY <3>1, <3>2, <3>3
  <2>3. DOMAIN e = 0..n + 1 /\ e = [k \in DOMAIN e |-> e[k]]
    OBVIOUS
  <2> HIDE DEF e
  <2>4. e = [k \in 0..n + 1 |-> IF k = 0 THEN {h} ELSE Onward(e[k - 1], a)]
    BY <2>2, <2>3
  <2> QED
    BY <2>4 DEF Itinerary
<1> HIDE DEF S
<1>3. c \in S
  BY <1>1, <1>2, NaturalNumbers
<1> QED
  BY <1>3 DEF S

LEMMA JourneyAlong ==
  ASSUME NEW h, NEW a, Cardinality(participants) \in Nat
  PROVE  \E f : /\ Journey(h, a) = f[Cardinality(participants)]
                /\ f[0] = {h}
                /\ \A k \in Nat : k < Cardinality(participants) =>
                     f[k + 1] = Onward(f[k], a)
<1> DEFINE c == Cardinality(participants)
           f == CHOOSE f : Itinerary(f, c, h, a)
<1>1. Itinerary(f, c, h, a)
  BY ItineraryExists, Zenon
<1>2. Journey(h, a) = f[c]
  BY Zenon DEF Journey, Itinerary, Onward
<1> HIDE DEF f, c
<1>3. c \in Nat
  BY DEF c
<1>4. f = [k \in 0..c |-> IF k = 0 THEN {h} ELSE Onward(f[k - 1], a)]
  BY <1>1 DEF Itinerary
<1>5. f[0] = {h}
  BY <1>3, <1>4
<1>6. ASSUME NEW k \in Nat, k < c PROVE f[k + 1] = Onward(f[k], a)
  <2>1. k + 1 \in 0..c /\ k + 1 # 0 /\ (k + 1) - 1 = k
    BY <1>3, <1>6
  <2> QED
    BY <1>4, <2>1, Zenon
<1> QED
  BY <1>2, <1>5, <1>6 DEF c

\* There are as many hosts as gateways, at least.
LEMMA ManyHosts ==
  ASSUME NEW chain, Laid(chain)
  PROVE  /\ Cardinality(participants) \in Nat /\ Len(chain) \in Nat
         /\ Len(chain) <= Cardinality(participants)
         /\ gateways # participants => Len(chain) < Cardinality(participants)
<1> DEFINE n == Len(chain)
<1>1. /\ n \in Nat /\ chain \in [1..n -> participants]
      /\ \A k, l \in 1..n : chain[k] = chain[l] => k = l
      /\ gateways = {chain[k] : k \in 1..n}
  BY DEF Laid, Chained, IsChain, Elems
<1>0. /\ \A g \in gateways : \E k \in 1..n : chain[k] = g
      /\ \A k \in 1..n : chain[k] \in participants
  <2>1. gateways = {chain[k] : k \in 1..n}
    BY DEF Laid, Chained, Elems
  <2> HIDE DEF n
  <2>2. \A g \in gateways : \E k \in 1..n : chain[k] = g
    BY <2>1
  <2>3. \A k \in 1..n : chain[k] \in participants
    BY <1>1
  <2> QED
    BY <2>2, <2>3
<1>2. IsFiniteSet(participants) /\ Cardinality(participants) \in Nat
  BY ConstantsAssumption, FS_Subset, FS_CardinalityType DEF Laid
<1> HIDE DEF n
<1>3. chain \in Bijection(1..n, gateways)
  <2>1. \A k \in 1..n : chain[k] \in gateways
    BY <1>1
  <2>2. chain \in [1..n -> gateways]
    <3>1. DOMAIN chain = 1..n /\ chain = [k \in DOMAIN chain |-> chain[k]]
      BY <1>1
    <3> QED
      BY <2>1, <3>1
  <2>4. \A g \in gateways : \E k \in 1..n : chain[k] = g
    BY <1>0
  <2>3. IsInjective(chain)
    BY <1>1 DEF IsInjective
  <2> QED
    BY <2>2, <2>3, <2>4, Zenon DEF Bijection, Injection, Surjection
<1>4. IsFiniteSet(1..n) /\ Cardinality(1..n) = n
  BY <1>1, FS_Interval
<1>5. Cardinality(gateways) = n /\ IsFiniteSet(gateways)
  BY <1>3, <1>4, FS_Bijection DEF ExistsBijection
<1>6. gateways \subseteq participants
  BY <1>0
<1>7. Cardinality(gateways) <= Cardinality(participants)
  BY <1>2, <1>6, FS_Subset
<1>8. gateways # participants => Cardinality(gateways) < Cardinality(participants)
  <2>1. Cardinality(participants) = Cardinality(gateways) => participants = gateways
    BY <1>2, <1>6, FS_Subset
  <2>2. Cardinality(gateways) \in Nat
    BY <1>5, FS_CardinalityType
  <2> QED
    BY <1>2, <1>7, <2>1, <2>2
<1> QED
  BY <1>1, <1>2, <1>5, <1>7, <1>8 DEF n

\* A packet that comes nearer with each hop from gateway to gateway is delivered.
Descends(chain, a, T, d) ==
  /\ d \in [1..Len(chain) -> 1..Len(chain)]
  /\ \A k \in 1..Len(chain) :
       \/ Hops(chain[k], a) = T
       \/ \E j \in 1..Len(chain) : d[j] < d[k] /\ Hops(chain[k], a) = {chain[j]}
  /\ \A p \in participants \ gateways :
       \/ Hops(p, a) = T
       \/ \E j \in 1..Len(chain) : Hops(p, a) = {chain[j]}

LEMMA Descent ==
  ASSUME NEW chain, Laid(chain), NEW a, NEW T, Onward(T, a) = T, NEW d,
         Descends(chain, a, T, d), NEW p \in participants
  PROVE  Journey(p, a) = T
<1> DEFINE n == Len(chain)
           c == Cardinality(participants)
<1>1. n \in Nat /\ c \in Nat /\ n <= c /\ (p \notin gateways => n < c)
  BY ManyHosts
<1>2. PICK f : /\ Journey(p, a) = f[c] /\ f[0] = {p}
               /\ \A k \in Nat : k < c => f[k + 1] = Onward(f[k], a)
  <2>1. Cardinality(participants) \in Nat
    BY <1>1
  <2>2. \E f : /\ Journey(p, a) = f[Cardinality(participants)] /\ f[0] = {p}
               /\ \A k \in Nat : k < Cardinality(participants) =>
                    f[k + 1] = Onward(f[k], a)
    BY <2>1, JourneyAlong
  <2> QED
    BY <2>2
<1>3. \A x : Onward({x}, a) = Hops(x, a)
  BY DEF Onward
<1>4. gateways = {chain[k] : k \in 1..n}
  BY DEF Laid, Chained, Elems
<1>5. \A k \in 1..n : d[k] \in 1..n
  BY DEF Descends
<1>6. \A k \in 1..n :
         \/ Hops(chain[k], a) = T
         \/ \E j \in 1..n : d[j] < d[k] /\ Hops(chain[k], a) = {chain[j]}
  BY DEF Descends
<1>7. p \notin gateways => \/ Hops(p, a) = T
                           \/ \E j \in 1..n : Hops(p, a) = {chain[j]}
  BY DEF Descends
<1> HIDE DEF n, c
<1> DEFINE Near(k) == \/ f[k] = T
                      \/ k = 0 /\ p \notin gateways
                      \/ \E j \in 1..n : f[k] = {chain[j]} /\ d[j] + k <= c
           S == {k \in Nat : k <= c => Near(k)}
<1>8. 0 \in S
  <2>1. CASE p \notin gateways
    BY <2>1
  <2>2. CASE p \in gateways
    <3>1. PICK j \in 1..n : p = chain[j]
      BY <1>4, <2>2
    <3>2. f[0] = {chain[j]} /\ d[j] + 0 <= c
      BY <1>1, <1>2, <1>5, <3>1
    <3> QED
      BY <3>2
  <2> QED
    BY <2>1, <2>2
<1>9. ASSUME NEW k \in Nat, k \in S PROVE k + 1 \in S
  <2> SUFFICES ASSUME k + 1 <= c PROVE Near(k + 1)
    OBVIOUS
  <2>1. k < c /\ Near(k) /\ f[k + 1] = Onward(f[k], a)
    BY <1>1, <1>2, <1>9
  <2>2. CASE f[k] = T
    BY <2>1, <2>2
  <2>3. CASE k = 0 /\ p \notin gateways
    <3>1. f[1] = Hops(p, a)
      BY <1>2, <1>3, <2>1, <2>3
    <3>2. CASE Hops(p, a) = T
      BY <2>3, <3>1, <3>2
    <3>3. ASSUME NEW j \in 1..n, Hops(p, a) = {chain[j]} PROVE Near(k + 1)
      <4>1. f[k + 1] = {chain[j]} /\ d[j] + (k + 1) <= c
        BY <1>1, <1>5, <2>3, <3>1, <3>3
      <4> QED
        BY <4>1
    <3> QED
      BY <1>7, <2>3, <3>2, <3>3
  <2>4. ASSUME NEW i \in 1..n, f[k] = {chain[i]}, d[i] + k <= c PROVE Near(k + 1)
    <3>1. f[k + 1] = Hops(chain[i], a)
      BY <1>3, <2>1, <2>4
    <3>2. CASE Hops(chain[i], a) = T
      BY <3>1, <3>2
    <3>3. ASSUME NEW j \in 1..n, d[j] < d[i], Hops(chain[i], a) = {chain[j]}
          PROVE  Near(k + 1)
      <4>1. d[j] + (k + 1) <= c
        BY <1>1, <1>5, <2>4, <3>3
      <4> QED
        BY <3>1, <3>3, <4>1
    <3> QED
      BY <1>6, <3>2, <3>3
  <2> QED
    BY <2>1, <2>2, <2>3, <2>4
<1> HIDE DEF S, Near
<1>10. c \in S
  BY <1>1, <1>8, <1>9, NaturalNumbers
<1>11. f[c] = T
  <2>1. Near(c)
    BY <1>1, <1>10 DEF S
  <2>2. p \notin gateways => c # 0
    BY <1>1
  <2>3. \A j \in 1..n : ~(d[j] + c <= c)
    BY <1>1, <1>5
  <2> QED
    BY <2>1, <2>2, <2>3 DEF Near
<1> QED
  BY <1>2, <1>11

-----------------------------------------------------------------------------
(* One hop. *)

\* On the VLAN of a group only the owner answers to an address.
LEMMA OneAnswer ==
  ASSUME NEW chain, Laid(chain), Consistent, NEW q, NEW g, NEW v, On(chain, q, g, v)
  PROVE  /\ v \in Interfaces(q)
         /\ \A h \in participants : \A i \in Interfaces(h) : Address(i) = Address(v) => h = q
         /\ Answer(m_groups[g].vlan, Address(v)) = {q}
<1>1. q \in participants /\ g \in GroupNumbers
      /\ v.vlan = m_groups[g].vlan /\ v.net = m_groups[g].net
  BY OnGroup
<1>2. v \in Interfaces(q)
  BY <1>1, InterfacesOn
<1>3. ASSUME NEW h \in participants, NEW i \in Interfaces(h), Address(i) = Address(v)
      PROVE  h = q
  <2>1. PICK f \in GroupNumbers : On(chain, h, f, i)
    BY InterfacesOn
  <2>2. i.net = v.net /\ i.octet = v.octet
    BY <1>3 DEF Address
  <2>3. i.net = m_groups[f].net
    BY <2>1, OnGroup
  <2>4. f = g
    BY <1>1, <2>2, <2>3, SameNet
  <2> QED
    BY <2>1, <2>2, <2>4, Distinct
<1>4. Answer(m_groups[g].vlan, Address(v)) = {q}
  BY <1>1, <1>2, <1>3 DEF Answer
<1> QED
  BY <1>2, <1>3, <1>4

\* A packet handed to an address in a group of the host gets to the owner.
LEMMA HopTo ==
  ASSUME NEW chain, Laid(chain), Consistent, NEW q, NEW g, NEW v, On(chain, q, g, v),
         NEW h, NEW x, On(chain, h, g, x), NEW a,
         \A i \in Interfaces(h) : Address(i) # a, Vias(h, a) = {Address(v)}
  PROVE  Hops(h, a) = {q}
<1>1. h \in participants /\ g \in GroupNumbers /\ x.net = m_groups[g].net
      /\ x.vlan = m_groups[g].vlan
  BY OnGroup
<1>2. x \in Interfaces(h)
  BY <1>1, InterfacesOn
<1> DEFINE w == Address(v)
<1>3. w.net = m_groups[g].net
  BY OnGroup DEF Address
<1>4. Answer(m_groups[g].vlan, w) = {q}
  BY OneAnswer
<1>5. \A i \in Interfaces(h) : i.net = w.net => i.vlan = m_groups[g].vlan
  <2> SUFFICES ASSUME NEW i \in Interfaces(h), i.net = w.net
               PROVE  i.vlan = m_groups[g].vlan
    OBVIOUS
  <2>1. PICK f \in GroupNumbers : On(chain, h, f, i)
    BY <1>1, InterfacesOn
  <2>2. i.net = m_groups[f].net /\ i.vlan = m_groups[f].vlan
    BY <2>1, OnGroup
  <2>3. f = g
    BY <1>1, <1>3, <2>2, SameNet
  <2> QED
    BY <2>2, <2>3
<1> HIDE DEF w
<1>6. Vias(h, a) = {w}
  BY DEF w
<1> DEFINE To(i, u) == IF i.net = u.net THEN Answer(i.vlan, u) ELSE {}
<1>7. \A y : y \in Hops(h, a) <=> \E i \in Interfaces(h) : y \in To(i, w)
  <2> TAKE y
  <2>1. y \in Hops(h, a) <=> \E i \in Interfaces(h), u \in Vias(h, a) :
                               y \in IF i.net = u.net THEN Answer(i.vlan, u) ELSE {}
    BY DEF Hops
  <2> QED
    BY <1>6, <2>1
<1>8. \A i \in Interfaces(h) : To(i, w) = {} \/ To(i, w) = {q}
  BY <1>4, <1>5
<1>9. To(x, w) = {q}
  BY <1>1, <1>3, <1>4
<1> HIDE DEF To
<1> QED
  BY <1>2, <1>7, <1>8, <1>9

\* The address itself, and its network.
LEMMA AtHome ==
  ASSUME NEW chain, Laid(chain), Consistent, NEW q \in participants,
         NEW h \in participants
  PROVE  /\ Hops(q, Address(interface1[q])) = {q}
         /\ \A x : On(chain, h, Group(q), x) => Hops(h, Address(interface1[q])) = {q}
<1> DEFINE v == interface1[q]
           a == Address(v)
           g == Group(q)
<1>1. On(chain, q, g, v)
  BY DEF On, Member
<1>2. v \in Interfaces(q) /\ \A i \in Interfaces(h) : Address(i) = a => h = q
  BY <1>1, OneAnswer
<1>3. Hops(q, a) = {q}
  BY <1>2 DEF Hops
<1>4. ASSUME NEW x, On(chain, h, g, x), h # q PROVE Hops(h, a) = {q}
  <2>1. x \in Interfaces(h) /\ x.net = m_groups[g].net
    BY <1>4, OnGroup, InterfacesOn
  <2>2. a.net = m_groups[g].net
    BY <1>1, OnGroup DEF Address
  <2>3. Vias(h, a) = {a}
    BY <2>1, <2>2 DEF Vias
  <2> HIDE DEF v, g
  <2> QED
    BY <1>1, <1>2, <1>4, <2>3, HopTo
<1> QED
  BY <1>3, <1>4

\* A host that is no gateway sends what is for another network to that of its group.
LEMMA EndpointHop ==
  ASSUME NEW chain, Laid(chain), Consistent, NEW h \in participants, h \notin gateways,
         NEW a, a.net # AnyNet, m_groups[Group(h)].net # a.net
  PROVE  \E k \in 1..Len(chain) : Hops(h, a) = {chain[k]}
<1>1. PICK k \in 1..Len(chain) :
        /\ Group(chain[k]) = Group(h)
        /\ routes1[h] = {[net |-> AnyNet, via |-> Address(interface1[chain[k]])]}
  BY DEF Laid, Chained, Routed
<1>2. chain[k] \in participants
  BY DEF Laid, Chained, IsChain
<1> DEFINE v == interface1[chain[k]]
           r == [net |-> AnyNet, via |-> Address(v)]
<1>3. On(chain, chain[k], Group(h), v) /\ On(chain, h, Group(h), interface1[h])
  BY <1>1, <1>2 DEF On, Member
<1>4. Interfaces(h) = {interface1[h]} /\ Routes(h) = {r}
  BY <1>1, InterfacesAre DEF SecondSetUp
<1>5. \A i \in Interfaces(h) : i.net # a.net
  BY <1>3, <1>4, OnGroup
<1>6. r.net = AnyNet /\ r.via = Address(v)
  OBVIOUS
<1> HIDE DEF r, v
<1>7. Vias(h, a) = {Address(v)}
  <2>1. {q \in Routes(h) : q.net = a.net} = {} /\ {q \in Routes(h) : q.net = AnyNet} = {r}
    BY <1>4, <1>6
  <2> QED
    BY <1>5, <1>6, <2>1 DEF Vias
<1>8. \A i \in Interfaces(h) : Address(i) # a
  BY <1>5 DEF Address
<1> QED
  BY <1>3, <1>7, <1>8, HopTo

\* Where a gateway has routes to: the networks further on, and those further back.
ForwardNets(chain, k) ==
  IF k = Len(chain) THEN {}
  ELSE {m_groups[Group(chain[l])].net : l \in k + 1..Len(chain)} \cup
       (IF chain[k] = Node10 THEN {} ELSE {Net18})

BackNets(chain, k) ==
  IF k = 1 THEN {}
  ELSE {m_groups[Group(chain[l])].net : l \in 1..k - 2} \cup
       (IF chain[k] = Node1 THEN {} ELSE {Net17})

To(routes, x) == {r.via : r \in {q \in routes : q.net = x}}

LEMMA ToUnion ==
  ASSUME NEW R, NEW S, NEW x PROVE To(R \cup S, x) = To(R, x) \cup To(S, x)
BY DEF To

AllBy(routes, nets, via) == routes = {[net |-> n, via |-> via] : n \in nets}

LEMMA ToOne ==
  ASSUME NEW R, NEW nets, NEW via, AllBy(R, nets, via), NEW x
  PROVE  To(R, x) = IF x \in nets THEN {via} ELSE {}
<1>0. R = {[net |-> n, via |-> via] : n \in nets}
  BY DEF AllBy
<1>1. \A r \in R : r.net \in nets /\ r.via = via
  BY <1>0
<1>2. ASSUME x \in nets PROVE \E r \in R : r.net = x /\ r.via = via
  <2>1. [net |-> x, via |-> via] \in R
    BY <1>0, <1>2
  <2> QED
    BY <2>1
<1> QED
  BY <1>1, <1>2 DEF To

LEMMA GatewayTo ==
  ASSUME NEW chain, Laid(chain), NEW k \in 1..Len(chain), NEW x
  PROVE  To(Routes(chain[k]), x) =
           (IF x \in ForwardNets(chain, k) THEN {Address(interface2[chain[k + 1]])} ELSE {})
           \cup
           (IF x \in BackNets(chain, k) THEN {Address(interface1[chain[k - 1]])} ELSE {})
<1>1. /\ routes1[chain[k]] = RoutesForward(chain, k, interface2)
      /\ routes2[chain[k]] = RoutesBack(chain, k)
  BY DEF Laid, Chained, Routed
<1>2. To(routes1[chain[k]], x) =
        IF x \in ForwardNets(chain, k) THEN {Address(interface2[chain[k + 1]])} ELSE {}
  <2> DEFINE via == Address(interface2[chain[k + 1]])
  <2>1. AllBy(routes1[chain[k]], ForwardNets(chain, k), via)
    BY <1>1, Zenon DEF AllBy, RoutesForward, ForwardNets
  <2> HIDE DEF via
  <2>2. To(routes1[chain[k]], x) = IF x \in ForwardNets(chain, k) THEN {via} ELSE {}
    BY <2>1, ToOne
  <2> QED
    BY <2>2 DEF via
<1>3. To(routes2[chain[k]], x) =
        IF x \in BackNets(chain, k) THEN {Address(interface1[chain[k - 1]])} ELSE {}
  <2> DEFINE via == Address(interface1[chain[k - 1]])
  <2>1. AllBy(routes2[chain[k]], BackNets(chain, k), via)
    BY <1>1, Zenon DEF AllBy, RoutesBack, BackNets
  <2> HIDE DEF via
  <2>2. To(routes2[chain[k]], x) = IF x \in BackNets(chain, k) THEN {via} ELSE {}
    BY <2>1, ToOne
  <2> QED
    BY <2>2 DEF via
<1>4. CASE k = 1
  <2>1. BackNets(chain, k) = {} /\ To({}, x) = {}
    BY <1>4 DEF BackNets, To
  <2>2. Len(chain) # 0
    BY <1>4 DEF Laid, Chained, IsChain
  <2>3. ~SecondSetUp(chain[k])
    BY <1>4, <2>2 DEF Laid, Chained, Joined, SecondSetUp
  <2>4. Routes(chain[k]) = routes1[chain[k]]
    BY <2>3, InterfacesAre
  <2> QED
    BY <1>2, <2>1, <2>4
<1>5. CASE k # 1
  <2>1. k \in 2..Len(chain)
    BY <1>5
  <2>2. SecondSetUp(chain[k])
    BY <2>1, GuestGateway
  <2>3. Routes(chain[k]) = routes1[chain[k]] \cup routes2[chain[k]]
    BY <2>2, InterfacesAre
  <2>4. To(Routes(chain[k]), x) = To(routes1[chain[k]], x) \cup To(routes2[chain[k]], x)
    BY <2>3, ToUnion
  <2> QED
    BY <1>2, <1>3, <2>4
<1> QED
  BY <1>4, <1>5

\* A gateway sends a packet for a network it is not on forwards, backwards or nowhere.
LEMMA GatewayHop ==
  ASSUME NEW chain, Laid(chain), Consistent, NEW k \in 1..Len(chain), NEW a,
         a.net # AnyNet, \A i \in Interfaces(chain[k]) : i.net # a.net
  PROVE  /\ a.net \in ForwardNets(chain, k) /\ a.net \notin BackNets(chain, k)
              => k + 1 \in 1..Len(chain) /\ Hops(chain[k], a) = {chain[k + 1]}
         /\ a.net \notin ForwardNets(chain, k) /\ a.net \in BackNets(chain, k)
              => k - 1 \in 1..Len(chain) /\ Hops(chain[k], a) = {chain[k - 1]}
         /\ a.net \notin ForwardNets(chain, k) /\ a.net \notin BackNets(chain, k)
              => Hops(chain[k], a) = {}
<1> DEFINE h == chain[k]
           n == Len(chain)
<1>1. n \in Nat /\ \A l \in 1..n : chain[l] \in participants /\ Group(chain[l]) \in GroupNumbers
  BY DEF Laid, Chained, IsChain
<1>2. \A i \in Interfaces(h) : Address(i) # a
  BY DEF Address
<1>3. Vias(h, a) = IF To(Routes(h), a.net) # {} THEN To(Routes(h), a.net)
                   ELSE To(Routes(h), AnyNet)
  BY DEF Vias, To
<1>4. \A l \in 2..n : On(chain, chain[l], Group(chain[l - 1]), interface2[chain[l]])
  BY DEF On, Guest
<1>5. \A l \in 1..n : On(chain, chain[l], Group(chain[l]), interface1[chain[l]])
  BY <1>1 DEF On, Member
<1>6. ASSUME a.net \in ForwardNets(chain, k), a.net \notin BackNets(chain, k)
      PROVE  k + 1 \in 1..n /\ Hops(h, a) = {chain[k + 1]}
  <2>1. k # n
    BY <1>6 DEF ForwardNets
  <2>2. k + 1 \in 2..n /\ (k + 1) - 1 = k
    BY <1>1, <2>1
  <2>3. Vias(h, a) = {Address(interface2[chain[k + 1]])}
    BY <1>3, <1>6, GatewayTo
  <2>4. On(chain, chain[k + 1], Group(chain[k]), interface2[chain[k + 1]])
    BY <1>4, <2>2
  <2>5. On(chain, h, Group(chain[k]), interface1[h])
    BY <1>5
  <2> HIDE DEF h
  <2>6. Hops(h, a) = {chain[k + 1]}
    BY <1>2, <2>3, <2>4, <2>5, HopTo
  <2> QED
    BY <2>2, <2>6
<1>7. ASSUME a.net \notin ForwardNets(chain, k), a.net \in BackNets(chain, k)
      PROVE  k - 1 \in 1..n /\ Hops(h, a) = {chain[k - 1]}
  <2>1. k # 1
    BY <1>7 DEF BackNets
  <2>2. k \in 2..n /\ k - 1 \in 1..n
    BY <1>1, <2>1
  <2>3. Vias(h, a) = {Address(interface1[chain[k - 1]])}
    BY <1>3, <1>7, GatewayTo
  <2>4. On(chain, chain[k - 1], Group(chain[k - 1]), interface1[chain[k - 1]])
    BY <1>5, <2>2
  <2>5. On(chain, h, Group(chain[k - 1]), interface2[h])
    BY <1>4, <2>2
  <2> HIDE DEF h
  <2>6. Hops(h, a) = {chain[k - 1]}
    BY <1>2, <2>3, <2>4, <2>5, HopTo
  <2> QED
    BY <2>2, <2>6
<1>8. ASSUME a.net \notin ForwardNets(chain, k), a.net \notin BackNets(chain, k)
      PROVE  Hops(h, a) = {}
  <2>1. \A g \in GroupNumbers : m_groups[g].net # AnyNet
    <3>1. \A g \in GroupNumbers : m_groups[g] \in GroupRecords
      BY DEF Laid, Divided, GroupNumbers
    <3> QED
      BY <3>1 DEF GroupRecords, AnyNet
  <2>2. AnyNet \notin ForwardNets(chain, k)
    <3>1. \A l \in k + 1..n : m_groups[Group(chain[l])].net # AnyNet
      BY <1>1, <2>1
    <3> QED
      BY <3>1 DEF ForwardNets, AnyNet, Net18
  <2>3. AnyNet \notin BackNets(chain, k)
    <3>1. \A l \in 1..k - 2 : m_groups[Group(chain[l])].net # AnyNet
      BY <1>1, <2>1
    <3> QED
      BY <3>1 DEF BackNets, AnyNet, Net17
  <2>4. To(Routes(h), a.net) = {} /\ To(Routes(h), AnyNet) = {}
    BY <1>8, <2>2, <2>3, GatewayTo
  <2>5. Vias(h, a) = {}
    BY <1>3, <2>4
  <2> QED
    BY <1>2, <2>5 DEF Hops
<1> QED
  BY <1>6, <1>7, <1>8

-----------------------------------------------------------------------------
(* All journeys end where they should. *)

\* No group has one of the networks behind Node-1 and Node-10, which the numbering of
\* networks does not leave out.
NetsFree == \A i \in GroupNumbers : m_groups[i].net \notin {Net17, Net18}

LEMMA ChainNets ==
  ASSUME NEW chain, Laid(chain)
  PROVE  /\ Len(chain) \in Nat
         /\ \A k \in 1..Len(chain) :
              chain[k] \in participants /\ Group(chain[k]) \in GroupNumbers
         /\ \A k, l \in 1..Len(chain) :
              m_groups[Group(chain[k])].net = m_groups[Group(chain[l])].net => k = l
         /\ \A g \in GroupNumbers : m_groups[g].net # AnyNet
<1>1. IsChain(chain) /\ Len(chain) \in Nat
  BY DEF Laid, Chained, IsChain
<1>2. \A k \in 1..Len(chain) :
         chain[k] \in participants /\ Group(chain[k]) \in GroupNumbers
  BY <1>1 DEF IsChain
<1>3. ASSUME NEW k \in 1..Len(chain), NEW l \in 1..Len(chain),
             m_groups[Group(chain[k])].net = m_groups[Group(chain[l])].net
      PROVE  k = l
  <2>1. Group(chain[k]) = Group(chain[l])
    BY <1>2, <1>3, SameNet
  <2> QED
    BY <1>1, <2>1, Zenon DEF IsChain
<1>4. \A g \in GroupNumbers : m_groups[g].net # AnyNet
  <2>1. \A g \in GroupNumbers : m_groups[g] \in GroupRecords
    BY DEF Laid, Divided, GroupNumbers
  <2> QED
    BY <2>1 DEF GroupRecords, AnyNet
<1> QED
  BY <1>1, <1>2, <1>3, <1>4

\* A gateway's routes to the group of gateway m.
LEMMA Directions ==
  ASSUME NEW chain, Laid(chain), NetsFree, NEW k \in 1..Len(chain), NEW m \in 1..Len(chain),
         NEW x, x = m_groups[Group(chain[m])].net
  PROVE  /\ x \in ForwardNets(chain, k) <=> k < m
         /\ x \in BackNets(chain, k) <=> m < k - 1
<1>1. Len(chain) \in Nat /\ x # Net17 /\ x # Net18
  BY ChainNets DEF NetsFree
<1>2. ASSUME NEW l \in 1..Len(chain), x = m_groups[Group(chain[l])].net PROVE l = m
  BY <1>2, ChainNets
<1>3. x \in ForwardNets(chain, k) <=> k < m
  <2>1. k + 1..Len(chain) \subseteq 1..Len(chain)
    BY <1>1
  <2>2. x \in ForwardNets(chain, k) <=>
          k # Len(chain) /\ \E l \in k + 1..Len(chain) : x = m_groups[Group(chain[l])].net
    BY <1>1 DEF ForwardNets
  <2>3. (\E l \in k + 1..Len(chain) : x = m_groups[Group(chain[l])].net) <=>
          m \in k + 1..Len(chain)
    BY <1>2, <2>1
  <2> QED
    BY <1>1, <2>2, <2>3
<1>4. x \in BackNets(chain, k) <=> m < k - 1
  <2>1. 1..k - 2 \subseteq 1..Len(chain)
    BY <1>1
  <2>2. x \in BackNets(chain, k) <=>
          k # 1 /\ \E l \in 1..k - 2 : x = m_groups[Group(chain[l])].net
    BY <1>1 DEF BackNets
  <2>3. (\E l \in 1..k - 2 : x = m_groups[Group(chain[l])].net) <=> m \in 1..k - 2
    BY <1>2, <2>1
  <2> QED
    BY <1>1, <2>2, <2>3
<1> QED
  BY <1>3, <1>4

LEMMA Delivered ==
  ASSUME NEW chain, Laid(chain), Consistent, NetsFree,
         NEW p \in participants, NEW q \in participants
  PROVE  Journey(p, Address(interface1[q])) = {q}
<1> DEFINE a == Address(interface1[q])
           g == Group(q)
           n == Len(chain)
<1>1. g \in GroupNumbers /\ a.net = m_groups[g].net
  <2>1. On(chain, q, g, interface1[q])
    BY DEF On, Member
  <2>2. g \in GroupNumbers /\ interface1[q].net = m_groups[g].net
    BY <2>1, OnGroup
  <2> QED
    BY <2>2 DEF Address
<1>2. \A h \in participants : (\E x : On(chain, h, g, x)) => Hops(h, a) = {q}
  BY AtHome
<1>3. Hops(q, a) = {q}
  BY AtHome
<1>4. a.net # AnyNet
  BY <1>1, ChainNets
<1>5. PICK m \in 1..n : Group(chain[m]) = g
  BY <1>1 DEF Laid, Chained, IsChain
<1> HIDE DEF a, g
<1>6. Onward({q}, a) = {q}
  BY <1>3 DEF Onward
<1>7. n \in Nat /\ \A k \in 1..n : chain[k] \in participants
  BY ChainNets
<1> DEFINE d == [k \in 1..n |-> IF k > m THEN k - m ELSE (m - k) + 1]
<1>8. d \in [1..n -> 1..n] /\ \A k \in 1..n : d[k] = IF k > m THEN k - m ELSE (m - k) + 1
  <2>1. \A k \in 1..n : (IF k > m THEN k - m ELSE (m - k) + 1) \in 1..n
    BY <1>7
  <2> QED
    BY <2>1
<1> HIDE DEF d
<1>9. ASSUME NEW k \in 1..n
      PROVE  \/ Hops(chain[k], a) = {q}
             \/ \E j \in 1..n : d[j] < d[k] /\ Hops(chain[k], a) = {chain[j]}
  <2>1. CASE \E x : On(chain, chain[k], g, x)
    BY <1>2, <1>7, <2>1
  <2>2. CASE ~ \E x : On(chain, chain[k], g, x)
    <3>1. k # m
      <4>1. On(chain, chain[m], g, interface1[chain[m]])
        BY <1>5, <1>7 DEF On, Member
      <4> QED
        BY <2>2, <4>1
    <3>2. k # m + 1
      <4> SUFFICES ASSUME k = m + 1 PROVE FALSE
        OBVIOUS
      <4>1. k \in 2..n /\ k - 1 = m
        BY <1>7
      <4>2. On(chain, chain[k], g, interface2[chain[k]])
        BY <1>5, <4>1 DEF On, Guest
      <4> QED
        BY <2>2, <4>2
    <3>3. \A i \in Interfaces(chain[k]) : i.net # a.net
      <4> SUFFICES ASSUME NEW i \in Interfaces(chain[k]), i.net = a.net PROVE FALSE
        OBVIOUS
      <4>1. PICK f \in GroupNumbers : On(chain, chain[k], f, i)
        BY <1>7, InterfacesOn
      <4>2. i.net = m_groups[f].net
        BY <4>1, OnGroup
      <4>3. f = g
        BY <1>1, <4>2, SameNet
      <4> QED
        BY <2>2, <4>1, <4>3
    <3>4. a.net \in ForwardNets(chain, k) <=> k < m
      BY <1>1, <1>5, Directions
    <3>5. a.net \in BackNets(chain, k) <=> m < k - 1
      BY <1>1, <1>5, Directions
    <3>6. CASE k < m
      <4>1. a.net \in ForwardNets(chain, k) /\ a.net \notin BackNets(chain, k)
        BY <1>7, <3>4, <3>5, <3>6
      <4>2. k + 1 \in 1..n /\ Hops(chain[k], a) = {chain[k + 1]}
        BY <1>4, <3>3, <4>1, GatewayHop
      <4>3. d[k + 1] < d[k]
        BY <1>7, <1>8, <3>6, <4>2
      <4> QED
        BY <4>2, <4>3
    <3>7. CASE m < k
      <4>1. a.net \notin ForwardNets(chain, k) /\ a.net \in BackNets(chain, k)
        BY <1>7, <3>2, <3>4, <3>5, <3>7
      <4>2. k - 1 \in 1..n /\ Hops(chain[k], a) = {chain[k - 1]}
        BY <1>4, <3>3, <4>1, GatewayHop
      <4>3. d[k - 1] < d[k]
        BY <1>7, <1>8, <3>2, <3>7, <4>2
      <4> QED
        BY <4>2, <4>3
    <3> QED
      BY <1>7, <3>1, <3>6, <3>7
  <2> QED
    BY <2>1, <2>2
<1>10. ASSUME NEW h \in participants \ gateways
       PROVE  Hops(h, a) = {q} \/ \E j \in 1..n : Hops(h, a) = {chain[j]}
  <2>1. On(chain, h, Group(h), interface1[h])
    BY DEF On, Member
  <2>2. CASE Group(h) = g
    BY <1>2, <2>1, <2>2
  <2>3. CASE Group(h) # g
    <3>1. m_groups[Group(h)].net # a.net
      BY <1>1, <2>1, <2>3, OnGroup, SameNet
    <3> QED
      BY <1>4, <3>1, EndpointHop
  <2> QED
    BY <2>2, <2>3
<1>11. Descends(chain, a, {q}, d)
  BY <1>8, <1>9, <1>10 DEF Descends
<1>12. Journey(p, a) = {q}
  BY <1>6, <1>11, Descent
<1> QED
  BY <1>12 DEF a

LEMMA Dropped ==
  ASSUME NEW chain, Laid(chain), Consistent, NetsFree,
         NEW p \in participants, NEW x \in {Net17, Net18}
  PROVE  Journey(p, [net |-> x, octet |-> 1]) = {}
<1> DEFINE a == [net |-> x, octet |-> 1]
           n == Len(chain)
<1>1. a.net = x /\ x # AnyNet
  BY DEF Net17, Net18, AnyNet
<1> HIDE DEF a
<1>2. n \in Nat /\ \A k \in 1..n : chain[k] \in participants /\ Group(chain[k]) \in GroupNumbers
  BY ChainNets
<1>3. \A g \in GroupNumbers : m_groups[g].net # x
  BY DEF NetsFree
<1>4. \A k \in 1..n : \A i \in Interfaces(chain[k]) : i.net # a.net
  <2> TAKE k \in 1..n
  <2> TAKE i \in Interfaces(chain[k])
  <2>1. PICK f \in GroupNumbers : On(chain, chain[k], f, i)
    BY <1>2, InterfacesOn
  <2>2. i.net = m_groups[f].net
    BY <2>1, OnGroup
  <2> QED
    BY <1>1, <1>3, <2>2
<1> DEFINE d == [k \in 1..n |-> IF x = Net17 THEN k ELSE (n - k) + 1]
<1>5. d \in [1..n -> 1..n] /\ \A k \in 1..n : d[k] = IF x = Net17 THEN k ELSE (n - k) + 1
  <2>1. \A k \in 1..n : (IF x = Net17 THEN k ELSE (n - k) + 1) \in 1..n
    BY <1>2
  <2> QED
    BY <2>1
<1> HIDE DEF d
<1>6. ASSUME NEW k \in 1..n
      PROVE  \/ Hops(chain[k], a) = {}
             \/ \E j \in 1..n : d[j] < d[k] /\ Hops(chain[k], a) = {chain[j]}
  <2>1. x \in ForwardNets(chain, k) => x = Net18
    <3>1. \A l \in k + 1..n : m_groups[Group(chain[l])].net # x
      BY <1>2, <1>3
    <3> QED
      BY <3>1 DEF ForwardNets
  <2>2. x \in BackNets(chain, k) => x = Net17
    <3>1. \A l \in 1..k - 2 : m_groups[Group(chain[l])].net # x
      BY <1>2, <1>3
    <3> QED
      BY <3>1 DEF BackNets
  <2>3. ~(x \in ForwardNets(chain, k) /\ x \in BackNets(chain, k))
    BY <2>1, <2>2 DEF Net17, Net18
  <2>4. CASE x \in ForwardNets(chain, k)
    <3>1. k + 1 \in 1..n /\ Hops(chain[k], a) = {chain[k + 1]}
      BY <1>1, <1>4, <2>3, <2>4, GatewayHop
    <3>2. d[k + 1] < d[k]
      BY <1>2, <1>5, <2>1, <2>4, <3>1 DEF Net17, Net18
    <3> QED
      BY <3>1, <3>2
  <2>5. CASE x \in BackNets(chain, k)
    <3>1. k - 1 \in 1..n /\ Hops(chain[k], a) = {chain[k - 1]}
      BY <1>1, <1>4, <2>3, <2>5, GatewayHop
    <3>2. d[k - 1] < d[k]
      BY <1>2, <1>5, <2>2, <2>5, <3>1
    <3> QED
      BY <3>1, <3>2
  <2>6. CASE x \notin ForwardNets(chain, k) /\ x \notin BackNets(chain, k)
    BY <1>1, <1>4, <2>6, GatewayHop
  <2> QED
    BY <2>4, <2>5, <2>6
<1>7. ASSUME NEW h \in participants \ gateways
      PROVE  Hops(h, a) = {} \/ \E j \in 1..n : Hops(h, a) = {chain[j]}
  <2>1. Group(h) \in GroupNumbers
    BY DEF Laid, Addressed
  <2> QED
    BY <1>1, <1>3, <2>1, EndpointHop
<1>8. Descends(chain, a, {}, d)
  BY <1>5, <1>6, <1>7 DEF Descends
<1>9. Onward({}, a) = {}
  BY DEF Onward
<1>10. Journey(p, a) = {}
  BY <1>8, <1>9, Descent
<1> QED
  BY <1>10 DEF a

\* Every participant reaches every other one, however many hosts and groups there are
\* and whatever is drawn, if networks are random only when gateways are, too, and no
\* group has one of the networks 17 and 18.
\* (VMTDEngine::createGateways, VMTDGroup::setInternalGateway, setExternalGateway)
THEOREM HostsMeshed == ConsistentSettings => (Spec => [](NetsFree => FullMesh))
<1> SUFFICES ASSUME ConsistentSettings PROVE Spec => [](NetsFree => FullMesh)
  OBVIOUS
<1>1. ReconfigurationInv => (NetsFree => FullMesh)
  <2> SUFFICES ASSUME ReconfigurationInv, NetsFree, phase = "ready",
                      NEW p \in participants, NEW q \in participants
               PROVE  Journey(p, Address(interface1[q])) = {q}
    BY DEF FullMesh
  <2>1. Consistent
    BY DEF ReconfigurationInv, ConsistentSettings, Consistent
  <2>2. PICK chain : Laid(chain)
    BY LaidWhenReady
  <2> QED
    BY <2>1, <2>2, Delivered
<1> QED
  BY <1>1, Invariant, PTL

\* Under the same conditions a packet for the networks behind Node-1 and Node-10 never
\* goes round.  (VMTDEngine::createGateways, the routes to 100.100.17.0 and 100.100.18.0)
THEOREM ExtraRoutesEnd == ConsistentSettings => (Spec => [](NetsFree => NoLoops))
<1> SUFFICES ASSUME ConsistentSettings PROVE Spec => [](NetsFree => NoLoops)
  OBVIOUS
<1>1. ReconfigurationInv => (NetsFree => NoLoops)
  <2> SUFFICES ASSUME ReconfigurationInv, NetsFree, phase = "ready",
                      NEW p \in participants, NEW x \in {Net17, Net18}
               PROVE  Journey(p, [net |-> x, octet |-> 1]) = {}
    BY DEF NoLoops
  <2>1. Consistent
    BY DEF ReconfigurationInv, ConsistentSettings, Consistent
  <2>2. PICK chain : Laid(chain)
    BY LaidWhenReady
  <2> QED
    BY <2>1, <2>2, Dropped
<1> QED
  BY <1>1, Invariant, PTL
=============================================================================
