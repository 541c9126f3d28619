------------------------- MODULE DeviceTablesProofs -------------------------
(* Theorems about the tables, for any names, urls and bounds. *)
EXTENDS DeviceTables, TLAPS

-----------------------------------------------------------------------------
(* What the statements do to tables. *)

LEMMA PutTable ==
  ASSUME NEW t, NEW Id, NEW Row, IsTable(t, Id, Row), NEW id \in Id, NEW row \in Row
  PROVE  /\ IsTable(Put(t, id, row), Id, Row)
         /\ DOMAIN Put(t, id, row) = DOMAIN t \cup {id}
BY DEF IsTable, Put

LEMMA UpdateTable ==
  ASSUME NEW t, NEW Id, NEW Row, IsTable(t, Id, Row), NEW id \in Id, NEW row \in Row
  PROVE  /\ IsTable(Update(t, id, row), Id, Row)
         /\ DOMAIN Update(t, id, row) = DOMAIN t
BY PutTable DEF Update

LEMMA DeleteTable ==
  ASSUME NEW t, NEW Id, NEW Row, IsTable(t, Id, Row), NEW ids
  PROVE  /\ IsTable(Delete(t, ids), Id, Row)
         /\ DOMAIN Delete(t, ids) = DOMAIN t \ ids
         /\ \A x \in DOMAIN t \ ids : Delete(t, ids)[x] = t[x]
BY DEF IsTable, Delete, Restrict

LEMMA JoinedHostsTable ==
  ASSUME NEW h, NEW s, IsTable(h, HostIds, HostRow), IsTable(s, SwitchIds, SwitchRow)
  PROVE  /\ IsTable(JoinedHosts(h, s), HostIds, ShownHost)
         /\ DOMAIN JoinedHosts(h, s) \subseteq DOMAIN h
BY DEF IsTable, JoinedHosts, HostRow, SwitchRow, ShownHost

LEMMA JoinedScannersTable ==
  ASSUME NEW t, NEW h, IsTable(t, ScannerIds, ScannerRow), IsTable(h, HostIds, HostRow)
  PROVE  IsTable(JoinedScanners(t, h), ScannerIds, HostNames \cup {None})
BY DEF IsTable, JoinedScanners, HostRow, ScannerRow

LEMMA FindTextFinds ==
  ASSUME NEW combo, NEW text
  PROVE  FindText(combo, text) \in DOMAIN combo \cup {0}
<1> DEFINE First(id) == /\ combo[id].name = text
                        /\ \A other \in DOMAIN combo :
                             combo[other].name = text => id <= other
<1>1. CASE \E id \in DOMAIN combo : First(id)
  <2>1. (CHOOSE id \in DOMAIN combo : First(id)) \in DOMAIN combo
    BY <1>1
  <2> QED
    BY <1>1, <2>1 DEF FindText
<1>2. CASE ~\E id \in DOMAIN combo : First(id)
  BY <1>2 DEF FindText
<1> QED
  BY <1>1, <1>2

\* A name that one entry has finds that entry.
LEMMA FindTextUnique ==
  ASSUME NEW combo, NEW text, DOMAIN combo \subseteq Int,
         NEW s \in DOMAIN combo, combo[s].name = text,
         \A other \in DOMAIN combo \ {s} : combo[other].name # text
  PROVE  FindText(combo, text) = s
<1> DEFINE First(id) == /\ combo[id].name = text
                        /\ \A other \in DOMAIN combo :
                             combo[other].name = text => id <= other
<1>1. First(s)
  <2> SUFFICES ASSUME NEW other \in DOMAIN combo, combo[other].name = text
               PROVE  s <= other
    OBVIOUS
  <2>1. other = s /\ s \in Int
    OBVIOUS
  <2> QED
    BY <2>1
<1>2. \A id \in DOMAIN combo : First(id) => id = s
  OBVIOUS
<1>3. (CHOOSE id \in DOMAIN combo : First(id)) = s
  BY <1>1, <1>2
<1> QED
  BY <1>1, <1>3 DEF FindText

-----------------------------------------------------------------------------
(* The invariant.                                                           *)

\* The forms of the switches are up to date between the clicks; hosts are at switches
\* that are there and not about to be deleted; row 0 stays.
Switched ==
    /\ 0 \in DOMAIN switches
    /\ 0 \notin selected
    /\ failures = 0 /\ Idle => switchesSeen = switches
    /\ failures = 0 =>
         \A h \in DOMAIN hosts :
           /\ hosts[h].switch \in DOMAIN switches
           /\ current # 0 => hosts[h].switch # current

\* Ids of hosts count their creations, and a row of scanners names an id that was
\* given when it was written.
Counted ==
    /\ \A h \in DOMAIN hosts : h <= lastHost /\ hosts[h].born = h
    /\ \A h \in DOMAIN hostsSeen : h <= lastHost
    /\ \A k \in Kinds : \A b \in DOMAIN scanners[k] :
         scanners[k][b].host <= scanners[k][b].at

\* The handlers are those of the switches as long as nothing was edited.
Served ==
    /\ 0 \in DOMAIN switches => switches[0].url = None
    /\ server = "listening" /\ ~edited /\ failures = 0 =>
         handlers = HandlerUrls(switches)

IInv == TypeOK /\ Switched /\ Counted /\ Served

LEMMA TypeInit == Init => TypeOK
<1> SUFFICES ASSUME Init PROVE TypeOK
  OBVIOUS
<1> USE TablesAssumption DEF Init
<1>1. IsTable(switches, SwitchIds, SwitchRow) /\ IsTable(hosts, HostIds, HostRow)
  BY DEF IsTable, SwitchIds, HostIds, SwitchRow, HostRow
<1>2. IsTable(hostsSeen, HostIds, ShownHost)
  BY <1>1, JoinedHostsTable
<1>3. \A k \in Kinds : /\ IsTable(scanners[k], ScannerIds, ScannerRow)
                       /\ IsTable(scannersSeen[k], ScannerIds, HostNames \cup {None})
  BY DEF IsTable
<1>4. DOMAIN scanners = Kinds /\ DOMAIN scannersSeen = Kinds
  OBVIOUS
<1>5. lastScanner \in [Kinds -> ScannerIds]
  BY DEF ScannerIds
<1>6. /\ lastSwitch \in SwitchIds /\ lastHost \in HostIds /\ current \in SwitchIds
      /\ failures \in 0..MaxFailures
  BY DEF SwitchIds, HostIds
<1>7. /\ switchesSeen = switches
      /\ selected \subseteq SwitchIds /\ handlers \subseteq Urls
      /\ server \in {"starting", "listening"} /\ edited \in BOOLEAN
  OBVIOUS
<1> HIDE DEF Init
<1> QED
  BY <1>1, <1>2, <1>3, <1>4, <1>5, <1>6, <1>7 DEF TypeOK

LEMMA InitIInv == Init => IInv
<1> SUFFICES ASSUME Init PROVE IInv
  OBVIOUS
<1>1. TypeOK
  BY TypeInit
<1>2. DOMAIN hostsSeen \subseteq DOMAIN hosts
  BY <1>1, JoinedHostsTable DEF TypeOK, Init
<1>3. Switched
  BY DEF Init, Switched
<1>4. Counted
  BY <1>2 DEF Init, Counted
<1>5. Served
  BY DEF Init, Served
<1> QED
  BY <1>1, <1>3, <1>4, <1>5 DEF IInv

LEMMA OutcomeCounts ==
  ASSUME TypeOK, NEW oks, Outcome(oks)
  PROVE  /\ failures' \in 0..MaxFailures
         /\ failures' = 0 => failures = 0 /\ FALSE \notin oks
<1>1. CASE FALSE \in oks
  <2>1. failures < MaxFailures /\ failures' = failures + 1
    BY <1>1 DEF Outcome
  <2>2. failures \in 0..MaxFailures /\ MaxFailures \in Nat
    BY TablesAssumption DEF TypeOK
  <2>3. failures' \in 0..MaxFailures /\ failures' # 0
    BY <2>1, <2>2
  <2> QED
    BY <2>3
<1>2. CASE FALSE \notin oks
  BY <1>2 DEF Outcome, TypeOK
<1> QED
  BY <1>1, <1>2

LEMMA AcceptSwitchStep ==
  ASSUME IInv, NEW id \in SwitchIds \cup {-1}, NEW row \in [name : SwitchNames, url : Urls],
         AcceptSwitch(id, row)
  PROVE  IInv'
<1> USE TablesAssumption
<1>1. PICK ok \in BOOLEAN, shown \in BOOLEAN :
         /\ id = 0 => ok
         /\ Outcome({ok, shown})
         /\ \/ /\ id = 0 \/ ~ok
               /\ UNCHANGED <<switches, lastSwitch>>
            \/ /\ id > 0 /\ ok
               /\ switches' = Update(switches, id, row)
               /\ UNCHANGED lastSwitch
            \/ /\ id = -1 /\ ok
               /\ switches' = Put(switches, NextId(switches, lastSwitch), row)
               /\ lastSwitch' = lastSwitch + 1
         /\ selectSwitches(shown, switches')
  BY DEF AcceptSwitch
<1>2. /\ Idle /\ (id = -1 => lastSwitch < MaxSwitches)
      /\ edited' = (edited \/ switches' # switches)
      /\ UNCHANGED <<hosts, scanners, lastHost, lastScanner, hostsSeen, scannersSeen,
                     selected, current, handlers, server>>
  BY DEF AcceptSwitch, remove, nxapi
<1>3. TypeOK /\ Switched /\ Counted /\ Served
  BY DEF IInv
<1>4. row \in SwitchRow
  BY DEF SwitchRow
<1>5. /\ failures' \in 0..MaxFailures
      /\ failures' = 0 => failures = 0 /\ ok /\ shown
  BY <1>1, <1>3, OutcomeCounts
<1>6. lastSwitch' \in SwitchIds
  BY <1>1, <1>2, <1>3 DEF TypeOK, SwitchIds
<1>7. /\ IsTable(switches', SwitchIds, SwitchRow)
      /\ DOMAIN switches \subseteq DOMAIN switches'
      /\ 0 \in DOMAIN switches => switches'[0] = switches[0]
  <2>1. CASE UNCHANGED switches
    BY <2>1, <1>3 DEF TypeOK
  <2>2. CASE id > 0 /\ switches' = Update(switches, id, row)
    <3>1. id \in SwitchIds
      BY <2>2 DEF SwitchIds
    <3>2. IsTable(switches, SwitchIds, SwitchRow)
      BY <1>3 DEF TypeOK
    <3>3. IsTable(switches', SwitchIds, SwitchRow) /\ DOMAIN switches' = DOMAIN switches
      BY <2>2, <3>1, <3>2, <1>4, UpdateTable
    <3>4. 0 \in DOMAIN switches => switches'[0] = switches[0]
      BY <2>2 DEF Update, Put
    <3> QED
      BY <3>3, <3>4
  <2>3. CASE id = -1 /\ switches' = Put(switches, NextId(switches, lastSwitch), row)
    <3>1. lastSwitch + 1 \in SwitchIds /\ lastSwitch + 1 # 0
      BY <2>3, <1>2, <1>3 DEF TypeOK, SwitchIds
    <3>2. IsTable(switches, SwitchIds, SwitchRow)
      BY <1>3 DEF TypeOK
    <3>3. /\ IsTable(switches', SwitchIds, SwitchRow)
          /\ DOMAIN switches' = DOMAIN switches \cup {lastSwitch + 1}
      BY <2>3, <3>1, <3>2, <1>4, PutTable DEF NextId
    <3>4. 0 \in DOMAIN switches => switches'[0] = switches[0]
      BY <2>3, <3>1 DEF Put, NextId
    <3> QED
      BY <3>3, <3>4
  <2> QED
    BY <1>1, <2>1, <2>2, <2>3
<1>8. switchesSeen' = switches' \/ (switchesSeen' = switchesSeen /\ ~shown)
  BY <1>1 DEF selectSwitches
<1>9. TypeOK'
  BY <1>2, <1>3, <1>5, <1>6, <1>7, <1>8 DEF TypeOK
<1>10. Switched'
  BY <1>2, <1>3, <1>5, <1>7, <1>8 DEF Switched, Idle
<1>11. Counted'
  BY <1>2, <1>3 DEF Counted
<1>12. Served'
  BY <1>2, <1>3, <1>5, <1>7 DEF Served, HandlerUrls, Switched
<1> QED
  BY <1>9, <1>10, <1>11, <1>12 DEF IInv

LEMMA AcceptHostStep ==
  ASSUME IInv, NEW id \in HostIds \cup {-1}, NEW name \in HostNames \cup {None},
         NEW s \in DOMAIN switchesSeen \cup {0}, AcceptHost(id, name, s)
  PROVE  IInv'
<1> USE TablesAssumption
<1>1. PICK ok \in BOOLEAN, shown \in BOOLEAN :
         /\ Outcome({ok, shown})
         /\ \/ UNCHANGED <<hosts, lastHost>>
            \/ /\ id > 0 /\ id \in DOMAIN hosts
               /\ hosts' = Put(hosts, id,
                              [name |-> name, switch |-> s, born |-> hosts[id].born])
               /\ UNCHANGED lastHost
            \/ /\ id = -1
               /\ lastHost' = lastHost + 1
               /\ hosts' = Put(hosts, lastHost + 1,
                              [name |-> name, switch |-> s, born |-> lastHost'])
         /\ selectHosts(shown, hosts', switches)
  BY DEF AcceptHost, NextId
<1>2. /\ Idle /\ (id = -1 => lastHost < MaxHosts)
      /\ UNCHANGED <<switches, scanners, lastSwitch, lastScanner, switchesSeen,
                     scannersSeen, selected, current, handlers, server, edited>>
  BY DEF AcceptHost, remove, nxapi
<1>3. TypeOK /\ Switched /\ Counted /\ Served
  BY DEF IInv
<1>4. /\ failures' \in 0..MaxFailures
      /\ failures' = 0 => failures = 0
  BY <1>1, <1>3, OutcomeCounts
<1>5. lastHost' \in HostIds /\ lastHost <= lastHost'
  BY <1>1, <1>2, <1>3 DEF TypeOK, HostIds
<1>6. s \in SwitchIds /\ (failures = 0 => s \in DOMAIN switches)
  BY <1>2, <1>3 DEF TypeOK, Switched, IsTable, SwitchIds
<1>7. /\ IsTable(hosts', HostIds, HostRow)
      /\ \A h \in DOMAIN hosts' :
           /\ h <= lastHost' /\ hosts'[h].born = h
           /\ \/ hosts'[h].switch = s
              \/ h \in DOMAIN hosts /\ hosts'[h].switch = hosts[h].switch
  <2>1. IsTable(hosts, HostIds, HostRow)
    BY <1>3 DEF TypeOK
  <2>2. CASE UNCHANGED <<hosts, lastHost>>
    BY <2>1, <2>2, <1>3 DEF Counted
  <2>3. CASE /\ id > 0 /\ id \in DOMAIN hosts
             /\ hosts' = Put(hosts, id,
                            [name |-> name, switch |-> s, born |-> hosts[id].born])
             /\ UNCHANGED lastHost
    <3>1. id \in HostIds /\ hosts[id].born \in HostIds
      BY <2>1, <2>3 DEF IsTable, HostRow
    <3>2. [name |-> name, switch |-> s, born |-> hosts[id].born] \in HostRow
      BY <3>1, <1>6 DEF HostRow
    <3>3. IsTable(hosts', HostIds, HostRow) /\ DOMAIN hosts' = DOMAIN hosts \cup {id}
      BY <2>1, <2>3, <3>1, <3>2, PutTable
    <3>4. \A h \in DOMAIN hosts' :
            hosts'[h] = IF h = id
                        THEN [name |-> name, switch |-> s, born |-> hosts[id].born]
                        ELSE hosts[h]
      BY <2>3, <3>3 DEF Put
    <3> QED
      BY <2>3, <3>3, <3>4, <1>3 DEF Counted
  <2>4. CASE /\ id = -1
             /\ lastHost' = lastHost + 1
             /\ hosts' = Put(hosts, lastHost + 1,
                            [name |-> name, switch |-> s, born |-> lastHost'])
    <3>1. lastHost + 1 \in HostIds /\ lastHost \in Int
      BY <1>5, <2>4, <1>3 DEF TypeOK, HostIds
    <3>2. [name |-> name, switch |-> s, born |-> lastHost'] \in HostRow
      BY <1>5, <1>6 DEF HostRow
    <3>3. /\ IsTable(hosts', HostIds, HostRow)
          /\ DOMAIN hosts' = DOMAIN hosts \cup {lastHost + 1}
      BY <2>1, <2>4, <3>1, <3>2, PutTable
    <3>4. \A h \in DOMAIN hosts' :
            hosts'[h] = IF h = lastHost + 1
                        THEN [name |-> name, switch |-> s, born |-> lastHost']
                        ELSE hosts[h]
      BY <2>4, <3>3 DEF Put
    <3>5. \A h \in DOMAIN hosts : h \in Int /\ h <= lastHost /\ hosts[h].born = h
      BY <2>1, <1>3 DEF Counted, IsTable, HostIds
    <3>6. \A h \in DOMAIN hosts' : h <= lastHost' /\ hosts'[h].born = h
      BY <2>4, <3>1, <3>3, <3>4, <3>5
    <3>7. \A h \in DOMAIN hosts' :
            \/ hosts'[h].switch = s
            \/ h \in DOMAIN hosts /\ hosts'[h].switch = hosts[h].switch
      BY <3>3, <3>4
    <3> QED
      BY <3>3, <3>6, <3>7
  <2> QED
    BY <1>1, <2>2, <2>3, <2>4
<1>8. \/ hostsSeen' = JoinedHosts(hosts', switches)
      \/ hostsSeen' = hostsSeen
  BY <1>1 DEF selectHosts
<1>9. /\ IsTable(hostsSeen', HostIds, ShownHost)
      /\ \A h \in DOMAIN hostsSeen' : h <= lastHost'
  <2>1. CASE hostsSeen' = JoinedHosts(hosts', switches)
    BY <2>1, <1>3, <1>7, JoinedHostsTable DEF TypeOK
  <2>2. CASE hostsSeen' = hostsSeen
    <3>1. \A h \in DOMAIN hostsSeen : h \in Int /\ h <= lastHost
      BY <1>3 DEF TypeOK, Counted, IsTable, HostIds
    <3>2. lastHost \in Int /\ lastHost' \in Int
      BY <1>3, <1>5 DEF TypeOK, HostIds
    <3> QED
      BY <2>2, <3>1, <3>2, <1>3, <1>5 DEF TypeOK
  <2> QED
    BY <1>8, <2>1, <2>2
<1>10. TypeOK'
  BY <1>2, <1>3, <1>4, <1>5, <1>7, <1>9 DEF TypeOK
<1>11. Switched'
  <2>1. current = 0
    BY <1>2 DEF Idle
  <2> QED
    BY <2>1, <1>2, <1>3, <1>4, <1>6, <1>7 DEF Switched, Idle
<1>12. Counted'
  BY <1>2, <1>3, <1>7, <1>9 DEF Counted
<1>13. Served'
  BY <1>2, <1>3, <1>4 DEF Served, HandlerUrls
<1> QED
  BY <1>10, <1>11, <1>12, <1>13 DEF IInv

LEMMA AcceptScannerStep ==
  ASSUME IInv, NEW kind \in Kinds, NEW id \in ScannerIds \cup {-1},
         NEW host \in DOMAIN hostsSeen \cup {0}, AcceptScanner(kind, id, host)
  PROVE  IInv'
<1> USE TablesAssumption
<1> DEFINE row == [host |-> host, at |-> lastHost]
<1>1. PICK ok \in BOOLEAN, shown \in BOOLEAN :
         /\ Outcome({ok, shown})
         /\ \/ UNCHANGED <<scanners, lastScanner>>
            \/ /\ id >= 0
               /\ scanners' = [scanners EXCEPT ![kind] = Update(@, id, row)]
               /\ UNCHANGED lastScanner
            \/ /\ id = -1
               /\ scanners' = [scanners EXCEPT ![kind] = Put(@, lastScanner[kind] + 1, row)]
               /\ lastScanner' = [lastScanner EXCEPT ![kind] = @ + 1]
         /\ selectScanners(kind, shown, scanners'[kind], hosts)
  BY DEF AcceptScanner, NextId
<1>2. /\ Idle /\ (id = -1 => lastScanner[kind] < MaxScanners)
      /\ UNCHANGED <<switches, hosts, lastSwitch, lastHost, switchesSeen, hostsSeen,
                     selected, current, handlers, server, edited>>
  BY DEF AcceptScanner, remove, nxapi
<1>3. TypeOK /\ Switched /\ Counted /\ Served
  BY DEF IInv
<1>4. /\ failures' \in 0..MaxFailures
      /\ failures' = 0 => failures = 0
  BY <1>1, <1>3, OutcomeCounts
<1>5. row \in ScannerRow /\ row.host <= row.at
  <2>1. host \in HostIds /\ host <= lastHost /\ lastHost \in HostIds
    BY <1>3 DEF TypeOK, Counted, IsTable, HostIds
  <2> QED
    BY <2>1 DEF ScannerRow
<1> HIDE DEF row
<1>6. /\ DOMAIN scanners' = Kinds
      /\ \A k \in Kinds : /\ IsTable(scanners'[k], ScannerIds, ScannerRow)
                         /\ \A b \in DOMAIN scanners'[k] :
                              scanners'[k][b].host <= scanners'[k][b].at
  <2>1. DOMAIN scanners = Kinds /\ \A k \in Kinds : IsTable(scanners[k], ScannerIds, ScannerRow)
    BY <1>3 DEF TypeOK
  <2>2. \A k \in Kinds : \A b \in DOMAIN scanners[k] : scanners[k][b].host <= scanners[k][b].at
    BY <1>3 DEF Counted
  <2>3. CASE UNCHANGED scanners
    BY <2>1, <2>2, <2>3
  <2>4. ASSUME NEW x \in ScannerIds,
               scanners' = [scanners EXCEPT ![kind] = Put(scanners[kind], x, row)]
        PROVE  <1>6
    <3>1. IsTable(Put(scanners[kind], x, row), ScannerIds, ScannerRow)
      BY <2>1, <1>5, PutTable
    <3>2. \A b \in DOMAIN Put(scanners[kind], x, row) :
            Put(scanners[kind], x, row)[b].host <= Put(scanners[kind], x, row)[b].at
      BY <2>2, <1>5 DEF Put
    <3>3. /\ DOMAIN scanners' = Kinds
          /\ scanners'[kind] = Put(scanners[kind], x, row)
          /\ \A k \in Kinds \ {kind} : scanners'[k] = scanners[k]
      BY <2>1, <2>4
    <3>4. \A k \in Kinds : k = kind \/ k \in Kinds \ {kind}
      OBVIOUS
    <3> QED
      BY <2>1, <2>2, <3>1, <3>2, <3>3, <3>4
  <2>5. CASE id >= 0 /\ scanners' = [scanners EXCEPT ![kind] = Update(@, id, row)]
    <3>1. id \in ScannerIds
      BY <2>5 DEF ScannerIds
    <3>2. CASE id \in DOMAIN scanners[kind]
      <4>1. scanners' = [scanners EXCEPT ![kind] = Put(scanners[kind], id, row)]
        BY <2>1, <2>5, <3>2 DEF Update
      <4> QED
        BY <2>4, <3>1, <4>1
    <3>3. CASE id \notin DOMAIN scanners[kind]
      <4>1. scanners' = [scanners EXCEPT ![kind] = scanners[kind]]
        BY <2>1, <2>5, <3>3 DEF Update
      <4>2. /\ DOMAIN scanners' = Kinds
            /\ \A k \in Kinds : scanners'[k] = scanners[k]
        BY <2>1, <4>1
      <4> QED
        BY <2>1, <2>2, <4>2
    <3> QED
      BY <3>2, <3>3
  <2>6. CASE /\ id = -1
             /\ scanners' = [scanners EXCEPT ![kind] = Put(@, lastScanner[kind] + 1, row)]
    <3>1. lastScanner[kind] + 1 \in ScannerIds
      BY <2>6, <1>2, <1>3 DEF TypeOK, ScannerIds
    <3>2. scanners' = [scanners EXCEPT ![kind] =
                         Put(scanners[kind], lastScanner[kind] + 1, row)]
      BY <2>1, <2>6
    <3> QED
      BY <2>4, <3>1, <3>2
  <2> QED
    BY <1>1, <2>3, <2>5, <2>6
<1>7. lastScanner' \in [Kinds -> ScannerIds]
  BY <1>1, <1>2, <1>3 DEF TypeOK, ScannerIds
<1>8. /\ DOMAIN scannersSeen' = Kinds
      /\ \A k \in Kinds : IsTable(scannersSeen'[k], ScannerIds, HostNames \cup {None})
  <2>1. IsTable(JoinedScanners(scanners'[kind], hosts), ScannerIds, HostNames \cup {None})
    BY <1>3, <1>6, JoinedScannersTable DEF TypeOK
  <2>2. \/ scannersSeen' = scannersSeen
        \/ scannersSeen' = [scannersSeen EXCEPT ![kind] =
                              JoinedScanners(scanners'[kind], hosts)]
    BY <1>1 DEF selectScanners
  <2>3. /\ DOMAIN scannersSeen = Kinds
        /\ \A k \in Kinds : IsTable(scannersSeen[k], ScannerIds, HostNames \cup {None})
    BY <1>3 DEF TypeOK
  <2>4. \A k \in Kinds : \/ scannersSeen'[k] = scannersSeen[k]
                        \/ scannersSeen'[k] = JoinedScanners(scanners'[kind], hosts)
    BY <2>2, <2>3
  <2> QED
    BY <2>1, <2>2, <2>3, <2>4
<1>9. TypeOK'
  BY <1>2, <1>3, <1>4, <1>6, <1>7, <1>8 DEF TypeOK
<1>10. Switched'
  BY <1>2, <1>3, <1>4 DEF Switched, Idle
<1>11. Counted'
  BY <1>2, <1>3, <1>6 DEF Counted
<1>12. Served'
  BY <1>2, <1>3, <1>4 DEF Served, HandlerUrls
<1> QED
  BY <1>9, <1>10, <1>11, <1>12 DEF IInv

LEMMA SelectForRemovalStep ==
  ASSUME IInv, NEW ids \in SUBSET SwitchIds, SelectForRemoval(ids)
  PROVE  IInv'
<1>1. /\ selected' = ids /\ ids # {} /\ 0 \notin ids
      /\ current = 0 /\ current' = 0
      /\ UNCHANGED <<switches, hosts, scanners, lastSwitch, lastHost, lastScanner,
                     switchesSeen, hostsSeen, scannersSeen, handlers, server, edited,
                     failures>>
  BY DEF SelectForRemoval, Idle, db, seen, nxapi
<1>2. TypeOK /\ Switched /\ Counted /\ Served
  BY DEF IInv
<1>3. TypeOK'
  BY <1>1, <1>2 DEF TypeOK
<1>4. Switched'
  BY <1>1, <1>2 DEF Switched, Idle
<1>5. Counted'
  BY <1>1, <1>2 DEF Counted
<1>6. Served'
  BY <1>1, <1>2 DEF Served, HandlerUrls
<1> QED
  BY <1>3, <1>4, <1>5, <1>6 DEF IInv

LEMMA DetachHostsStep ==
  ASSUME IInv, NEW id \in SwitchIds, DetachHosts(id)
  PROVE  IInv'
<1>1. PICK ok \in BOOLEAN :
         /\ Outcome({ok})
         /\ hosts' = IF ok
                     THEN [h \in DOMAIN hosts |->
                             IF hosts[h].switch = id THEN [hosts[h] EXCEPT !.switch = 0]
                             ELSE hosts[h]]
                     ELSE hosts
  BY DEF DetachHosts
<1>2. /\ current = 0 /\ id \in selected
      /\ selected' = selected \ {id} /\ current' = id
      /\ UNCHANGED <<switches, scanners, lastSwitch, lastHost, lastScanner, switchesSeen,
                     hostsSeen, scannersSeen, handlers, server, edited>>
  BY DEF DetachHosts, seen, nxapi
<1>3. TypeOK /\ Switched /\ Counted /\ Served
  BY DEF IInv
<1>4. /\ failures' \in 0..MaxFailures
      /\ failures' = 0 => failures = 0 /\ ok
  BY <1>1, <1>3, OutcomeCounts
<1>5. id # 0 /\ 0 \in SwitchIds
  BY <1>2, <1>3, TablesAssumption DEF Switched, SwitchIds
<1>6. /\ IsTable(hosts', HostIds, HostRow)
      /\ DOMAIN hosts' = DOMAIN hosts
      /\ \A h \in DOMAIN hosts :
           /\ hosts'[h].born = hosts[h].born
           /\ ok => hosts'[h].switch = (IF hosts[h].switch = id THEN 0 ELSE hosts[h].switch)
  <2>1. IsTable(hosts, HostIds, HostRow)
    BY <1>3 DEF TypeOK
  <2>2. CASE ~ok
    BY <1>1, <2>1, <2>2
  <2>3. CASE ok
    <3>1. DOMAIN hosts' = DOMAIN hosts
      BY <1>1, <2>3
    <3>2. \A h \in DOMAIN hosts :
            hosts'[h] = IF hosts[h].switch = id THEN [hosts[h] EXCEPT !.switch = 0]
                        ELSE hosts[h]
      BY <1>1, <2>3
    <3>3. ASSUME NEW h \in DOMAIN hosts
          PROVE  /\ hosts'[h] \in HostRow
                 /\ hosts'[h].born = hosts[h].born
                 /\ hosts'[h].switch = (IF hosts[h].switch = id THEN 0
                                        ELSE hosts[h].switch)
      <4>1. hosts[h] \in HostRow
        BY <2>1 DEF IsTable
      <4> QED
        BY <4>1, <3>2, <1>5 DEF HostRow
    <3> QED
      BY <2>1, <3>1, <3>3 DEF IsTable
  <2> QED
    BY <2>2, <2>3
<1>7. TypeOK'
  BY <1>2, <1>3, <1>4, <1>6 DEF TypeOK
<1>8. Switched'
  <2>1. 0 \in DOMAIN switches' /\ 0 \notin selected'
    BY <1>2, <1>3 DEF Switched
  <2>2. ~Idle'
    BY <1>2, <1>5 DEF Idle
  <2>3. ASSUME failures' = 0, NEW h \in DOMAIN hosts'
        PROVE  hosts'[h].switch \in DOMAIN switches' /\ hosts'[h].switch # current'
    BY <2>1, <2>3, <1>2, <1>3, <1>4, <1>5, <1>6 DEF Switched
  <2> QED
    BY <2>1, <2>2, <2>3 DEF Switched
<1>9. Counted'
  BY <1>2, <1>3, <1>6 DEF Counted
<1>10. Served'
  BY <1>2, <1>3, <1>4 DEF Served, HandlerUrls
<1> QED
  BY <1>7, <1>8, <1>9, <1>10 DEF IInv

LEMMA DeleteSwitchStep ==
  ASSUME IInv, DeleteSwitch
  PROVE  IInv'
<1>1. PICK ok \in BOOLEAN, shown \in BOOLEAN :
         /\ selected # {} => shown
         /\ Outcome({ok, shown})
         /\ switches' = IF ok THEN Delete(switches, {current}) ELSE switches
         /\ selectSwitches(selected = {} /\ shown, switches')
  BY DEF DeleteSwitch
<1>2. /\ current # 0 /\ current' = 0 /\ edited' = TRUE
      /\ UNCHANGED <<hosts, scanners, lastSwitch, lastHost, lastScanner, hostsSeen,
                     scannersSeen, selected, handlers, server>>
  BY DEF DeleteSwitch, nxapi
<1>3. TypeOK /\ Switched /\ Counted /\ Served
  BY DEF IInv
<1>4. /\ failures' \in 0..MaxFailures
      /\ failures' = 0 => failures = 0 /\ ok /\ shown
  BY <1>1, <1>3, OutcomeCounts
<1>5. /\ IsTable(switches', SwitchIds, SwitchRow)
      /\ DOMAIN switches \ {current} \subseteq DOMAIN switches'
      /\ \A s \in DOMAIN switches \ {current} : switches'[s] = switches[s]
  BY <1>1, <1>3, DeleteTable DEF TypeOK
<1>6. /\ selected = {} /\ shown => switchesSeen' = switches'
      /\ IsTable(switchesSeen', SwitchIds, SwitchRow)
  BY <1>1, <1>3, <1>5 DEF selectSwitches, TypeOK
<1>7. current' \in SwitchIds
  BY <1>2, TablesAssumption DEF SwitchIds
<1>8. TypeOK'
  BY <1>2, <1>3, <1>4, <1>5, <1>6, <1>7 DEF TypeOK
<1>9. Switched'
  BY <1>2, <1>3, <1>4, <1>5, <1>6 DEF Switched, Idle
<1>10. Counted'
  BY <1>2, <1>3 DEF Counted
<1>11. Served'
  BY <1>2, <1>3, <1>5 DEF Served, HandlerUrls, Switched
<1> QED
  BY <1>8, <1>9, <1>10, <1>11 DEF IInv

LEMMA RemoveHostsStep ==
  ASSUME IInv, NEW ids \in SUBSET HostIds, RemoveHosts(ids)
  PROVE  IInv'
<1>1. PICK done \in SUBSET ids, shown \in BOOLEAN :
         /\ Outcome({done = ids, shown})
         /\ hosts' = Delete(hosts, done)
         /\ selectHosts(shown, hosts', switches)
  BY DEF RemoveHosts
<1>2. /\ Idle
      /\ UNCHANGED <<switches, scanners, lastSwitch, lastHost, lastScanner, switchesSeen,
                     scannersSeen, selected, current, handlers, server, edited>>
  BY DEF RemoveHosts, remove, nxapi
<1>3. TypeOK /\ Switched /\ Counted /\ Served
  BY DEF IInv
<1>4. /\ failures' \in 0..MaxFailures
      /\ failures' = 0 => failures = 0
  BY <1>1, <1>3, OutcomeCounts
<1>5. /\ IsTable(hosts', HostIds, HostRow)
      /\ DOMAIN hosts' = DOMAIN hosts \ done
      /\ \A h \in DOMAIN hosts' : hosts'[h] = hosts[h]
  <2>1. IsTable(hosts, HostIds, HostRow)
    BY <1>3 DEF TypeOK
  <2>2. /\ IsTable(Delete(hosts, done), HostIds, HostRow)
        /\ DOMAIN Delete(hosts, done) = DOMAIN hosts \ done
        /\ \A x \in DOMAIN hosts \ done : Delete(hosts, done)[x] = hosts[x]
    BY <2>1, DeleteTable
  <2> QED
    BY <2>2, <1>1
<1>6. /\ IsTable(hostsSeen', HostIds, ShownHost)
      /\ \A h \in DOMAIN hostsSeen' : h <= lastHost
  <2>1. CASE shown
    <3>1. hostsSeen' = JoinedHosts(hosts', switches)
      BY <1>1, <2>1 DEF selectHosts
    <3>2. IsTable(switches, SwitchIds, SwitchRow)
      BY <1>3 DEF TypeOK
    <3>3. IsTable(hostsSeen', HostIds, ShownHost) /\ DOMAIN hostsSeen' \subseteq DOMAIN hosts'
      BY <3>1, <3>2, <1>5, JoinedHostsTable
    <3> QED
      BY <3>3, <1>3, <1>5 DEF Counted
  <2>2. CASE ~shown
    BY <1>1, <1>3, <2>2 DEF selectHosts, TypeOK, Counted
  <2> QED
    BY <2>1, <2>2
<1>7. TypeOK'
  BY <1>2, <1>3, <1>4, <1>5, <1>6 DEF TypeOK
<1>8. Switched'
  BY <1>2, <1>3, <1>4, <1>5 DEF Switched, Idle
<1>9. Counted'
  BY <1>2, <1>3, <1>5, <1>6 DEF Counted
<1>10. Served'
  BY <1>2, <1>3, <1>4 DEF Served, HandlerUrls
<1> QED
  BY <1>7, <1>8, <1>9, <1>10 DEF IInv

LEMMA RemoveScannersStep ==
  ASSUME IInv, NEW kind \in Kinds, NEW ids \in SUBSET ScannerIds, RemoveScanners(kind, ids)
  PROVE  IInv'
<1>1. PICK done \in SUBSET ids, shown \in BOOLEAN :
         /\ Outcome({done = ids, shown})
         /\ scanners' = [scanners EXCEPT ![kind] = Delete(@, done)]
         /\ selectScanners(kind, shown, scanners'[kind], hosts)
  BY DEF RemoveScanners
<1>2. /\ Idle
      /\ UNCHANGED <<switches, hosts, lastSwitch, lastHost, lastScanner, switchesSeen,
                     hostsSeen, selected, current, handlers, server, edited>>
  BY DEF RemoveScanners, remove, nxapi
<1>3. TypeOK /\ Switched /\ Counted /\ Served
  BY DEF IInv
<1>4. /\ failures' \in 0..MaxFailures
      /\ failures' = 0 => failures = 0
  BY <1>1, <1>3, OutcomeCounts
<1>5. /\ DOMAIN scanners' = Kinds
      /\ \A k \in Kinds : /\ IsTable(scanners'[k], ScannerIds, ScannerRow)
                         /\ \A b \in DOMAIN scanners'[k] :
                              scanners'[k][b].host <= scanners'[k][b].at
  <2>1. DOMAIN scanners = Kinds /\ \A k \in Kinds : IsTable(scanners[k], ScannerIds, ScannerRow)
    BY <1>3 DEF TypeOK
  <2>2. /\ IsTable(Delete(scanners[kind], done), ScannerIds, ScannerRow)
        /\ DOMAIN Delete(scanners[kind], done) = DOMAIN scanners[kind] \ done
        /\ \A x \in DOMAIN scanners[kind] \ done :
             Delete(scanners[kind], done)[x] = scanners[kind][x]
    BY <2>1, DeleteTable
  <2>3. /\ DOMAIN scanners' = Kinds
        /\ scanners'[kind] = Delete(scanners[kind], done)
        /\ \A k \in Kinds \ {kind} : scanners'[k] = scanners[k]
    BY <1>1, <2>1
  <2>4. \A k \in Kinds : \A b \in DOMAIN scanners[k] :
          scanners[k][b].host <= scanners[k][b].at
    BY <1>3 DEF Counted
  <2>5. \A k \in Kinds : k = kind \/ k \in Kinds \ {kind}
    OBVIOUS
  <2> QED
    BY <2>1, <2>2, <2>3, <2>4, <2>5
<1>6. /\ DOMAIN scannersSeen' = Kinds
      /\ \A k \in Kinds : IsTable(scannersSeen'[k], ScannerIds, HostNames \cup {None})
  <2>1. IsTable(JoinedScanners(scanners'[kind], hosts), ScannerIds, HostNames \cup {None})
    BY <1>3, <1>5, JoinedScannersTable DEF TypeOK
  <2>2. \/ scannersSeen' = scannersSeen
        \/ scannersSeen' = [scannersSeen EXCEPT ![kind] =
                              JoinedScanners(scanners'[kind], hosts)]
    BY <1>1 DEF selectScanners
  <2>3. /\ DOMAIN scannersSeen = Kinds
        /\ \A k \in Kinds : IsTable(scannersSeen[k], ScannerIds, HostNames \cup {None})
    BY <1>3 DEF TypeOK
  <2>4. \A k \in Kinds : \/ scannersSeen'[k] = scannersSeen[k]
                        \/ scannersSeen'[k] = JoinedScanners(scanners'[kind], hosts)
    BY <2>2, <2>3
  <2> QED
    BY <2>1, <2>2, <2>3, <2>4
<1>7. TypeOK'
  BY <1>2, <1>3, <1>4, <1>5, <1>6 DEF TypeOK
<1>8. Switched'
  BY <1>2, <1>3, <1>4 DEF Switched, Idle
<1>9. Counted'
  BY <1>2, <1>3, <1>5 DEF Counted
<1>10. Served'
  BY <1>2, <1>3, <1>4 DEF Served, HandlerUrls
<1> QED
  BY <1>7, <1>8, <1>9, <1>10 DEF IInv

\* The select of all tables, by Load or when the form is opened.
LEMMA SelectedTables ==
  ASSUME IInv
  PROVE  /\ IsTable(JoinedHosts(hosts, switches), HostIds, ShownHost)
         /\ \A h \in DOMAIN JoinedHosts(hosts, switches) : h <= lastHost
         /\ \A k \in Kinds : IsTable(JoinedScanners(scanners[k], hosts), ScannerIds,
                                    HostNames \cup {None})
<1>1. TypeOK /\ Counted
  BY DEF IInv
<1>2. /\ IsTable(JoinedHosts(hosts, switches), HostIds, ShownHost)
      /\ DOMAIN JoinedHosts(hosts, switches) \subseteq DOMAIN hosts
  BY <1>1, JoinedHostsTable DEF TypeOK
<1>3. ASSUME NEW k \in Kinds
      PROVE  IsTable(JoinedScanners(scanners[k], hosts), ScannerIds, HostNames \cup {None})
  BY <1>1, JoinedScannersTable DEF TypeOK
<1> QED
  BY <1>1, <1>2, <1>3 DEF Counted

LEMMA LoadStep == IInv /\ on_pbLoad_clicked => IInv'
<1> SUFFICES ASSUME IInv, on_pbLoad_clicked PROVE IInv'
  OBVIOUS
<1>1. PICK oks \in [{"switches", "hosts", "scanners"} -> BOOLEAN] :
         /\ Outcome(Range(oks))
         /\ selectSwitches(oks["switches"], switches)
         /\ selectHosts(oks["hosts"], hosts, switches)
         /\ scannersSeen' = IF oks["scanners"]
                            THEN [k \in Kinds |-> JoinedScanners(scanners[k], hosts)]
                            ELSE scannersSeen
  BY DEF on_pbLoad_clicked
<1>2. /\ Idle
      /\ UNCHANGED <<switches, hosts, scanners, lastSwitch, lastHost, lastScanner,
                     selected, current, handlers, server, edited>>
  BY DEF on_pbLoad_clicked, db, remove, nxapi
<1>3. TypeOK /\ Switched /\ Counted /\ Served
  BY DEF IInv
<1>4. /\ failures' \in 0..MaxFailures
      /\ failures' = 0 => failures = 0 /\ FALSE \notin Range(oks)
  BY <1>1, <1>3, OutcomeCounts
<1>5. failures' = 0 => switchesSeen' = switches
  <2>1. oks["switches"] \in Range(oks) /\ oks["switches"] \in BOOLEAN
    BY DEF Range
  <2> QED
    BY <2>1, <1>1, <1>4 DEF selectSwitches
<1>6. switchesSeen' = switches \/ switchesSeen' = switchesSeen
  BY <1>1 DEF selectSwitches
<1>7. hostsSeen' = JoinedHosts(hosts, switches) \/ hostsSeen' = hostsSeen
  BY <1>1 DEF selectHosts
<1>8. /\ DOMAIN scannersSeen' = Kinds
      /\ \A k \in Kinds : IsTable(scannersSeen'[k], ScannerIds, HostNames \cup {None})
  BY <1>1, <1>3, SelectedTables DEF TypeOK
<1>9. TypeOK'
  <2>1. IsTable(hostsSeen', HostIds, ShownHost)
    BY <1>3, <1>7, SelectedTables DEF TypeOK
  <2> QED
    BY <2>1, <1>2, <1>3, <1>4, <1>6, <1>8 DEF TypeOK
<1>10. Switched'
  BY <1>2, <1>3, <1>4, <1>5 DEF Switched, Idle
<1>11. Counted'
  <2>1. \A h \in DOMAIN hostsSeen' : h <= lastHost
    BY <1>3, <1>7, SelectedTables DEF Counted
  <2> QED
    BY <2>1, <1>2, <1>3 DEF Counted
<1>12. Served'
  BY <1>2, <1>3, <1>4 DEF Served, HandlerUrls
<1> QED
  BY <1>9, <1>10, <1>11, <1>12 DEF IInv

LEMMA RestartStep == IInv /\ Restart => IInv'
<1> SUFFICES ASSUME IInv, Restart PROVE IInv'
  OBVIOUS
<1>1. /\ switchesSeen' = switches
      /\ hostsSeen' = JoinedHosts(hosts, switches)
      /\ scannersSeen' = [k \in Kinds |-> JoinedScanners(scanners[k], hosts)]
      /\ selected' = {} /\ current' = 0 /\ handlers' = {} /\ server' = "starting"
      /\ UNCHANGED <<switches, hosts, scanners, lastSwitch, lastHost, lastScanner,
                     edited, failures>>
  BY DEF Restart, db
<1>2. TypeOK /\ Switched /\ Counted /\ Served
  BY DEF IInv
<1>3. current' \in SwitchIds
  BY <1>1, TablesAssumption DEF SwitchIds
<1>4. TypeOK'
  <2>1. \A k \in Kinds : IsTable(scannersSeen'[k], ScannerIds, HostNames \cup {None})
    BY <1>1, SelectedTables
  <2> QED
    BY <2>1, <1>1, <1>2, <1>3, SelectedTables DEF TypeOK
<1>5. Switched'
  BY <1>1, <1>2 DEF Switched, Idle
<1>6. Counted'
  BY <1>1, <1>2, SelectedTables DEF Counted
<1>7. Served'
  BY <1>1, <1>2 DEF Served, HandlerUrls
<1> QED
  BY <1>4, <1>5, <1>6, <1>7 DEF IInv

LEMMA applyStep == IInv /\ apply => IInv'
<1> SUFFICES ASSUME IInv, apply PROVE IInv'
  OBVIOUS
<1>1. /\ handlers' = {} /\ server' = "starting"
      /\ UNCHANGED <<switches, hosts, scanners, lastSwitch, lastHost, lastScanner,
                     switchesSeen, hostsSeen, scannersSeen, selected, current,
                     edited, failures>>
  BY DEF apply, db, seen, remove
<1>2. TypeOK /\ Switched /\ Counted /\ Served
  BY DEF IInv
<1>3. TypeOK'
  BY <1>1, <1>2 DEF TypeOK
<1>4. Switched'
  BY <1>1, <1>2 DEF Switched, Idle
<1>5. Counted'
  BY <1>1, <1>2 DEF Counted
<1>6. Served'
  BY <1>1, <1>2 DEF Served, HandlerUrls
<1> QED
  BY <1>3, <1>4, <1>5, <1>6 DEF IInv

LEMMA buildSwitchUrlsStep == IInv /\ buildSwitchUrls => IInv'
<1> SUFFICES ASSUME IInv, buildSwitchUrls PROVE IInv'
  OBVIOUS
<1>1. PICK ok \in BOOLEAN :
         /\ Outcome({ok})
         /\ handlers' = IF ok THEN HandlerUrls(switches) ELSE {}
  BY DEF buildSwitchUrls
<1>2. /\ server' = "listening" /\ edited' = FALSE
      /\ UNCHANGED <<switches, hosts, scanners, lastSwitch, lastHost, lastScanner,
                     switchesSeen, hostsSeen, scannersSeen, selected, current>>
  BY DEF buildSwitchUrls, db, seen, remove
<1>3. TypeOK /\ Switched /\ Counted /\ Served
  BY DEF IInv
<1>4. /\ failures' \in 0..MaxFailures
      /\ failures' = 0 => failures = 0 /\ ok
  BY <1>1, <1>3, OutcomeCounts
<1>5. handlers' \subseteq Urls \cup {None}
  <2>1. \A s \in DOMAIN switches : NormalForm[switches[s].url] \in Urls \cup {None}
    BY <1>3, UrlsAssumption DEF TypeOK, IsTable, SwitchRow
  <2> QED
    BY <2>1, <1>1 DEF HandlerUrls
<1>6. TypeOK'
  BY <1>2, <1>3, <1>4, <1>5 DEF TypeOK
<1>7. Switched'
  BY <1>2, <1>3, <1>4 DEF Switched, Idle
<1>8. Counted'
  BY <1>2, <1>3 DEF Counted
<1>9. Served'
  BY <1>1, <1>2, <1>3, <1>4 DEF Served, HandlerUrls
<1> QED
  BY <1>6, <1>7, <1>8, <1>9 DEF IInv

LEMMA EditHostStep == IInv /\ EditHost => IInv'
<1> SUFFICES ASSUME IInv, NEW id \in DOMAIN hostsSeen \cup {-1}, NEW name \in HostNames,
                    NEW s \in DOMAIN switchesSeen, AcceptHost(id, name, s)
             PROVE  IInv'
  BY DEF EditHost
<1>1. id \in HostIds \cup {-1}
  BY DEF IInv, TypeOK, IsTable
<1> QED
  BY <1>1, AcceptHostStep

LEMMA AcceptHostUnchangedStep ==
  ASSUME IInv, NEW id \in HostIds, AcceptHostUnchanged(id)
  PROVE  IInv'
<1> DEFINE s == FindText(switchesSeen, hostsSeen[id].switchName)
<1>1. AcceptHost(id, hostsSeen[id].name, s) /\ id \in DOMAIN hostsSeen
  BY DEF AcceptHostUnchanged
<1>2. hostsSeen[id].name \in HostNames \cup {None}
  BY <1>1 DEF IInv, TypeOK, IsTable, ShownHost
<1>3. s \in DOMAIN switchesSeen \cup {0}
  BY FindTextFinds
<1> HIDE DEF s
<1> QED
  BY <1>1, <1>2, <1>3, AcceptHostStep

LEMMA EditScannerStep == IInv /\ EditScanner => IInv'
<1> SUFFICES ASSUME IInv, NEW kind \in Kinds, NEW id \in DOMAIN scannersSeen[kind] \cup {-1},
                    \/ \E host \in DOMAIN hostsSeen : AcceptScanner(kind, id, host)
                    \/ AcceptScanner(kind, id, FindText(hostsSeen, scannersSeen[kind][id]))
             PROVE  IInv'
  BY DEF EditScanner
<1>1. id \in ScannerIds \cup {-1}
  BY DEF IInv, TypeOK, IsTable
<1>2. ASSUME NEW host \in DOMAIN hostsSeen, AcceptScanner(kind, id, host)
      PROVE  IInv'
  BY <1>1, <1>2, AcceptScannerStep
<1>3. ASSUME AcceptScanner(kind, id, FindText(hostsSeen, scannersSeen[kind][id]))
      PROVE  IInv'
  <2>1. FindText(hostsSeen, scannersSeen[kind][id]) \in DOMAIN hostsSeen \cup {0}
    BY FindTextFinds
  <2> QED
    BY <2>1, <1>1, <1>3, AcceptScannerStep
<1> QED
  BY <1>2, <1>3

LEMMA NextIInv == IInv /\ [Next]_vars => IInv'
<1> SUFFICES ASSUME IInv, [Next]_vars PROVE IInv'
  OBVIOUS
<1>1. ASSUME NEW id \in SwitchIds \cup {-1}, NEW name \in SwitchNames, NEW url \in Urls,
             AcceptSwitch(id, [name |-> name, url |-> url])
      PROVE  IInv'
  <2>1. [name |-> name, url |-> url] \in [name : SwitchNames, url : Urls]
    OBVIOUS
  <2> QED
    BY <1>1, <2>1, AcceptSwitchStep
<1>2. CASE EditHost
  BY <1>2, EditHostStep
<1>3. ASSUME NEW id \in HostIds, AcceptHostUnchanged(id)
      PROVE  IInv'
  BY <1>3, AcceptHostUnchangedStep
<1>4. CASE EditScanner
  BY <1>4, EditScannerStep
<1>5. ASSUME NEW ids \in SUBSET SwitchIds, SelectForRemoval(ids)
      PROVE  IInv'
  BY <1>5, SelectForRemovalStep
<1>6. ASSUME NEW id \in SwitchIds, DetachHosts(id)
      PROVE  IInv'
  BY <1>6, DetachHostsStep
<1>7. CASE DeleteSwitch
  BY <1>7, DeleteSwitchStep
<1>8. ASSUME NEW ids \in SUBSET HostIds, RemoveHosts(ids)
      PROVE  IInv'
  BY <1>8, RemoveHostsStep
<1>9. ASSUME NEW kind \in Kinds, NEW ids \in SUBSET ScannerIds, RemoveScanners(kind, ids)
      PROVE  IInv'
  BY <1>9, RemoveScannersStep
<1>10. CASE on_pbLoad_clicked
  BY <1>10, LoadStep
<1>11. CASE Restart
  BY <1>11, RestartStep
<1>12. CASE apply
  BY <1>12, applyStep
<1>13. CASE buildSwitchUrls
  BY <1>13, buildSwitchUrlsStep
<1>14. CASE UNCHANGED vars
  <2>1. UNCHANGED <<switches, hosts, scanners, lastSwitch, lastHost, lastScanner,
                    switchesSeen, hostsSeen, scannersSeen, selected, current, handlers,
                    server, edited, failures>>
    BY <1>14 DEF vars, db, seen, remove, nxapi
  <2> QED
    BY <2>1 DEF IInv, TypeOK, Switched, Counted, Served, HandlerUrls, Idle
<1> QED
  BY <1>1, <1>2, <1>3, <1>4, <1>5, <1>6, <1>7, <1>8, <1>9, <1>10, <1>11, <1>12, <1>13,
     <1>14 DEF Next

LEMMA IInvHolds == Spec => []IInv
BY InitIInv, NextIInv, PTL DEF Spec

-----------------------------------------------------------------------------
(* Theorems.                                                                *)

\* The tables and what the forms show of them keep their types, whatever statements
\* fail and wherever the program is killed.
THEOREM TypeCorrect == Spec => []TypeOK
<1>1. IInv => TypeOK
  BY DEF IInv
<1> QED
  BY <1>1, IInvHolds, PTL

\* removeSwitch takes two statements, and kills fall in between; as long as none of
\* them failed, every host's switch is in the table.
THEOREM HostsKeepSwitch == Spec => []NoDanglingHost
<1>1. IInv => NoDanglingHost
  BY DEF IInv, Switched, NoDanglingHost
<1> QED
  BY <1>1, IInvHolds, PTL

\* Rows of scanners outlive their hosts, but AUTOINCREMENT gives no id twice: a row
\* never bans or allows a host created after it was written.
THEOREM NoBanInherited == Spec => []NoInheritedBan
<1>1. IInv => NoInheritedBan
  <2> SUFFICES ASSUME IInv, NEW k \in Kinds, NEW b \in DOMAIN scanners[k],
                      scanners[k][b].host \in DOMAIN hosts
               PROVE  hosts[scanners[k][b].host].born <= scanners[k][b].at
    BY DEF NoInheritedBan
  <2>1. Counted
    BY DEF IInv
  <2>2. /\ scanners[k][b].host <= scanners[k][b].at
        /\ hosts[scanners[k][b].host].born = scanners[k][b].host
    BY <2>1 DEF Counted
  <2> QED
    BY <2>2
<1> QED
  BY <1>1, IInvHolds, PTL

\* While the server listens, with no edits since it read the switches, the commands of
\* every host with a switch find a handler under the url in the table, or this url is
\* not its own normal form and the handler waits under that.
THEOREM HandlersServeCommands == Spec => []CommandsHaveHandlers
<1>1. IInv => CommandsHaveHandlers
  <2> SUFFICES ASSUME IInv, server = "listening", ~edited, failures = 0,
                      NEW h \in Candidates, switches[hosts[h].switch].url # None
               PROVE  LET url == switches[hosts[h].switch].url IN
                      \/ url \in handlers
                      \/ NormalForm[url] # url /\ NormalForm[url] \in handlers
    BY DEF CommandsHaveHandlers, CommandUrls
  <2>1. /\ handlers = HandlerUrls(switches)
        /\ 0 \in DOMAIN switches => switches[0].url = None
    BY DEF IInv, Served
  <2>2. hosts[h].switch \in DOMAIN switches \ {0}
    BY <2>1 DEF Candidates
  <2>3. NormalForm[switches[hosts[h].switch].url] \in handlers
    BY <2>1, <2>2 DEF HandlerUrls
  <2> QED
    BY <2>3
<1> QED
  BY <1>1, IInvHolds, PTL

\* The dialog of a host finds its switch by name.  Accepted as it was opened it leaves
\* the host at the switch, if the name shown is the switch's and only its.
THEOREM UnchangedEditHarmless == Spec => UnchangedEditKeepsSwitch
<1> DEFINE Kept == \A h \in DOMAIN hosts \cap DOMAIN hostsSeen :
                     LET s == hosts[h].switch IN
                     (/\ AcceptHostUnchanged(h)
                      /\ failures = 0
                      /\ switches[s].name = hostsSeen[h].switchName
                      /\ \A other \in DOMAIN switches \ {s} :
                           switches[other].name # switches[s].name)
                     => hosts'[h].switch = s
<1>1. IInv => Kept
  <2> SUFFICES ASSUME IInv, NEW h \in DOMAIN hosts \cap DOMAIN hostsSeen,
                      AcceptHostUnchanged(h), failures = 0,
                      switches[hosts[h].switch].name = hostsSeen[h].switchName,
                      \A other \in DOMAIN switches \ {hosts[h].switch} :
                        switches[other].name # switches[hosts[h].switch].name
               PROVE  hosts'[h].switch = hosts[h].switch
    OBVIOUS
  <2> DEFINE s == hosts[h].switch
             t == FindText(switchesSeen, hostsSeen[h].switchName)
  <2>1. TypeOK /\ Switched
    BY DEF IInv
  <2>2. AcceptHost(h, hostsSeen[h].name, t)
    BY DEF AcceptHostUnchanged
  <2>3. switchesSeen = switches /\ s \in DOMAIN switches
    BY <2>1, <2>2 DEF Switched, AcceptHost
  <2>4. t = s
    <3>1. DOMAIN switches \subseteq Int
      BY <2>1 DEF TypeOK, IsTable, SwitchIds
    <3> QED
      BY <2>3, <3>1, FindTextUnique
  <2> HIDE DEF t
  <2>5. \/ hosts' = hosts
        \/ hosts' = Put(hosts, h, [name |-> hostsSeen[h].name, switch |-> s,
                                   born |-> hosts[h].born])
    <3>1. h # -1
      BY <2>1 DEF TypeOK, IsTable, HostIds
    <3> QED
      BY <2>2, <2>4, <3>1 DEF AcceptHost
  <2> QED
    BY <2>5 DEF Put
<1>2. IInv => [Kept]_vars
  BY <1>1
<1> QED
  BY <1>2, IInvHolds, PTL DEF UnchangedEditKeepsSwitch
=============================================================================
