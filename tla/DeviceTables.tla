---------------------------- MODULE DeviceTables ----------------------------
(***************************************************************************)
(* The device manager (device/VMTDDeviceManager.cpp): the tables of        *)
(* switches, hosts and banned and allowed scanners in an SQLite file, the  *)
(* forms and dialogs that edit them, and the two that read them: the       *)
(* engine, and the NX-API server when it starts to listen.                 *)
(*                                                                         *)
(* A form shows what the last select of its table returned and is told of  *)
(* no other change.  A dialog knows the switch or host of a row by name:   *)
(* it looks the name up in its combo box, filled by the last select too,   *)
(* and saves the id found there.  Every statement commits by itself and    *)
(* may fail, which is logged and goes without consequence.                 *)
(***************************************************************************)
EXTENDS Integers, FiniteSets, Functions

CONSTANTS SwitchNames,
          HostNames,
          Urls,             \* of switches, as typed into the dialog
          NormalForm,       \* of each url: QUrl's toString without the user info
          Kinds,            \* tables of scanners: banned, allowed
          None,             \* 'none', name and url of the rows with id 0
          MaxSwitches,      \* bounds: rows ever created in a table
          MaxHosts,
          MaxScanners,
          MaxFailures       \* bound: statements that fail

ASSUME UrlsAssumption == NormalForm \in [Urls \cup {None} -> Urls \cup {None}]

ASSUME TablesAssumption ==
    /\ MaxSwitches \in Nat
    /\ MaxHosts \in Nat
    /\ MaxScanners \in Nat
    /\ MaxFailures \in Nat

VARIABLES switches,         \* the tables: rows by id
          hosts,            \* with each host, lastHost when it was created
          scanners,         \* per kind; with each row, lastHost when it was written
          lastSwitch,       \* the largest id ever used (AUTOINCREMENT)
          lastHost,
          lastScanner,
          switchesSeen,     \* what the forms show and the combo boxes hold
          hostsSeen,
          scannersSeen,
          selected,         \* switches on_pbRemove_clicked has yet to remove,
          current,          \* the one between its two statements, or 0
          handlers,         \* keys of m_nxApiHandlers; the server starts or listens
          server,
          \* What follows only observes.
          edited,           \* switches were edited since the server read them
          failures

db     == <<switches, hosts, scanners, lastSwitch, lastHost, lastScanner>>
seen   == <<switchesSeen, hostsSeen, scannersSeen>>
remove == <<selected, current>>
nxapi  == <<handlers, server>>
vars   == <<db, seen, remove, nxapi, edited, failures>>

SwitchIds  == 0..MaxSwitches
HostIds    == 0..MaxHosts
ScannerIds == 0..MaxScanners

SwitchRow  == [name : SwitchNames \cup {None}, url : Urls \cup {None}]
HostRow    == [name : HostNames \cup {None}, switch : SwitchIds, born : HostIds]
ScannerRow == [host : HostIds, at : HostIds]
ShownHost  == [name : HostNames \cup {None}, switchName : SwitchNames \cup {None}]

\* Tables are functions from the ids of their rows.
IsTable(table, Id, Row) ==
    DOMAIN table \subseteq Id /\ \A x \in DOMAIN table : table[x] \in Row

Put(table, id, row) ==
    [x \in DOMAIN table \cup {id} |-> IF x = id THEN row ELSE table[x]]

Delete(table, ids) == Restrict(table, DOMAIN table \ ids)

\* Variant: without AUTOINCREMENT the largest id in use counts.
NextToUsed(table, last) ==
    1 + (CHOOSE id \in DOMAIN table \cup {0} : \A other \in DOMAIN table : other <= id)

\* The id of a new row, when last was the largest id so far.
NextId(table, last) == last + 1

\* UPDATE of a row that is there, or no row.
Update(table, id, row) == IF id \in DOMAIN table THEN Put(table, id, row) ELSE table

\* The inner joins of selectHosts and of the selects of the scanners.
JoinedHosts(h, s) ==
    [x \in {y \in DOMAIN h : h[y].switch \in DOMAIN s} |->
        [name |-> h[x].name, switchName |-> s[h[x].switch].name]]

JoinedScanners(t, h) ==
    [x \in {y \in DOMAIN t : t[y].host \in DOMAIN h} |-> h[t[x].host].name]

\* Variant: the index of the entry is taken for its id.
FindIndex(combo, text) ==
    LET hits == {id \in DOMAIN combo : combo[id].name = text}
    IN  Cardinality({id \in DOMAIN combo : hits # {} /\ \A hit \in hits : id < hit})

\* CB_SET_INDEX and CB_DATA_TOI: the first entry with the text; without one, 0.
FindText(combo, text) ==
    LET First(id) == /\ combo[id].name = text
                     /\ \A other \in DOMAIN combo :
                          combo[other].name = text => id <= other
    IN  IF \E id \in DOMAIN combo : First(id)
        THEN CHOOSE id \in DOMAIN combo : First(id)
        ELSE 0

Init ==
    /\ switches = [x \in {0} |-> [name |-> None, url |-> None]]
    /\ hosts = [x \in {0} |-> [name |-> None, switch |-> 0, born |-> 0]]
    /\ scanners = [k \in Kinds |-> [x \in {} |-> 0]]
    /\ lastSwitch = 0
    /\ lastHost = 0
    /\ lastScanner = [k \in Kinds |-> 0]
    /\ switchesSeen = switches
    /\ hostsSeen = JoinedHosts(hosts, switches)
    /\ scannersSeen = [k \in Kinds |-> [x \in {} |-> None]]
    /\ selected = {}
    /\ current = 0
    /\ handlers = {}
    /\ server = "starting"
    /\ edited = FALSE
    /\ failures = 0

-----------------------------------------------------------------------------
(* Statements.  Their outcomes: each works or fails.                       *)

Outcome(oks) ==
    IF FALSE \in oks
    THEN failures < MaxFailures /\ failures' = failures + 1
    ELSE UNCHANGED failures

selectSwitches(ok, s) ==
    switchesSeen' = IF ok THEN s ELSE switchesSeen

selectHosts(ok, h, s) ==
    hostsSeen' = IF ok THEN JoinedHosts(h, s) ELSE hostsSeen

selectScanners(kind, ok, t, h) ==
    scannersSeen' = IF ok THEN [scannersSeen EXCEPT ![kind] = JoinedScanners(t, h)]
                    ELSE scannersSeen

\* A dialog is modal and a removal one slot: nothing else is clicked meanwhile.
Idle == selected = {} /\ current = 0

-----------------------------------------------------------------------------
(* Dialogs that are accepted; id -1 stands for a new row, 0 is refused.    *)

\* switchDialogFinishedSlot, createSwitch
AcceptSwitch(id, row) ==
    /\ Idle
    /\ id \in DOMAIN switchesSeen \cup {-1}
    /\ id = -1 => lastSwitch < MaxSwitches
    /\ \E ok, shown \in BOOLEAN :
         /\ id = 0 => ok
         /\ Outcome({ok, shown})
         /\ \/ /\ id = 0 \/ ~ok
               /\ UNCHANGED <<switches, lastSwitch>>
            \/ /\ id > 0 /\ ok
               /\ switches' = Update(switches, id, row)
               /\ UNCHANGED lastSwitch
            \/ /\ id = -1 /\ ok
               /\ switches' = Put(switches, NextId(switches, lastSwitch), row)
               /\ lastSwitch' = lastSwitch + 1
         /\ selectSwitches(shown, switches')
    /\ edited' = (edited \/ switches' # switches)
    /\ UNCHANGED <<hosts, scanners, lastHost, lastScanner, hostsSeen, scannersSeen,
                   remove, nxapi>>

\* hostDialogFinishedSlot, createHost
AcceptHost(id, name, s) ==
    /\ Idle
    /\ id \in DOMAIN hostsSeen \cup {-1}
    /\ id = -1 => lastHost < MaxHosts
    /\ \E ok, shown \in BOOLEAN :
         /\ id = 0 => ok
         /\ Outcome({ok, shown})
         /\ \/ /\ id = 0 \/ ~ok \/ (id > 0 /\ id \notin DOMAIN hosts)
               /\ UNCHANGED <<hosts, lastHost>>
            \/ /\ id > 0 /\ id \in DOMAIN hosts /\ ok
               /\ hosts' = Put(hosts, id,
                              [name |-> name, switch |-> s, born |-> hosts[id].born])
               /\ UNCHANGED lastHost
            \/ /\ id = -1 /\ ok
               /\ lastHost' = lastHost + 1
               /\ hosts' = Put(hosts, NextId(hosts, lastHost),
                              [name |-> name, switch |-> s, born |-> lastHost'])
         /\ selectHosts(shown, hosts', switches)
    /\ UNCHANGED <<switches, scanners, lastSwitch, lastScanner, switchesSeen,
                   scannersSeen, remove, nxapi, edited>>

\* The user changes what he likes and takes any switch of the combo box.
EditHost ==
    \E id \in DOMAIN hostsSeen \cup {-1}, name \in HostNames, s \in DOMAIN switchesSeen :
        AcceptHost(id, name, s)

\* The dialog of a row is accepted as it was opened.
AcceptHostUnchanged(id) ==
    /\ id \in DOMAIN hostsSeen
    /\ AcceptHost(id, hostsSeen[id].name,
                  FindText(switchesSeen, hostsSeen[id].switchName))

\* bannedScannerDialogFinishedSlot, allowedScannerDialogFinishedSlot
AcceptScanner(kind, id, host) ==
    /\ Idle
    /\ id \in DOMAIN scannersSeen[kind] \cup {-1}
    /\ id = -1 => lastScanner[kind] < MaxScanners
    /\ \E ok, shown \in BOOLEAN :
         /\ Outcome({ok, shown})
         /\ LET row == [host |-> host, at |-> lastHost] IN
            \/ /\ ~ok
               /\ UNCHANGED <<scanners, lastScanner>>
            \/ /\ id >= 0 /\ ok
               /\ scanners' = [scanners EXCEPT ![kind] = Update(@, id, row)]
               /\ UNCHANGED lastScanner
            \/ /\ id = -1 /\ ok
               /\ scanners' = [scanners EXCEPT ![kind] = Put(@, NextId(@, lastScanner[kind]), row)]
               /\ lastScanner' = [lastScanner EXCEPT ![kind] = @ + 1]
         /\ selectScanners(kind, shown, scanners'[kind], hosts)
    /\ UNCHANGED <<switches, hosts, lastSwitch, lastHost, switchesSeen, hostsSeen,
                   remove, nxapi, edited>>

\* Any host of the combo box, or the one found for the name of the row.
EditScanner ==
    \E kind \in Kinds : \E id \in DOMAIN scannersSeen[kind] \cup {-1} :
        \/ \E host \in DOMAIN hostsSeen : AcceptScanner(kind, id, host)
        \/ /\ id # -1
           /\ AcceptScanner(kind, id, FindText(hostsSeen, scannersSeen[kind][id]))

-----------------------------------------------------------------------------
(* on_pbRemove_clicked of the four forms.                                  *)

SelectForRemoval(ids) ==
    /\ Idle
    /\ ids # {} /\ ids \subseteq DOMAIN switchesSeen \ {0}
    /\ selected' = ids
    /\ UNCHANGED <<db, seen, current, nxapi, edited, failures>>

\* Variant: the hosts keep the id.
DetachNothing(id) ==
    /\ current = 0 /\ id \in selected
    /\ selected' = selected \ {id}
    /\ current' = id
    /\ UNCHANGED <<db, seen, nxapi, edited, failures>>

\* Variant: -1 is taken for the id of 'none'.
DetachToMinusOne(id) ==
    /\ current = 0 /\ id \in selected
    /\ selected' = selected \ {id}
    /\ current' = id
    /\ hosts' = [h \in DOMAIN hosts |->
                   IF hosts[h].switch = id THEN [hosts[h] EXCEPT !.switch = -1]
                   ELSE hosts[h]]
    /\ UNCHANGED <<switches, scanners, lastSwitch, lastHost, lastScanner, seen, nxapi,
                   edited, failures>>

\* removeSwitch, the first statement: hosts go to the switch 'none'.
DetachHosts(id) ==
    /\ current = 0 /\ id \in selected
    /\ selected' = selected \ {id}
    /\ current' = id
    /\ \E ok \in BOOLEAN :
         /\ Outcome({ok})
         /\ hosts' = IF ok
                     THEN [h \in DOMAIN hosts |->
                             IF hosts[h].switch = id THEN [hosts[h] EXCEPT !.switch = 0]
                             ELSE hosts[h]]
                     ELSE hosts
    /\ UNCHANGED <<switches, scanners, lastSwitch, lastHost, lastScanner, seen, nxapi, edited>>

\* The second, whatever became of the first; after the last switch, the select.
DeleteSwitch ==
    /\ current # 0
    /\ current' = 0
    /\ \E ok, shown \in BOOLEAN :
         /\ selected # {} => shown
         /\ Outcome({ok, shown})
         /\ switches' = IF ok THEN Delete(switches, {current}) ELSE switches
         /\ selectSwitches(selected = {} /\ shown, switches')
    /\ edited' = TRUE
    /\ UNCHANGED <<hosts, scanners, lastSwitch, lastHost, lastScanner, hostsSeen,
                   scannersSeen, selected, nxapi>>

\* A kill between two of the statements leaves what removing fewer hosts does.
RemoveHosts(ids) ==
    /\ Idle
    /\ ids # {} /\ ids \subseteq DOMAIN hostsSeen \ {0}
    /\ \E done \in SUBSET ids, shown \in BOOLEAN :
         /\ Outcome({done = ids, shown})
         /\ hosts' = Delete(hosts, done)
         /\ selectHosts(shown, hosts', switches)
    /\ UNCHANGED <<switches, scanners, lastSwitch, lastHost, lastScanner, switchesSeen,
                   scannersSeen, remove, nxapi, edited>>

RemoveScanners(kind, ids) ==
    /\ Idle
    /\ ids # {} /\ ids \subseteq DOMAIN scannersSeen[kind]
    /\ \E done \in SUBSET ids, shown \in BOOLEAN :
         /\ Outcome({done = ids, shown})
         /\ scanners' = [scanners EXCEPT ![kind] = Delete(@, done)]
         /\ selectScanners(kind, shown, scanners'[kind], hosts)
    /\ UNCHANGED <<switches, hosts, lastSwitch, lastHost, lastScanner, switchesSeen,
                   hostsSeen, remove, nxapi, edited>>

-----------------------------------------------------------------------------
(* Load, Apply, and the readers of the tables.                             *)

on_pbLoad_clicked ==
    /\ Idle
    /\ \E oks \in [{"switches", "hosts", "scanners"} -> BOOLEAN] :
         /\ Outcome(Range(oks))
         /\ selectSwitches(oks["switches"], switches)
         /\ selectHosts(oks["hosts"], hosts, switches)
         /\ scannersSeen' = IF oks["scanners"]
                            THEN [k \in Kinds |-> JoinedScanners(scanners[k], hosts)]
                            ELSE scannersSeen
    /\ UNCHANGED <<db, remove, nxapi, edited>>

\* The program is killed, at any point, and started; the form is opened again.
Restart ==
    /\ switchesSeen' = switches
    /\ hostsSeen' = JoinedHosts(hosts, switches)
    /\ scannersSeen' = [k \in Kinds |-> JoinedScanners(scanners[k], hosts)]
    /\ selected' = {}
    /\ current' = 0
    /\ handlers' = {}
    /\ server' = "starting"
    /\ UNCHANGED <<db, edited, failures>>

\* on_pbApply_clicked: the controller restarts with a new server.
apply ==
    /\ Idle
    /\ handlers' = {}
    /\ server' = "starting"
    /\ UNCHANGED <<db, seen, remove, edited, failures>>

\* Variant: WHERE id > '1'.
HandlerUrlsAfterOne(table) == {NormalForm[table[s].url] : s \in DOMAIN table \ {0, 1}}

\* adapterCreatedSlot for each switch: the key of its handler is the normal form of
\* its url.  Switches whose urls have one normal form share one handler.
HandlerUrls(table) == {NormalForm[table[s].url] : s \in DOMAIN table \ {0}}

\* In the worker thread, at any point of what the main thread does.
buildSwitchUrls ==
    /\ server = "starting"
    /\ server' = "listening"
    /\ \E ok \in BOOLEAN :
         /\ Outcome({ok})
         /\ handlers' = IF ok THEN HandlerUrls(switches) ELSE {}
    /\ edited' = FALSE
    /\ UNCHANGED <<db, seen, remove>>

\* The hosts buildParticipants finds; which of them are online is left open.
Candidates == {h \in DOMAIN hosts \ {0} : hosts[h].switch \in DOMAIN switches}

\* VMTDEngine::createCommands: whose commands are sent, by url.
CommandUrls == {switches[hosts[h].switch].url : h \in Candidates}

Next ==
    \/ \E id \in SwitchIds \cup {-1}, name \in SwitchNames, url \in Urls :
         AcceptSwitch(id, [name |-> name, url |-> url])
    \/ EditHost
    \/ \E id \in HostIds : AcceptHostUnchanged(id)
    \/ EditScanner
    \/ \E ids \in SUBSET SwitchIds : SelectForRemoval(ids)
    \/ \E id \in SwitchIds : DetachHosts(id)
    \/ DeleteSwitch
    \/ \E ids \in SUBSET HostIds : RemoveHosts(ids)
    \/ \E kind \in Kinds, ids \in SUBSET ScannerIds : RemoveScanners(kind, ids)
    \/ on_pbLoad_clicked
    \/ Restart
    \/ apply
    \/ buildSwitchUrls

Spec == Init /\ [][Next]_vars

-----------------------------------------------------------------------------
(* Properties.                                                             *)

TypeOK ==
    /\ IsTable(switches, SwitchIds, SwitchRow)
    /\ IsTable(hosts, HostIds, HostRow)
    /\ DOMAIN scanners = Kinds
    /\ \A k \in Kinds : IsTable(scanners[k], ScannerIds, ScannerRow)
    /\ lastSwitch \in SwitchIds
    /\ lastHost \in HostIds
    /\ lastScanner \in [Kinds -> ScannerIds]
    /\ IsTable(switchesSeen, SwitchIds, SwitchRow)
    /\ IsTable(hostsSeen, HostIds, ShownHost)
    /\ DOMAIN scannersSeen = Kinds
    /\ \A k \in Kinds : IsTable(scannersSeen[k], ScannerIds, HostNames \cup {None})
    /\ selected \subseteq SwitchIds
    /\ current \in SwitchIds
    /\ handlers \subseteq Urls \cup {None}
    /\ server \in {"starting", "listening"}
    /\ edited \in BOOLEAN
    /\ failures \in 0..MaxFailures

\* A host's switch is in the table of switches, although nothing enforces the
\* REFERENCES of the schema and switches are removed in two transactions: a host
\* without it drops out of every form and every reconfiguration.  Kills do no harm;
\* a statement that failed may.
NoDanglingHost ==
    failures = 0 => \A h \in DOMAIN hosts : hosts[h].switch \in DOMAIN switches

\* Rows of scanners outlive their hosts, unseen by the inner joins.  They never come
\* to mean a host that was created after they were written.
NoInheritedBan ==
    \A k \in Kinds : \A b \in DOMAIN scanners[k] :
        LET h == scanners[k][b].host
        IN  h \in DOMAIN hosts => hosts[h].born <= scanners[k][b].at

\* Accepting the dialog of a host unchanged leaves it at its switch, if its row shows
\* the present name of that switch and no other has the name.  (Otherwise the host goes
\* to the first switch of that name or to 'none': switches have no unique names, and
\* the form of the hosts is not told that one was renamed.)
UnchangedEditKeepsSwitch ==
    [][\A h \in DOMAIN hosts \cap DOMAIN hostsSeen :
         LET s == hosts[h].switch IN
         (/\ AcceptHostUnchanged(h)
          /\ failures = 0
          /\ switches[s].name = hostsSeen[h].switchName
          /\ \A other \in DOMAIN switches \ {s} : switches[other].name # switches[s].name)
         => hosts'[h].switch = s]_vars

\* The engine reads the tables anew for each reconfiguration, the server only when it
\* starts to listen; and the engine asks for the handler of the url in the table, while
\* the server keeps it under the normal form of that url (VMTDServer.cpp:87, :108).
\* Commands for the url of a switch find no handler only while the server starts, for
\* tables edited and not applied, for the switch 'none', whose hosts take part as all
\* others, and for a url that is not its own normal form, although a handler for its
\* normal form is always there.
CommandsHaveHandlers ==
    server = "listening" /\ ~edited /\ failures = 0
        => \A url \in CommandUrls \ {None} :
             \/ url \in handlers
             \/ NormalForm[url] # url /\ NormalForm[url] \in handlers
=============================================================================
