# VMTD in TLA+

VMTD moves a network as a defence: a server divides hosts into groups, gives each
group a VLAN and each host a new address, and does so again and again. This
directory holds TLA+ modules of the program under `src/src/VMTD/VMTD/` (the paths
below are relative to it), the TLC configurations that check them, and proofs that
TLAPS checks.

- [The system](#the-system)
- [Modules](#modules)
- [Runs](#runs)
- [Bounds](#bounds)
- [Fairness](#fairness)
- [Proofs](#proofs)
- [Findings](#findings)
- [Not modelled](#not-modelled)
- [Plan](#plan)

## The system

One program runs on the server and on every host. On each it has two threads: the
main thread with the user interface, the settings, the device manager and the
engine, and the worker thread of `VMTDController` with everything that uses the
network. In the worker thread Qt slots run to completion one after the other. Calls
between the two threads are queued signals, except that forms call their objects
directly.

| Part | State | Operations | Interacts with |
|---|---|---|---|
| Engine (`engine/VMTDEngine`, `VMTDGroup`, `VMTDParticipant`, `VMTDInterface`, `VMTDRoute`) | groups; per participant its role, two interfaces, routes; two timers | `generate`, `run`, start, stop, reset | reads the device manager; sends request lists to hosts and command lists to switches through the server |
| Device manager (`device/VMTDDeviceManager`) | tables of switches, hosts, banned and allowed scanners; online maps; participants | select, create, remove; `buildParticipants`; online updates | engine, server, forms |
| Server (`protocol/VMTDServer`) | a handler per host address, a handler per switch url, the connection check timer | create and remove handlers, pass lists on, check connections | websocket server, NX-API server, engine, device manager |
| Host protocol handler (`protocol/host/VMTDHostProtocolHandler`) | queue of documents, queue state, ticket timer, request ids | append a list, send the next document, ticket timeout, receive, clear | server or client, sockets |
| Websocket server and client (`adapter/host/VMTDHostServer`, `VMTDHostClient`) | listening, list of sockets; one socket and a reconnect timer | listen, stop, accept, send, disconnect; connect, reconnect | network |
| NX-API protocol handler, adapter, server (`protocol/nxapi`, `adapter/nxapi`) | as for hosts, with command lists; one network manager for all switches | execute a list, check a connection, reply finished, timeout, clear | switches |
| Client (`protocol/VMTDClient`) | the handler of the host's side | runs the requests it receives | configurator |
| Configurator (`engine/VMTDConfigurator`) | texts of two netplan files and of the hosts file, names of the two VLAN interfaces to delete | set up, clear, apply, get scanners | files, `ip`, `netplan`; watchdog; its form |
| Watchdog (`engine/VMTDWatchdog`) | set of scanners, delay timer, two flags, the watcher's path | file changed, delay over, clear | the alert file of snort |
| Controller (`VMTDController`) | the worker thread, what it runs as, pointers to the objects it creates | start, stop, restart | settings, main window, all of the above |
| Settings (`VMTDSettings`) | some forty values, the flag that one that matters was changed, a file | get, set, apply, load, save | all |
| Main window and forms | which menu items are enabled, what the tables show | clicks | the objects they show |
| Method table | constant | look up a name, check parameters | handlers |

What is hard about it:

- **Replies and tickets.** A handler sends one document and waits for a ticket:
  a reply or a timeout. Nothing in a reply says which document it answers, late
  replies come, and every reply is handed to every handler.
- **Connections.** Hosts lose the network by design, reconnect from another port
  while the old connection lingers, and are identified by address only.
- **Timers.** Queue, ticket and check timers act on the same state, and some restart
  others.
- **Random configurations.** Groups, addresses, gateways and the order of the chain
  are drawn; the routes must fit whatever was drawn, and four settings say
  what is drawn at all.
- **State outside the program.** VLAN interfaces and files outlive the agent; it
  deletes what it remembers.
- **Two threads in one object.** The form writes what the worker uses; the
  controller is started and stopped by one thread and is the other.
- **Late calls.** The engine's start takes effect a second later, in whatever state
  the controller is by then.
- **Stale views.** A form shows the rows of its last select and edits by name; the
  server reads the switches once; the menus know the settings of the last restart.
- **Files others write.** Snort writes, and is rotated, while the watchdog reads,
  truncates and pauses, and the truncation notifies the watchdog itself.

What makes the parts correct: a handler that waits is released in the end
(`TicketHasTimer`, `WaitHasTimer`, `TicketEnds`, `QueueDrains`); lists are
run in order and at most once (`DeliveredInOrder`, `PostedInOrder`); a connected
host has a handler that talks to it and is in the server's list (`HandlerHasSocket`,
`SoleOwner`); an agent that knows it is cut off gets back to the server (`Reconnects`); after a reconfiguration all participants
reach one another and the groups are separated (`FullMesh`, `Segmented`,
`UniqueAddresses`, `NoLoops`); a document is applied as sent and the host keeps no
interface of former configurations (`AppliedAsSent`, `NamesKept`); no alert is
overlooked (`AlertsNoticed`, `AlertsRead`, `OnlyReadAlertsGo`); rows keep meaning what
they meant (`NoDanglingHost`, `NoInheritedBan`, `UnchangedEditKeepsSwitch`); the node
runs as its settings say and only a server times reconfigurations (`RunsAsSet`,
`TimerOfServer`, `EngineStarts`).

## Modules

| Module | What it is |
|---|---|
| `OrderedDelivery` | what the server promises hosts and switches: numbered documents, run in order, each at most once, possibly lost |
| `HostLink` | server, host handlers, websocket server, connections, agents; refines `OrderedDelivery` per connection |
| `NxApiLink` | NX-API server, adapters, handlers, the server's checks, in discrete time; refines `OrderedDelivery` per switch |
| `Reconfiguration` | `generate` and what `run` sends, and how the resulting network forwards packets |
| `Configurator` | the configurator in two threads, its files and the VLAN interfaces of the host |
| `Watchdog` | the watchdog step by step, snort, and the rotation of its file |
| `DeviceTables` | the device manager's tables, the forms that edit them, and their two readers |
| `Controller` | the worker thread's life, the settings file, the clicks of the main window and the settings form, the engine's late start |
| `*MC` | symmetry sets and sets of settings for TLC |
| `*Proofs` | theorems and their proofs |

Operators marked "Variant" in a module are not used by its specification: each is a
plausible error in the operator that follows, and the property it is paired with
in `PROJECT.json` fails when it takes that operator's place.

**HostLink.** A connection is an address and a port. A document is the id of its
first request, and the reply to it is the same number: the client answers every
document with exactly one. Each action is one slot with all it calls directly;
`newConnectionSlot` includes `clientConnectedSlot`, `disconnectedSlot` includes the
removal of the handler. `stopListenSlot` walks a list that its own calls change; any
subset of sockets may be skipped once one was removed. History variables record
the last document run on a connection (`ranTo`), connections that met a sibling
(`shared`), connections that a stop of the server skipped (`left`), and tickets closed by something else than their own reply (`strayed`).
The abstract `transit` is what is in the connection and in the queue of the handler
that talks on it.

**NxApiLink.** Time advances by `Tick`, at most until a timer has run down; then it
has to fire. All adapters listen to one `QNetworkAccessManager`, so a reply closes
the ticket of every handler that waits. `unanswered` says from which switches a
reply can still come; a reply does not say to what it is one.

**Reconfiguration.** Three actions, the three parts of `generate`, each with its
random choices: `buildParticipants`, `createGroups`, `createGateways`. An address is
a pair of octets. `buildRequests` and `buildCommands` are what each host and each
switch port is told; every port is allowed the default VLAN, 17 and 18 (`ServiceVlans`)
besides those of its host. `Hops` and `Journey` are not in the program: they
say what hosts with these interfaces, routes and trunk ports do with a packet,
longest prefix first, one VLAN at a time, and give `FullMesh` and `NoLoops` their
meaning. README.md of the repository asks for the reachability of each node from
each by ping.

**Configurator.** Each thread is a sequence of steps it has to take. A document of the
engine (interface 1, interface 2 or its clearing, hosts, apply) runs in one slot of
the worker, and the steps of the form in between. A setter is two steps: it matches
the old text, then assigns. A file is empty from the moment it is opened for writing
until it is written. `Restart` stops the agent anywhere and starts it from the
files. `forgotten` records the names of interfaces that were dropped: by
clearing, by setting twice without an apply, by setting in both threads at once, by
a restart.

**Watchdog.** The file is its set of scanners, there or not. The watcher has the path
with the file it stands for (`live`), with one that is gone (`gone`), or not
(`none`): `addPath` refuses a path that it has or that names no file. The slot is three
steps, since snort writes in between: read, truncate if the file is still there, and
the end, which adds the path again and starts the pause. The constructor is two, cut at
the truncation. `Postpone` is the slot's early return. A notification stands for any
number of them, as the slot does the same for each. `missed`, `late` and `unarmed`
record what the code cannot see: alerts nobody was told of, alerts written in the gap,
and that the file was not there.

**DeviceTables.** A table is a function from ids to rows; of a row there is its name
and what it refers to. Every statement is a transaction and has two outcomes, of which
failures are bounded. `removeSwitch` is two actions, `DetachHosts` and `DeleteSwitch`,
so that a kill (`Restart`) comes between them; dialogs and removals are modal, but the
worker's `buildSwitchUrls` runs beside them. `hostsSeen` and the like are what the last
select gave a form. Switch names need not differ. The server makes a `QUrl` of a row's
url, user name and password, and keys the handler by its text without them (`NormalForm`);
the engine looks handlers up by the text of the row. `born` and `at`
are counters that only observe: what `lastHost` was when a host was created and when a
row of scanners was written.

**Controller.** `quit` and `wait` make a stop one step of the main thread in which the
worker comes to its end, also from a `run` that has not reached `exec`. The thread reads
`m_nodeType` when it begins, and `stopController` uses what was read. The engine lives
in the main thread and the worker stops its timer; the timer then emits nothing more,
though Qt refuses to release it. `pending` counts the calls of `startEngine` still to
come, `orphans` those of runs that have ended, and `stray` says that such a one started
the timer. The file may be missing or, after a kill while it was written, empty: then the
defaults stay.

## Runs

Passing runs:

| Run | Question | Properties |
|---|---|---|
| `host_link_two_hosts` | Do tickets stay in order when every reply reaches every handler, and who is listed when the server stops while hosts are connected? | `TypeOK`, `TicketHasTimer`, `SoleOwner`, `WindowBound` |
| `host_link_one_host` | Who owns the handler when a host's connections overlap, what order do its requests run in, do queues drain and agents come back? | `HandlerHasSocket`, `SoleOwner`, `InOrder`, `DeliveredInOrder`, `QueueDrains`, `Reconnects` |
| `nxapi_switches` | The same for switches with a shared network manager, checks, clears, restarts | `TypeOK`, `WaitHasTimer`, `PostedInOrder`, `TicketEnds`, `QueueDrains` |
| `reconfiguration_all` | Is every configuration that can be drawn a right one? | `TypeOK`, `FullMesh`, `NoLoops`, `Segmented`, `UniqueAddresses` |
| `configurator_races` | What can two threads, a kill and a failing file do to the host? | `TypeOK`, `NamesKept`, `LeftoversExplained`, `AppliedAsSent` |
| `watchdog` | Which alerts can be lost, and when does the watchdog go deaf? | `TypeOK`, `AlertsNoticed`, `DeafOnlyWithoutFile`, `OnlyReadAlertsGo`, `HeldForDelay`, `AlertsRead` |
| `device_tables` | What do kills, stale forms and single statements do to the tables and to their readers? | `TypeOK`, `NoDanglingHost`, `NoInheritedBan`, `CommandsHaveHandlers`, `UnchangedEditKeepsSwitch` |
| `controller` | Does the node run as it is set, whatever is clicked while it starts? | `TypeOK`, `RunsAsSet`, `TimerOfServer`, `FormsOfLiveObjects`, `EngineStarts` |

`WindowBound` deserves a word: the protocol looks like stop and wait and is not. The
number of documents and replies a handler has outstanding exceeds its open ticket by
the tickets that timeouts and foreign replies closed, and by no more.

Several properties name the exceptions they leave, and the exceptions are what the code
does: `SoleOwner` connections that met another one of their address (`shared`) or were
skipped when the server stopped (`left`); `Reconnects` an agent that takes a dead
connection for open (`HalfOpen`); `Segmented` the VLANs that every port lets through
(`ServiceVlans`); `AlertsNoticed` those of `missed`, notifications that were spent on a file that did
not open; `TimerOfServer` the `stray` timer of a server that was stopped
within its first second; `RunsAsSet` settings that were loaded and take effect at the
next restart; `UnchangedEditKeepsSwitch` names that are shared or out of date;
`CommandsHaveHandlers` edits that were not applied and urls that are not their own normal
form. Without its exception each of them fails in the same run.

Runs that show a disagreement: `host_link_cross_talk`, `nxapi_starved`,
`reconfiguration_mixed`, `configurator_stale`; see
[Findings](#findings).

## Bounds

- *HostLink*: two hosts suffice for a reply to reach a foreign handler, and for a stop to
  close one socket and skip another; a third adds
  another of the same. Two ports give a connection and a second that overlaps it, and
  the first port again after the handler was removed by either; the theorems hold for any
  number of ports. Two request ids per handler let a
  late reply meet a later ticket, lists of lengths 0, 1, 2 cover no document, a
  single request and a batch. The bound is in `Enqueue` (`MaxCommands`), the state
  space stops there, so deadlock is not checked in these runs: once all ids are
  used and the operator leaves the server alone the system may rest.
- *NxApiLink*: intervals of 1 to 4 ticks in the relations that matter: checks
  more frequent than the ticket timeout, as in the default settings, and rarer.
  `MaxLists` and `MaxClicks` bound lists and clicks; time goes on after them.
- *Reconfiguration*: four hosts give groups of one or two members, two or
  three groups, and chains with a middle. Node-1 and Node-10 are two of
  them and take part or not, as gateways or endpoints, at the ends of the chain or
  inside, so both guards on the external networks are met with both outcomes. Settings: nothing random, with the online check; random ids and gateways;
  random networks and gateways. Ids are drawn from 19, 20 and 21 (`minVlanId`,
  `maxVlanId`), the first of which is the default VLAN, and octets from 1
  to 3 (`MaxOctet`, 252 in the code): enough for each draw to exclude others,
  and never 17 or 18.
- *Configurator*: two VLANs and no VLAN, two hosts texts, any number of documents, one
  edit, one restart and one failure (`MaxEdits`, `MaxRestarts`, `MaxFailures`), at
  any step. The theorems below have no such bounds.
- *Watchdog*: two scanners, told apart by the properties only; the model is finite
  without a bound.
- *DeviceTables*: two names and two urls of switches, of which one url is another spelling
  of the other, one name of hosts, two switches and two hosts ever created
  (`MaxSwitches`, `MaxHosts`), one table of scanners with one row (`MaxScanners`), one
  failing statement (`MaxFailures`). Two of each are enough for names and handlers that are
  shared, hosts that are removed and created again, and rows that name the one that is gone.
  The second table of scanners does the same as the first.
- *Controller*: three pending calls (`MaxPending`), so that those of two runs that were
  stopped within their first second meet that of a third.

## Fairness

`HostLink!Fairness`: the queue, ticket and reconnect timers fire (weak fairness of
their slots; the reconnect timer runs where `shouldReconnect` is set); a handshake that is
tried over and over with a server that listens
succeeds (strong fairness, since a try may fail and is repeated by the reconnect
timer). Neither end has to notice that the other is gone, as neither sends pings: an
agent that never does is `HalfOpen` for ever, and `Reconnects` says so. The last conjunct
makes up for the bound on ports: a host whose ports are all taken by forgotten
connections gets one back, where a real one has tens of thousands. Nothing is assumed of
replies.
`NxApiLink!Fairness`: time goes on and timers that have run down fire, as the event
loop of the worker sees to; nothing is assumed of the switches.
`Watchdog!Fairness`: the event loop delivers notifications and fires the delay timer, and
a slot that has begun goes on; nothing is assumed of snort.
`Controller!FairSpec`: the thread runs up to `exec`, and calls that were asked for are
made; nothing is assumed of the user. The other modules check safety only.

## Proofs

All theorems hold for every value of the constants that their modules' assumptions
allow; those only say that bounds and VLANs are numbers, that intervals are positive, that
"no port" and "no VLAN" are neither, and that `NormalForm` is a function on urls.

| Theorem | Argument |
|---|---|
| `HostLinkProofs!TypeCorrect` | inductive as it stands; one case per slot |
| `HostLinkProofs!TicketTimers` | inductive with the types |
| `HostLinkProofs!HandlersHaveSockets` | inductive with the types: a handler goes with the first socket of its address that does |
| `HostLinkProofs!SoleOwners` | strengthened by `Overlaps` (two connections of an address that are both there are both in `shared`): without it a new connection could find a handler that belongs to another. `Listed`: an open socket leaves the list only by a stop that skips it |
| `HostLinkProofs!WindowBounded` | each slot changes what is outstanding, the open ticket and `strayed` by amounts that balance; the arithmetic is in small lemmas |
| `HostLinkOrderProofs!RequestsInOrder` | `InOrder` strengthened by "the handler's next id is later than all that was sent or run on its connection". Each step does one of five things to a connection (`Loses`, `Queues`, `Sends`, `Runs`, `Opens`) and each keeps the order; the invariant of `SoleOwners` shows that a handler already there does not send to a new connection |
| `HostLinkOrderProofs!DeliveryInOrder` | under that invariant each of the five is a step of `OrderedDelivery` or changes nothing it sees |
| `NxApiLinkProofs!TypeCorrect` | needs `WaitHasTimer`, and that a server that does not listen has no handlers: time stops at zero for timers of handlers only, so that no timer passes zero means that others do not run |
| `NxApiLinkProofs!WaitTimers` | the same invariant |
| `NxApiLinkProofs!ListsPostedInOrder` | `PostedInOrder`: connections are switches, what is in transit is the queue, what ran last is the list posted last. Invariant `QueueInOrder`: a queue is ascending, later than the list last posted and earlier than the next id. Each step keeps or loses what is queued, hands out a list or posts one, and each of these is a step of `OrderedDelivery` or changes nothing it sees |
| `ConfiguratorProofs!NamesAreKept` | `NamesKept` with the domains of the texts is inductive: a setter moves a name from the text to the names to delete, `execute` deletes these and creates what the files name, and files only get what the texts name. The contents of the two threads' steps do not matter |
| `ConfiguratorProofs!LeftoversAreExplained` | one step from `NamesKept` |
| `ConfiguratorProofs!TypeCorrect` | inductive with the types of all steps that a thread still has to take; one case per step of either thread |
| `ConfiguratorProofs!DocumentsAreApplied` | `AppliedAsSent` strengthened by `DocumentInv`: as long as nothing cuts into a document, what the worker still has to do is one of the remainders of its work, and the texts and files already hold what the calls before it have set. `OwnLines` says the same of the lines of others in the hosts file, as long as nothing was killed |
| `ReconfigurationProofs!TypeCorrect`, `GroupsSegmented` | one invariant for all of `Reconfiguration`: groups divide the participants and number them (`Divided`, `Addressed`), and after `createGateways` there is a chain with a gateway of each group, its second interfaces and its routes (`Chained`). That the dealing leaves no host out and deals none twice is arithmetic of quotient and remainder (`Dealt`, `CutOnce`). `GroupsSegmented` holds for all ranges of ids: what it says of a group's VLAN is conditional on its not being one of `ServiceVlans` |
| `ReconfigurationProofs!AddressesUnique` | if networks are random only when gateways are, too (`ConsistentSettings`): then the octet of a guest gateway is drawn until it is free or is the one after the members' (`GuestOctetFree`). The run `reconfiguration_mixed` shows that it fails otherwise |
| `ReconfigurationProofs!HostsMeshed` | `FullMesh` for any number of hosts, under `ConsistentSettings` and as long as no group has the network 17 or 18 (`NetsFree`). What a gateway does with a packet follows from its routes (`GatewayHop`, `Directions`): it hands it over on its own network, else to the next or the previous gateway, whichever is nearer. A measure that falls with each hop and is never more than the number of hosts bounds the journey (`Descent`, `ManyHosts`) |
| `ReconfigurationProofs!ExtraRoutesEnd` | `NoLoops` in the same way: the measure is the distance to the end of the chain |
| `WatchdogProofs!TypeCorrect`, `NoAlertOverlooked`, `DeafWithoutFile` | one invariant for the three, strengthened by `Control`: the pause ends with the timer's tick and does not begin within the slot, and a file that is gone stays in the watcher only until its notification is delivered |
| `WatchdogProofs!ReadBeforeEmptied` | `Control` too: between reading and truncating the file holds what was read and what came since |
| `WatchdogProofs!ScannersHeld` | one step each: in a pause only the server takes the scanners |
| `DeviceTablesProofs!TypeCorrect` | lemmas on `Put`, `Delete`, the joins and `FindText`, and a step lemma per action |
| `DeviceTablesProofs!HostsKeepSwitch` | strengthened by `Switched`: between clicks the form's switches are those of the table, hosts are at switches that are there and not about to be deleted, and row 0 stays |
| `DeviceTablesProofs!NoBanInherited` | strengthened by `Counted`: ids count the hosts created, and a row of scanners names an id given before it was written |
| `DeviceTablesProofs!HandlersServeCommands` | strengthened by `Served`: the handlers are those of the normal forms of the table's urls until an edit |
| `DeviceTablesProofs!UnchangedEditHarmless` | from `Switched` and what `FindText` returns |
| `ControllerProofs!TypeCorrect`, `TimerNeedsServer` | `TimerOfServer` needs `Called`: at most one pending call is not an orphan, and that one is a running server's |
| `ControllerProofs!RoleFollowsSettings` | `Followed`: menus follow the thread, and a thread that has read the settings runs as they say until they are loaded anew |
| `ControllerProofs!FormsFindObjects` | `Followed` and `Alive`: the pointers of the phases of `run` |

Only model-checked is liveness (`QueueDrains`, `Reconnects`, `TicketEnds`, `AlertsRead`,
`EngineStarts`): liveness under fairness and ENABLED are outside what TLAPS does with the
installed provers. Every safety property that a passing run checks is proved; three of
them under conditions. `ConsistentSettings` is one on the choice of settings, which the
passing run makes as well. `NetsFree` is one on the state: with a group on network 17, which
random octets and ids may give, the routes to that group and those to the network
behind Node-1 are in each other's way, and `FullMesh` is false (TLC finds it for
`minVlanId = 17`). The passing run has other numbers and does not meet the case.

Induction over data was needed once, for `Journey`, and done without the library's
induction theorems: `NaturalNumbers` states induction for a set of numbers and is proved
from `NatLessThanWellFounded`; the journey of a packet is a function of the hops made.

## Findings

1. **A reply of one host closes the tickets of all** (`host_link_cross_talk`).
   `receiveMessageSlot` logs that it expected another host and goes on.
2. **A silent switch is waited for without end** (`nxapi_starved`). The connection
   check restarts the ticket timer; with the default intervals it never fires.
3. **Addresses collide** (`reconfiguration_mixed`) with random networks and regular
   gateways: the octet of the guest gateway is not checked against those drawn.
4. **VLAN interfaces of cleared texts stay** (`configurator_stale`): a host that was a
   gateway keeps its second interface, in a group that is not its own any more.

More things a reader of the code should know, which no run claims to be wrong:

- A group may be given the network 17 or 18, and packets for it then take the routes
  that lead to the network behind Node-1 or Node-10 (`NetsFree`).
- Every port lets 17, 18 and the default VLAN through, so that a group with one of these ids
  is not separated from the others (`Segmented`).
- An agent does not reconnect by default, and one that does waits for its socket to be
  unconnected: it sends nothing unasked, so it may never learn that the server's end is gone
  (`HalfOpen`).
- `stopListenSlot` walks a list that shrinks under it; a socket it skips stays open with a
  handler and is no more in the list by which documents are sent (`left`).
- A url of a switch that `QUrl` spells differently, or that has user info in it, is not the key
  of its handler, and commands for it are dropped (`CommandsHaveHandlers`). So are those
  for the url 'none': hosts of the switch 'none' take part as all others.
- With "Should check online" set, hosts that are offline take part, because
  `buildParticipants` looks for the entry of a host in the online map and does not read its
  value (`TakesPart`).

## Not modelled

- *Method table*: a constant table of names and parameter checks.
- *Settings*: of the values, those that decide what the controller does; the others are
  constants or inputs of the models that read them. The worker reads values while the main
  thread writes them, without a lock; the models take each read for old or new.
  `shouldCollectAlert` is saved as a boolean and read with `toInt`, hence never loaded;
  it switches a timer whose slot is empty.
- *Forms*: what they only show, and the tray.
- `handleResultSlot` of the engine, which is never given an object since `getScanners` is
  never sent, and `alertCollectTimerTickSlot`, whose body is commented out. The collection of
  scanners and the exclusion of hosts therefore exist on the hosts and in the tables
  (`Watchdog`, `DeviceTables`) and are joined by nothing.
- In `HostLink`: error replies of the client (they are replies), and
  `VMTDClient::socketDisconnectedSlot`, which nothing is connected to.
- In `NxApiLink`: in what order a switch runs two lists that are under way at once.
- In `Reconfiguration`: reconfiguration as a process over time, hosts that apply it
  and switches that do. A composition of `Reconfiguration` with the links and an agent per
  host is out of TLC's reach (one reconfiguration of four hosts has more than a hundred
  thousand outcomes), and the code promises nothing of the states in between: lists are
  queued independently and nothing is rolled back. The parts of such a promise are checked
  where they belong: lists in order or lost (`HostLink`, `NxApiLink`), documents applied as sent
  (`Configurator`). Also left out are id ranges too small for the groups, where the code
  loops for ever, and random octets 17 and 18.
- In `Configurator`: torn reads of a text that is being assigned, edits of the
  files by others, and edits of the form between the steps of `execute`, which reads the names
  of both interfaces and runs its process in one step.
- In `DeviceTables`: columns that no property tells apart; two threads in one database
  connection beyond the order of their statements.
- In `Controller`: the `VMTDServer` and `VMTDClient` of earlier starts, which nothing
  deletes: they stay connected and have no handlers.
- Vendored code (snort, daq) and scripts under `src/data`: they are by far the most lines of
  the repository, third-party, and reached by the program only through the alert file,
  which `Watchdog` models, and shell commands.

## Plan

Done: all modules, with their runs and proofs; every safety property that a passing run
checks is a theorem.

What could follow, in order of worth: several reconfigurations in a row, with the hosts
and switches that keep what they are not told to clear; the forms that read groups after
`generate`.
