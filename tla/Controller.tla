----------------------------- MODULE Controller -----------------------------
(***************************************************************************)
(* The life of a node (VMTDController.cpp): the main window starts, stops  *)
(* and restarts a worker thread that runs as server or client, as the      *)
(* settings say when it starts.  The engine, the settings and the windows  *)
(* live in the main thread; what the thread creates is deleted when it     *)
(* finished.                                                               *)
(*                                                                         *)
(* A click is one step: stopController waits for the thread, which takes   *)
(* no step of its own meanwhile but those to its end.  startEngine asks    *)
(* for a call in a second; it is made by the main thread, and no stop      *)
(* withdraws it.                                                           *)
(*                                                                         *)
(* Of the settings there are the type of the node and the use of the       *)
(* reconfiguration timer; the others that restart are "other".             *)
(***************************************************************************)
EXTENDS Integers

CONSTANTS Missing,          \* no file of settings
          Empty,            \* one that was emptied and not written
          MaxPending        \* bound: calls asked for and not yet made

VARIABLES thread,           \* "stopped", "starting", "created" or "running"
          m_nodeType,       \* what the thread runs as
          hostServer,       \* the pointers m_nxApiServer and m_hostServer,
          hostClient,       \* m_hostClient and m_configurator point to
          nodeType,         \* the settings,
          useTimer,
          file,             \* and in their file
          pending,          \* calls asked for by startEngine
          reconfigTimer,    \* the timer is active
          menu,             \* what MainWindow::restartSlot enabled
          deviceForm,       \* the form of the tables was opened
          \* What follows only observes.
          orphans,          \* pending calls of runs that have ended
          stray,            \* the timer was started by one of them
          loaded            \* settings were loaded since menu was set

worker   == <<thread, m_nodeType, hostServer, hostClient>>
settings == <<nodeType, useTimer, file>>
engine   == <<pending, reconfigTimer, orphans, stray>>
window   == <<menu, deviceForm, loaded>>
vars     == <<worker, settings, engine, window>>

NodeTypes == {"SERVER", "CLIENT"}
Settings  == [nodeType : NodeTypes, useTimer : BOOLEAN]
Pointers  == {"unset", "live", "deleted"}
Default   == [nodeType |-> "CLIENT", useTimer |-> FALSE]

ASSUME ControllerAssumption ==
    /\ MaxPending \in Nat \ {0}
    /\ Missing \notin Settings
    /\ Empty \notin Settings
    /\ Missing # Empty

\* Variant: keys not found give no type of a node (toInt(-1)).
InFileOrInvalid(s) ==
    IF file \in Settings THEN file ELSE [nodeType |-> "invalid", useTimer |-> s.useTimer]

\* loadSlot, when the settings are s so far: without a file, or from an empty one,
\* they stay.
InFile(s) == IF file \in Settings THEN file ELSE s

\* saveSlot: the file may not open.
SaveFile(s) == file' \in {file, s}

\* The program starts: settings are loaded, and so is the thread started.
Init ==
    /\ file \in Settings \cup {Missing, Empty}
    /\ nodeType = InFile(Default).nodeType
    /\ useTimer = InFile(Default).useTimer
    /\ thread = "starting"
    /\ m_nodeType \in NodeTypes
    /\ hostServer = "unset"
    /\ hostClient = "unset"
    /\ pending = 0
    /\ reconfigTimer = FALSE
    /\ menu = [server |-> nodeType = "SERVER", running |-> TRUE]
    /\ deviceForm = FALSE
    /\ orphans = 0
    /\ stray = FALSE
    /\ loaded = FALSE

-----------------------------------------------------------------------------
(* The worker thread: run().                                               *)

createClient ==
    /\ thread = "starting"
    /\ thread' = "created"
    /\ m_nodeType' = nodeType
    /\ hostClient' = "live"
    /\ UNCHANGED <<hostServer, settings, engine, window>>

\* With the engine, or without, up to exec.
createServer ==
    /\ thread = "created"
    /\ thread' = "running"
    /\ \/ /\ m_nodeType = "SERVER"
          /\ pending < MaxPending
          /\ hostServer' = "live"
          /\ pending' = pending + 1
       \/ /\ m_nodeType # "SERVER"
          /\ UNCHANGED <<hostServer, pending>>
    /\ UNCHANGED <<m_nodeType, hostClient, settings, reconfigTimer, orphans, stray, window>>

\* Variant: the settings are asked again when the thread ends.
StopAsSet(n, next) ==
    LET role == IF thread = "starting" THEN n ELSE m_nodeType
        asked == IF thread # "running" /\ role = "SERVER" THEN 1 ELSE 0
    IN  /\ thread # "stopped"
        /\ pending + asked <= MaxPending
        /\ thread' = next
        /\ m_nodeType' = role
        /\ hostClient' = "deleted"
        /\ hostServer' = IF role = "SERVER" THEN "deleted" ELSE hostServer
        /\ pending' = pending + asked
        /\ orphans' = pending'
        /\ reconfigTimer' = (reconfigTimer /\ n # "SERVER")
        /\ stray' = (stray /\ reconfigTimer')

\* stopController, when the settings say n: the thread comes to exec, if it has not
\* yet, and ends.  What it created is deleted, except m_server and m_client.
stopController(n, next) ==
    LET role == IF thread = "starting" THEN n ELSE m_nodeType
        asked == IF thread # "running" /\ role = "SERVER" THEN 1 ELSE 0
    IN  /\ thread # "stopped"
        /\ pending + asked <= MaxPending
        /\ thread' = next
        /\ m_nodeType' = role
        /\ hostClient' = "deleted"
        /\ hostServer' = IF role = "SERVER" THEN "deleted" ELSE hostServer
        /\ pending' = pending + asked
        /\ orphans' = pending'
        /\ reconfigTimer' = (reconfigTimer /\ role # "SERVER")
        /\ stray' = (stray /\ reconfigTimer')

-----------------------------------------------------------------------------
(* The main thread.                                                        *)

\* startEngine: a second later.  Calls are made in the order they were asked for.
startEngineLater ==
    /\ pending > 0
    /\ pending' = pending - 1
    /\ orphans' = IF orphans > 0 THEN orphans - 1 ELSE 0
    /\ reconfigTimer' = (reconfigTimer \/ useTimer)
    /\ stray' = IF useTimer THEN orphans > 0 ELSE stray
    /\ UNCHANGED <<worker, settings, window>>

\* MainWindow::restartSlot
restartSlot ==
    /\ menu' = [server |-> nodeType' = "SERVER", running |-> thread' # "stopped"]
    /\ loaded' = FALSE
    /\ UNCHANGED deviceForm

on_actionStart_triggered ==
    /\ ~menu.running
    /\ thread' = IF thread = "stopped" THEN "starting" ELSE thread
    /\ UNCHANGED <<m_nodeType, hostServer, hostClient, settings, engine>>
    /\ restartSlot

on_actionStop_triggered ==
    /\ menu.running
    /\ stopController(nodeType, "stopped")
    /\ UNCHANGED settings
    /\ restartSlot

on_actionDevice_triggered ==
    /\ menu.server
    /\ deviceForm' = TRUE
    /\ UNCHANGED <<worker, settings, engine, menu, loaded>>

\* VMTDController::restartSlot, when the settings say n
RestartThread(n) ==
    \/ stopController(n, "starting")
    \/ thread = "stopped" /\ UNCHANGED <<worker, engine>>

\* Variants: a setter does not ask for a restart.
TimerChangeForgotten(n, t, other) == n # nodeType \/ other
TypeChangeForgotten(n, t, other) == t # useTimer \/ other

\* What the setters leave in m_shouldBeRestarted.
ShouldBeRestarted(n, t, other) == n # nodeType \/ t # useTimer \/ other

\* Variant: the main window is not told of the restart.
AcceptUntold(n, t, other) ==
    /\ nodeType' = n
    /\ useTimer' = t
    /\ \/ ShouldBeRestarted(n, t, other) /\ RestartThread(n)
       \/ ~ShouldBeRestarted(n, t, other) /\ UNCHANGED <<worker, engine>>
    /\ UNCHANGED window
    /\ SaveFile([nodeType |-> n, useTimer |-> t])

\* VMTDSettingsForm: updateData, apply and save
on_pbAccept_clicked(n, t, other) ==
    /\ nodeType' = n
    /\ useTimer' = t
    /\ \/ /\ ShouldBeRestarted(n, t, other)
          /\ RestartThread(n)
          /\ restartSlot
       \/ /\ ~ShouldBeRestarted(n, t, other)
          /\ UNCHANGED <<worker, engine, window>>
    /\ SaveFile([nodeType |-> n, useTimer |-> t])

on_pbSave_clicked ==
    /\ SaveFile([nodeType |-> nodeType, useTimer |-> useTimer])
    /\ UNCHANGED <<worker, nodeType, useTimer, engine, window>>

\* Nothing is restarted: fromJson sets no flag, and apply finds none.
on_pbLoad_clicked ==
    LET now == [nodeType |-> nodeType, useTimer |-> useTimer] IN
    /\ nodeType' = InFile(now).nodeType
    /\ useTimer' = InFile(now).useTimer
    /\ \/ file = Missing /\ SaveFile(now)
       \/ file # Missing /\ UNCHANGED file
    /\ loaded' = (loaded \/ InFile(now) # now)
    /\ UNCHANGED <<worker, engine, menu, deviceForm>>

\* VMTDDeviceTableForm: Apply.  The main window is not told.
on_pbApply_clicked ==
    /\ deviceForm
    /\ RestartThread(nodeType)
    /\ UNCHANGED <<settings, window>>

\* The program is left or killed, perhaps while it saves, and started again.
Restart ==
    /\ \/ file' \in {file, Empty}
       \/ file = Missing /\ SaveFile(Default)
    /\ nodeType' = InFile(Default)'.nodeType
    /\ useTimer' = InFile(Default)'.useTimer
    /\ thread' = "starting"
    /\ m_nodeType' \in NodeTypes
    /\ hostServer' = "unset"
    /\ hostClient' = "unset"
    /\ pending' = 0
    /\ reconfigTimer' = FALSE
    /\ orphans' = 0
    /\ stray' = FALSE
    /\ menu' = [server |-> nodeType' = "SERVER", running |-> TRUE]
    /\ deviceForm' = FALSE
    /\ loaded' = FALSE

Next ==
    \/ createClient
    \/ createServer
    \/ startEngineLater
    \/ on_actionStart_triggered
    \/ on_actionStop_triggered
    \/ on_actionDevice_triggered
    \/ \E n \in NodeTypes, t, other \in BOOLEAN : on_pbAccept_clicked(n, t, other)
    \/ on_pbSave_clicked
    \/ on_pbLoad_clicked
    \/ on_pbApply_clicked
    \/ Restart

Spec == Init /\ [][Next]_vars

\* The thread runs up to exec, and the main thread's timers fire.
FairSpec ==
    /\ Spec
    /\ WF_vars(createClient)
    /\ WF_vars(createServer)
    /\ WF_vars(startEngineLater)

-----------------------------------------------------------------------------
(* Properties.                                                             *)

TypeOK ==
    /\ thread \in {"stopped", "starting", "created", "running"}
    /\ m_nodeType \in NodeTypes
    /\ hostServer \in Pointers
    /\ hostClient \in Pointers
    /\ nodeType \in NodeTypes
    /\ useTimer \in BOOLEAN
    /\ file \in Settings \cup {Missing, Empty}
    /\ pending \in 0..MaxPending
    /\ orphans \in 0..pending
    /\ reconfigTimer \in BOOLEAN
    /\ stray \in BOOLEAN
    /\ menu \in [server : BOOLEAN, running : BOOLEAN]
    /\ deviceForm \in BOOLEAN
    /\ loaded \in BOOLEAN

\* The thread runs as what the settings say, however often settings are accepted while
\* it starts or runs.  Only Load changes them behind its back, until the next restart.
RunsAsSet ==
    thread = "running" /\ ~loaded => m_nodeType = nodeType

\* Reconfigurations are timed only in a thread that runs as server and, as far as the
\* settings were not just loaded, when the settings want it: unless a server was stopped
\* within its first second, whose timer then starts although nothing listens and lasts
\* until the next server stops.
TimerOfServer ==
    reconfigTimer /\ ~stray =>
        /\ thread = "running" /\ m_nodeType = "SERVER"
        /\ ~loaded => useTimer

\* An enabled item of the menus finds the object whose form it shows: MainWindow asks
\* only isRunning().  That is too early while the thread starts, and the menus are old
\* between a Load and the next click on Start, Stop or Accept.
FormsOfLiveObjects ==
    thread = "running" =>
        /\ menu.running /\ hostClient = "live"
        /\ menu.server /\ ~loaded => hostServer = "live"

\* A server whose settings want reconfigurations begins to time them, unless it is
\* stopped or the settings change first.
EngineStarts ==
    (thread = "running" /\ m_nodeType = "SERVER" /\ useTimer /\ ~loaded)
        ~> (reconfigTimer \/ thread # "running" \/ ~useTimer \/ loaded)
=============================================================================
