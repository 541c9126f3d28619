-------------------------- MODULE ControllerProofs --------------------------
(* Theorems about the controller, for any number of pending calls. *)
EXTENDS Controller, TLAPS

\* A thread that has read the settings runs as they say, until they are loaded anew;
\* the menus follow the thread, and the settings too.
Followed ==
    /\ menu.running <=> thread # "stopped"
    /\ ~loaded => (menu.server <=> nodeType = "SERVER")
    /\ thread \in {"created", "running"} /\ ~loaded => m_nodeType = nodeType

\* The objects of a thread live as long as it runs.
Alive ==
    /\ thread \in {"created", "running"} => hostClient = "live"
    /\ thread = "running" /\ m_nodeType = "SERVER" => hostServer = "live"

\* At most one pending call is not an orphan, and it is a running server's.
Called ==
    /\ pending <= orphans + 1
    /\ orphans < pending => thread = "running" /\ m_nodeType = "SERVER"

IInv == TypeOK /\ Followed /\ Alive /\ Called /\ TimerOfServer

LEMMA DefaultIsSetting == Default \in Settings
BY DEF Default, Settings, NodeTypes

LEMMA InFileIsSetting ==
  ASSUME NEW s \in Settings
  PROVE  /\ InFile(s) \in Settings
         /\ InFile(s).nodeType \in NodeTypes
         /\ InFile(s).useTimer \in BOOLEAN
<1>1. InFile(s) \in Settings
  BY DEF InFile
<1> QED
  BY <1>1 DEF Settings

LEMMA InFileNextIsSetting ==
  ASSUME NEW s \in Settings
  PROVE  InFile(s)' \in Settings
<1>1. InFile(s)' = IF file' \in Settings THEN file' ELSE s
  BY DEF InFile, Settings, NodeTypes
<1> QED
  BY <1>1

\* Menus hold Booleans.
LEMMA MenuType ==
  ASSUME NEW p \in BOOLEAN, NEW q \in BOOLEAN
  PROVE  /\ [server |-> p, running |-> q] \in [server : BOOLEAN, running : BOOLEAN]
         /\ [server |-> p, running |-> q].server = p
         /\ [server |-> p, running |-> q].running = q
OBVIOUS

LEMMA RestartSlotSets ==
  ASSUME restartSlot, deviceForm \in BOOLEAN
  PROVE  /\ menu' \in [server : BOOLEAN, running : BOOLEAN]
         /\ menu'.server <=> nodeType' = "SERVER"
         /\ menu'.running <=> thread' # "stopped"
         /\ loaded' = FALSE /\ deviceForm' \in BOOLEAN
<1>1. menu' = [server |-> nodeType' = "SERVER", running |-> thread' # "stopped"]
  BY DEF restartSlot
<1>2. (nodeType' = "SERVER") \in BOOLEAN /\ (thread' # "stopped") \in BOOLEAN
  OBVIOUS
<1>3. /\ menu' \in [server : BOOLEAN, running : BOOLEAN]
      /\ menu'.server = (nodeType' = "SERVER")
      /\ menu'.running = (thread' # "stopped")
  BY <1>1, <1>2, MenuType
<1>4. menu'.server <=> nodeType' = "SERVER"
  BY <1>3
<1>5. menu'.running <=> thread' # "stopped"
  BY <1>3
<1>6. loaded' = FALSE /\ deviceForm' = deviceForm
  BY DEF restartSlot
<1> QED
  BY <1>3, <1>4, <1>5, <1>6

LEMMA InitIInv == Init => IInv
<1> SUFFICES ASSUME Init PROVE IInv
  OBVIOUS
<1>1. nodeType \in NodeTypes /\ useTimer \in BOOLEAN
  BY DefaultIsSetting, InFileIsSetting DEF Init
<1>2. /\ menu \in [server : BOOLEAN, running : BOOLEAN]
      /\ menu.server = (nodeType = "SERVER")
      /\ menu.running = TRUE
  BY MenuType DEF Init
<1>3. menu.running /\ (menu.server <=> nodeType = "SERVER")
  BY <1>2
<1>4. TypeOK
  <2>1. pending \in 0..MaxPending /\ orphans \in 0..pending
    BY ControllerAssumption DEF Init
  <2>2. /\ thread \in {"stopped", "starting", "created", "running"}
        /\ m_nodeType \in NodeTypes /\ hostServer \in Pointers /\ hostClient \in Pointers
        /\ file \in Settings \cup {Missing, Empty}
        /\ reconfigTimer \in BOOLEAN /\ stray \in BOOLEAN
        /\ deviceForm \in BOOLEAN /\ loaded \in BOOLEAN
    BY DEF Init, Pointers
  <2> QED
    BY <2>1, <2>2, <1>1, <1>2 DEF TypeOK
<1>5. Followed /\ Alive /\ Called /\ TimerOfServer
  BY <1>3 DEF Init, Followed, Alive, Called, TimerOfServer
<1> QED
  BY <1>4, <1>5 DEF IInv

LEMMA createClientStep == IInv /\ createClient => IInv'
BY DEF IInv, TypeOK, Followed, Alive, Called, TimerOfServer, createClient, settings, engine,
       window, Pointers

LEMMA createServerStep == IInv /\ createServer => IInv'
<1> SUFFICES ASSUME IInv, createServer PROVE IInv'
  OBVIOUS
<1>1. /\ thread = "created" /\ thread' = "running"
      /\ \/ m_nodeType = "SERVER" /\ pending < MaxPending /\ hostServer' = "live"
            /\ pending' = pending + 1
         \/ m_nodeType # "SERVER" /\ UNCHANGED <<hostServer, pending>>
      /\ UNCHANGED <<m_nodeType, hostClient, nodeType, useTimer, file, reconfigTimer,
                     orphans, stray, menu, deviceForm, loaded>>
  BY DEF createServer, settings, window
<1>2. TypeOK /\ Followed /\ Alive /\ Called /\ TimerOfServer
  BY DEF IInv
<1>3. orphans = pending /\ orphans \in Nat
  BY <1>1, <1>2, ControllerAssumption DEF TypeOK, Called
<1>4. TypeOK'
  BY <1>1, <1>2, <1>3, ControllerAssumption DEF TypeOK, Pointers
<1>5. Followed' /\ Alive' /\ TimerOfServer'
  BY <1>1, <1>2 DEF Followed, Alive, TimerOfServer
<1>6. Called'
  BY <1>1, <1>3 DEF Called
<1> QED
  BY <1>4, <1>5, <1>6 DEF IInv

\* What a thread leaves when it is stopped.
LEMMA StopLeaves ==
  ASSUME IInv, NEW n \in NodeTypes, NEW next \in {"stopped", "starting"},
         stopController(n, next)
  PROVE  /\ thread' = next /\ m_nodeType' \in NodeTypes
         /\ hostServer' \in Pointers /\ hostClient' \in Pointers
         /\ pending' \in 0..MaxPending /\ orphans' \in 0..pending'
         /\ Called'
         /\ reconfigTimer' \in BOOLEAN /\ stray' \in BOOLEAN
         /\ reconfigTimer' => stray'
<1> DEFINE role == IF thread = "starting" THEN n ELSE m_nodeType
           asked == IF thread # "running" /\ role = "SERVER" THEN 1 ELSE 0
<1>1. /\ pending + asked <= MaxPending
      /\ thread' = next /\ m_nodeType' = role /\ hostClient' = "deleted"
      /\ hostServer' = IF role = "SERVER" THEN "deleted" ELSE hostServer
      /\ pending' = pending + asked /\ orphans' = pending'
      /\ reconfigTimer' = (reconfigTimer /\ role # "SERVER")
      /\ stray' = (stray /\ reconfigTimer')
  BY DEF stopController
<1>2. TypeOK /\ TimerOfServer
  BY DEF IInv
<1>3. role \in NodeTypes /\ asked \in {0, 1}
  BY <1>2 DEF TypeOK
<1>4. pending' \in 0..MaxPending
  BY <1>1, <1>2, <1>3, ControllerAssumption DEF TypeOK
<1>8. orphans' \in 0..pending' /\ Called'
  BY <1>1, <1>4, ControllerAssumption DEF Called
<1>5. reconfigTimer' => stray'
  <2> SUFFICES ASSUME reconfigTimer, role # "SERVER" PROVE stray
    BY <1>1
  <2>1. ~(thread = "running" /\ m_nodeType = "SERVER")
    OBVIOUS
  <2> QED
    BY <2>1, <1>2 DEF TypeOK, TimerOfServer
<1>6. hostServer' \in Pointers /\ hostClient' \in Pointers
  BY <1>1, <1>2 DEF TypeOK, Pointers
<1>7. reconfigTimer' \in BOOLEAN /\ stray' \in BOOLEAN
  BY <1>1
<1> QED
  BY <1>1, <1>3, <1>4, <1>5, <1>6, <1>7, <1>8

LEMMA startEngineLaterStep == IInv /\ startEngineLater => IInv'
<1> SUFFICES ASSUME IInv, startEngineLater PROVE IInv'
  OBVIOUS
<1>1. /\ pending > 0 /\ pending' = pending - 1
      /\ orphans' = IF orphans > 0 THEN orphans - 1 ELSE 0
      /\ reconfigTimer' = (reconfigTimer \/ useTimer)
      /\ stray' = IF useTimer THEN orphans > 0 ELSE stray
      /\ UNCHANGED <<thread, m_nodeType, hostServer, hostClient, nodeType, useTimer, file,
                     menu, deviceForm, loaded>>
  BY DEF startEngineLater, worker, settings, window
<1>2. TypeOK /\ Followed /\ Alive /\ Called /\ TimerOfServer
  BY DEF IInv
<1>3. /\ pending' \in 0..MaxPending /\ orphans' \in 0..pending' /\ pending' <= orphans' + 1
      /\ orphans' < pending' => orphans < pending
      /\ orphans = 0 => orphans < pending
  BY <1>1, <1>2, ControllerAssumption DEF TypeOK, Called
<1>4. reconfigTimer' \in BOOLEAN /\ stray' \in BOOLEAN
  <2>1. (reconfigTimer \/ useTimer) \in BOOLEAN /\ (orphans > 0) \in BOOLEAN
    OBVIOUS
  <2> QED
    BY <2>1, <1>1, <1>2 DEF TypeOK
<1>5. TypeOK'
  BY <1>1, <1>2, <1>3, <1>4 DEF TypeOK
<1>6. Followed' /\ Alive'
  BY <1>1, <1>2 DEF Followed, Alive
<1>7. Called'
  BY <1>1, <1>2, <1>3 DEF Called
<1>8. TimerOfServer'
  <2>1. CASE useTimer
    <3>1. stray' <=> orphans > 0
      BY <1>1, <2>1
    <3>2. orphans \in Nat
      BY <1>2, ControllerAssumption DEF TypeOK
    <3>3. ~stray' => orphans < pending
      BY <3>1, <3>2, <1>3
    <3> QED
      BY <3>3, <1>1, <1>2, <2>1 DEF Called, TimerOfServer
  <2>2. CASE ~useTimer
    BY <1>1, <1>2, <2>2 DEF TypeOK, TimerOfServer
  <2> QED
    BY <2>1, <2>2
<1> QED
  BY <1>5, <1>6, <1>7, <1>8 DEF IInv

LEMMA StartStep == IInv /\ on_actionStart_triggered => IInv'
<1> SUFFICES ASSUME IInv, on_actionStart_triggered PROVE IInv'
  OBVIOUS
<1>1. TypeOK /\ Followed /\ Alive /\ Called /\ TimerOfServer
  BY DEF IInv
<1>2. /\ thread = "stopped" /\ thread' = "starting"
      /\ UNCHANGED <<m_nodeType, hostServer, hostClient, nodeType, useTimer, file, pending,
                     reconfigTimer, orphans, stray>>
  BY <1>1 DEF on_actionStart_triggered, Followed, settings, engine
<1>3. /\ menu' \in [server : BOOLEAN, running : BOOLEAN]
      /\ menu'.server <=> nodeType' = "SERVER"
      /\ menu'.running <=> thread' # "stopped"
      /\ loaded' = FALSE /\ deviceForm' \in BOOLEAN
  BY <1>1, RestartSlotSets DEF TypeOK, on_actionStart_triggered
<1>4. TypeOK'
  BY <1>1, <1>2, <1>3 DEF TypeOK
<1>5. Followed' /\ Alive' /\ Called' /\ TimerOfServer'
  BY <1>1, <1>2, <1>3 DEF Followed, Alive, Called, TimerOfServer
<1> QED
  BY <1>4, <1>5 DEF IInv

LEMMA StopStep == IInv /\ on_actionStop_triggered => IInv'
<1> SUFFICES ASSUME IInv, on_actionStop_triggered PROVE IInv'
  OBVIOUS
<1>1. /\ stopController(nodeType, "stopped") /\ restartSlot
      /\ UNCHANGED <<nodeType, useTimer, file>>
  BY DEF on_actionStop_triggered, settings
<1>2. TypeOK
  BY DEF IInv
<1>3. /\ thread' = "stopped" /\ m_nodeType' \in NodeTypes
      /\ hostServer' \in Pointers /\ hostClient' \in Pointers
      /\ pending' \in 0..MaxPending /\ orphans' \in 0..pending' /\ Called'
      /\ reconfigTimer' \in BOOLEAN /\ stray' \in BOOLEAN
      /\ reconfigTimer' => stray'
  BY <1>1, <1>2, StopLeaves DEF TypeOK
<1>4. /\ menu' \in [server : BOOLEAN, running : BOOLEAN]
      /\ menu'.server <=> nodeType' = "SERVER"
      /\ menu'.running <=> thread' # "stopped"
      /\ loaded' = FALSE /\ deviceForm' \in BOOLEAN
  BY <1>1, <1>2, RestartSlotSets DEF TypeOK
<1>5. TypeOK'
  BY <1>1, <1>2, <1>3, <1>4, ControllerAssumption DEF TypeOK
<1>6. Followed' /\ Alive' /\ TimerOfServer'
  BY <1>3, <1>4 DEF Followed, Alive, TimerOfServer
<1> QED
  BY <1>3, <1>5, <1>6 DEF IInv

LEMMA DeviceStep == IInv /\ on_actionDevice_triggered => IInv'
BY DEF IInv, TypeOK, Followed, Alive, Called, TimerOfServer, on_actionDevice_triggered,
       worker, settings, engine

LEMMA AcceptStep ==
  ASSUME IInv, NEW n \in NodeTypes, NEW t \in BOOLEAN, NEW other \in BOOLEAN,
         on_pbAccept_clicked(n, t, other)
  PROVE  IInv'
<1>1. TypeOK /\ Followed /\ Alive /\ Called /\ TimerOfServer
  BY DEF IInv
<1>2. nodeType' = n /\ useTimer' = t /\ file' \in Settings \cup {Missing, Empty}
  BY <1>1 DEF on_pbAccept_clicked, SaveFile, Settings, TypeOK
<1>3. CASE ~ShouldBeRestarted(n, t, other)
  <2>1. /\ n = nodeType /\ t = useTimer
        /\ UNCHANGED <<thread, m_nodeType, hostServer, hostClient, pending, reconfigTimer,
                       orphans, stray, menu, deviceForm, loaded>>
    BY <1>3 DEF on_pbAccept_clicked, ShouldBeRestarted, worker, engine, window
  <2> QED
    BY <1>1, <1>2, <2>1 DEF IInv, TypeOK, Followed, Alive, Called, TimerOfServer
<1>4. CASE RestartThread(n) /\ restartSlot
  <2>1. /\ menu' \in [server : BOOLEAN, running : BOOLEAN]
        /\ menu'.server <=> n = "SERVER"
        /\ menu'.running <=> thread' # "stopped"
        /\ loaded' = FALSE /\ deviceForm' \in BOOLEAN
    BY <1>1, <1>2, <1>4, RestartSlotSets DEF TypeOK
  <2>2. CASE stopController(n, "starting")
    <3>1. /\ thread' = "starting" /\ m_nodeType' \in NodeTypes
          /\ hostServer' \in Pointers /\ hostClient' \in Pointers
          /\ pending' \in 0..MaxPending /\ orphans' \in 0..pending' /\ Called'
          /\ reconfigTimer' \in BOOLEAN /\ stray' \in BOOLEAN
          /\ reconfigTimer' => stray'
      BY <2>2, StopLeaves
    <3>2. TypeOK'
      BY <1>1, <1>2, <2>1, <3>1, ControllerAssumption DEF TypeOK
    <3>3. Followed' /\ Alive' /\ TimerOfServer'
      BY <1>2, <2>1, <3>1 DEF Followed, Alive, TimerOfServer
    <3> QED
      BY <3>1, <3>2, <3>3 DEF IInv
  <2>3. CASE thread = "stopped" /\ UNCHANGED <<worker, engine>>
    <3>1. UNCHANGED <<thread, m_nodeType, hostServer, hostClient, pending, reconfigTimer,
                      orphans, stray>>
      BY <2>3 DEF worker, engine
    <3>2. TypeOK'
      BY <1>1, <1>2, <2>1, <3>1 DEF TypeOK
    <3>3. Followed' /\ Alive' /\ TimerOfServer' /\ Called'
      BY <1>1, <1>2, <2>1, <2>3, <3>1 DEF Followed, Alive, TimerOfServer, Called
    <3> QED
      BY <3>2, <3>3 DEF IInv
  <2> QED
    BY <1>4, <2>2, <2>3 DEF RestartThread
<1> QED
  BY <1>3, <1>4 DEF on_pbAccept_clicked

LEMMA SaveStep == IInv /\ on_pbSave_clicked => IInv'
<1> SUFFICES ASSUME IInv, on_pbSave_clicked PROVE IInv'
  OBVIOUS
<1>1. UNCHANGED <<thread, m_nodeType, hostServer, hostClient, nodeType, useTimer, pending,
                  reconfigTimer, orphans, stray, menu, deviceForm, loaded>>
  BY DEF on_pbSave_clicked, worker, engine, window
<1>2. file' \in Settings \cup {Missing, Empty}
  BY DEF IInv, TypeOK, on_pbSave_clicked, SaveFile, Settings
<1> QED
  BY <1>1, <1>2 DEF IInv, TypeOK, Followed, Alive, Called, TimerOfServer

LEMMA LoadStep == IInv /\ on_pbLoad_clicked => IInv'
<1> SUFFICES ASSUME IInv, on_pbLoad_clicked PROVE IInv'
  OBVIOUS
<1> DEFINE now == [nodeType |-> nodeType, useTimer |-> useTimer]
           new == InFile(now)
<1>1. TypeOK /\ Followed /\ Alive /\ Called /\ TimerOfServer
  BY DEF IInv
<1>2. now \in Settings
  BY <1>1 DEF TypeOK, Settings
<1>3. new \in Settings /\ new.nodeType \in NodeTypes /\ new.useTimer \in BOOLEAN
  BY <1>2, InFileIsSetting
<1>4. /\ nodeType' = new.nodeType /\ useTimer' = new.useTimer
      /\ loaded' = (loaded \/ new # now)
      /\ UNCHANGED <<thread, m_nodeType, hostServer, hostClient, pending, reconfigTimer,
                     orphans, stray, menu, deviceForm>>
  BY DEF on_pbLoad_clicked, worker, engine
<1>5. file' \in Settings \cup {Missing, Empty}
  BY <1>1, <1>2 DEF TypeOK, on_pbLoad_clicked, SaveFile
<1> HIDE DEF new
<1>6. ~loaded' => ~loaded /\ nodeType' = nodeType /\ useTimer' = useTimer
  <2> SUFFICES ASSUME ~loaded' PROVE ~loaded /\ nodeType' = nodeType /\ useTimer' = useTimer
    OBVIOUS
  <2>1. ~loaded /\ new = now
    BY <1>4
  <2> QED
    BY <2>1, <1>4
<1>7. loaded' \in BOOLEAN
  BY <1>4
<1>8. TypeOK'
  BY <1>1, <1>3, <1>4, <1>5, <1>7 DEF TypeOK
<1>9. Followed' /\ Alive' /\ Called' /\ TimerOfServer'
  BY <1>1, <1>4, <1>6 DEF Followed, Alive, Called, TimerOfServer
<1> QED
  BY <1>8, <1>9 DEF IInv

LEMMA ApplyStep == IInv /\ on_pbApply_clicked => IInv'
<1> SUFFICES ASSUME IInv, on_pbApply_clicked PROVE IInv'
  OBVIOUS
<1>1. TypeOK /\ Followed /\ Alive /\ Called /\ TimerOfServer
  BY DEF IInv
<1>2. /\ RestartThread(nodeType)
      /\ UNCHANGED <<nodeType, useTimer, file, menu, deviceForm, loaded>>
  BY DEF on_pbApply_clicked, settings, window
<1>3. CASE stopController(nodeType, "starting")
  <2>1. /\ thread' = "starting" /\ m_nodeType' \in NodeTypes
        /\ hostServer' \in Pointers /\ hostClient' \in Pointers
        /\ pending' \in 0..MaxPending /\ orphans' \in 0..pending' /\ Called'
        /\ reconfigTimer' \in BOOLEAN /\ stray' \in BOOLEAN
        /\ reconfigTimer' => stray'
    BY <1>1, <1>3, StopLeaves DEF TypeOK
  <2>2. thread # "stopped"
    BY <1>3 DEF stopController
  <2>3. TypeOK'
    BY <1>1, <1>2, <2>1, ControllerAssumption DEF TypeOK
  <2>4. Followed' /\ Alive' /\ TimerOfServer'
    BY <1>1, <1>2, <2>1, <2>2 DEF Followed, Alive, TimerOfServer
  <2> QED
    BY <2>1, <2>3, <2>4 DEF IInv
<1>4. CASE thread = "stopped" /\ UNCHANGED <<worker, engine>>
  <2>1. UNCHANGED <<thread, m_nodeType, hostServer, hostClient, pending, reconfigTimer,
                    orphans, stray>>
    BY <1>4 DEF worker, engine
  <2> QED
    BY <1>1, <1>2, <2>1 DEF IInv, TypeOK, Followed, Alive, Called, TimerOfServer
<1> QED
  BY <1>2, <1>3, <1>4 DEF RestartThread

LEMMA RestartStep == IInv /\ Restart => IInv'
<1> SUFFICES ASSUME IInv, Restart PROVE IInv'
  OBVIOUS
<1> DEFINE new == InFile(Default)'
<1>1. new \in Settings
  BY DefaultIsSetting, InFileNextIsSetting
<1>2. /\ nodeType' = new.nodeType /\ useTimer' = new.useTimer
      /\ thread' = "starting" /\ m_nodeType' \in NodeTypes
      /\ hostServer' = "unset" /\ hostClient' = "unset"
      /\ pending' = 0 /\ reconfigTimer' = FALSE /\ orphans' = 0 /\ stray' = FALSE
      /\ menu' = [server |-> nodeType' = "SERVER", running |-> TRUE]
      /\ deviceForm' = FALSE /\ loaded' = FALSE
  BY DEF Restart
<1>7. /\ menu' \in [server : BOOLEAN, running : BOOLEAN]
      /\ menu'.server = (nodeType' = "SERVER")
      /\ menu'.running = TRUE
  BY <1>2, MenuType
<1>8. menu'.running /\ (menu'.server <=> nodeType' = "SERVER")
  BY <1>7
<1>3. file' \in Settings \cup {Missing, Empty}
  BY DefaultIsSetting DEF IInv, TypeOK, Restart, SaveFile
<1> HIDE DEF new
<1>4. nodeType' \in NodeTypes /\ useTimer' \in BOOLEAN
  BY <1>1, <1>2 DEF Settings
<1>5. TypeOK'
  <2>1. pending' \in 0..MaxPending /\ orphans' \in 0..pending'
    BY <1>2, ControllerAssumption
  <2>2. /\ thread' \in {"stopped", "starting", "created", "running"}
        /\ hostServer' \in Pointers /\ hostClient' \in Pointers
        /\ reconfigTimer' \in BOOLEAN /\ stray' \in BOOLEAN
        /\ deviceForm' \in BOOLEAN /\ loaded' \in BOOLEAN
    BY <1>2 DEF Pointers
  <2> QED
    BY <2>1, <2>2, <1>2, <1>3, <1>4, <1>7 DEF TypeOK
<1>6. Followed' /\ Alive' /\ Called' /\ TimerOfServer'
  BY <1>2, <1>8 DEF Followed, Alive, Called, TimerOfServer
<1> QED
  BY <1>5, <1>6 DEF IInv

LEMMA NextIInv == IInv /\ [Next]_vars => IInv'
<1> SUFFICES ASSUME IInv, [Next]_vars PROVE IInv'
  OBVIOUS
<1>1. ASSUME NEW n \in NodeTypes, NEW t \in BOOLEAN, NEW other \in BOOLEAN,
             on_pbAccept_clicked(n, t, other)
      PROVE  IInv'
  BY <1>1, AcceptStep
<1>2. CASE UNCHANGED vars
  BY <1>2 DEF vars, worker, settings, engine, window, IInv, TypeOK, Followed, Alive, Called,
              TimerOfServer
<1> QED
  BY <1>1, <1>2, createClientStep, createServerStep, startEngineLaterStep, StartStep,
     StopStep, DeviceStep, SaveStep, LoadStep, ApplyStep, RestartStep DEF Next

LEMMA IInvHolds == Spec => []IInv
BY InitIInv, NextIInv, PTL DEF Spec

-----------------------------------------------------------------------------
(* Theorems.                                                                *)

\* Thread, settings, timer and menus keep their types, and no call is counted as an
\* orphan that is not pending.
THEOREM TypeCorrect == Spec => []TypeOK
<1>1. IInv => TypeOK
  BY DEF IInv
<1> QED
  BY <1>1, IInvHolds, PTL

\* The thread runs as the settings say, unless Load changed them behind its back.
THEOREM RoleFollowsSettings == Spec => []RunsAsSet
<1>1. IInv => RunsAsSet
  BY DEF IInv, Followed, RunsAsSet
<1> QED
  BY <1>1, IInvHolds, PTL

\* Only the late call of a server that was stopped in its first second starts the
\* reconfiguration timer without a running server.
THEOREM TimerNeedsServer == Spec => []TimerOfServer
<1>1. IInv => TimerOfServer
  BY DEF IInv
<1> QED
  BY <1>1, IInvHolds, PTL

\* In a running thread the enabled items of the menus find live objects, as long as no
\* settings were loaded since the menus were set.
THEOREM FormsFindObjects == Spec => []FormsOfLiveObjects
<1>1. IInv => FormsOfLiveObjects
  BY DEF IInv, TypeOK, Followed, Alive, FormsOfLiveObjects
<1> QED
  BY <1>1, IInvHolds, PTL
=============================================================================
