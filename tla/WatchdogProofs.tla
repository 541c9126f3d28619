--------------------------- MODULE WatchdogProofs ---------------------------
(* Theorems about the watchdog, for any scanners and either setting. *)
EXTENDS Watchdog, TLAPS

\* The pause ends with the timer's tick and does not begin within the slot; a file
\* that is gone is still in the watcher only until its notification is delivered;
\* what the slot is about to throw away it has read, or it came too late.
Control ==
    /\ m_shouldWait => delayTimer /\ pc = "idle"
    /\ watch = "gone" => pending
    /\ ~exists => content = {}
    /\ pc = "read" => content \subseteq m_scanners \cup late

IInv == TypeOK /\ Control /\ AlertsNoticed /\ DeafOnlyWithoutFile

LEMMA InitIInv == Init => IInv
BY ControlAssumption
   DEF Init, IInv, TypeOK, Control, AlertsNoticed, DeafOnlyWithoutFile, CheckDue

LEMMA TypeStep == TypeOK /\ [Next]_vars => TypeOK'
<1> SUFFICES ASSUME TypeOK, [Next]_vars PROVE TypeOK'
  OBVIOUS
<1> USE ControlAssumption DEF TypeOK, members, history, file
<1>1. CASE Restart
  BY <1>1 DEF Restart
<1>2. CASE StartWatching
  BY <1>2 DEF StartWatching, WatchAfterAddPath
<1>3. CASE Postpone
  BY <1>3 DEF Postpone, Delivered
<1>4. CASE fileChangedSlot
  BY <1>4 DEF fileChangedSlot, Delivered, ReadFile, NotOpened
<1>5. CASE delayTimerTickSlot
  BY <1>5 DEF delayTimerTickSlot, ReadFile, NotOpened
<1>6. CASE ResizeFile
  BY <1>6 DEF ResizeFile
<1>7. CASE EndSlot
  BY <1>7 DEF EndSlot, WatchAfterAddPath
<1>8. CASE handleGetScanners
  BY <1>8 DEF handleGetScanners
<1>9. CASE Environment
  BY <1>9 DEF Environment, SnortWrites, RemoveFile, CreateFile
<1>10. CASE UNCHANGED vars
  BY <1>10 DEF vars
<1> QED
  BY <1>1, <1>2, <1>3, <1>4, <1>5, <1>6, <1>7, <1>8, <1>9, <1>10 DEF Next

LEMMA ControlStep == TypeOK /\ Control /\ [Next]_vars => Control'
<1> SUFFICES ASSUME TypeOK, Control, [Next]_vars PROVE Control'
  OBVIOUS
<1> USE DEF TypeOK, Control, members, history, file
<1>1. CASE Restart
  BY <1>1 DEF Restart
<1>2. CASE StartWatching
  BY <1>2 DEF StartWatching, WatchAfterAddPath
<1>3. CASE Postpone
  BY <1>3 DEF Postpone, Delivered
<1>4. CASE fileChangedSlot
  BY <1>4 DEF fileChangedSlot, Delivered, ReadFile, NotOpened
<1>5. CASE delayTimerTickSlot
  BY <1>5 DEF delayTimerTickSlot, ReadFile, NotOpened
<1>6. CASE ResizeFile
  BY <1>6 DEF ResizeFile
<1>7. CASE EndSlot
  BY <1>7 DEF EndSlot, WatchAfterAddPath
<1>8. CASE handleGetScanners
  BY <1>8 DEF handleGetScanners
<1>9. CASE Environment
  BY <1>9 DEF Environment, SnortWrites, RemoveFile, CreateFile
<1>10. CASE UNCHANGED vars
  BY <1>10 DEF vars
<1> QED
  BY <1>1, <1>2, <1>3, <1>4, <1>5, <1>6, <1>7, <1>8, <1>9, <1>10 DEF Next

LEMMA NoticedStep ==
  TypeOK /\ Control /\ AlertsNoticed /\ [Next]_vars => AlertsNoticed'
<1> SUFFICES ASSUME TypeOK, Control, AlertsNoticed, [Next]_vars PROVE AlertsNoticed'
  OBVIOUS
<1> USE DEF TypeOK, Control, AlertsNoticed, CheckDue, members, history, file
<1>1. CASE Restart
  BY <1>1 DEF Restart
<1>2. CASE StartWatching
  BY <1>2 DEF StartWatching
<1>3. CASE Postpone
  BY <1>3 DEF Postpone, Delivered
<1>4. CASE fileChangedSlot
  BY <1>4 DEF fileChangedSlot, Delivered, ReadFile, NotOpened
<1>5. CASE delayTimerTickSlot
  BY <1>5 DEF delayTimerTickSlot, ReadFile, NotOpened
<1>6. CASE ResizeFile
  BY <1>6 DEF ResizeFile
<1>7. CASE EndSlot
  BY <1>7 DEF EndSlot
<1>8. CASE handleGetScanners
  BY <1>8 DEF handleGetScanners
<1>9. CASE Environment
  BY <1>9 DEF Environment, SnortWrites, RemoveFile, CreateFile
<1>10. CASE UNCHANGED vars
  BY <1>10 DEF vars
<1> QED
  BY <1>1, <1>2, <1>3, <1>4, <1>5, <1>6, <1>7, <1>8, <1>9, <1>10 DEF Next

LEMMA DeafStep ==
  TypeOK /\ Control /\ DeafOnlyWithoutFile /\ [Next]_vars => DeafOnlyWithoutFile'
<1> SUFFICES ASSUME TypeOK, Control, DeafOnlyWithoutFile, [Next]_vars
             PROVE  DeafOnlyWithoutFile'
  OBVIOUS
<1> USE DEF TypeOK, Control, DeafOnlyWithoutFile, CheckDue, members, history, file
<1>1. CASE Restart
  BY <1>1 DEF Restart
<1>2. CASE StartWatching
  BY <1>2 DEF StartWatching, WatchAfterAddPath
<1>3. CASE Postpone
  BY <1>3 DEF Postpone, Delivered
<1>4. CASE fileChangedSlot
  BY <1>4 DEF fileChangedSlot, Delivered, ReadFile, NotOpened
<1>5. CASE delayTimerTickSlot
  BY <1>5 DEF delayTimerTickSlot, ReadFile, NotOpened
<1>6. CASE ResizeFile
  BY <1>6 DEF ResizeFile
<1>7. CASE EndSlot
  BY <1>7 DEF EndSlot, WatchAfterAddPath
<1>8. CASE handleGetScanners
  BY <1>8 DEF handleGetScanners
<1>9. CASE Environment
  BY <1>9 DEF Environment, SnortWrites, RemoveFile, CreateFile
<1>10. CASE UNCHANGED vars
  BY <1>10 DEF vars
<1> QED
  BY <1>1, <1>2, <1>3, <1>4, <1>5, <1>6, <1>7, <1>8, <1>9, <1>10 DEF Next

LEMMA Invariance == Spec => []IInv
<1>1. Init => IInv
  BY InitIInv
<1>2. IInv /\ [Next]_vars => IInv'
  BY TypeStep, ControlStep, NoticedStep, DeafStep DEF IInv
<1> QED
  BY <1>1, <1>2, PTL DEF Spec

\* The variables of VMTDWatchdog, of the watcher and of the file keep their types.
THEOREM TypeCorrect == Spec => []TypeOK
BY Invariance, PTL DEF IInv

\* fileChangedSlot and delayTimerTickSlot together overlook no alert they could know of.
THEOREM NoAlertOverlooked == Spec => []AlertsNoticed
BY Invariance, PTL DEF IInv

\* The watchdog loses its file only by looking when it is not there.
THEOREM DeafWithoutFile == Spec => []DeafOnlyWithoutFile
BY Invariance, PTL DEF IInv

\* fileChangedSlot empties a file only of what it read and of what came since.
THEOREM ReadBeforeEmptied == Spec => OnlyReadAlertsGo
<1>1. IInv /\ [Next]_vars
        => [content \ content' \subseteq m_scanners \cup late \/ RemoveFile \/ Restart]_vars
  <2> SUFFICES ASSUME IInv, Next
               PROVE  content \ content' \subseteq m_scanners \cup late
                        \/ RemoveFile \/ Restart
    OBVIOUS
  <2>1. CASE ResizeFile
    BY <2>1 DEF ResizeFile, IInv, Control
  <2>2. CASE StartWatching \/ Postpone \/ fileChangedSlot \/ delayTimerTickSlot
             \/ EndSlot \/ handleGetScanners
    BY <2>2 DEF StartWatching, Postpone, fileChangedSlot, delayTimerTickSlot, EndSlot,
                handleGetScanners, file
  <2>3. CASE (\E ip \in Ips : SnortWrites(ip)) \/ CreateFile
    BY <2>3 DEF SnortWrites, CreateFile
  <2> QED
    BY <2>1, <2>2, <2>3 DEF Next, Environment
<1> QED
  BY <1>1, Invariance, PTL DEF Spec, OnlyReadAlertsGo

\* Until delayTimerTickSlot the scanners of the last check are kept or handed out.
THEOREM ScannersHeld == Spec => HeldForDelay
<1>1. IInv /\ [Next]_vars
        => [m_shouldWait /\ m_shouldWait' => m_scanners \subseteq m_scanners' \cup answer']_vars
  <2> SUFFICES ASSUME IInv, Next, m_shouldWait, m_shouldWait'
               PROVE  m_scanners \subseteq m_scanners' \cup answer'
    OBVIOUS
  <2>1. CASE handleGetScanners
    BY <2>1 DEF handleGetScanners
  <2>2. CASE Postpone \/ StartWatching \/ ResizeFile \/ EndSlot \/ Environment
    BY <2>2 DEF Postpone, StartWatching, ResizeFile, EndSlot, Environment,
                SnortWrites, RemoveFile, CreateFile, members
  <2>3. CASE fileChangedSlot \/ delayTimerTickSlot \/ Restart
    BY <2>3 DEF fileChangedSlot, delayTimerTickSlot, Restart
  <2> QED
    BY <2>1, <2>2, <2>3 DEF Next
<1> QED
  BY <1>1, Invariance, PTL DEF Spec, HeldForDelay
=============================================================================
