------------------------------ MODULE Watchdog ------------------------------
(***************************************************************************)
(* The watchdog of a host (engine/VMTDWatchdog.cpp) and the file into      *)
(* which snort writes its alerts.  The slot of the watchdog runs in the    *)
(* worker thread; snort, and whoever rotates the file, run beside it.      *)
(*                                                                         *)
(* An alert is the address of the scanner in it: nothing else of its line  *)
(* is kept.  The watcher is a QFileSystemWatcher: it emits fileChanged     *)
(* once or more after a write or a truncation of the file it watches, and  *)
(* when that file goes; it watches a file, not a path.                     *)
(***************************************************************************)
EXTENDS FiniteSets

CONSTANTS Ips,              \* the addresses scanners have
          ShouldControl     \* m_settings->shouldControlAlert()

ASSUME ControlAssumption == ShouldControl \in BOOLEAN

VARIABLES exists,         \* the alert file is there
          content,        \* the scanners in it
          watch,          \* the path in the watcher: not there, with the file
                          \* it stands for, or with one that is gone
          pending,        \* fileChanged is emitted and not delivered
          pc,             \* where the worker is in a slot or in the constructor
          m_scanners,
          m_shouldWait,
          m_shouldCheck,
          delayTimer,     \* m_delayTimer is active
          \* What follows only observes.
          missed,         \* alerts of the file no notification came for
          late,           \* alerts written since the slot read the file
          unarmed,        \* the file was absent, unreadable or not to be
                          \* controlled when the watchdog last looked
          answer          \* the scanners last handed to the server

file == <<exists, content, watch, pending>>
members == <<m_scanners, m_shouldWait, m_shouldCheck, delayTimer>>
history == <<missed, late, unarmed, answer>>
vars == <<file, pc, members, history>>

TypeOK ==
    /\ exists \in BOOLEAN
    /\ content \in SUBSET Ips
    /\ watch \in {"none", "live", "gone"}
    /\ pending \in BOOLEAN
    /\ pc \in {"idle", "start", "read", "resized", "skipped"}
    /\ m_scanners \in SUBSET Ips
    /\ m_shouldWait \in BOOLEAN
    /\ m_shouldCheck \in BOOLEAN
    /\ delayTimer \in BOOLEAN
    /\ missed \in SUBSET Ips
    /\ late \in SUBSET Ips
    /\ unarmed \in BOOLEAN
    /\ answer \in SUBSET Ips

-----------------------------------------------------------------------------
(* The constructor, up to and from the resize.                             *)

Init ==
    /\ exists \in BOOLEAN
    /\ content = {}
    /\ watch = "none"
    /\ pending = FALSE
    /\ pc = IF exists /\ ShouldControl THEN "start" ELSE "idle"
    /\ m_scanners = {}
    /\ m_shouldWait = FALSE
    /\ m_shouldCheck = FALSE
    /\ delayTimer = FALSE
    /\ missed = {}
    /\ late = {}
    /\ unarmed = ~(exists /\ ShouldControl)
    /\ answer = {}

\* The agent is stopped or killed, and started: alerts of the file are lost.
Restart ==
    /\ content' = {}
    /\ watch' = "none"
    /\ pending' = FALSE
    /\ pc' = IF exists /\ ShouldControl THEN "start" ELSE "idle"
    /\ m_scanners' = {}
    /\ m_shouldWait' = FALSE
    /\ m_shouldCheck' = FALSE
    /\ delayTimer' = FALSE
    /\ missed' = {}
    /\ late' = {}
    /\ unarmed' = ~(exists /\ ShouldControl)
    /\ UNCHANGED <<exists, answer>>

\* Variant: the path is not added again after a check.
PathNotAdded == watch

\* QFileSystemWatcher::addPath refuses a path that it has, or without a file.
WatchAfterAddPath == IF watch = "none" /\ exists THEN "live" ELSE watch

StartWatching ==
    /\ pc = "start"
    /\ pc' = "idle"
    /\ watch' = WatchAfterAddPath
    /\ unarmed' = ~exists
    /\ UNCHANGED <<exists, content, pending, members, missed, late, answer>>

-----------------------------------------------------------------------------
(* fileChangedSlot                                                         *)

\* fileChanged of a file that is gone takes its path out of the watcher.
Delivered ==
    /\ pending
    /\ pending' = FALSE
    /\ watch' = IF watch = "gone" THEN "none" ELSE watch

\* Variant: a change in the pause is not remembered.
PostponeForgotten ==
    /\ pc = "idle" /\ m_shouldWait
    /\ Delivered
    /\ UNCHANGED <<exists, content, pc, members, history>>

Postpone ==
    /\ pc = "idle" /\ m_shouldWait
    /\ Delivered
    /\ m_shouldCheck' = TRUE
    /\ UNCHANGED <<exists, content, pc, m_scanners, m_shouldWait, delayTimer, history>>

\* Variant: scanners that are known already are skipped.
ReadNew ==
    /\ exists
    /\ pc' = "read"
    /\ m_scanners' = content \ m_scanners
    /\ late' = {}
    /\ UNCHANGED <<missed, unarmed>>

\* Variant: the address of the destination is taken for that of the source.
ReadDestinations ==
    /\ exists
    /\ pc' = "read"
    /\ m_scanners' = {"destination"}
    /\ late' = {}
    /\ UNCHANGED <<missed, unarmed>>

\* The rest of the slot up to the end of the loop over the alerts.
ReadFile ==
    /\ exists
    /\ pc' = "read"
    /\ m_scanners' = content
    /\ late' = {}
    /\ UNCHANGED <<missed, unarmed>>

\* The file is not there, or cannot be opened.
NotOpened ==
    /\ missed' = content
    /\ unarmed' = TRUE
    /\ UNCHANGED <<pc, m_scanners, late>>

\* Variant: the slot does not wait.
ChangedInPause ==
    /\ pc = "idle"
    /\ Delivered
    /\ ReadFile \/ NotOpened
    /\ UNCHANGED <<exists, content, m_shouldWait, m_shouldCheck, delayTimer, answer>>

fileChangedSlot ==
    /\ pc = "idle" /\ ~m_shouldWait
    /\ Delivered
    /\ ReadFile \/ NotOpened
    /\ UNCHANGED <<exists, content, m_shouldWait, m_shouldCheck, delayTimer, answer>>

delayTimerTickSlot ==
    /\ pc = "idle" /\ delayTimer
    /\ delayTimer' = FALSE
    /\ m_shouldWait' = FALSE
    /\ IF m_shouldCheck
         THEN ReadFile \/ NotOpened
         ELSE UNCHANGED <<pc, m_scanners, late, missed, unarmed>>
    /\ UNCHANGED <<file, m_shouldCheck, answer>>

\* Truncating a file that is watched is a change of it.
ResizeFile ==
    /\ pc = "read"
    /\ IF exists
         THEN /\ pc' = "resized"
              /\ content' = {}
              /\ missed' = {}
              /\ pending' = (pending \/ watch = "live")
         ELSE /\ pc' = "skipped"
              /\ UNCHANGED <<content, missed, pending>>
    /\ UNCHANGED <<exists, watch, members, late, unarmed, answer>>

\* Variant: the delay timer is not started.
EndWithoutDelay ==
    /\ pc \in {"resized", "skipped"}
    /\ pc' = "idle"
    /\ watch' = IF pc = "resized" THEN WatchAfterAddPath ELSE watch
    /\ unarmed' = (pc = "skipped" \/ ~exists)
    /\ m_shouldCheck' = FALSE
    /\ m_shouldWait' = TRUE
    /\ UNCHANGED <<exists, content, pending, m_scanners, delayTimer, missed, late, answer>>

EndSlot ==
    /\ pc \in {"resized", "skipped"}
    /\ pc' = "idle"
    /\ watch' = IF pc = "resized" THEN WatchAfterAddPath ELSE watch
    /\ unarmed' = (pc = "skipped" \/ ~exists)
    /\ m_shouldCheck' = FALSE
    /\ m_shouldWait' = TRUE
    /\ delayTimer' = TRUE
    /\ UNCHANGED <<exists, content, pending, m_scanners, missed, late, answer>>

\* VMTDConfigurator::handleGetScanners
handleGetScanners ==
    /\ pc = "idle"
    /\ answer' = m_scanners
    /\ m_scanners' = {}
    /\ UNCHANGED <<file, pc, m_shouldWait, m_shouldCheck, delayTimer,
                   missed, late, unarmed>>

-----------------------------------------------------------------------------
(* Snort, and whoever rotates its file: the file goes by being renamed, or *)
(* deleted when it is not open, and comes back when snort starts.          *)

SnortWrites(ip) ==
    /\ exists
    /\ content' = content \cup {ip}
    /\ pending' = (pending \/ watch = "live")
    /\ missed' = IF watch = "live" THEN missed \ {ip} ELSE missed \cup {ip}
    /\ late' = IF pc = "read" THEN late \cup {ip} ELSE late
    /\ UNCHANGED <<exists, watch, pc, members, unarmed, answer>>

RemoveFile ==
    /\ exists
    /\ exists' = FALSE
    /\ content' = {}
    /\ missed' = {}
    /\ watch' = IF watch = "live" THEN "gone" ELSE watch
    /\ pending' = (pending \/ watch = "live")
    /\ UNCHANGED <<pc, members, late, unarmed, answer>>

CreateFile ==
    /\ ~exists
    /\ exists' = TRUE
    /\ UNCHANGED <<content, watch, pending, pc, members, history>>

Environment == (\E ip \in Ips : SnortWrites(ip)) \/ RemoveFile \/ CreateFile

Next ==
    \/ Restart
    \/ StartWatching
    \/ Postpone
    \/ fileChangedSlot
    \/ delayTimerTickSlot
    \/ ResizeFile
    \/ EndSlot
    \/ handleGetScanners
    \/ Environment

Spec == Init /\ [][Next]_vars

\* The event loop of the worker delivers signals and fires timers, and a slot
\* that has begun ends.
Fairness ==
    /\ WF_vars(Postpone \/ fileChangedSlot)
    /\ WF_vars(delayTimerTickSlot)
    /\ WF_vars(ResizeFile)
    /\ WF_vars(EndSlot)

FairSpec == Spec /\ Fairness

-----------------------------------------------------------------------------
(* Properties.                                                             *)

CheckDue == m_shouldWait /\ m_shouldCheck /\ delayTimer

\* No alert is overlooked: the file of a watchdog that pauses after each check is
\* empty, or a notification is under way, or one that came during the pause is
\* remembered, or the slot that will empty the file is running.  Excepted are alerts
\* of which the watcher could not tell or which came with a notification that was
\* spent on a file that did not open (missed).
AlertsNoticed ==
    content \subseteq missed \/ pending \/ CheckDue \/ pc = "read"

\* The watchdog is deaf, without the file in its watcher and without a check to
\* come, only if the file was absent or unreadable when it last looked: a rotation
\* of the file that is over by then is always followed.
DeafOnlyWithoutFile ==
    pc = "idle" /\ watch = "none" /\ ~CheckDue => unarmed

\* fileChangedSlot empties the file after reading it, as snort goes on writing: the
\* only alerts it throws away unread are those written in between.
OnlyReadAlertsGo ==
    [][content \ content' \subseteq m_scanners \cup late \/ RemoveFile \/ Restart]_vars

\* Every check forgets the scanners of the one before, and a check may be set off
\* by nothing but the truncation in the last.  Until the delay is over they are
\* kept, whatever happens to the file: a server that asks once per delay misses none.
HeldForDelay ==
    [][m_shouldWait /\ m_shouldWait' => m_scanners \subseteq m_scanners' \cup answer']_vars

\* An alert that was noticed is read in the end, however often notifications meet a
\* watchdog that waits, unless the file goes or does not open.
AlertsRead ==
    \A ip \in Ips : ip \in content \ missed ~> ip \notin content \ missed
=============================================================================
