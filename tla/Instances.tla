------------------------------ MODULE Instances ------------------------------
(***************************************************************************)
(* src/Singleton.cpp, src/TrayIcon.cpp and the skeleton of wWinMain: the   *)
(* processes of one login session, started whenever the user likes, that   *)
(* meet at a named mutex, at the first one's window and at the log file,   *)
(* and the taskbar, which may crash and come back.  What happens inside    *)
(* the running instance is AppShell.                                       *)
(***************************************************************************)
EXTENDS Log

VARIABLES
    at,       \* process -> how far its wWinMain is
    mutex,    \* processes with a handle of the named mutex
    windows,  \* processes with a window of class kMainWindowClassName
    told,     \* processes whose window has TaskbarCreated in its queue
    taskbar,  \* is there a taskbar?
    icons,    \* processes whose icon is in it
    g_wmTaskbarCreated,  \* process -> did RegisterWindowMessageW give a number?
                         \* (FALSE again without a window: nobody asks then)
    unguarded,\* history: processes in wWinMain whose CreateMutexW failed
    refused   \* history: processes whose last NIM_ADD this taskbar has refused

session == <<mutex, windows, told, icons, g_wmTaskbarCreated, unguarded, refused>>
vars == <<logVars, at, session, taskbar>>

Places == {"off",      \* no process
           "begun",    \* SetLogFile is done, the start line is to be written
           "guard",    \* ... is written
           "notify",   \* TryAcquire has found another instance
           "load",     \* TryAcquire has succeeded
           "icon",     \* the window exists, the icon is to be added
           "version",  \* ... is added, NIM_SETVERSION follows
           "register", \* before RegisterWindowMessageW
           "loop",     \* in the message loop
           "reversion",\* ... adding the icon again
           "exiting",  \* WM_DESTROY, up to g_trayIcon.Remove
           "stop",     \* the window is gone, the last line is to be written
           "shutdown", \* ... is written
           "return",   \* wWinMain is about to return
           "statics"}  \* the guard is released, the statics are destroyed

(* The one instance of the session: it has, or is about to have, a window
   and a tray icon.                                                        *)
Serving == {p \in Processes :
    at[p] \in {"load", "icon", "version", "register", "loop", "reversion", "exiting", "stop", "shutdown"}}
InLoop(p) == at[p] = "loop"

TypeOK ==
    /\ LogTypeOK
    /\ at \in [Processes -> Places]
    /\ mutex \in SUBSET Processes /\ windows \in SUBSET Processes
    /\ told \in SUBSET windows /\ icons \in SUBSET windows
    /\ taskbar \in BOOLEAN
    /\ g_wmTaskbarCreated \in [Processes -> BOOLEAN]
    /\ unguarded \in SUBSET Processes
    /\ refused \in SUBSET (windows \ icons)

Init ==
    /\ LogInit
    /\ at = [p \in Processes |-> "off"]
    /\ mutex = {} /\ windows = {} /\ told = {} /\ icons = {} /\ unguarded = {} /\ refused = {}
    /\ taskbar = TRUE
    /\ g_wmTaskbarCreated = [p \in Processes |-> FALSE]

Goes(p, from, to) == at[p] = from /\ at' = [at EXCEPT ![p] = to]

-----------------------------------------------------------------------------
(* wWinMain up to the guard. *)
Launch(p) ==
    /\ Goes(p, "off", "begun")
    /\ SetLogFile(p)
    /\ UNCHANGED <<session, taskbar>>

StartLine(p) ==
    /\ Goes(p, "begun", "guard")
    /\ Write(p)
    /\ UNCHANGED <<session, taskbar>>

(* Faulty variants of actions below, one slip each.  No specification uses
   them: each is what one of the properties is there to exclude.           *)

(* GetLastError after m_mutex.reset: its CloseHandle has changed the code. *)
TryAcquireClobbered(p) ==
    /\ writing[p] = Idle
    /\ mutex' = mutex \cup {p}
    /\ Goes(p, "guard", "load")
    /\ UNCHANGED <<logVars, windows, told, icons, g_wmTaskbarCreated, unguarded, refused, taskbar>>

(* Refresh without NIM_ADD for a lost icon. *)
AddAgainForgotten(p) ==
    /\ at[p] = "loop"
    /\ p \in told
    /\ told' = told \ {p}
    /\ UNCHANGED <<logVars, at, mutex, windows, icons, g_wmTaskbarCreated, unguarded, refused, taskbar>>

(* WM_DESTROY without g_trayIcon.Remove. *)
LosesWindowKeepsIcon(p) ==
    /\ Goes(p, "exiting", "stop")
    /\ windows' = windows \ {p} /\ told' = told \ {p} /\ refused' = refused \ {p}
    /\ UNCHANGED <<logVars, mutex, icons, g_wmTaskbarCreated, unguarded, taskbar>>

(* CreateMutexW opens the mutex if some process has a handle of it, also a
   second instance that is about to leave.                                 *)
TryAcquire(p) ==
    /\ writing[p] = Idle
    /\ mutex' = mutex \cup {p}
    /\ Goes(p, "guard", IF mutex = {} THEN "load" ELSE "notify")
    /\ UNCHANGED <<logVars, windows, told, icons, g_wmTaskbarCreated, unguarded, refused, taskbar>>

(* Better two instances than none. *)
TryAcquireFails(p) ==
    /\ writing[p] = Idle
    /\ Goes(p, "guard", "load")
    /\ unguarded' = unguarded \cup {p}
    /\ UNCHANGED <<logVars, mutex, windows, told, icons, g_wmTaskbarCreated, refused, taskbar>>

(* NotifyExistingInstance.  FindWindowW finds a window or none, and the
   process ends in either case; whether the picker opens is not modelled.  *)
Notify(p) ==
    /\ Goes(p, "notify", "return")
    /\ UNCHANGED <<logVars, session, taskbar>>

-----------------------------------------------------------------------------
(* The instance sets itself up. *)
Unsupported(p) ==
    /\ Goes(p, "load", "return")
    /\ UNCHANGED <<logVars, session, taskbar>>

CreatesWindow(p) ==
    /\ Goes(p, "load", "icon")
    /\ windows' = windows \cup {p}
    /\ UNCHANGED <<logVars, mutex, told, icons, g_wmTaskbarCreated, unguarded, refused, taskbar>>

(* Refresh: NIM_MODIFY of an icon that is there, else NIM_ADD, and then
   NIM_SETVERSION.  Both fail without a taskbar; NIM_ADD may also fail while
   there is one, that does not answer in time: a line in the log is all.   *)
Adds(p) ==
    /\ taskbar /\ p \notin icons
    /\ icons' = icons \cup {p} /\ refused' = refused \ {p}

AddsNothing(p) ==
    /\ UNCHANGED icons
    /\ refused' = IF taskbar /\ p \notin icons THEN refused \cup {p} ELSE refused

Refreshed(p, add, done) ==
    \/ Adds(p) /\ at' = [at EXCEPT ![p] = add]
    \/ AddsNothing(p) /\ at' = [at EXCEPT ![p] = done]

AddIcon(p) ==
    /\ at[p] = "icon"
    /\ Refreshed(p, "version", "register")
    /\ UNCHANGED <<logVars, mutex, windows, told, g_wmTaskbarCreated, unguarded, taskbar>>

SetVersion(p) ==
    /\ p \in icons
    /\ Goes(p, "version", "register") \/ Goes(p, "reversion", "loop")
    /\ UNCHANGED <<logVars, session, taskbar>>

Register(p) ==
    /\ Goes(p, "register", "loop")
    /\ \E ok \in BOOLEAN : g_wmTaskbarCreated' = [g_wmTaskbarCreated EXCEPT ![p] = ok]
    /\ UNCHANGED <<logVars, mutex, windows, told, icons, unguarded, refused, taskbar>>

-----------------------------------------------------------------------------
(* The message loop. *)

(* TaskbarCreated in the queue. *)
AddAgain(p) ==
    /\ InLoop(p)
    /\ p \in told
    /\ told' = told \ {p}
    /\ IF g_wmTaskbarCreated[p] THEN Refreshed(p, "reversion", "loop") ELSE UNCHANGED <<at, icons, refused>>
    /\ UNCHANGED <<logVars, mutex, windows, g_wmTaskbarCreated, unguarded, taskbar>>

(* WM_SETTINGCHANGE: another theme. *)
ThemeChanges(p) ==
    /\ InLoop(p)
    /\ Refreshed(p, "reversion", "loop")
    /\ UNCHANGED <<logVars, mutex, windows, told, g_wmTaskbarCreated, unguarded, taskbar>>

(* WM_CLOSE, from the flyout or the menu. *)
Close(p) ==
    /\ Goes(p, "loop", "exiting")
    /\ UNCHANGED <<logVars, session, taskbar>>

(* The end of WM_DESTROY and of the window. *)
LosesWindow(p) ==
    /\ Goes(p, "exiting", "stop")
    /\ icons' = icons \ {p} /\ windows' = windows \ {p}
    /\ told' = told \ {p} /\ refused' = refused \ {p}
    /\ g_wmTaskbarCreated' = [g_wmTaskbarCreated EXCEPT ![p] = FALSE]
    /\ UNCHANGED <<logVars, mutex, unguarded, taskbar>>

StopLine(p) ==
    /\ Goes(p, "stop", "shutdown")
    /\ Write(p)
    /\ UNCHANGED <<session, taskbar>>

ShutsDown(p) ==
    /\ Goes(p, "shutdown", "return")
    /\ Shutdown(p)
    /\ UNCHANGED <<session, taskbar>>

(* instanceGuard is a local of wWinMain. *)
Returns(p) ==
    /\ Goes(p, "return", "statics")
    /\ mutex' = mutex \ {p} /\ unguarded' = unguarded \ {p}
    /\ UNCHANGED <<logVars, windows, told, icons, g_wmTaskbarCreated, refused, taskbar>>

(* The end of a process, or its being killed: what the system takes back. *)
Gone(p) ==
    /\ at[p] # "off"
    /\ at' = [at EXCEPT ![p] = "off"]
    /\ LogEnds(p)
    /\ mutex' = mutex \ {p} /\ windows' = windows \ {p} /\ icons' = icons \ {p}
    /\ told' = told \ {p} /\ refused' = refused \ {p} /\ unguarded' = unguarded \ {p}
    /\ g_wmTaskbarCreated' = [g_wmTaskbarCreated EXCEPT ![p] = FALSE]
    /\ UNCHANGED taskbar

Killed(p) == at[p] # "statics" /\ Gone(p)
Ends(p) == at[p] = "statics" /\ writing[p] = Idle /\ Gone(p)

(* FAIL_FAST: NIM_SETVERSION fails, as it must if the taskbar has gone since
   NIM_ADD.                                                                *)
FailsFast(p) ==
    /\ at[p] \in {"version", "reversion"}
    /\ Gone(p)

(* The UI thread and the executor thread write whenever they like once the
   loop runs, the latter until it is joined among the statics.             *)
WriteLine(p) ==
    /\ at[p] \in {"loop", "reversion", "exiting", "stop", "shutdown", "return", "statics"}
    /\ Write(p)
    /\ UNCHANGED <<at, session, taskbar>>

GoesOnRotating(p) == Rotates(p) /\ UNCHANGED <<at, session, taskbar>>

-----------------------------------------------------------------------------
(* Explorer crashes, and starts again: each top-level window is told. *)
TaskbarCrashes ==
    /\ taskbar
    /\ taskbar' = FALSE
    /\ icons' = {} /\ refused' = {}
    /\ UNCHANGED <<logVars, at, mutex, windows, told, g_wmTaskbarCreated, unguarded>>

TaskbarCreated ==
    /\ ~taskbar
    /\ taskbar' = TRUE
    /\ told' = windows
    /\ UNCHANGED <<logVars, at, mutex, windows, icons, g_wmTaskbarCreated, unguarded, refused>>

-----------------------------------------------------------------------------
Next ==
    \/ \E p \in Processes :
          \/ Launch(p) \/ StartLine(p) \/ TryAcquire(p) \/ TryAcquireFails(p) \/ Notify(p)
          \/ Unsupported(p) \/ CreatesWindow(p) \/ AddIcon(p) \/ SetVersion(p) \/ Register(p)
          \/ AddAgain(p) \/ ThemeChanges(p) \/ Close(p)
          \/ LosesWindow(p) \/ StopLine(p) \/ ShutsDown(p) \/ Returns(p) \/ Ends(p)
          \/ Killed(p) \/ FailsFast(p)
          \/ WriteLine(p) \/ GoesOnRotating(p)
    \/ TaskbarCrashes \/ TaskbarCreated

Spec == Init /\ [][Next]_vars

-----------------------------------------------------------------------------
(* One instance per session, from its TryAcquire until its wWinMain is
   over, unless the mutex could not be had.                                *)
AtMostOneInstance == \A p, q \in Serving \ unguarded : p = q

(* The icon of a running instance is never lost behind its back: while there
   is a taskbar, the icon is in it, or the message that brings it back is
   waiting, or this taskbar has refused the last NIM_ADD, whenever it
   crashed and restarted before, between or after the calls of Refresh.
   What it refused only another theme or another restart asks for again.   *)
IconNeverLost ==
    \A p \in Processes :
        (taskbar /\ InLoop(p) /\ g_wmTaskbarCreated[p]) => (p \in icons \/ p \in told \/ p \in refused)
=============================================================================
