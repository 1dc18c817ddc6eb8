------------------------------ MODULE AppShell ------------------------------
(***************************************************************************)
(* src/AudioPlaybackConnector.cpp and src/Settings.cpp: the UI thread, its *)
(* message queue and its exit, against the executor thread that reports to *)
(* it.  The process may be killed at any moment; the next one finds only   *)
(* the settings file.                                                      *)
(*                                                                         *)
(* The manager is the table of DeviceTable.  The tasks the UI thread posts *)
(* are in the executor's FIFO queue; those the manager posts itself (an    *)
(* attempt that comes back, a link that is lost) run whenever it is free.  *)
(***************************************************************************)
EXTENDS Naturals, FiniteSets, SequencesExt

CONSTANTS
    Devices,
    MaxClicks,    \* bound: what the user clicks in one life of the process
    MaxMessages   \* posted messages a window's queue holds (10000 in Windows)

ASSUME DevicesAssumption == IsFiniteSet(Devices) /\ "any" \notin Devices
ASSUME MaxClicksAssumption == MaxClicks \in Nat
ASSUME MaxMessagesAssumption == MaxMessages \in Nat \ {0}

VARIABLES
    tracked, shown,   \* the manager's table and its last reports (DeviceTable)
    g_exiting,
    ui,               \* where the UI thread is
    flyout,           \* is the exit confirmation on the screen?
    reconnect, lastDevices,  \* g_settings
    file,             \* the settings file
    msgs,             \* messages posted to the window
    display,          \* device -> the status the picker shows
    queue,            \* the executor's queue
    telling, passed,  \* reports of its current task, and whether the first
                      \* of them has found g_exiting unset
    answer,           \* the result of the snapshot the UI thread waits for
    lookups,          \* devices whose ConnectById awaits CreateFromIdAsync
    clicks            \* bounded counter

(* Histories: reports lost to a full queue; closures posted after the gate;
   whether the exit was confirmed by the user, or asked for from outside;
   whether IsEmpty has found none, and devices begun since it last did;
   devices there when the gate was set and not lost since; whether they
   were written; devices of the loaded list not tried yet.                 *)
VARIABLES missed, lateMarshals, confirmed, foundEmpty, begun, kept, saved, owed

table == <<tracked, shown>>
settings == <<reconnect, lastDevices>>
reporting == <<telling, passed>>
choices == <<flyout, settings, confirmed, clicks>>
exits == <<g_exiting, file, kept, saved>>
histories == <<missed, lateMarshals, foundEmpty, begun, owed>>
vars == <<table, exits, ui, choices, msgs, display, queue, reporting, answer, lookups, histories>>

Table == INSTANCE DeviceTable WITH ending <- g_exiting

UiStates == {"off",        \* no process
             "loop",       \* in the message loop
             "isEmpty",    \* exitItem.Click waits for IsEmpty
             "deviceIds",  \* WM_DESTROY waits for DeviceIds
             "save",       \* ... is about to open the settings file
             "write",      \* ... has truncated it
             "closing",    \* ... waits for CloseAll
             "detaching",  \* ... waits for DetachForProcessExit
             "quit",       \* the window is gone, wWinMain returns
             "joining"}    \* ~ConnectionManager has set m_stopped and joins
Alive == ui # "off"
HasWindow == ui \notin {"off", "quit", "joining"}
Working == ui \in {"loop", "isEmpty"}

(* The settings file.  "torn": not there, empty or cut off, with nothing in
   it that parses; "partial": an object without a lastDevices that is an
   array.                                                                  *)
File(kind, r, ds) == [kind |-> kind, reconnect |-> r, devices |-> ds]
Files == [kind: {"torn", "partial", "ok"}, reconnect: BOOLEAN, devices: SUBSET Devices]

(* LoadSettings: what was read before an exception stays. *)
LoadSettings(f) ==
    [reconnect |-> f.kind \in {"ok", "partial"} /\ f.reconnect,
     devices |-> IF f.kind = "ok" THEN f.devices ELSE {}]

Msg(what, d, s) == [what |-> what, dev |-> d, status |-> s]
Messages == [what: {"Connectdevice", "Close"}, dev: {"any"}, status: {"none"}]
            \cup [what: {"Marshal"}, dev: Devices, status: Table!Statuses]

(* Tasks of the executor.  awaited: is the future of a snapshot still held? *)
Task(op, d) == [op |-> op, dev |-> d, awaited |-> op \in {"IsEmpty", "DeviceIds"}]
Tasks == [op: {"IsEmpty", "DeviceIds", "CloseAll", "Detach"}, dev: {"any"}, awaited: BOOLEAN]
         \cup [op: {"Connect", "Disconnect"}, dev: Devices, awaited: BOOLEAN]

Reports == [dev: Devices, status: Table!Statuses]
Report(d, s) == [dev |-> d, status |-> s]
NoAnswer == [given |-> FALSE, devices |-> {}]

TypeOK ==
    /\ tracked \in [Devices -> Table!Places]
    /\ shown \in [Devices -> Table!Statuses]
    /\ display \in [Devices -> Table!Statuses]
    /\ g_exiting \in BOOLEAN /\ flyout \in BOOLEAN /\ reconnect \in BOOLEAN
    /\ ui \in UiStates
    /\ lastDevices \in SUBSET Devices /\ lookups \in SUBSET Devices
    /\ file \in Files
    /\ msgs \in Seq(Messages) /\ Len(msgs) <= MaxMessages
    /\ queue \in Seq(Tasks)
    /\ telling \in Seq(Reports) /\ passed \in BOOLEAN
    /\ answer \in [given: BOOLEAN, devices: SUBSET Devices]
    /\ clicks \in Nat
    /\ missed \in SUBSET Devices /\ begun \in SUBSET Devices
    /\ kept \in SUBSET Devices /\ owed \in SUBSET Devices
    /\ lateMarshals \in Nat /\ confirmed \in BOOLEAN /\ foundEmpty \in BOOLEAN /\ saved \in BOOLEAN

Nowhere == [d \in Devices |-> "none"]

Init ==
    /\ ui = "off"
    /\ tracked = Nowhere /\ shown = Nowhere /\ display = Nowhere
    /\ g_exiting = FALSE /\ flyout = FALSE /\ reconnect = FALSE /\ lastDevices = {}
    /\ msgs = <<>> /\ queue = <<>> /\ telling = <<>> /\ passed = FALSE
    /\ answer = NoAnswer /\ lookups = {} /\ clicks = 0
    /\ missed = {} /\ lateMarshals = 0 /\ confirmed = FALSE
    /\ foundEmpty = FALSE /\ begun = {}
    /\ kept = {} /\ saved = FALSE /\ owed = {}
    /\ file \in {File("torn", FALSE, {}), File("partial", TRUE, {}), File("ok", TRUE, Devices)}

-----------------------------------------------------------------------------
(* PostMessageW fails when the queue is full, and nobody here looks. *)
PostMessage(m) == msgs' = IF Len(msgs) < MaxMessages THEN Append(msgs, m) ELSE msgs

(* Refused once m_stopped is set. *)
Post(task) == queue' = IF ui = "joining" THEN queue ELSE Append(queue, task)

(* Faulty variants of actions below, one slip each.  No specification uses
   them: each is what one of the properties is there to exclude.           *)

(* The device of a handler's arguments is not there any more. *)
ClickDeviceOfNobody(d) ==
    /\ ui = "loop" /\ clicks < MaxClicks /\ clicks' = clicks + 1
    /\ queue' = Append(queue, Task("Disconnect", "any"))
    /\ UNCHANGED <<table, exits, ui, flyout, settings, confirmed, msgs, display, reporting,
                   answer, lookups, histories>>

(* The report is repeated until the window takes it. *)
PostsUntilTaken ==
    /\ passed
    /\ HasWindow /\ Len(msgs) < MaxMessages
    /\ telling' = Tail(telling)
    /\ passed' = FALSE
    /\ msgs' = Append(msgs, Msg("Marshal", Head(telling).dev, Head(telling).status))
    /\ UNCHANGED <<table, exits, ui, choices, display, queue, answer, lookups, histories>>

(* SendNotifyMessage in place of PostMessage. *)
PostsAhead ==
    /\ passed
    /\ telling' = Tail(telling)
    /\ passed' = FALSE
    /\ Len(msgs) < MaxMessages
    /\ msgs' = <<Msg("Marshal", Head(telling).dev, Head(telling).status)>> \o msgs
    /\ UNCHANGED <<table, exits, ui, choices, display, queue, answer, lookups, histories>>

TestGateUnread ==
    /\ telling # <<>>
    /\ ~passed
    /\ passed' = TRUE
    /\ UNCHANGED <<table, exits, ui, choices, msgs, display, queue, telling, answer, lookups, histories>>

TestGateInverted ==
    /\ telling # <<>>
    /\ ~passed
    /\ IF g_exiting
       THEN passed' = TRUE /\ UNCHANGED telling
       ELSE telling' = Tail(telling) /\ UNCHANGED passed
    /\ UNCHANGED <<table, exits, ui, choices, msgs, display, queue, answer, lookups, histories>>

(* IsEmpty degrades to true. *)
IsEmptyTimesOutEmpty ==
    /\ ui = "isEmpty"
    /\ ~answer.given
    /\ ui' = "loop"
    /\ queue' = [i \in DOMAIN queue |-> [queue[i] EXCEPT !.awaited = FALSE]]
    /\ PostMessage(Msg("Close", "any", "none"))
    /\ UNCHANGED <<table, exits, choices, display, reporting, answer, lookups, histories>>

(* The connections are closed before their names are asked for. *)
HandleCloseClosesFirst ==
    /\ ui = "loop" /\ msgs # <<>> /\ Head(msgs).what = "Close"
    /\ msgs' = Tail(msgs)
    /\ g_exiting' = TRUE
    /\ kept' = {d \in Devices : tracked[d] # "none"}
    /\ queue' = queue \o <<Task("CloseAll", "any"), Task("DeviceIds", "any")>>
    /\ ui' = "deviceIds"
    /\ UNCHANGED <<table, file, saved, choices, display, reporting, answer, lookups, histories>>

(* lastDevices.clear() before the loop over it. *)
HandleConnectdeviceCleared ==
    /\ ui = "loop" /\ msgs # <<>> /\ Head(msgs).what = "Connectdevice"
    /\ msgs' = Tail(msgs)
    /\ lastDevices' = {}
    /\ UNCHANGED <<table, exits, ui, flyout, reconnect, confirmed, clicks, display, queue,
                   reporting, answer, lookups, histories>>

(* wWinMain up to its loop.  Reading the settings may fail. *)
Start ==
    /\ ui = "off"
    /\ ui' = "loop"
    /\ \E readable \in BOOLEAN :
          LET data == LoadSettings(IF readable THEN file ELSE File("torn", FALSE, {})) IN
          /\ reconnect' = data.reconnect
          /\ lastDevices' = data.devices
          /\ owed' = IF data.reconnect THEN data.devices ELSE {}
    /\ msgs' = <<Msg("Connectdevice", "any", "none")>>
    /\ kept' = {} /\ saved' = FALSE
    /\ UNCHANGED <<table, g_exiting, flyout, file, display, queue, reporting, answer,
                   lookups, clicks, missed, lateMarshals, confirmed, foundEmpty, begun>>

(* The process is gone, killed at any moment or at the end of its exit:
   nothing is left of it but the file.                                     *)
Stopped ==
    /\ ui' = "off"
    /\ tracked' = Nowhere /\ shown' = Nowhere /\ display' = Nowhere
    /\ g_exiting' = FALSE /\ flyout' = FALSE /\ reconnect' = FALSE /\ lastDevices' = {}
    /\ msgs' = <<>> /\ queue' = <<>> /\ telling' = <<>> /\ passed' = FALSE
    /\ answer' = NoAnswer /\ lookups' = {} /\ clicks' = 0
    /\ missed' = {} /\ lateMarshals' = 0 /\ confirmed' = FALSE
    /\ foundEmpty' = FALSE /\ begun' = {} /\ owed' = {}
    /\ UNCHANGED <<file, kept, saved>>

Killed == Alive /\ Stopped

(* ~ConnectionManager: Stop sets m_stopped, and joins a thread that runs
   its queue to the end first.                                             *)
Stops ==
    /\ ui = "quit"
    /\ ui' = "joining"
    /\ UNCHANGED <<table, exits, choices, msgs, display, queue, reporting, answer, lookups, histories>>

Returns == ui = "joining" /\ queue = <<>> /\ telling = <<>> /\ Stopped

-----------------------------------------------------------------------------
(* The message loop takes the oldest message. *)
Take(what) ==
    /\ ui = "loop"
    /\ msgs # <<>>
    /\ Head(msgs).what = what
    /\ msgs' = Tail(msgs)

HandleConnectdevice ==
    /\ Take("Connectdevice")
    /\ IF reconnect
       THEN /\ lookups' = lookups \cup lastDevices
            /\ lastDevices' = {}
            /\ UNCHANGED owed
       ELSE /\ owed' = {}
            /\ UNCHANGED <<lookups, lastDevices>>
    /\ UNCHANGED <<table, exits, ui, flyout, reconnect, confirmed, clicks, display, queue,
                   reporting, answer, missed, lateMarshals, foundEmpty, begun>>

HandleMarshal ==
    /\ Take("Marshal")
    /\ display' = [display EXCEPT ![Head(msgs).dev] = Head(msgs).status]
    /\ UNCHANGED <<table, exits, ui, choices, queue, reporting, answer, lookups, histories>>

(* WM_CLOSE destroys the window: WM_DESTROY sets the gate, then asks. *)
HandleClose ==
    /\ Take("Close")
    /\ g_exiting' = TRUE
    /\ kept' = {d \in Devices : tracked[d] # "none"}
    /\ IF reconnect
       THEN /\ Post(Task("DeviceIds", "any"))
            /\ ui' = "deviceIds"
            /\ UNCHANGED lastDevices
       ELSE /\ lastDevices' = {}
            /\ ui' = "save"
            /\ UNCHANGED queue
    /\ UNCHANGED <<table, file, saved, flyout, reconnect, confirmed, clicks, display,
                   reporting, answer, lookups, histories>>

HandleMessage == HandleConnectdevice \/ HandleMarshal \/ HandleClose

-----------------------------------------------------------------------------
(* What the user clicks. *)
Click == ui = "loop" /\ clicks < MaxClicks /\ clicks' = clicks + 1

(* A row of the picker: DeviceSelected or DisconnectButtonClicked. *)
ClickDevice(d) ==
    /\ Click
    /\ \E op \in {"Connect", "Disconnect"} : Post(Task(op, d))
    /\ UNCHANGED <<table, exits, ui, flyout, settings, confirmed, msgs, display, reporting,
                   answer, lookups, histories>>

ClickExit ==
    /\ Click
    /\ Post(Task("IsEmpty", "any"))
    /\ ui' = "isEmpty"
    /\ UNCHANGED <<table, exits, flyout, settings, confirmed, msgs, display, reporting,
                   answer, lookups, histories>>

(* The button of the flyout, with the checkbox ticked or not. *)
ClickConfirm ==
    /\ Click
    /\ flyout
    /\ reconnect' \in BOOLEAN
    /\ confirmed' = TRUE
    /\ PostMessage(Msg("Close", "any", "none"))
    /\ UNCHANGED <<table, exits, ui, flyout, lastDevices, display, queue, reporting,
                   answer, lookups, histories>>

(* Another program posts WM_CLOSE to the window, as taskkill does:
   DefWindowProc destroys the window, and nobody is asked.                 *)
CloseFromOutside ==
    /\ Working
    /\ clicks < MaxClicks /\ clicks' = clicks + 1
    /\ Len(msgs) < MaxMessages
    /\ confirmed' = TRUE
    /\ PostMessage(Msg("Close", "any", "none"))
    /\ UNCHANGED <<table, exits, ui, flyout, settings, display, queue, reporting,
                   answer, lookups, histories>>

(* The rest of exitItem.Click.  The flyout needs the place of the icon. *)
LeaveOrAsk(empty) ==
    /\ ui' = "loop"
    /\ answer' = NoAnswer
    /\ IF empty
       THEN PostMessage(Msg("Close", "any", "none")) /\ UNCHANGED flyout
       ELSE flyout' \in {flyout, TRUE} /\ UNCHANGED msgs
    /\ UNCHANGED <<table, exits, settings, confirmed, clicks, display, reporting, lookups, histories>>

IsEmptyAnswered ==
    /\ ui = "isEmpty"
    /\ answer.given
    /\ LeaveOrAsk(answer.devices = {})
    /\ UNCHANGED queue

(* A wait of kSnapshotTimeout: nobody holds the future any more. *)
GivesUp ==
    /\ ~answer.given
    /\ queue' = [i \in DOMAIN queue |-> [queue[i] EXCEPT !.awaited = FALSE]]

IsEmptyTimesOut ==
    /\ ui = "isEmpty"
    /\ GivesUp
    /\ LeaveOrAsk(FALSE)

-----------------------------------------------------------------------------
(* The rest of WM_DESTROY. *)
DeviceIdsAnswered ==
    /\ ui = "deviceIds"
    /\ answer.given
    /\ ui' = "save"
    /\ lastDevices' = answer.devices
    /\ answer' = NoAnswer
    /\ UNCHANGED <<table, exits, flyout, reconnect, confirmed, clicks, msgs, display, queue,
                   reporting, lookups, histories>>

(* An empty list is saved: nothing tells it from having no devices. *)
DeviceIdsTimesOut ==
    /\ ui = "deviceIds"
    /\ GivesUp
    /\ ui' = "save"
    /\ lastDevices' = {}
    /\ kept' = {}
    /\ UNCHANGED <<table, g_exiting, file, saved, flyout, reconnect, confirmed, clicks, msgs,
                   display, reporting, answer, lookups, histories>>

(* CREATE_ALWAYS truncates the file. *)
SaveOpens ==
    /\ ui = "save"
    /\ ui' = "write"
    /\ file' = File("torn", FALSE, {})
    /\ UNCHANGED <<table, g_exiting, kept, saved, choices, msgs, display, queue, reporting,
                   answer, lookups, histories>>

ToClosing ==
    /\ ui' = "closing"
    /\ Post(Task("CloseAll", "any"))
    /\ UNCHANGED <<table, g_exiting, kept, choices, msgs, display, reporting, answer, lookups, histories>>

SaveFails ==
    /\ ui \in {"save", "write"}
    /\ ToClosing
    /\ UNCHANGED <<file, saved>>

SaveWrites ==
    /\ ui = "write"
    /\ file' = File("ok", reconnect, lastDevices)
    /\ saved' = reconnect
    /\ ToClosing

(* CloseAll and Detach come back when their task is done or in time, the
   wait being bounded.                                                     *)
CloseAllReturns ==
    /\ ui = "closing"
    /\ ui' = "detaching"
    /\ Post(Task("Detach", "any"))
    /\ UNCHANGED <<table, exits, choices, msgs, display, reporting, answer, lookups, histories>>

(* The window goes, with what was posted to it and what it showed. *)
DetachReturns ==
    /\ ui = "detaching"
    /\ ui' = "quit"
    /\ msgs' = <<>> /\ flyout' = FALSE /\ display' = Nowhere
    /\ UNCHANGED <<table, exits, settings, confirmed, clicks, queue, reporting, answer, lookups, histories>>

ExitStep ==
    \/ DeviceIdsAnswered \/ DeviceIdsTimesOut
    \/ SaveOpens \/ SaveFails \/ SaveWrites
    \/ CloseAllReturns \/ DetachReturns
    \/ Stops \/ Returns

UiStep == HandleMessage \/ IsEmptyAnswered \/ IsEmptyTimesOut \/ ExitStep

-----------------------------------------------------------------------------
(* ConnectById: the device is found, and its connection asked for, or not. *)
LookupSucceeds(d) ==
    /\ d \in lookups
    /\ lookups' = lookups \ {d}
    /\ Post(Task("Connect", d))
    /\ UNCHANGED <<table, exits, ui, choices, msgs, display, reporting, answer, histories>>

LookupFails(d) ==
    /\ d \in lookups
    /\ lookups' = lookups \ {d}
    /\ owed' = owed \ {d}
    /\ UNCHANGED <<table, exits, ui, choices, msgs, display, queue, reporting, answer,
                   missed, lateMarshals, foundEmpty, begun>>

-----------------------------------------------------------------------------
(* The executor thread, between two tasks. *)
Free == Alive /\ telling = <<>>

RunNext(op) ==
    /\ Free
    /\ queue # <<>>
    /\ Head(queue).op = op
    /\ queue' = Tail(queue)

Tell(reports) == telling' = reports /\ UNCHANGED passed

(* A device that leaves the table by itself is not missing from the list. *)
Leaves(d) == kept' = kept \ {d}

RunConnect ==
    LET d == Head(queue).dev IN
    /\ RunNext("Connect")
    /\ \/ Table!Refuse(d) /\ Tell(<<Report(d, "connecting"), Report(d, "failed")>>) /\ UNCHANGED <<begun, kept>>
       \/ Table!Fail(d) /\ Tell(<<Report(d, "connecting"), Report(d, "failed")>>) /\ Leaves(d) /\ UNCHANGED begun
       \/ Table!Begin(d) /\ Tell(<<Report(d, "connecting")>>) /\ begun' = begun \cup {d} /\ UNCHANGED kept
    /\ owed' = owed \ {d}
    /\ UNCHANGED <<file, saved, ui, choices, msgs, display, answer, lookups, missed, lateMarshals,
                   foundEmpty>>

Dropped(d) ==
    /\ Table!Drop(d)
    /\ Tell(<<Report(d, "closed")>>)
    /\ Leaves(d)

RunDisconnect ==
    /\ RunNext("Disconnect")
    /\ Dropped(Head(queue).dev)
    /\ UNCHANGED <<file, saved, ui, choices, msgs, display, answer, lookups, histories>>

(* IsEmpty and DeviceIds. *)
RunSnapshot ==
    LET here == {d \in Devices : tracked[d] # "none"} IN
    /\ RunNext("IsEmpty") \/ RunNext("DeviceIds")
    /\ answer' = IF Head(queue).awaited THEN [given |-> TRUE, devices |-> here] ELSE answer
    /\ IF Head(queue).awaited /\ Head(queue).op = "IsEmpty" /\ here = {}
       THEN foundEmpty' = TRUE /\ begun' = {}
       ELSE UNCHANGED <<foundEmpty, begun>>
    /\ UNCHANGED <<table, exits, ui, choices, msgs, display, reporting, lookups,
                   missed, lateMarshals, owed>>

RunCloseAll ==
    LET here == {d \in Devices : tracked[d] # "none"} IN
    /\ RunNext("CloseAll")
    /\ Table!CloseAll
    /\ \E r \in SetToSeqs({Report(d, "closed") : d \in here}) : Tell(r)
    /\ UNCHANGED <<file, kept, saved, ui, choices, msgs, display, answer, lookups, histories>>

RunDetach ==
    /\ RunNext("Detach")
    /\ Table!Detach
    /\ UNCHANGED <<file, kept, saved, ui, choices, msgs, display, reporting, answer, lookups, histories>>

(* An attempt is over: ConnectImpl is back on the executor thread. *)
Settle(d) ==
    /\ Free
    /\ tracked[d] = "connecting"
    /\ \/ Table!Open(d) /\ Tell(<<Report(d, "connected")>>) /\ UNCHANGED kept
       \/ Table!Fail(d) /\ Tell(<<Report(d, "failed")>>) /\ Leaves(d)
       \/ Dropped(d)
    /\ UNCHANGED <<file, saved, ui, choices, msgs, display, queue, answer, lookups, histories>>

(* A connection is gone: OnStateChanged. *)
Lose(d) ==
    /\ Free
    /\ tracked[d] = "connected"
    /\ Dropped(d)
    /\ UNCHANGED <<file, saved, ui, choices, msgs, display, queue, answer, lookups, histories>>

-----------------------------------------------------------------------------
(* MarshalToUi, in the thread of the report: the gate, then PostMessageW. *)
TestGate ==
    /\ telling # <<>>
    /\ ~passed
    /\ IF g_exiting
       THEN telling' = Tail(telling) /\ UNCHANGED passed
       ELSE passed' = TRUE /\ UNCHANGED telling
    /\ UNCHANGED <<table, exits, ui, choices, msgs, display, queue, answer, lookups, histories>>

Posts ==
    LET r == Head(telling)
        delivered == HasWindow /\ Len(msgs) < MaxMessages
    IN
    /\ passed
    /\ telling' = Tail(telling)
    /\ passed' = FALSE
    /\ IF delivered
       THEN /\ msgs' = Append(msgs, Msg("Marshal", r.dev, r.status))
            /\ missed' = missed \ {r.dev}
            /\ lateMarshals' = lateMarshals + (IF g_exiting THEN 1 ELSE 0)
       ELSE /\ missed' = missed \cup {r.dev}
            /\ UNCHANGED <<msgs, lateMarshals>>
    /\ UNCHANGED <<table, exits, ui, choices, display, queue, answer, lookups, foundEmpty,
                   begun, owed>>

MarshalToUi == TestGate \/ Posts

-----------------------------------------------------------------------------
RunTask == RunConnect \/ RunDisconnect \/ RunSnapshot \/ RunCloseAll \/ RunDetach

ExecutorStep ==
    \/ RunTask
    \/ \E d \in Devices : Settle(d) \/ Lose(d)

Next ==
    \/ Start \/ Killed
    \/ UiStep
    \/ \E d \in Devices : ClickDevice(d) \/ LookupSucceeds(d) \/ LookupFails(d)
    \/ ClickExit \/ ClickConfirm \/ CloseFromOutside
    \/ ExecutorStep
    \/ MarshalToUi

Safety == Init /\ [][Next]_vars

(* The UI thread goes on and its waits are bounded; a report once begun is
   delivered.  Nothing says that a task of the executor ever ends: it calls
   the platform.                                                           *)
Spec == Safety /\ WF_vars(UiStep) /\ WF_vars(MarshalToUi)

-----------------------------------------------------------------------------
(* The picker catches up: the last word on a device, on the way to the
   queue, else in the queue, else on the screen, is the manager's last
   report, unless a full queue has swallowed it (MarshalToUi,
   HandleMarshal).                                                         *)
Silent(s, d) == \A i \in 1..Len(s) : s[i].dev # d
LastWord(s, d, status) ==
    \E i \in 1..Len(s) : /\ s[i].dev = d /\ s[i].status = status
                         /\ \A j \in (i + 1)..Len(s) : s[j].dev # d
PickerCatchesUp ==
    Working => \A d \in Devices \ missed :
        \/ LastWord(telling, d, shown[d])
        \/ /\ Silent(telling, d)
           /\ \/ LastWord(msgs, d, shown[d])
              \/ Silent(msgs, d) /\ display[d] = shown[d]

(* A closure that reaches the dying window is at most the one whose gate
   was tested before WM_DESTROY set it.                                    *)
GateLetsOneThrough == lateMarshals <= 1

(* The process ends over live connections only when the user confirmed it,
   when another program closed the window, or when they were begun after
   IsEmpty found none (exitItem.Click).                                    *)
ExitIsConfirmed == (g_exiting /\ ~confirmed) => (foundEmpty /\ kept \subseteq begun)

(* What the next process will load names each device that was there when
   WM_DESTROY came and did not leave by itself, if the list was answered
   and written at all.                                                     *)
SavedListComplete == saved => kept \subseteq LoadSettings(file).devices

(* No device of the loaded list is dropped on its way from the settings to
   the lookup and to the attempt.                                          *)
NobodyForgotten ==
    Working => \A d \in owed :
        \/ d \in lastDevices /\ \E i \in DOMAIN msgs : msgs[i].what = "Connectdevice"
        \/ d \in lookups
        \/ \E i \in DOMAIN queue : queue[i].op = "Connect" /\ queue[i].dev = d

(* The process is gone some time after WM_DESTROY, the join of its
   executor included, if each task of the executor comes to an end: no
   report, no timed out wait and no late lookup keeps it (WM_DESTROY,
   MarshalToUi, ~ConnectionManager).  Over a task that never ends the join
   does not either, whatever ConnectionManager.cpp:378 says of the exit.   *)
ExitEnds == WF_vars(RunTask) => (g_exiting ~> ui = "off")

(* The picker shows the manager's last report again and again, unless it
   is lost to a full queue, the window goes, or reports never cease.       *)
PickerSettles ==
    \A d \in Devices :
        \/ []<>(display[d] = shown[d] \/ d \in missed \/ ~Working)
        \/ []<><<TRUE>>_(shown[d])
=============================================================================
