# AudioConnect in TLA+

AudioPlaybackConnector is a tray program for Windows that turns the PC into a
Bluetooth (A2DP) speaker: the user picks a device, the program opens an
`AudioPlaybackConnection` for it, keeps it in a table, shows its status in a
device picker, and closes everything on exit. This directory holds TLA+ modules
of the program, from its executor thread to its settings file, the TLC
configurations that check them on small instances, and proofs, checked by TLAPS,
that hold for every instance.
All paths below are relative to the repository; `cpp`/`h` line numbers are
those of the file under discussion.

## The system

| Component | State | Operations | Hard behaviours | What makes it correct |
|---|---|---|---|---|
| **SerializedExecutor** (`SerializedExecutor.{h,cpp}`) | `m_queue`, `m_executing`, `m_stopped` under one mutex, one condition variable, the thread | constructor, `Post`, `Stop`, `DrainFor`, `YieldTo`, `Run` | any thread calls; notifications outside the lock; spurious wakeups; timeouts; Stop racing Post | accepted tasks run once, in order, alone; Stop drains and returns; DrainFor is a barrier |
| **AsyncOp** (`AsyncOp.hpp`) | value or error, continuation, completed flag under a mutex | `Complete`, `CompleteError`, `co_await` | completion before, while and after the await; two completions | one resumption, of a suspended coroutine; no lost wakeup; the first outcome counts |
| **ConnectionManager** (`ConnectionManager.{h,cpp}`) | the table device -> (object, generation, life cycle state), generation counter; touched by the executor thread only | `Connect`, `ConnectById`, `Disconnect`, `CloseAll`, `DetachForProcessExit`, `IsEmpty`, `DeviceIds`, `OnStateChanged`, destructor | coroutines that resume on pool threads and find another entry; late notifications; closing while opening; replacement; exit at any moment with bounded waits | no object leaked or closed twice; table, coroutine and last report agree; every attempt ends; nothing left at exit |
| **Platform adapter** (`AudioConnection.h`, `WinrtAudioConnection.{h,cpp}`) | the WinRT object | `Create`, `Start`, `Open`, `RegisterStateChanged`, `Close`, `DetachAbi` | completions and notifications on system threads; `State()` is read late | modelled inside ConnectionManager |
| **Application shell** (`AudioPlaybackConnector.cpp`) | `g_exiting`, `g_settings`, the message queue, XAML objects | `WndProc`, `MarshalToUi`, menu and picker handlers | closures marshalled to the UI thread against the exit; stale snapshots; the reconnect list | the picker catches up with the manager; one closure at most slips past the exit gate; nobody's connections end unasked; the saved list is complete; the exit ends, if the executor's tasks do |
| **Settings** (`Settings.cpp`) | one JSON file | `LoadSettings`, `SaveSettings` | a crash between truncation and write; a partly valid file | what was saved is loaded by the next process; no device of the loaded list is dropped on its way |
| **Single instance guard** (`Singleton.cpp`) | named mutex | `TryAcquire`, `NotifyExistingInstance` | processes that start and end side by side; a mutex that cannot be had | one instance |
| **Log** (`Log.cpp`) | file, size, rotation flag under a mutex | `SetLogFile`, `Write`, `Shutdown` | rotation or write fails halfway; a second process on the same file | the byte count is the file's size; the file stays within its limit |
| **Translations** (`I18n.cpp`, `FnvHash.hpp`, `translate/po2ymo.py`) | hash table, pointer cache | `LoadTranslateData`, `Translate` | colliding hashes; offsets at the boundary; a resource cut off; an unguarded cache | what the catalogue says, or the original text |
| **Tray icon** (`TrayIcon.cpp`) | the notification data | `Initialize`, `Refresh`, `Remove` | the taskbar crashes between two calls, restarts, or refuses the icon | the icon comes back |
| **Icons and utilities**, **tests** | none | | | not modelled |

Interactions. The UI thread calls the manager, whose public methods only post
to the executor. `ConnectImpl` is a coroutine: it starts as a task, suspends in
`co_await Start()` and `co_await Open()` (AsyncOps completed by system
threads), is resumed *on those threads*, and hops back (`co_await YieldTo()`)
as a second task before it touches the table again. `StateChanged` handlers
run on an event thread and only post. Reports go from the executor to the UI
thread as window messages. On `WM_DESTROY` the UI thread saves the settings,
calls `CloseAll` and `DetachForProcessExit`, each of which posts a task and
waits for it at most two seconds, and leaves the message loop; the static
destructors then destroy the manager, which stops the executor: a join with no bound.

## The modules

| Module | Role |
|---|---|
| `TaskLog` | what the executor promises: a log of accepted tasks, executed in order |
| `TaskQueue` | the same promise for those who use the executor: the tasks that have still to run |
| `SerializedExecutor` | the executor, one action per critical section of `m_mutex` |
| `SerializedExecutor_proofs` | its theorems |
| `OneShot` | what an AsyncOp promises: a result settled once, taken once |
| `AsyncOp` | the completion source and the awaiting coroutine, one action per critical section |
| `AsyncOp_proofs` | its theorems |
| `ConnectionManager` | the table, the coroutines, the notifications, the exit, over the FIFO of TaskQueue |
| `DeviceTable` | what the manager promises the application: a table of devices and the last report of each |
| `MCConnectionManager` | the symmetry of devices, for TLC |
| `ConnectionManager_proofs` | its theorems about the table and the coroutines |
| `ManagerExit_proofs` | its theorems about the exit, and that it implements DeviceTable |
| `ManagerTasks_proofs` | its theorems about queued tasks: resumptions and losses of a link |
| `AppShell` | the UI thread, its message queue, the exit, the settings file, over the table of DeviceTable |
| `MCAppShell` | the symmetry of devices, for TLC |
| `AppShell_proofs` | its theorems |
| `Log` | the log file and its writers: the actions of one process on it |
| `Instances` | the processes of a session: log, mutex, window, taskbar |
| `MCInstances` | the symmetry of processes, for TLC |
| `Instances_proofs` | theorems about Log and Instances |
| `Translations` | the compiler, the loader and the lookup of translations |
| `MCTranslations` | translations of two lengths, for TLC |
| `Translations_proofs` | its theorems |

The layers meet in their abstract specifications. `SerializedExecutor` is shown
to implement `TaskLog`, a log of what was accepted and done, and `TaskQueue`, the
part of it that is not done yet. `ConnectionManager` uses the executor as that
queue: its head runs as one atomic step, which is what "one task at a time, in
order" allows, and it is proved that the manager posts to it, runs it and shuts it
as a `TaskQueue` only. Between the two nothing is taken for granted but that a task is
atomic. `AsyncOp` is shown to implement `OneShot`, and `ConnectionManager`
uses an AsyncOp as that: an await that comes back once, with one result.
`ConnectionManager` is shown to implement `DeviceTable`, and `AppShell` drives that
table in place of the manager: its executor steps *are* the actions of
`DeviceTable` (`Begin`, `Open`, `Fail`, `Refuse`, `Drop`, `CloseAll`, `Detach`).
`Instances` extends `Log`, whose actions it calls from the places where `wWinMain`
does.

Each component module has a section *Faulty variants*: definitions with one slip
each, a dropped guard, a swapped order, a lost continuation. No specification
uses them. Put in place of the definition they vary, each makes TLC find a violation
of one property, which is how we know that the property can fail.

### SerializedExecutor

The executor thread is a program counter `run` through `Run`: `init` (thread
name, `threadInit`), `check` (the predicate of `m_cv.wait`, under the lock),
`waiting`, `task`, `executed` (the task returned or threw; `m_executing` is
still set), `notify` (the `notify_all` after the task), `exited`. Each client
has a program counter `pc` through `Post`, `Stop` or `DrainFor`. The condition
variable is the set of those who wait on it, the thread and the callers of
`DrainFor` alike: `notify_one` picks any one of them, `notify_all` all, and
anyone may wake for no reason. A task is the name of its poster.

`EarlyStart` is the race of the constructor: the thread is the third member
(h:86) and starts in the initialiser list, before the mutex, the queue and the
flags that follow it have been initialised. With `EarlyStart = FALSE` the
constructor is through before the thread takes the lock for the first time;
with `TRUE` the thread may read `m_stopped` as it finds it.

Histories: `accepted` and `finished`; `mark[c]`, how many tasks were accepted
when `c` called `DrainFor`; `result[c]`, how its last call ended.

### AsyncOp

`m_completed`, `m_continuation` and `m_outcome` (value or error) are the members
of `State`. A call of `Complete` or `CompleteError` is one critical section that
stores the outcome and copies the continuation, then `resume()` outside the
lock (`holds` is the set of threads between the two). The coroutine goes
through `await_ready`, `await_suspend` (which looks again, under the lock) and
`await_resume`. The two specialisations differ only in the value.

### ConnectionManager

`m_connections[d]` is the entry of device `d`, or `NoEntry`. `conns[g]` is the
connection object created for generation `g` together with the `ConnectImpl`
that serves it: `phase` says where the coroutine is (suspended in `start` or
`open`, about to `hop`, `posted`, `finished`, `leaked` when the hop was
refused, `crashed` when `Open` was called on a detached object), `fate` how the
object left the table, `closes` how often it was closed, `link` and `cb` the
state of the A2DP link and the notifications not delivered yet. `queue` is the
executor's queue; `shown[d]` is the status last given to the status handler;
`exit` is how far the UI thread is in `WM_DESTROY` and after.

Every task of the queue is one action. `ConnectImpl`'s first part is one of
five actions, by what happens before it first suspends: `CreateFails`,
`RegisterFails`, `ConnectSuspends`, `ConnectSucceeds`, `ConnectFails` (the last
two when `Start` and `Open` complete at once: the hop is then a no-op and the
whole coroutine is one task). Its last part is one of `ResumeConnected`,
`ResumeFailed`, `ResumeClosed`, `ResumeDiscarded`. `OnStateChanged` is
`StateChangedIgnored`, `...Deferred` or `...Removes`. A notification that finds the
link up when it is delivered posts a task that returns at its first test
(cpp:459); it is not queued in the model.

`StartSucceeds`, `StartFails`, `OpenSucceeds` and `OpenFails` are completions on
pool threads at any moment, `LinkUp` and `LinkDown` the remote side,
`StateCallback` the event thread. `CloseAllReturns` and `DetachReturns` may
come before or after the task they wait for: that is the two-second timeout.

`Place` maps an entry to "none", "connecting" or "connected": the table that
`DeviceTable` keeps. `ending` of DeviceTable is the beginning of the exit.

### AppShell

`ui` is where the UI thread is: "off" (no process), in its loop, or in one of
the places where a handler waits or does something of its own: `isEmpty`
(exitItem.Click), and through `WM_DESTROY` `deviceIds`, `save`, `write`, `closing`,
`detaching`, then `quit`, and `joining`: `~ConnectionManager` has set `m_stopped` and
waits for the executor thread to run its queue to the end. WM_CLOSE comes from the
exit's menu item and flyout, or from another program (`CloseFromOutside`, posted as
taskkill does). `msgs` is the window's queue, which holds a bounded number
of posted messages: `PostMessageW` fails when it is full, and no caller looks.
`queue` is the executor's; tasks that the UI thread posts run in order, those the
manager posts itself (an attempt that comes back, a lost link) are steps that
happen between two tasks. `telling` are the reports that the running task has still
to give; `MarshalToUi` of each is two steps, `TestGate` and `Posts`, so that
`WM_DESTROY` falls between them. A snapshot (`IsEmpty`, `DeviceIds`) is a task with
`awaited` set; after the timeout nobody holds its future any more and the answer is
dropped, while the task still runs.

`file` is the settings file: absent, torn (cut off), partial (an object without a
usable `lastDevices`) or whole. `Start` loads it, or finds it unreadable and takes
the defaults; `SaveOpens` truncates it, `SaveWrites` or `SaveFails` ends that.
`Killed` may fall anywhere, and everything but the file is gone. So one behaviour
is any number of processes, one after the other.

Histories: `missed` (devices whose last report a full queue dropped),
`lateMarshals` (closures posted after the gate), `confirmed` (by the user, or closed
from outside), `foundEmpty` and
`begun` (how the exit came about), `kept` and `saved` (what was there when
WM_DESTROY came and has not left by itself, and whether it was written), `owed`
(devices of the loaded list that were not tried yet).

### Log and Instances

`log[p]` is process `p`'s `g_file`, `g_bytesWritten` and `g_rotationDisabled`; `blind`
notes that `GetFileSizeEx` failed at the last opening. One call of `Write` is one step,
except that `RotateLocked` is three: the handle is closed (`WriteRotates`), the file
renamed or not (`MoveSucceeds`, `MoveFails`), opened again and written (`Reopens`).
`g_mutex` keeps other threads of the process out in between, but other processes
may come. The handle shares the file with readers only, hence one writer at most.
A line is its length.

`at[p]` follows `wWinMain` from `SetLogFile` to the destruction of the statics. `mutex`
is the set of processes with a handle of the named mutex: it exists as long as one has,
which is why a second instance that is about to leave can keep a third from becoming the
first. `Refreshed` is `TrayIcon::Refresh`: NIM_MODIFY, else NIM_ADD, then NIM_SETVERSION
as a step of its own, with FAIL_FAST when it fails, as it does when the taskbar is gone
by then. NIM_ADD may fail while there is a taskbar, which is logged and no more
(`AddsNothing`; `refused` remembers it). `told` is `TaskbarCreated` in a window's queue.
`Killed` may fall anywhere.

### Translations

A catalogue is a sequence of units; `fnv1a_32` is an arbitrary function of the keys to a
set of hashes, chosen at the start, so every collision pattern is an initial state.
Texts have any length (`Bytes`, with the NUL).

Each turn of a loop is an action, `phase` says which loop and `at` which turn. The
compiler `po2ymo.py` collects the units into its dict (`CollectUnit`), writes the length,
the entries with the offsets at which the texts will begin (`WriteEntry`, or
`WriteEntryOverflows`: the OverflowError of `to_bytes`) and then the texts
(`WriteText`). `CutOff` makes the resource shorter, at any byte: in the length, in the
table, between two texts or inside one. The loader tests the length of the table
(`LoadTable`) and takes entry by entry, unless its offset is out of bounds and with
`emplace` (`LoadEntry`). It never tests where a text ends: one that the cut is inside
reads `Garbage` (`TextAt`). `LoadsNothing` is a language without a resource.
`Translate` and `TranslateContext` look up through the cache of pointers.

## What is checked

Runs that pass:

* **executor** (`SerializedExecutor`, 149 thousand states): two threads, both of
  which post, stop and drain; three posts. `FifoExactlyOnce`, `ExitDrained`,
  `StopDrains`, `DrainBarrier`; live: `StopReturns`, and `TasksRunUndrained`, that
  tasks run as long as nobody waits in `DrainFor`; `ImplementsTaskLog`.
* **manager** (`ConnectionManager`, 584 thousand states under symmetry): two
  devices, two requests, links that come up once more by themselves, no exit.
  `Ownership`, `EntryMatchesCoroutine`, `ResumedOnce`, `ReportMatchesTable`,
  `LossIsKnown`, `GenerationsOnlyGrow`.
* **manager_exit** (651 thousand states under symmetry): the same with an exit at
  any moment. `CleanExit`: unless a lookup connects after the exit began, every
  connection has been closed when the manager is gone, whichever wait timed out.
  `ImplementsDeviceTable`: each step is at most one step of the abstract table: what
  changes in the table is reported in the same step, one device at a time, and only
  the exit empties the table as a whole or silently. DeviceTable leaves the moves of
  one device open (any entry may become any other with the report that belongs to it);
  which moves a coroutine may make is what `EntryMatchesCoroutine` says.
* **manager_live** (16 thousand states): `AttemptsEnd`, `ConnectingEnds`,
  `LossIsNoticed`.
* **asyncop** (171 states): three completing threads, four calls. `ResumedOnce`,
  `NoLostWakeup`, `ResultIsFirst`, `AwaitEnds`, `ImplementsOneShot`.
* **shell** (`AppShell`, 7.3 million states under symmetry). `PickerCatchesUp`: the last
  word on a device, on its way from the executor, else in the window's queue, else
  on the screen, is the manager's last report, or a full queue has swallowed it.
  `GateLetsOneThrough`: of all closures, at most one reaches the dying window.
  `ExitIsConfirmed`: the process ends over live connections only when the user has
  said so, when another program closed the window, or when they were begun after
  `IsEmpty` had found none; that the snapshot
  degrades to false is what makes it true. `SavedListComplete`: a device that was
  there when WM_DESTROY came and did not leave by itself is named by the file the
  next process loads, if the list was answered and written. `NobodyForgotten`: a
  device of the loaded list is in the list, a lookup or the queue until it is
  tried, as long as the process is in its loop: an exit while lookups are pending
  saves a list without them, which is how it is coded and not excluded here.
* **shell_live** (188 thousand states). `ExitEnds`: once WM_DESTROY has begun the
  process ends, the join of the executor thread included, provided that each task of
  the executor comes to an end: waits that time out, reports that meet the gate and
  lookups that come late do not keep it. `PickerSettles`: each device's row shows the
  last report again and again, unless reports never cease.
* **instances** (`Instances` and `Log`, 2.4 million states under symmetry).
  `AtMostOneInstance`, `CountIsSize`. `IconNeverLost`: while there is a taskbar, the
  icon of an instance in its loop is in it, or TaskbarCreated is waiting, or this
  taskbar has refused the last NIM_ADD; after a refusal only another theme or another
  restart of the taskbar brings it back, as coded. `LimitKept`: the file grows past its
  limit only by a process that has given up to rotate, that could not learn the
  size, or that finds the file it has just renamed filled anew by another process
  (`RotateLocked` does not look at the size again after it has reopened the file).
* **translations** (2.8 million states). `SaysWhatTheCatalogueSays`: whatever the hashes,
  the byte at which the resource is cut off and the order of lookups, a text is shown
  as the last usable unit with its hash has it, or in English, or as `Garbage`, the
  last only if the cut is inside the very text that was to be shown. In a whole
  resource it is always the first. Nothing in the code detects a collision: a unit of
  another text with the same hash counts like one of its own. If there is no such
  unit, the last of the text's own units decides.

Runs in which TLC shows that the code does something its comments exclude:

* **lost_wakeup**: `Post` uses `notify_one` on a condition variable that the
  callers of `DrainFor` share. If it wakes one of those, whose predicate is
  false, the executor thread sleeps on over a task. Only the tests call
  `DrainFor`, from the thread that posted, which is why it does not bite today;
  `TasksRunUndrained` is the part that holds.
* **ctor_race**: with `EarlyStart = TRUE` the thread reads an `m_stopped` that
  nobody has set and leaves; the executor then accepts tasks that never run.
  Declaring the thread last removes it.
* **use_after_destroy**: the destructor waits for the executor's tasks, not for
  lookups, notifications and coroutines between `Open` and their hop, all of
  which use `m_executor` through `this`.

`use_after_destroy` needs an exit within the seconds that a lookup takes at start-up. The
same window lets a lookup that completes after `DetachForProcessExit` connect a
device that nobody closes, and lets `Open` be called on an object that was just
emptied; both are behaviours of the model, and `CleanExit` names the first as its
exception.

Two passing properties are weaker than what a comment and a test say, because the
code is:

* `ExitEnds` has the end of each task as its condition. Each wait of WM_DESTROY is given
  up after two seconds, "退出路径不无限阻塞" (the exit path does not block for ever,
  ConnectionManager.cpp:378; cpp:54-56 is to the same effect), but the same thread then
  destroys the manager, and `Stop` joins without a bound (SerializedExecutor.cpp:45-46).
  Without the condition TLC finds the process at the join for ever, behind a task of the
  executor that is stuck.
* `SaysWhatTheCatalogueSays` admits `Garbage`. `LoadTranslateDataFromMemory` compares
  where a text begins with the size it was given (I18n.cpp:48), not where it ends, so
  that a text the end cuts through is loaded. tests/main.cpp:143 says of data that is cut
  off that no entry may be loaded; the test cuts inside the table, where that holds.

### Bounds

Two devices and two requests are enough for every interference between
attempts: a second Connect of the same device (replacement, stale resumption,
stale notification), a Disconnect while opening, and attempts of different
devices side by side; a third request on one device repeats the second with an
older object that is already out of the table. `MaxUps = 1` lets a link drop,
come back and drop again with the notifications of all three outstanding. In
`manager_live` and the runs that end the process `MaxUps = 0`: a link comes up by
Open, and may drop. Two threads suffice for the executor, since both may be in
any call; three posts let a task wait behind another one while a third is being
executed. `Generations` never exceed `MaxRequests`.

In `shell` there are two devices, so that reports of one can be overtaken by those of
the other, two clicks per life of a process (a row and the exit, or two rows, or a
WM_CLOSE from outside, which counts as one; the reconnect list brings more attempts
without a click), and a window queue of two messages, which makes it full with
`WM_CONNECTDEVICE` or a report still in it. `shell_live` has one device. In `instances`
two processes suffice for every meeting at mutex and file, since a process may be
started again while the other is anywhere; the limit is 2, lines have 1 or 2 bytes and
the file stops to grow at 3, past the limit by a whole line or a part of one.
`translations` takes all catalogues of up to two units over two texts and a context, two
hashes, translations of two lengths, and a `MaxOffset` of 17: behind a first text that
is short the second offset (16) fits, behind a long one (20) it does not. In the proofs
none of the bounds has a value.

`shell`, `shell_live` and `instances` have deadlock checking on, which says little: a
process can always be killed or started. In the other runs it is off, since the user is
never obliged to request anything and a system at rest is a normal state. What must not
rest is stated as liveness.

### Fairness

* `SerializedExecutor`: the executor thread and every begun call go on when they
  can (an operating system that schedules runnable threads); nobody has to begin
  a call, and no spurious wakeup is owed, so a lost notification stays lost.
* `ConnectionManager`: the executor runs its tasks (the liveness of
  `SerializedExecutor`); `StartAsync` and `OpenAsync` complete (the platform
  answers with a timeout, `RequestTimedOut`); pending notifications are
  delivered; an exit goes on once begun. Lookups and links owe nothing.
* `AsyncOp`: the coroutine runs unless suspended, a begun call reaches its
  `resume()`. Nobody has to complete anything.
* `AppShell`: the UI thread goes on, its waits being bounded (`wait_for`) up to the join,
  which it leaves when the queue is empty, and a report begun is posted. No task of the
  executor is owed: it may be stuck in the platform, and a click, a lookup or an
  attempt may never come. `PickerSettles` needs no more, since a report that exists is
  already in `telling`. `ExitEnds` does, for the join, and names it as its condition
  (`WF_vars(RunTask)`).
* `Instances`, `Log` and `Translations` state no fairness.

## What is proved

All theorems hold for every value of the constants (any number of threads,
devices, posts, requests), from the assumptions named in the modules: bounds
are natural numbers, drainers are clients, flags are Boolean.

* **SerializedExecutor** (`TypeCorrect`, `Fifo`, `Exit`, `StopDrained`, `Barrier`,
  `Refinement`, `ExecutorIsQueue`, `DrainIsHeard`). All but the first assume `~EarlyStart`: the constructor race is
  exactly what would break them. The inductive invariant `IInv` adds to
  `FifoExactlyOnce` and `ExitDrained` a shape of the thread (what `run` says about
  `task`, `m_executing` and the constructor), of `DrainFor`'s marks (`mark` never
  exceeds what was accepted, and a drained mark has finished: needed because
  the answer is judged later than the predicate that produced it) and of the
  callers in `Stop` (they are there only once `m_stopped` is set). `Refinement`
  maps `accepted`, `finished` and "constructed and stopped" to `TaskLog`: each
  Post is an `Accept`, `StopFirst` a `Shut`, `RunTask` an `Execute`, all else stutters.
  `ExecutorIsQueue` maps the popped task followed by `m_queue` to the pending tasks of
  `TaskQueue`: popping is a stutter, since an executing task still is pending.
* **SerializedExecutor, its notifications** (`StopIsHeard`, `DrainIsHeard`, `PostIsHeard`).
  Each says that a thread which sleeps on a predicate that has come true will still
  be notified: by the caller that set the stop flag, by the executor thread after its last
  task, by the `Post` that queued the task. They are the safety halves of
  `StopReturns` and `TasksRunUndrained`. `PostIsHeard` assumes `[]NobodyDrains`, as
  `TasksRunUndrained` does: `notify_one` may wake a `DrainFor` instead, which is what
  **lost_wakeup** shows. `StopIsHeard` and `PostIsHeard` do not assume `~EarlyStart`.
* **ConnectionManager** (`TypeCorrect`, `Owned`, `Matched`, `Reported`, `Younger`).
  The invariant is a conjunction over devices, `DeviceInv(d)`: no entry is older
  or younger than the counter, the objects of `d` are counted (tracked exactly
  when the entry is theirs, closed once if closed by us), the entry is served by
  its coroutine, and the last report fits the entry; with `ResumeShape`, a queued
  `Resume` names a coroutine of its own device. It is stated per device because
  every action works on one: a frame lemma (`Elsewhere`) settles all other
  devices at once, and each step has only its own device to argue about.
* **ConnectionManager, exit and refinement** (`CleanlyExited`, `ManagerRefinement`). For
  `CleanExit` the invariant follows the order of the queue: behind a `CloseAll` or a
  `Detach` posted by the exit there is no task that inserts an entry, except from a
  lookup that came late, and the destructor is through only with an empty queue.
  `ManagerRefinement` maps each action to at most one action of `DeviceTable` and uses
  the invariant of `ConnectionManager_proofs`: that the entry agrees with its coroutine
  is what makes a resumption an `Open` and not a jump from nothing to "connected".
* **ConnectionManager, its tasks** (`Once`, `LossKnown`, `GenerationsAsked`,
  `ManagerUsesQueue`, `ExecutorNeverJams`). `ResumeInv` is a one-to-one
  relation between the coroutines that have hopped and the `Resume` tasks of the
  queue: every step is one that touches neither, one that hops and posts, or one that
  takes the head of the queue and resumes (`StepKinds`), and each keeps it. `LossInv`
  extends `LossIsKnown` to entries still `Connecting` whose `Open` has succeeded:
  the link may go down before the coroutine runs on to mark them `Connected`, and the
  word of it must be under way already then. Both use the invariant of
  `ConnectionManager_proofs`. `GenerationsAsked`: the counter, the queued `Connect` tasks
  and the lookups together never exceed the requests (`AskedInv`); each task uses up one
  generation at most, and a lookup that succeeds turns into a task.
  `ManagerUsesQueue` maps `queue` and "Post accepts" to `TaskQueue`: every task of
  the executor is an `Execute`, every accepted post an `Accept`, `Destroy` a `Shut`.
  `ExecutorNeverJams`: the model has a step for whatever is at the head of the queue,
  whatever has become of its device. It is not obvious: `ConnectImpl`'s last part has no
  step for a `Connected` entry of its own generation, because `ResumeInv` and
  `EntryMatchesCoroutine` exclude it, and no task runs after the destructor. Since the
  prover has no ENABLED, it is stated by the shapes of task and entry that the steps
  ask for.
* **AsyncOp** (`TypeCorrect`, `Once`, `Woken`, `First`, `Refinement`). The
  invariant relates the stored outcome to the first call and says that
  the thread in `holds` is the one whose call completed while the coroutine was
  suspended.
* **AppShell** (`TypeCorrect`, `GateHolds`, `Confirmed`, `Saved`, `NobodyIsForgotten`,
  `PickerIsRight`), for a finite set of devices that does not contain "any". Each has
  an invariant of its own. `GateInv`: before the gate is set nothing is late, and the
  count together with a report between test and post is at most one. `AwaitInv`: at
  most one task of the queue is awaited, it is the kind of snapshot the UI thread
  waits for, and an answer is there only while it waits; without it the answer of a
  snapshot given up could be taken for a later one's. `CloseInv`, `BegunInv`: a WM_CLOSE in
  the queue has a reason, and what is tracked since `IsEmpty` found none was begun
  since. `SavedInv`: until the names were asked for, no `CloseAll` or `Detach` is in the
  queue (`NotEmptiedYet`), so what is kept is tracked, then in the answer, then in the
  list, then in the file. `OwedInv`: the places a device of the list may be. `PickInv`:
  per device, what is on its way is nothing or ends with the manager's last report;
  the lemmas `WordTail` and `WordAppend` say what taking and posting do to that.
* **Log and Instances** (`TypeCorrect`, `OneInstance`, `Counted`, `IconKeeps`, `Limited`), for
  any set of processes and any sizes with `1 <= MaxLine <= kMaxFileBytes`. The invariant
  says that a handle excludes others, that a process which is writing has closed its
  handle while it rotates, that a count is the size of the file unless it is blind,
  that a serving process has the mutex or could not get it, and that an icon that is
  missing in the loop will be brought back by a message, or that the taskbar, still the
  same one, has refused it.
* **Translations** (`Invariance`, `CatalogueSaid`), for any catalogue, hash function, lengths of
  texts and `MaxOffset`. What a loop computes is an invariant of its turns. `DictInv`:
  the dict has one cell for each hash met so far, with the last usable unit for it.
  `TableInv`: offsets begin behind the table and each text ends where the next begins,
  so different cells have different offsets. `TextInv`: where an entry points, there is the
  text of its cell, or nothing is written yet. `MapInv`: the map holds the cells
  whose texts begin before the resource is cut off, each with its text or, if the text
  ends behind the cut, `Garbage`; `emplace` never meets an entry that is there, because
  the dict has made the hashes unique. `LookupInv`: the cache agrees with the map, which
  no longer changes. In a whole resource every text begins and ends within it, since
  none is empty: hence the answer is the catalogue's. Otherwise it is that, or English,
  or `Garbage` for the one text that the cut is inside.

Only model-checked: liveness under fairness (`StopReturns`, `TasksRunUndrained`,
`AttemptsEnd`, `ConnectingEnds`, `LossIsNoticed`, `AwaitEnds`, `ExitEnds`,
`PickerSettles`), which is beyond the prover. For all of them but `ExitEnds` the safety
half is proved, namely that whatever has to bring the thing about is there: the
notification (`StopIsHeard`, `PostIsHeard`), the coroutine of a `Connecting` entry and its
one resumption (`Matched`, `Once`, `ExecutorNeverJams`), the word of a lost link
(`LossKnown`), the thread about to resume an await (`Woken`), the report on its way to
the picker (`PickerIsRight`).

## What is not modelled, and why

* Calls of `Stop` or `DrainFor` from inside a task: the header forbids them
  (h:10) and the application has none.
* `uint32_t` wrap of the generation: by `GenerationsAsked` it takes 2^32 requests in one
  process, made by hand.
* A connection made afresh only to be closed (`DisconnectImpl` without an entry):
  the object never reaches the table; whatever happens to it, "closed" is
  reported, and that is modelled. A link that Windows holds for an
  object of an earlier process is outside the model.
* Exceptions that are not `hresult_error` escaping from `ConnectImpl` end the
  process; none of the calls it makes throws one in a normal build.
* The UI thread initialises a multi-threaded apartment, so a lookup resumes on
  a pool thread; that is why `LookupSucceeds` can fall anywhere.
* Texts, names, colours, positions, rendering (`SvgIcon`, `Direct2DSvg`), the Win32
  wrappers of `Util`, and the wording of the log. `LOG_...` calls are modelled as lines
  that are written at any moment of a process's loop and end.
* Whether the picker opens when a second instance sends `WM_SHOWDEVICES`: nothing
  promises it, and the second one ends in either case. The comment at
  AudioPlaybackConnector.cpp:70 says that the second instance touches no global
  resource; by then it has opened the shared log and written a line, as the model
  does.
* JSON text: a file is whole, or damaged in one of the ways that `LoadSettings`
  tells apart. An exception leaves what was parsed before.
* The data race on the cache of translations (`Translate` is called by the UI thread
  and, through `ConnectImpl`, by pool threads): it has no set of outcomes to choose
  from. `Translations` has one caller. What is read behind the end of a resource is one
  value, `Garbage`.
* WM_CLOSE that is sent to the window from inside the application by other ways than
  those of the menu and the flyout: there are none in the code.
* `WM_QUERYENDSESSION` and the like, which `DefWindowProc` answers: the session's end is
  `Killed`.
* The order in which the statics of different translation units are destroyed: a
  line written by a task of the executor after `Log.cpp`'s mutex is gone.

## Plan

Done: the executor, AsyncOp, the manager, the application shell with its settings,
the processes of a session with mutex, log and icon, and the translations. What is
left, in order:

1. An explicit composition of `AppShell` with the manager in place of its table, on an
   instance small enough for TLC. (That of the manager with its executor is settled by
   `ExecutorIsQueue` and `ManagerUsesQueue`.)
2. `WM_SHOWDEVICES` and the picker's visibility, should the program come to promise
   something about it.
