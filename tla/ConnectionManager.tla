-------------------------- MODULE ConnectionManager --------------------------
(***************************************************************************)
(* src/ConnectionManager.{h,cpp}: the table of A2DP sink connections, kept *)
(* by one executor thread, against the threads it does not control: the UI *)
(* thread that requests and finally exits, the WinRT pool threads on which *)
(* Start, Open and device lookups complete, and the event thread that      *)
(* delivers StateChanged.                                                  *)
(*                                                                         *)
(* The executor is the FIFO queue of TaskQueue, which SerializedExecutor   *)
(* implements: a task is one atomic action.  A coroutine is cut where it   *)
(* suspends, so ConnectImpl is a task up to its first co_await, steps on   *)
(* pool threads, a hop (YieldTo) and a second task.                        *)
(***************************************************************************)
EXTENDS Naturals, Sequences, FiniteSets

CONSTANTS
    Devices,      \* device ids
    MaxRequests,  \* bound: calls of Connect, ConnectById and Disconnect
    MaxUps,       \* bound: times the remote side brings up the link of one object
    MayExit       \* does the user ever end the process?

ASSUME MaxRequestsAssumption == MaxRequests \in Nat
ASSUME MaxUpsAssumption == MaxUps \in Nat
ASSUME MayExitAssumption == MayExit \in BOOLEAN

VARIABLES
    m_connections,  \* the table: device -> entry
    m_nextGeneration,
    conns,          \* generation -> the connection object created for it, with
                    \* the ConnectImpl coroutine that serves it
    queue,          \* the executor's queue
    shown,          \* device -> the status last given to the status handler
    lookups,        \* devices whose ConnectById awaits CreateFromIdAsync
    requests,       \* number of requests made so far
    exit,           \* how far the UI thread is on its way out of the process
    late,           \* history: a lookup posted its Connect after the exit began
    usedAfterDestroy  \* history: a thread used the manager after its destructor

table == <<m_connections, m_nextGeneration, conns>>
ghosts == <<late, usedAfterDestroy>>
vars == <<table, queue, shown, lookups, requests, exit, ghosts>>

(* LifecycleState; a device that is not in the table has NoEntry. *)
States == {"Connecting", "Connected", "Disconnecting"}
NoEntry == [gen |-> 0, state |-> "None"]
Entry(g, s) == [gen |-> g, state |-> s]

(* A connection object.
   phase: where its ConnectImpl is: suspended in Start or in Open, about to
     hop back to the executor, posted, or finished ("leaked" if the hop was
     refused, "crashed" if Open met an object already detached);
   ok: the outcome of Open;
   fate: "tracked" while in the table, then how it left it (closed by us,
     removed as closed by the remote side, detached at exit), or "dropped"
     if it never got there;
   closes: the calls of Close on it;
   link, ups: the A2DP link under it and how often it came up;
   cb: its StateChanged notifications not delivered yet.
   An object nobody holds any more is released, and its link is dead.      *)
Phases == {"start", "open", "hop", "posted", "finished", "leaked", "crashed"}
InFlight == {"start", "open", "hop", "posted"}
Fates == {"tracked", "closed", "remote", "detached", "dropped"}
Links == {"down", "up", "dead"}
Conn == [dev: Devices, phase: Phases, ok: BOOLEAN, fate: Fates, closes: Nat,
         link: Links, ups: Nat, cb: Nat]

NewConn(d, phase) ==
    [dev |-> d, phase |-> phase, ok |-> FALSE, fate |-> "tracked", closes |-> 0,
     link |-> "down", ups |-> 0, cb |-> 0]

Generations == 1..m_nextGeneration

(* Tasks, all of one shape; dev is "none" and gen 0 where they mean nothing. *)
Ops == {"Connect", "Disconnect", "Resume", "StateChanged", "CloseAll", "Detach"}
Task(op, d, g) == [op |-> op, dev |-> d, gen |-> g]
Tasks == [op: Ops, dev: Devices \cup {"none"}, gen: Nat]

Statuses == {"none", "connecting", "connected", "failed", "closed"}
ExitStates == {"running", "closing", "closed", "detaching", "detached",
               "stopping", "destroyed"}

TypeOK ==
    /\ m_connections \in [Devices -> {NoEntry} \cup [gen: Nat \ {0}, state: States]]
    /\ m_nextGeneration \in Nat
    /\ conns \in [Generations -> Conn]
    /\ queue \in Seq(Tasks)
    /\ shown \in [Devices -> Statuses]
    /\ lookups \in SUBSET Devices
    /\ requests \in Nat
    /\ exit \in ExitStates
    /\ late \in BOOLEAN
    /\ usedAfterDestroy \in BOOLEAN

Init ==
    /\ m_connections = [d \in Devices |-> NoEntry]
    /\ m_nextGeneration = 0
    /\ conns = <<>>
    /\ queue = <<>>
    /\ shown = [d \in Devices |-> "none"]
    /\ lookups = {}
    /\ requests = 0
    /\ exit = "running"
    /\ late = FALSE
    /\ usedAfterDestroy = FALSE

-----------------------------------------------------------------------------
(* Helpers *)

(* SerializedExecutor::Post through the manager's m_executor: refused after
   Stop; after the destructor the member itself is gone.                   *)
Accepting == exit \notin {"stopping", "destroyed"}

Post(t) ==
    /\ queue' = IF Accepting THEN Append(queue, t) ELSE queue
    /\ usedAfterDestroy' = (usedAfterDestroy \/ exit = "destroyed")

Report(d, status) == shown' = [shown EXCEPT ![d] = status]

TakeOut(d) == [m_connections EXCEPT ![d] = NoEntry]

(* The object c after Close: the link, if up, goes down for good, and the
   event thread still has to say so.                                       *)
Closed(c) == [c EXCEPT !.fate = "closed", !.closes = @ + 1, !.link = "dead",
                       !.cb = IF c.link = "up" THEN @ + 1 ELSE @]

(* The object c when its ConnectImpl leaves the block whose local held it,
   the last to hold an object that was removed without a Close.            *)
Hopping(c) == [c EXCEPT !.phase = "hop",
                        !.link = IF c.fate = "remote" THEN "dead" ELSE @]

Finished(c) == [c EXCEPT !.phase = "finished"]

(* The object c when its link comes up. *)
Up(c) == IF c.link = "down" THEN [c EXCEPT !.link = "up", !.cb = @ + 1] ELSE c

(* The objects after the tracked one of d, if any, is closed and c created. *)
Replaced(d, c) ==
    [g \in 1..(m_nextGeneration + 1) |->
        IF g > m_nextGeneration THEN c
        ELSE IF m_connections[d].gen = g THEN Closed(conns[g]) ELSE conns[g]]

(* The next task of the executor thread is t, and it runs now. *)
Run(t) == /\ exit # "destroyed"
          /\ queue # <<>>
          /\ Head(queue) = t
          /\ queue' = Tail(queue)

-----------------------------------------------------------------------------
(* Faulty variants of actions below, one slip each.  No specification uses
   them: each is what one of the properties is there to exclude.           *)

(* generation = m_nextGeneration++. *)
ConnectSuspendsPostIncrement(d) ==
    /\ Run(Task("Connect", d, 0))
    /\ m_nextGeneration' = m_nextGeneration + 1
    /\ \E phase \in {"start", "open"} : conns' = Replaced(d, NewConn(d, phase))
    /\ m_connections' = [m_connections EXCEPT ![d] = Entry(m_nextGeneration, "Connecting")]
    /\ Report(d, "connecting")
    /\ UNCHANGED <<lookups, requests, exit, ghosts>>

(* The continuation is posted, and the coroutine posts it again. *)
YieldToTwice(g) ==
    /\ conns[g].phase = "hop"
    /\ Post(Task("Resume", conns[g].dev, g))
    /\ UNCHANGED <<table, shown, lookups, requests, exit, late>>

(* The continuation is lost. *)
YieldToNowhere(g) ==
    /\ conns[g].phase = "hop"
    /\ conns' = [conns EXCEPT ![g].phase = "posted"]
    /\ UNCHANGED <<m_connections, m_nextGeneration, queue, shown, lookups, requests, exit, ghosts>>

(* Whatever entry of the device is there is taken for one's own. *)
ResumeConnectedUnchecked(d, g) ==
    /\ Run(Task("Resume", d, g))
    /\ m_connections[d].state = "Connecting"
    /\ conns[g].ok
    /\ m_connections' = [m_connections EXCEPT ![d].state = "Connected"]
    /\ conns' = [conns EXCEPT ![g] = Finished(@)]
    /\ Report(d, "connected")
    /\ UNCHANGED <<m_nextGeneration, lookups, requests, exit, ghosts>>

(* operator[] instead of find: an entry taken out meanwhile is inserted again. *)
ResumeConnectedReinserts(d, g) ==
    /\ Run(Task("Resume", d, g))
    /\ m_connections[d] \in {NoEntry, Entry(g, "Connecting")}
    /\ conns[g].ok
    /\ m_connections' = [m_connections EXCEPT ![d] = Entry(g, "Connected")]
    /\ conns' = [conns EXCEPT ![g] = Finished(@)]
    /\ Report(d, "connected")
    /\ UNCHANGED <<m_nextGeneration, lookups, requests, exit, ghosts>>

(* Closed while opening, and nobody is told. *)
ResumeClosedSilently(d, g) ==
    /\ Run(Task("Resume", d, g))
    /\ m_connections[d] = Entry(g, "Disconnecting")
    /\ m_connections' = TakeOut(d)
    /\ conns' = [conns EXCEPT ![g] = Finished(Closed(@))]
    /\ UNCHANGED <<m_nextGeneration, shown, lookups, requests, exit, ghosts>>

(* The entry is taken out and its object not closed. *)
DisconnectWithoutClose(d) ==
    /\ Run(Task("Disconnect", d, 0))
    /\ m_connections' = TakeOut(d)
    /\ Report(d, "closed")
    /\ UNCHANGED <<m_nextGeneration, conns, lookups, requests, exit, ghosts>>

(* A "closed" that arrives while opening is forgotten. *)
StateChangedForgotten(d, g) ==
    /\ Run(Task("StateChanged", d, g))
    /\ m_connections[d] = Entry(g, "Connecting")
    /\ UNCHANGED <<table, shown, lookups, requests, exit, ghosts>>

(* The destructor does not wait for the queue to drain. *)
DestroyedUndrained ==
    /\ exit = "stopping"
    /\ exit' = "destroyed"
    /\ UNCHANGED <<table, queue, shown, lookups, requests, ghosts>>

-----------------------------------------------------------------------------
(* Requests, from the UI thread. *)

Request == /\ exit = "running"
           /\ requests < MaxRequests
           /\ requests' = requests + 1

Connect(d) ==
    /\ Request
    /\ Post(Task("Connect", d, 0))
    /\ UNCHANGED <<table, shown, lookups, exit, late>>

Disconnect(d) ==
    /\ Request
    /\ Post(Task("Disconnect", d, 0))
    /\ UNCHANGED <<table, shown, lookups, exit, late>>

(* One lookup per device at a time: the caller's list holds a device once. *)
ConnectById(d) ==
    /\ Request
    /\ d \notin lookups
    /\ lookups' = lookups \cup {d}
    /\ UNCHANGED <<table, queue, shown, exit, ghosts>>

(* CreateFromIdAsync completes on a pool thread, wherever the UI thread is
   by then.                                                                *)
LookupSucceeds(d) ==
    /\ d \in lookups
    /\ lookups' = lookups \ {d}
    /\ Post(Task("Connect", d, 0))
    /\ late' = (late \/ exit # "running")
    /\ UNCHANGED <<table, shown, requests, exit>>

LookupFails(d) ==
    /\ d \in lookups
    /\ lookups' = lookups \ {d}
    /\ UNCHANGED <<table, queue, shown, requests, exit, ghosts>>

-----------------------------------------------------------------------------
(* ConnectImpl, first part, on the executor: Connecting is reported first,
   whatever comes of it.  YieldTo is a no-op on the executor, so a coroutine
   that never suspended finishes in the same task.                         *)

RunConnect(d) == Run(Task("Connect", d, 0))

(* Create returns null or throws: nothing was inserted. *)
CreateFails(d) ==
    /\ RunConnect(d)
    /\ Report(d, "failed")
    /\ UNCHANGED <<table, lookups, requests, exit, ghosts>>

(* RegisterStateChanged throws: the old entry is gone, the new one never
   came, the generation is used up.                                        *)
RegisterFails(d) ==
    /\ RunConnect(d)
    /\ m_nextGeneration' = m_nextGeneration + 1
    /\ conns' = Replaced(d, [NewConn(d, "finished") EXCEPT !.fate = "dropped", !.link = "dead"])
    /\ m_connections' = TakeOut(d)
    /\ Report(d, "failed")
    /\ UNCHANGED <<lookups, requests, exit, ghosts>>

(* Start does not complete at once, or Start does and Open does not. *)
ConnectSuspends(d) ==
    /\ RunConnect(d)
    /\ m_nextGeneration' = m_nextGeneration + 1
    /\ \E phase \in {"start", "open"} : conns' = Replaced(d, NewConn(d, phase))
    /\ m_connections' = [m_connections EXCEPT ![d] = Entry(m_nextGeneration + 1, "Connecting")]
    /\ Report(d, "connecting")
    /\ UNCHANGED <<lookups, requests, exit, ghosts>>

(* Start and Open complete at once, with success. *)
ConnectSucceeds(d) ==
    /\ RunConnect(d)
    /\ m_nextGeneration' = m_nextGeneration + 1
    /\ conns' = Replaced(d, [Up(NewConn(d, "finished")) EXCEPT !.ok = TRUE])
    /\ m_connections' = [m_connections EXCEPT ![d] = Entry(m_nextGeneration + 1, "Connected")]
    /\ Report(d, "connected")
    /\ UNCHANGED <<lookups, requests, exit, ghosts>>

(* Start or Open fails or throws at once. *)
ConnectFails(d) ==
    /\ RunConnect(d)
    /\ m_nextGeneration' = m_nextGeneration + 1
    /\ conns' = Replaced(d, Closed(NewConn(d, "finished")))
    /\ m_connections' = TakeOut(d)
    /\ Report(d, "failed")
    /\ UNCHANGED <<lookups, requests, exit, ghosts>>

-----------------------------------------------------------------------------
(* ConnectImpl between its suspensions, on pool threads. *)

Phase(g, phase) == conns' = [conns EXCEPT ![g].phase = phase]

(* The thread that completes Start calls Open: on the object as it is by
   then, which DetachAbi may have emptied.                                 *)
StartSucceeds(g) ==
    /\ conns[g].phase = "start"
    /\ Phase(g, IF conns[g].fate = "detached" THEN "crashed" ELSE "open")
    /\ UNCHANGED <<m_connections, m_nextGeneration, queue, shown, lookups, requests, exit, ghosts>>

StartFails(g) ==
    /\ conns[g].phase = "start"
    /\ conns' = [conns EXCEPT ![g] = Hopping(@)]
    /\ UNCHANGED <<m_connections, m_nextGeneration, queue, shown, lookups, requests, exit, ghosts>>

(* A closed object does not open. *)
OpenSucceeds(g) ==
    /\ conns[g].phase = "open"
    /\ conns[g].link # "dead"
    /\ conns' = [conns EXCEPT ![g] = [Hopping(Up(@)) EXCEPT !.ok = TRUE]]
    /\ UNCHANGED <<m_connections, m_nextGeneration, queue, shown, lookups, requests, exit, ghosts>>

(* Timed out, denied, failed or thrown. *)
OpenFails(g) ==
    /\ conns[g].phase = "open"
    /\ conns' = [conns EXCEPT ![g] = Hopping(@)]
    /\ UNCHANGED <<m_connections, m_nextGeneration, queue, shown, lookups, requests, exit, ghosts>>

(* YieldTo: the rest is posted; refused, the coroutine never resumes. *)
YieldTo(g) ==
    /\ conns[g].phase = "hop"
    /\ Post(Task("Resume", conns[g].dev, g))
    /\ Phase(g, IF Accepting THEN "posted" ELSE "leaked")
    /\ UNCHANGED <<m_connections, m_nextGeneration, shown, lookups, requests, exit, late>>

-----------------------------------------------------------------------------
(* ConnectImpl, last part, back on the executor.  The entry of d may have been
   replaced or removed meanwhile, or marked as closed by the remote side.  *)

RunResume(d, g) == /\ Run(Task("Resume", d, g))
                   /\ UNCHANGED <<m_nextGeneration, lookups, requests, exit, ghosts>>

ResumeConnected(d, g) ==
    /\ RunResume(d, g)
    /\ m_connections[d] = Entry(g, "Connecting")
    /\ conns[g].ok
    /\ m_connections' = [m_connections EXCEPT ![d].state = "Connected"]
    /\ conns' = [conns EXCEPT ![g] = Finished(@)]
    /\ Report(d, "connected")

ResumeFailed(d, g) ==
    /\ RunResume(d, g)
    /\ m_connections[d] = Entry(g, "Connecting")
    /\ ~conns[g].ok
    /\ m_connections' = TakeOut(d)
    /\ conns' = [conns EXCEPT ![g] = Finished(Closed(@))]
    /\ Report(d, "failed")

ResumeClosed(d, g) ==
    /\ RunResume(d, g)
    /\ m_connections[d] = Entry(g, "Disconnecting")
    /\ m_connections' = TakeOut(d)
    /\ conns' = [conns EXCEPT ![g] = Finished(Closed(@))]
    /\ Report(d, "closed")

ResumeDiscarded(d, g) ==
    /\ RunResume(d, g)
    /\ m_connections[d].gen # g
    /\ conns' = [conns EXCEPT ![g] = Finished(@)]
    /\ UNCHANGED <<m_connections, shown>>

-----------------------------------------------------------------------------
(* DisconnectImpl *)

DisconnectImpl(d) ==
    /\ Run(Task("Disconnect", d, 0))
    /\ conns' = [g \in Generations |->
                    IF m_connections[d].gen = g THEN Closed(conns[g]) ELSE conns[g]]
    /\ m_connections' = TakeOut(d)
    /\ Report(d, "closed")
    /\ UNCHANGED <<m_nextGeneration, lookups, requests, exit, ghosts>>

-----------------------------------------------------------------------------
(* The platform: links and their notifications. *)

(* The remote side connects to an object that accepts, or comes back. *)
LinkUp(g) ==
    /\ exit # "destroyed"
    /\ conns[g].link = "down"
    /\ conns[g].ups < MaxUps
    /\ conns' = [conns EXCEPT ![g] = [Up(conns[g]) EXCEPT !.ups = @ + 1]]
    /\ UNCHANGED <<m_connections, m_nextGeneration, queue, shown, lookups, requests, exit, ghosts>>

LinkDown(g) ==
    /\ exit # "destroyed"
    /\ conns[g].link = "up"
    /\ conns' = [conns EXCEPT ![g].link = "down", ![g].cb = @ + 1]
    /\ UNCHANGED <<m_connections, m_nextGeneration, queue, shown, lookups, requests, exit, ghosts>>

(* The StateChanged handler reads State() when it runs, not as it was when
   the notification arose, and only posts.  OnStateChanged returns at once
   unless the state was "closed": such a task is not queued here.          *)
StateCallback(g) ==
    /\ conns[g].cb > 0
    /\ conns' = [conns EXCEPT ![g].cb = @ - 1]
    /\ IF conns[g].link = "up"
       THEN usedAfterDestroy' = (usedAfterDestroy \/ exit = "destroyed") /\ UNCHANGED queue
       ELSE Post(Task("StateChanged", conns[g].dev, g))
    /\ UNCHANGED <<m_connections, m_nextGeneration, shown, lookups, requests, exit, late>>

(* OnStateChanged for "closed", on the executor. *)
RunStateChanged(d, g) ==
    /\ Run(Task("StateChanged", d, g))
    /\ UNCHANGED <<m_nextGeneration, lookups, requests, exit, ghosts>>

(* The notification of an object that is not in the table any more. *)
StateChangedIgnored(d, g) ==
    /\ RunStateChanged(d, g)
    /\ m_connections[d].gen # g
    /\ UNCHANGED <<m_connections, conns, shown>>

(* Closed while opening: left to ConnectImpl. *)
StateChangedDeferred(d, g) ==
    /\ RunStateChanged(d, g)
    /\ m_connections[d] = Entry(g, "Connecting")
    /\ m_connections' = [m_connections EXCEPT ![d].state = "Disconnecting"]
    /\ UNCHANGED <<conns, shown>>

(* Closed by the remote side: removed, not closed again; a coroutine that
   still awaits Start or Open keeps the object alive.                      *)
StateChangedRemoves(d, g) ==
    /\ RunStateChanged(d, g)
    /\ m_connections[d] \in {Entry(g, "Connected"), Entry(g, "Disconnecting")}
    /\ m_connections' = TakeOut(d)
    /\ conns' = [conns EXCEPT
          ![g].fate = "remote",
          ![g].link = IF conns[g].phase \in {"start", "open"} THEN @ ELSE "dead"]
    /\ Report(d, "closed")

-----------------------------------------------------------------------------
(* The way out: WM_DESTROY calls CloseAll and DetachForProcessExit, and the
   static destructors end the manager.  The two calls post a task and wait for
   it at most 2 s: they return after it, or before.                        *)

Exit(from, to) == /\ exit = from
                  /\ exit' = to
                  /\ UNCHANGED <<table, shown, lookups, requests, late>>

CloseAll == MayExit /\ Exit("running", "closing") /\ Post(Task("CloseAll", "none", 0))

CloseAllReturns == Exit("closing", "closed") /\ UNCHANGED <<queue, usedAfterDestroy>>

DetachForProcessExit ==
    Exit("closed", "detaching") /\ Post(Task("Detach", "none", 0))

DetachReturns == Exit("detaching", "detached") /\ UNCHANGED <<queue, usedAfterDestroy>>

(* ~ConnectionManager stops the executor, which drains, and joins it. *)
Destroy == Exit("detached", "stopping") /\ UNCHANGED <<queue, usedAfterDestroy>>

Destroyed == /\ queue = <<>>
             /\ Exit("stopping", "destroyed")
             /\ UNCHANGED <<queue, usedAfterDestroy>>

CloseAllOnExecutor ==
    /\ Run(Task("CloseAll", "none", 0))
    /\ conns' = [g \in Generations |->
                    IF \E d \in Devices : m_connections[d].gen = g
                    THEN Closed(conns[g]) ELSE conns[g]]
    /\ shown' = [d \in Devices |-> IF m_connections[d] = NoEntry THEN shown[d] ELSE "closed"]
    /\ m_connections' = [d \in Devices |-> NoEntry]
    /\ UNCHANGED <<m_nextGeneration, lookups, requests, exit, ghosts>>

DetachForProcessExitOnExecutor ==
    /\ Run(Task("Detach", "none", 0))
    /\ conns' = [g \in Generations |->
                    IF \E d \in Devices : m_connections[d].gen = g
                    THEN [conns[g] EXCEPT !.fate = "detached"] ELSE conns[g]]
    /\ m_connections' = [d \in Devices |-> NoEntry]
    /\ UNCHANGED <<m_nextGeneration, shown, lookups, requests, exit, ghosts>>

-----------------------------------------------------------------------------
ExecutorStep(d, g) ==
    \/ CreateFails(d) \/ RegisterFails(d) \/ ConnectSuspends(d)
    \/ ConnectSucceeds(d) \/ ConnectFails(d)
    \/ ResumeConnected(d, g) \/ ResumeFailed(d, g)
    \/ ResumeClosed(d, g) \/ ResumeDiscarded(d, g)
    \/ DisconnectImpl(d)
    \/ StateChangedIgnored(d, g) \/ StateChangedDeferred(d, g) \/ StateChangedRemoves(d, g)

(* The executor thread runs the next task; g names the coroutine or the
   notification it serves and means nothing to the other tasks.            *)
Executor == \/ CloseAllOnExecutor \/ DetachForProcessExitOnExecutor
            \/ queue # <<>> /\ \E d \in Devices : ExecutorStep(d, Head(queue).gen)

StartCompletes(g) == StartSucceeds(g) \/ StartFails(g)
OpenCompletes(g) == OpenSucceeds(g) \/ OpenFails(g)
Platform(g) == StartCompletes(g) \/ OpenCompletes(g) \/ YieldTo(g) \/ StateCallback(g)

UiExit == CloseAllReturns \/ DetachForProcessExit \/ DetachReturns \/ Destroy \/ Destroyed

Next ==
    \/ \E d \in Devices : Connect(d) \/ Disconnect(d) \/ ConnectById(d)
                          \/ LookupSucceeds(d) \/ LookupFails(d)
    \/ Executor
    \/ \E g \in Generations : Platform(g) \/ LinkUp(g) \/ LinkDown(g)
    \/ CloseAll
    \/ UiExit

(* The executor runs its tasks, every StartAsync and OpenAsync completes (the
   platform times them out), notifications are delivered and an exit that has
   begun goes on.  Nobody has to request anything, no lookup and no link has to
   change.  Generations never exceed requests.                             *)
Fairness ==
    /\ WF_vars(Executor)
    /\ WF_vars(UiExit)
    /\ \A g \in 1..MaxRequests :
          /\ WF_vars(g \in Generations /\ (StartCompletes(g) \/ OpenCompletes(g) \/ YieldTo(g)))
          /\ WF_vars(g \in Generations /\ StateCallback(g))

Safety == Init /\ [][Next]_vars
Spec == Safety /\ Fairness

-----------------------------------------------------------------------------
(* Ownership: an object is in the table under its own device and generation,
   or out of it for good; it has been closed once if we closed it, and never
   if the remote side did, so that no connection is leaked or closed twice.  *)
Ownership ==
    /\ \A d \in Devices : m_connections[d] # NoEntry =>
          /\ m_connections[d].gen \in Generations
          /\ conns[m_connections[d].gen].dev = d
          /\ conns[m_connections[d].gen].fate = "tracked"
    /\ \A g \in Generations :
          /\ conns[g].fate = "tracked" => m_connections[conns[g].dev].gen = g
          /\ conns[g].closes = IF conns[g].fate = "closed" THEN 1 ELSE 0

(* The state of an entry is that of its coroutine: Connecting and
   Disconnecting entries have one that will come back for them, Connected ones
   have one that ended with a successful Open.                             *)
EntryMatchesCoroutine ==
    \A d \in Devices : LET e == m_connections[d] IN
        /\ e.state \in {"Connecting", "Disconnecting"}
              => conns[e.gen].phase # "finished"
        /\ e.state = "Connected" => conns[e.gen].phase = "finished" /\ conns[e.gen].ok

(* A coroutine is resumed once: exactly one task of the queue resumes a posted
   one, and none any other.                                                *)
Resumes(g) == {i \in 1..Len(queue) : queue[i].op = "Resume" /\ queue[i].gen = g}

ResumedOnce ==
    \A g \in Generations : Cardinality(Resumes(g)) = IF conns[g].phase = "posted" THEN 1 ELSE 0

(* What the user was last told is what the table says, until DetachForProcess-
   Exit empties it without a word.  Only a "failed" may hide an entry: Create
   failed for a new Connect, and the older entry stays as it was.          *)
Told == [Connecting |-> {"connecting", "failed"},
         Disconnecting |-> {"connecting", "failed"},
         Connected |-> {"connected", "failed"}]

ReportMatchesTable ==
    \A d \in Devices :
        /\ m_connections[d] # NoEntry => shown[d] \in Told[m_connections[d].state]
        /\ m_connections[d] = NoEntry /\ shown[d] \in {"connecting", "connected"}
              => \E g \in Generations : conns[g].dev = d /\ conns[g].fate = "detached"

(* No zombie: when the link of a Connected entry is down, word of it is under
   way, as a notification or as a task, however often the link came back.  *)
ClosedTasks(d, g) ==
    {i \in 1..Len(queue) : queue[i] = Task("StateChanged", d, g)}

LossIsKnown ==
    \A d \in Devices : LET g == m_connections[d].gen IN
        Accepting /\ m_connections[d].state = "Connected" /\ conns[g].link = "down"
            => conns[g].cb > 0 \/ ClosedTasks(d, g) # {}

(* The exit leaves nothing behind: unless a lookup posts its Connect after the
   exit began, every connection was closed by us or by the remote side before
   the manager is destroyed, whichever of the two waits timed out and wherever
   its ConnectImpl was; DetachForProcessExit finds nothing to leak.        *)
CleanExit ==
    exit = "destroyed" /\ ~late
        => \A g \in Generations : conns[g].fate \in {"closed", "remote", "dropped"}

(* A generation that has left the table never comes back, and the table only
   ever moves to younger ones.                                             *)
GenerationsOnlyGrow ==
    [][\A d \in Devices : m_connections'[d].gen > 0 /\ m_connections'[d].gen # m_connections[d].gen
          => m_connections'[d].gen > m_nextGeneration]_vars

(* The manager implements the table of DeviceTable: whatever the interleaving
   of attempts, notifications and the exit, a device moves and the status
   handler is told of it in the same task, and nothing leaves the table in
   silence before the exit.                                                *)
Place == [None |-> "none", Connecting |-> "connecting",
          Disconnecting |-> "connecting", Connected |-> "connected"]

Table == INSTANCE DeviceTable WITH
             tracked <- [d \in Devices |-> Place[m_connections[d].state]],
             ending <- exit # "running"

ImplementsDeviceTable == Table!Spec

(* Every ConnectImpl that suspends comes to its end while the process lives:
   no completion, hop or resumption is lost.                               *)
Attempt(g, phases) == g \in Generations /\ conns[g].phase \in phases

AttemptsEnd ==
    \A g \in 1..MaxRequests :
        Attempt(g, InFlight) ~> Attempt(g, {"finished"}) \/ ~Accepting

(* The user is not left with a spinner: "connecting" is followed by another
   word.                                                                   *)
ConnectingEnds ==
    \A d \in Devices : shown[d] = "connecting" ~> (shown[d] # "connecting" \/ ~Accepting)

(* A connection lost to the remote side leaves the table, or comes back. *)
Lost(g) == /\ Attempt(g, {"finished"})
           /\ conns[g].fate = "tracked"
           /\ conns[g].link = "down"

LossIsNoticed == \A g \in 1..MaxRequests : Lost(g) ~> ~Lost(g) \/ ~Accepting

(* After the destructor nobody refers to the manager any more (cpp:69-70). *)
NoUseAfterDestroy == ~usedAfterDestroy
=============================================================================
