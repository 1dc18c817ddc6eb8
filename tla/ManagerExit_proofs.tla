------------------------- MODULE ManagerExit_proofs -------------------------
(***************************************************************************)
(* What ConnectionManager owes its caller: that it implements DeviceTable, *)
(* and that an exit leaves no connection behind.  Both rest on the order of *)
(* the tasks of the exit in the queue.                                     *)
(***************************************************************************)
EXTENDS ConnectionManager_proofs

-----------------------------------------------------------------------------
(* The queue of an exit.  While nobody has ended the process its two tasks
   are not queued.                                                         *)
ExitTasks == {"CloseAll", "Detach"}

NoExitTask == \A i \in 1..Len(queue) : queue[i].op \notin ExitTasks

NotYet == exit = "running" => NoExitTask

(* How a step changes the queue: not, by taking the head, or by appending. *)
LEMMA QueueMoves ==
    ASSUME TypeOK, [Next]_vars
    PROVE  \/ queue' = queue
           \/ queue # <<>> /\ queue' = Tail(queue)
           \/ \E t \in Tasks : /\ queue' = Append(queue, t)
                               /\ t.op = "CloseAll" => exit = "running" /\ exit' # "running"
                               /\ t.op = "Detach" => exit # "running"
                               /\ t.op = "Connect" => exit = "running" \/ late'
  <1>1. ASSUME NEW op \in Ops, NEW d \in Devices \cup {"none"}, NEW g \in Nat
        PROVE  Task(op, d, g) \in Tasks /\ Task(op, d, g).op = op
    BY TaskType DEF Task
  <1>2. CASE Executor
    BY <1>2, Zenon DEF Executor, CloseAllOnExecutor, DetachForProcessExitOnExecutor, ExecutorStep,
       CreateFails, RegisterFails, ConnectSuspends, ConnectSucceeds, ConnectFails, RunConnect,
       ResumeConnected, ResumeFailed, ResumeClosed, ResumeDiscarded, RunResume, DisconnectImpl,
       StateChangedIgnored, StateChangedDeferred, StateChangedRemoves, RunStateChanged, Run
  <1>3. ASSUME NEW d \in Devices, Connect(d) \/ Disconnect(d) \/ ConnectById(d)
                                  \/ LookupSucceeds(d) \/ LookupFails(d)
        PROVE  \/ queue' = queue
               \/ \E t \in Tasks : /\ queue' = Append(queue, t)
                                   /\ t.op \notin ExitTasks
                                   /\ t.op = "Connect" => exit = "running" \/ late'
    <2>1. \A op \in {"Connect", "Disconnect"} : Task(op, d, 0) \in Tasks /\ Task(op, d, 0).op = op
      BY <1>1 DEF Ops
    <2>. QED
      BY <1>3, <2>1 DEF Connect, Disconnect, ConnectById, LookupSucceeds, LookupFails, Request,
                        Post, ExitTasks
  <1>4. ASSUME NEW g \in Generations, Platform(g) \/ LinkUp(g) \/ LinkDown(g)
        PROVE  \/ queue' = queue
               \/ \E t \in Tasks : /\ queue' = Append(queue, t)
                                   /\ t.op \notin ExitTasks \cup {"Connect"}
    <2>1. conns[g].dev \in Devices /\ g \in Nat
      BY DEF TypeOK, Conn, Generations
    <2>2. \A op \in {"Resume", "StateChanged"} :
             Task(op, conns[g].dev, g) \in Tasks /\ Task(op, conns[g].dev, g).op = op
      BY <1>1, <2>1 DEF Ops
    <2>. QED
      BY <1>4, <2>2 DEF Platform, LinkUp, LinkDown, StartCompletes, OpenCompletes, StartSucceeds,
         StartFails, OpenSucceeds, OpenFails, YieldTo, StateCallback, Post, ExitTasks
  <1>5. CASE CloseAll \/ UiExit
    <2>1. \A op \in ExitTasks : Task(op, "none", 0) \in Tasks /\ Task(op, "none", 0).op = op
      BY <1>1 DEF Ops, ExitTasks
    <2>. QED
      BY <1>5, <2>1 DEF CloseAll, UiExit, CloseAllReturns, DetachForProcessExit, DetachReturns,
         Destroy, Destroyed, Exit, Post, ExitTasks
  <1>6. CASE UNCHANGED vars
    BY <1>6 DEF vars
  <1>. QED
    BY <1>2, <1>3, <1>4, <1>5, <1>6 DEF Next, ExitTasks

(* The tasks of the queue after such a step are those before it, moved up by
   one place if the head was taken, and perhaps a new last one.            *)
LEMMA TailMoves ==
    ASSUME TypeOK, queue # <<>>, queue' = Tail(queue)
    PROVE  /\ Len(queue') = Len(queue) - 1
           /\ \A i \in 1..Len(queue') : i + 1 \in 1..Len(queue) /\ queue'[i] = queue[i + 1]
           /\ 1 \in 1..Len(queue) /\ Head(queue) = queue[1]
  BY HeadTailProperties DEF TypeOK

LEMMA AppendMoves ==
    ASSUME TypeOK, NEW t \in Tasks, queue' = Append(queue, t)
    PROVE  /\ Len(queue') = Len(queue) + 1
           /\ \A i \in 1..Len(queue) : i \in 1..Len(queue') /\ queue'[i] = queue[i]
           /\ \A i \in 1..Len(queue') : \/ i \in 1..Len(queue)
                                        \/ i = Len(queue) + 1 /\ queue'[i] = t
  BY AppendProperties DEF TypeOK

(* Only CloseAll ends the running phase, and nothing leads back to it. *)
LEMMA ExitBegins ==
    ASSUME [Next]_vars
    PROVE  \/ exit' = exit
           \/ exit' # "running" /\ (exit = "running" => CloseAll)
  <1>1. CASE CloseAll \/ UiExit
    BY <1>1 DEF CloseAll, UiExit, CloseAllReturns, DetachForProcessExit, DetachReturns, Destroy,
       Destroyed, Exit
  <1>2. CASE Executor
    BY <1>2, Zenon DEF Executor, CloseAllOnExecutor, DetachForProcessExitOnExecutor, ExecutorStep,
       CreateFails, RegisterFails, ConnectSuspends, ConnectSucceeds, ConnectFails, RunConnect,
       ResumeConnected, ResumeFailed, ResumeClosed, ResumeDiscarded, RunResume, DisconnectImpl,
       StateChangedIgnored, StateChangedDeferred, StateChangedRemoves, RunStateChanged
  <1>3. CASE \E d \in Devices : Connect(d) \/ Disconnect(d) \/ ConnectById(d)
                                \/ LookupSucceeds(d) \/ LookupFails(d)
    BY <1>3 DEF Connect, Disconnect, ConnectById, LookupSucceeds, LookupFails
  <1>4. CASE \E g \in Generations : Platform(g) \/ LinkUp(g) \/ LinkDown(g)
    BY <1>4 DEF Platform, LinkUp, LinkDown, StartCompletes, OpenCompletes, StartSucceeds,
       StartFails, OpenSucceeds, OpenFails, YieldTo, StateCallback
  <1>5. CASE UNCHANGED vars
    BY <1>5 DEF vars
  <1>. QED
    BY <1>1, <1>2, <1>3, <1>4, <1>5 DEF Next

LEMMA RunningBefore ==
    ASSUME [Next]_vars, exit' = "running"
    PROVE  exit = "running"
  BY ExitBegins

LEMMA NotYetStep == TypeOK /\ NotYet /\ [Next]_vars => NotYet'
  <1>. SUFFICES ASSUME TypeOK, NotYet, [Next]_vars, exit' = "running" PROVE NoExitTask'
    BY DEF NotYet
  <1>1. NoExitTask /\ exit = "running"
    BY RunningBefore DEF NotYet
  <1>2. CASE queue' = queue
    BY <1>1, <1>2 DEF NoExitTask
  <1>3. CASE queue # <<>> /\ queue' = Tail(queue)
    BY <1>1, <1>3, TailMoves DEF NoExitTask
  <1>4. ASSUME NEW t \in Tasks, queue' = Append(queue, t), t.op \notin ExitTasks
        PROVE  NoExitTask'
    BY <1>1, <1>4, AppendMoves DEF NoExitTask
  <1>. QED
    BY <1>1, <1>2, <1>3, <1>4, QueueMoves DEF ExitTasks

-----------------------------------------------------------------------------
(* ConnectionManager implements DeviceTable. *)
Bar == [d \in Devices |-> Place[m_connections[d].state]]

LEMMA BarTaken ==
    ASSUME TypeOK, NEW d \in Devices, m_connections' = TakeOut(d)
    PROVE  Bar' = [Bar EXCEPT ![d] = "none"]
  BY DEF TypeOK, TakeOut, NoEntry, Bar, Place

LEMMA BarPut ==
    ASSUME TypeOK, NEW d \in Devices, NEW g, NEW s \in {"Connecting", "Connected"},
           m_connections' = [m_connections EXCEPT ![d] = Entry(g, s)]
    PROVE  Bar' = [Bar EXCEPT ![d] = Place[s]]
  BY DEF TypeOK, Entry, Bar

LEMMA BarMarked ==
    ASSUME TypeOK, NEW d \in Devices, NEW g, NEW s \in {"Disconnecting", "Connected"},
           m_connections[d] = Entry(g, "Connecting"),
           m_connections' = [m_connections EXCEPT ![d].state = s]
    PROVE  Bar' = [Bar EXCEPT ![d] = Place[s]]
  BY DEF TypeOK, Entry, Bar

LEMMA BarStill ==
    ASSUME m_connections' = m_connections
    PROVE  Bar' = Bar
  BY DEF Bar

LEMMA RefinedByTask ==
    ASSUME TypeOK, NEW d \in Devices, NEW g, ExecutorStep(d, g)
    PROVE  [Table!Next]_(Table!vars)
  <1>b. Bar \in [Devices -> {"none", "connecting", "connected"}]
    BY DEF Bar, TypeOK, Place, States, NoEntry
  <1>e. exit' = exit
    BY DEF ExecutorStep, CreateFails, RegisterFails, ConnectSuspends, ConnectSucceeds, ConnectFails,
       RunConnect, ResumeConnected, ResumeFailed, ResumeClosed, ResumeDiscarded, RunResume,
       DisconnectImpl, StateChangedIgnored, StateChangedDeferred, StateChangedRemoves, RunStateChanged
  <1>1. CASE CreateFails(d)
    <2>1. Bar' = Bar
      BY <1>1, BarStill DEF CreateFails, table
    <2>2. Table!Refuse(d)
      BY <1>1, <1>b, <1>e, <2>1 DEF CreateFails, Report, Bar, Table!Refuse, Table!Move
    <2>. QED
      BY <2>2 DEF Table!Next
  <1>2. CASE RegisterFails(d) \/ ConnectFails(d) \/ ResumeFailed(d, g)
    <2>1. Bar' = [Bar EXCEPT ![d] = "none"]
      BY <1>2, BarTaken DEF RegisterFails, ConnectFails, ResumeFailed
    <2>2. Table!Fail(d)
      BY <1>2, <1>e, <2>1 DEF RegisterFails, ConnectFails, ResumeFailed, Report, Bar,
                              Table!Fail, Table!Move
    <2>. QED
      BY <2>2 DEF Table!Next
  <1>3. CASE ConnectSuspends(d)
    <2>1. Bar' = [Bar EXCEPT ![d] = "connecting"]
      BY <1>3, BarPut DEF ConnectSuspends, Place
    <2>2. Table!Begin(d)
      BY <1>3, <1>e, <2>1 DEF ConnectSuspends, Report, Bar, Table!Begin, Table!Move
    <2>. QED
      BY <2>2 DEF Table!Next
  <1>4. CASE ConnectSucceeds(d) \/ ResumeConnected(d, g)
    <2>1. Bar' = [Bar EXCEPT ![d] = "connected"]
      BY <1>4, BarPut, BarMarked DEF ConnectSucceeds, ResumeConnected, Place
    <2>2. Table!Open(d)
      BY <1>4, <1>e, <2>1 DEF ConnectSucceeds, ResumeConnected, Report, Bar, Table!Open, Table!Move
    <2>. QED
      BY <2>2 DEF Table!Next
  <1>5. CASE ResumeClosed(d, g) \/ DisconnectImpl(d) \/ StateChangedRemoves(d, g)
    <2>1. Bar' = [Bar EXCEPT ![d] = "none"]
      BY <1>5, BarTaken DEF ResumeClosed, DisconnectImpl, StateChangedRemoves
    <2>2. Table!Drop(d)
      BY <1>5, <1>e, <2>1 DEF ResumeClosed, DisconnectImpl, StateChangedRemoves, Report, Bar,
                              Table!Drop, Table!Move
    <2>. QED
      BY <2>2 DEF Table!Next
  <1>6. CASE ResumeDiscarded(d, g) \/ StateChangedIgnored(d, g) \/ StateChangedDeferred(d, g)
    <2>1. Bar' = Bar
      <3>1. CASE StateChangedDeferred(d, g)
        <4>1. Bar' = [Bar EXCEPT ![d] = "connecting"] /\ Bar[d] = "connecting"
          BY <3>1, BarMarked DEF StateChangedDeferred, Place, Bar, Entry
        <4>. QED
          BY <1>b, <4>1
      <3>. QED
        BY <1>6, <3>1, BarStill DEF ResumeDiscarded, StateChangedIgnored
    <2>2. shown' = shown
      BY <1>6 DEF ResumeDiscarded, StateChangedIgnored, StateChangedDeferred
    <2>. QED
      BY <1>e, <2>1, <2>2 DEF Table!vars, Bar
  <1>. QED
    BY <1>1, <1>2, <1>3, <1>4, <1>5, <1>6 DEF ExecutorStep

LEMMA RefinedByExit ==
    ASSUME TypeOK, NotYet, CloseAllOnExecutor \/ DetachForProcessExitOnExecutor
    PROVE  [Table!Next]_(Table!vars)
  <1>1. exit # "running"
    <2>1. 1 \in 1..Len(queue) /\ queue[1].op \in ExitTasks
      BY TailMoves DEF CloseAllOnExecutor, DetachForProcessExitOnExecutor, Run, Task, ExitTasks
    <2>. QED
      BY <2>1 DEF NotYet, NoExitTask
  <1>2. exit' = exit /\ Bar' = [d \in Devices |-> "none"]
    BY DEF CloseAllOnExecutor, DetachForProcessExitOnExecutor, Bar, Place, NoEntry
  <1>3. CASE CloseAllOnExecutor
    <2>1. \A d \in Devices : m_connections[d] = NoEntry <=> Bar[d] = "none"
      BY DEF TypeOK, Bar, Place, NoEntry, States
    <2>2. shown' = [d \in Devices |-> IF Bar[d] = "none" THEN shown[d] ELSE "closed"]
      BY <1>3, <2>1 DEF CloseAllOnExecutor
    <2>. QED
      BY <1>1, <1>2, <2>2 DEF Table!Next, Table!CloseAll, Table!Emptied, Bar
  <1>4. CASE DetachForProcessExitOnExecutor
    BY <1>1, <1>2, <1>4 DEF DetachForProcessExitOnExecutor, Table!Next, Table!Detach,
                            Table!Emptied, Bar
  <1>. QED
    BY <1>3, <1>4

LEMMA RefinedElsewhere ==
    ASSUME [Next]_vars, ~Executor
    PROVE  [Table!Next]_(Table!vars)
  <1>1. UNCHANGED <<m_connections, shown>>
    BY DEF Next, vars, table, Connect, Disconnect, ConnectById, LookupSucceeds,
       LookupFails, Platform, StartCompletes, OpenCompletes, StartSucceeds, StartFails,
       OpenSucceeds, OpenFails, YieldTo, StateCallback, LinkUp, LinkDown, CloseAll, UiExit,
       CloseAllReturns, DetachForProcessExit, DetachReturns, Destroy, Destroyed, Exit
  <1>2. Bar' = Bar
    BY <1>1, BarStill
  <1>3. \/ (exit # "running")' = (exit # "running")
        \/ exit = "running" /\ exit' # "running"
    BY RunningBefore
  <1>. QED
    BY <1>1, <1>2, <1>3 DEF Table!Next, Table!End, Table!vars, Bar

(* The manager implements DeviceTable: a device moves in the table and the
   status handler is told of it in one task, whatever interleaves with it,
   and only the tasks of the exit empty the table at a stroke.             *)
THEOREM ManagerRefinement == Safety => ImplementsDeviceTable
  <1>1. Init => Table!Init /\ NotYet
    <2>. SUFFICES ASSUME Init PROVE Table!Init /\ NotYet
      OBVIOUS
    <2>1. Bar = [d \in Devices |-> "none"]
      BY DEF Init, Bar, Place, NoEntry
    <2>. QED
      BY <2>1 DEF Init, Table!Init, NotYet, NoExitTask, Bar
  <1>2. TypeOK /\ NotYet /\ [Next]_vars => [Table!Next]_(Table!vars)
    <2>. SUFFICES ASSUME TypeOK, NotYet, [Next]_vars PROVE [Table!Next]_(Table!vars)
      OBVIOUS
    <2>1. CASE Executor
      BY <2>1, RefinedByTask, RefinedByExit DEF Executor
    <2>. QED
      BY <2>1, RefinedElsewhere
  <1>. QED
    BY <1>1, <1>2, NotYetStep, TypeCorrect, PTL DEF Safety, ImplementsDeviceTable, Table!Spec
-----------------------------------------------------------------------------
(* CleanExit.  As long as no lookup connects late, the tasks of the exit have
   no Connect behind them, and CloseAll is not behind Detach; so Detach meets
   an empty table, and nothing enters the table after CloseAll has emptied it.
   This is the strengthening: the property speaks of the last state only.    *)
Queued(op) == \E i \in 1..Len(queue) : queue[i].op = op

ExitLast ==
    \A i, j \in 1..Len(queue) : i < j /\ queue[i].op \in ExitTasks
        => queue[j].op \notin {"Connect", "CloseAll"}

TableEmpty == \A d \in Devices : m_connections[d] = NoEntry

ClosedOff == exit # "running" /\ ~Queued("CloseAll") => TableEmpty /\ ~Queued("Connect")

NeverDetached == \A g \in Generations : conns[g].fate # "detached"

DrainedAtEnd == exit = "destroyed" => queue = <<>>

ExitInv == ~late => ExitLast /\ ClosedOff /\ NeverDetached

LEMMA ExitLastStep ==
    ASSUME TypeOK, NotYet, ~late', ExitLast, [Next]_vars
    PROVE  ExitLast'
  <1>. SUFFICES ASSUME NEW i \in 1..Len(queue'), NEW j \in 1..Len(queue'),
                       i < j, queue'[i].op \in ExitTasks
                PROVE  queue'[j].op \notin {"Connect", "CloseAll"}
    BY DEF ExitLast
  <1>1. CASE queue' = queue
    BY <1>1 DEF ExitLast
  <1>2. CASE queue # <<>> /\ queue' = Tail(queue)
    <2>1. /\ i + 1 \in 1..Len(queue) /\ queue'[i] = queue[i + 1]
          /\ j + 1 \in 1..Len(queue) /\ queue'[j] = queue[j + 1]
      BY <1>2, TailMoves
    <2>. QED
      BY <2>1 DEF ExitLast
  <1>3. ASSUME NEW t \in Tasks, queue' = Append(queue, t),
               t.op = "CloseAll" => exit = "running",
               t.op = "Connect" => exit = "running"
        PROVE  queue'[j].op \notin {"Connect", "CloseAll"}
    <2>1. Len(queue') = Len(queue) + 1 /\ Len(queue) \in Nat
      BY <1>3, AppendMoves DEF TypeOK
    <2>2. i \in 1..Len(queue) /\ queue'[i] = queue[i]
      BY <1>3, <2>1, AppendMoves
    <2>3. exit # "running"
      BY <2>2 DEF NotYet, NoExitTask
    <2>4. CASE j \in 1..Len(queue)
      BY <1>3, <2>2, <2>4, AppendMoves DEF ExitLast
    <2>5. CASE queue'[j] = t
      BY <1>3, <2>3, <2>5
    <2>. QED
      BY <1>3, <2>4, <2>5, AppendMoves
  <1>. QED
    BY <1>1, <1>2, <1>3, QueueMoves

(* Only the executor takes the head, and the head says what runs. *)
LEMMA HeadRuns ==
    ASSUME TypeOK, [Next]_vars, queue # <<>>, queue' = Tail(queue)
    PROVE  /\ Head(queue).op = "CloseAll" => CloseAllOnExecutor
           /\ DetachForProcessExitOnExecutor => Head(queue).op = "Detach"
  <1>1. Executor
    <2>1. ASSUME NEW t, queue' = Append(queue, t) PROVE FALSE
      BY <2>1, HeadTailProperties, AppendProperties DEF TypeOK
    <2>2. queue' # queue
      BY HeadTailProperties DEF TypeOK
    <2>. QED
      BY <2>1, <2>2 DEF Next, vars, table, Connect, Disconnect, ConnectById, LookupSucceeds,
         LookupFails, Platform, StartCompletes, OpenCompletes, StartSucceeds, StartFails,
         OpenSucceeds, OpenFails, YieldTo, StateCallback, LinkUp, LinkDown, CloseAll, UiExit,
         CloseAllReturns, DetachForProcessExit, DetachReturns, Destroy, Destroyed, Exit, Post
  <1>2. ASSUME NEW d \in Devices, NEW g, ExecutorStep(d, g) PROVE Head(queue).op # "CloseAll"
    BY <1>2 DEF ExecutorStep, CreateFails, RegisterFails, ConnectSuspends, ConnectSucceeds,
       ConnectFails, RunConnect, ResumeConnected, ResumeFailed, ResumeClosed, ResumeDiscarded,
       RunResume, DisconnectImpl, StateChangedIgnored, StateChangedDeferred,
       StateChangedRemoves, RunStateChanged, Run, Task
  <1>3. DetachForProcessExitOnExecutor => Head(queue).op = "Detach"
    BY DEF DetachForProcessExitOnExecutor, Run, Task
  <1>. QED
    BY <1>1, <1>2, <1>3 DEF Executor

(* What is queued after a step was queued before, or is appended now. *)
LEMMA QueuedBefore ==
    ASSUME TypeOK, [Next]_vars, NEW op, Queued(op)'
    PROVE  \/ Queued(op)
           \/ op = "CloseAll" /\ exit = "running"
           \/ op = "Connect" /\ (exit = "running" \/ late')
           \/ op \notin {"CloseAll", "Connect"}
  <1>1. PICK i \in 1..Len(queue') : queue'[i].op = op
    BY DEF Queued
  <1>2. CASE queue' = queue
    BY <1>1, <1>2 DEF Queued
  <1>3. CASE queue # <<>> /\ queue' = Tail(queue)
    BY <1>1, <1>3, TailMoves DEF Queued
  <1>4. ASSUME NEW t \in Tasks, queue' = Append(queue, t)
        PROVE  Queued(op) \/ t.op = op
    BY <1>1, <1>4, AppendMoves DEF Queued
  <1>. QED
    BY <1>2, <1>3, <1>4, QueueMoves

(* An empty table stays empty unless a Connect runs. *)
LEMMA StaysEmpty ==
    ASSUME TypeOK, TableEmpty, ~Queued("Connect"), [Next]_vars
    PROVE  TableEmpty'
  <1>1. ASSUME NEW d \in Devices, RunConnect(d) PROVE FALSE
    <2>1. 1 \in 1..Len(queue) /\ queue[1].op = "Connect"
      BY <1>1, HeadTailProperties DEF RunConnect, Run, Task, TypeOK
    <2>. QED
      BY <2>1 DEF Queued
  <1>2. ASSUME NEW d \in Devices, NEW g, NEW s \in States PROVE m_connections[d] # Entry(g, s)
    BY DEF TableEmpty, NoEntry, Entry, States
  <1>3. \A d \in Devices : TakeOut(d) = m_connections
    BY DEF TakeOut, TableEmpty, TypeOK
  <1>4. ASSUME NEW d \in Devices, NEW g, ExecutorStep(d, g)
        PROVE  TableEmpty'
    <2>1. m_connections' = m_connections
      BY <1>1, <1>2, <1>3, <1>4 DEF ExecutorStep, CreateFails, RegisterFails, ConnectSuspends,
         ConnectSucceeds, ConnectFails, ResumeConnected, ResumeFailed, ResumeClosed,
         ResumeDiscarded, DisconnectImpl, StateChangedIgnored, StateChangedDeferred,
         StateChangedRemoves, States
    <2>. QED
      BY <2>1 DEF TableEmpty
  <1>5. CASE CloseAllOnExecutor \/ DetachForProcessExitOnExecutor
    BY <1>5 DEF CloseAllOnExecutor, DetachForProcessExitOnExecutor, TableEmpty
  <1>6. CASE ~Executor
    <2>1. m_connections' = m_connections
      BY <1>6 DEF Next, vars, table, Connect, Disconnect, ConnectById, LookupSucceeds,
         LookupFails, Platform, StartCompletes, OpenCompletes, StartSucceeds, StartFails,
         OpenSucceeds, OpenFails, YieldTo, StateCallback, LinkUp, LinkDown, CloseAll, UiExit,
         CloseAllReturns, DetachForProcessExit, DetachReturns, Destroy, Destroyed, Exit
    <2>. QED
      BY <2>1 DEF TableEmpty
  <1>. QED
    BY <1>4, <1>5, <1>6 DEF Executor

LEMMA ClosedOffStep ==
    ASSUME TypeOK, NotYet, ~late', ExitLast, ClosedOff, [Next]_vars
    PROVE  ClosedOff'
  <1>. SUFFICES ASSUME exit' # "running", ~Queued("CloseAll")'
                PROVE  TableEmpty' /\ ~Queued("Connect")'
    BY DEF ClosedOff
  <1>1. CASE exit # "running" /\ ~Queued("CloseAll")
    BY <1>1, StaysEmpty, QueuedBefore DEF ClosedOff
  <1>2. CASE exit = "running"
    <2>1. CloseAll
      BY <1>2, QueueMoves, ExitBegins
    <2>2. Queued("CloseAll")'
      <3>1. queue' = Append(queue, Task("CloseAll", "none", 0)) /\ Task("CloseAll", "none", 0) \in Tasks
        BY <1>2, <2>1, TaskType DEF CloseAll, Post, Accepting, Ops
      <3>2. Len(queue) + 1 \in 1..Len(queue') /\ queue'[Len(queue) + 1] = Task("CloseAll", "none", 0)
        BY <3>1, AppendProperties DEF TypeOK
      <3>. QED
        BY <3>2 DEF Queued, Task
    <2>. QED
      BY <2>2
  <1>3. CASE exit # "running" /\ Queued("CloseAll")
    <2>1. PICK i \in 1..Len(queue) : queue[i].op = "CloseAll"
      BY <1>3 DEF Queued
    <2>2. queue # <<>> /\ queue' = Tail(queue)
      <3>1. CASE queue' = queue
        BY <2>1, <3>1 DEF Queued
      <3>2. ASSUME NEW t \in Tasks, queue' = Append(queue, t) PROVE FALSE
        BY <2>1, <3>2, AppendMoves DEF Queued
      <3>. QED
        BY <3>1, <3>2, QueueMoves
    <2>3. i = 1
      <3>1. ASSUME i # 1 PROVE FALSE
        <4>1. i - 1 \in 1..Len(queue')
          BY <2>1, <2>2, <3>1, TailMoves DEF TypeOK
        <4>2. queue'[i - 1] = queue[i]
          BY <2>2, <4>1, TailMoves
        <4>. QED
          BY <2>1, <4>1, <4>2 DEF Queued
      <3>. QED
        BY <3>1
    <2>4. Head(queue).op = "CloseAll"
      BY <2>1, <2>2, <2>3, TailMoves
    <2>5. CloseAllOnExecutor
      BY <2>2, <2>4, HeadRuns
    <2>6. TableEmpty'
      BY <2>5 DEF CloseAllOnExecutor, TableEmpty
    <2>7. ASSUME Queued("Connect")' PROVE FALSE
      <3>1. PICK j \in 1..Len(queue') : queue'[j].op = "Connect"
        BY <2>7 DEF Queued
      <3>2. j + 1 \in 1..Len(queue) /\ queue[j + 1].op = "Connect" /\ 1 < j + 1
        BY <2>2, <3>1, TailMoves
      <3>. QED
        BY <2>1, <2>3, <3>2 DEF ExitLast, ExitTasks
    <2>. QED
      BY <2>6, <2>7
  <1>. QED
    BY <1>1, <1>2, <1>3
(* No step but Detach detaches an object. *)
LEMMA FateStep ==
    ASSUME TypeOK, NeverDetached, [Next]_vars, ~DetachForProcessExitOnExecutor
    PROVE  NeverDetached'
  <1>c. ASSUME NEW g \in Generations PROVE conns[g] \in Conn /\ conns[g].fate # "detached"
    BY DEF TypeOK, NeverDetached
  <1>1. ASSUME NEW d \in Devices, NEW c, c.fate # "detached", conns' = Replaced(d, c),
               m_nextGeneration' = m_nextGeneration + 1
        PROVE  NeverDetached'
    <2>1. ASSUME NEW g \in Generations'
          PROVE  \/ conns'[g] = c
                 \/ g \in Generations /\ conns'[g] \in {conns[g], Closed(conns[g])}
      BY <1>1 DEF Replaced, Generations, TypeOK
    <2>. QED
      BY <1>1, <1>c, <2>1, ClosedFields DEF NeverDetached
  <1>2. ASSUME Generations' = Generations,
               \A g \in Generations : conns'[g].fate \in {conns[g].fate, "closed", "remote"}
        PROVE  NeverDetached'
    BY <1>2, <1>c DEF NeverDetached
  <1>3. ASSUME NEW d \in Devices, NEW g, ExecutorStep(d, g) PROVE NeverDetached'
    <2>1. CASE RegisterFails(d) \/ ConnectSuspends(d) \/ ConnectSucceeds(d) \/ ConnectFails(d)
      <3>1. ASSUME NEW p \in Phases PROVE NewConn(d, p) \in Conn /\ NewConn(d, p).fate = "tracked"
        BY NewConnType DEF NewConn
      <3>2. "start" \in Phases /\ "open" \in Phases /\ "finished" \in Phases
        BY DEF Phases
      <3>3. /\ [NewConn(d, "finished") EXCEPT !.fate = "dropped", !.link = "dead"].fate = "dropped"
            /\ [Up(NewConn(d, "finished")) EXCEPT !.ok = TRUE].fate = "tracked"
            /\ Closed(NewConn(d, "finished")).fate = "closed"
        <4>1. Up(NewConn(d, "finished")) \in Conn /\ Up(NewConn(d, "finished")).fate = "tracked"
          BY <3>1, <3>2, UpType, UpFields
        <4>2. [Up(NewConn(d, "finished")) EXCEPT !.ok = TRUE].fate = "tracked"
          BY <4>1 DEF Conn
        <4>. QED
          BY <3>1, <3>2, <4>2, ClosedFields DEF NewConn
      <3>4. /\ RegisterFails(d) \/ ConnectSucceeds(d) \/ ConnectFails(d) => NeverDetached'
        BY <1>1, <3>3 DEF RegisterFails, ConnectSucceeds, ConnectFails
      <3>5. ConnectSuspends(d) => NeverDetached'
        BY <1>1, <3>1, <3>2 DEF ConnectSuspends
      <3>. QED
        BY <2>1, <3>4, <3>5
    <2>2. CASE ~(RegisterFails(d) \/ ConnectSuspends(d) \/ ConnectSucceeds(d) \/ ConnectFails(d))
      <3>1. Generations' = Generations
        BY <1>3, <2>2 DEF ExecutorStep, CreateFails, ResumeConnected, ResumeFailed, ResumeClosed,
           ResumeDiscarded, RunResume, DisconnectImpl, StateChangedIgnored, StateChangedDeferred,
           StateChangedRemoves, RunStateChanged, table, Generations
      <3>2. ASSUME NEW k \in Generations
            PROVE  /\ Closed(conns[k]).fate = "closed" /\ Finished(conns[k]).fate = conns[k].fate
                   /\ Finished(Closed(conns[k])).fate = "closed"
        BY <1>c, ClosedFields, ClosedType, FinishedFields
      <3>3. CASE CreateFails(d) \/ StateChangedIgnored(d, g) \/ StateChangedDeferred(d, g)
        BY <1>2, <3>1, <3>3 DEF CreateFails, StateChangedIgnored, StateChangedDeferred, table
      <3>4. CASE ResumeConnected(d, g) \/ ResumeDiscarded(d, g)
        <4>1. \A k \in Generations : conns'[k] \in {conns[k], Finished(conns[k])}
          BY <3>4 DEF ResumeConnected, ResumeDiscarded, TypeOK
        <4>. QED
          BY <1>2, <3>1, <3>2, <4>1
      <3>5. CASE ResumeFailed(d, g) \/ ResumeClosed(d, g)
        <4>1. \A k \in Generations : conns'[k] \in {conns[k], Finished(Closed(conns[k]))}
          BY <3>5 DEF ResumeFailed, ResumeClosed, TypeOK
        <4>. QED
          BY <1>2, <3>1, <3>2, <4>1
      <3>6. CASE DisconnectImpl(d)
        <4>1. \A k \in Generations : conns'[k] \in {conns[k], Closed(conns[k])}
          BY <3>6 DEF DisconnectImpl
        <4>. QED
          BY <1>2, <3>1, <3>2, <4>1
      <3>7. CASE StateChangedRemoves(d, g)
        <4>1. \A k \in Generations : conns'[k].fate \in {conns[k].fate, "remote"}
          BY <1>c, <3>7 DEF StateChangedRemoves, TypeOK, Conn
        <4>. QED
          BY <1>2, <3>1, <4>1
      <3>. QED
        BY <1>3, <2>2, <3>3, <3>4, <3>5, <3>6, <3>7 DEF ExecutorStep
    <2>. QED
      BY <2>1, <2>2
  <1>4. CASE CloseAllOnExecutor
    <2>1. Generations' = Generations
      BY <1>4 DEF CloseAllOnExecutor, Generations
    <2>2. \A g \in Generations : conns'[g] \in {conns[g], Closed(conns[g])}
      BY <1>4 DEF CloseAllOnExecutor
    <2>. QED
      BY <1>2, <1>c, <2>1, <2>2, ClosedFields
  <1>5. ASSUME NEW g \in Generations, Platform(g) \/ LinkUp(g) \/ LinkDown(g) PROVE NeverDetached'
    <2>1. Generations' = Generations
      BY <1>5 DEF Platform, LinkUp, LinkDown, StartCompletes, OpenCompletes, StartSucceeds,
         StartFails, OpenSucceeds, OpenFails, YieldTo, StateCallback, Generations
    <2>2. /\ Up(conns[g]).fate = conns[g].fate /\ Up(conns[g]) \in Conn
          /\ Hopping(Up(conns[g])).fate = conns[g].fate /\ Hopping(Up(conns[g])) \in Conn
          /\ Hopping(conns[g]).fate = conns[g].fate
      BY <1>c, UpFields, UpType, HoppingFields, HoppingType
    <2>3. conns'[g].fate = conns[g].fate
      <3>1. CASE OpenSucceeds(g) \/ LinkUp(g)
        <4>1. conns'[g] \in {[Hopping(Up(conns[g])) EXCEPT !.ok = TRUE],
                             [Up(conns[g]) EXCEPT !.ups = @ + 1]}
          BY <3>1 DEF OpenSucceeds, LinkUp, TypeOK
        <4>. QED
          BY <2>2, <4>1 DEF Conn
      <3>2. CASE StartSucceeds(g) \/ YieldTo(g)
        <4>1. PICK phase : conns' = [conns EXCEPT ![g].phase = phase]
          BY <3>2 DEF StartSucceeds, YieldTo, Phase
        <4>. QED
          BY <1>c, <4>1 DEF TypeOK, Conn
      <3>5. CASE StartFails(g) \/ OpenFails(g)
        <4>1. conns'[g] = Hopping(conns[g])
          BY <3>5 DEF StartFails, OpenFails, TypeOK
        <4>. QED
          BY <2>2, <4>1
      <3>3. CASE StateCallback(g)
        <4>1. PICK n : conns' = [conns EXCEPT ![g].cb = n]
          BY <3>3 DEF StateCallback
        <4>. QED
          BY <1>c, <4>1 DEF TypeOK, Conn
      <3>4. CASE LinkDown(g)
        <4>1. PICK n : conns' = [conns EXCEPT ![g].link = "down", ![g].cb = n]
          BY <3>4 DEF LinkDown
        <4>. QED
          BY <1>c, <4>1 DEF TypeOK, Conn
      <3>. QED
        BY <1>5, <3>1, <3>2, <3>3, <3>4, <3>5 DEF Platform, StartCompletes, OpenCompletes
    <2>4. \A k \in Generations \ {g} : conns'[k] = conns[k]
      BY <1>5 DEF Platform, LinkUp, LinkDown, StartCompletes, OpenCompletes, StartSucceeds,
         StartFails, OpenSucceeds, OpenFails, YieldTo, StateCallback, Phase, TypeOK
    <2>. QED
      BY <1>2, <2>1, <2>3, <2>4
  <1>6. CASE UNCHANGED <<conns, m_nextGeneration>>
    BY <1>6, <1>2 DEF Generations
  <1>7. CASE CloseAll \/ UiExit \/ UNCHANGED vars
    BY <1>6, <1>7 DEF vars, table, CloseAll, UiExit, CloseAllReturns, DetachForProcessExit,
       DetachReturns, Destroy, Destroyed, Exit
  <1>8. ASSUME NEW d \in Devices, Connect(d) \/ Disconnect(d) \/ ConnectById(d)
                                  \/ LookupSucceeds(d) \/ LookupFails(d)
        PROVE  NeverDetached'
    BY <1>6, <1>8 DEF table, Connect, Disconnect, ConnectById, LookupSucceeds, LookupFails
  <1>. QED
    BY <1>3, <1>4, <1>5, <1>7, <1>8 DEF Next, Executor

LEMMA NeverDetachedStep ==
    ASSUME TypeOK, NotYet, ExitLast, ClosedOff, NeverDetached, [Next]_vars
    PROVE  NeverDetached'
  <1>1. CASE ~DetachForProcessExitOnExecutor
    BY <1>1, FateStep
  <1>2. CASE DetachForProcessExitOnExecutor
    <2>1. queue # <<>> /\ queue[1].op = "Detach" /\ 1 \in 1..Len(queue)
      BY <1>2, HeadTailProperties DEF DetachForProcessExitOnExecutor, Run, Task, TypeOK
    <2>2. exit # "running"
      BY <2>1 DEF NotYet, NoExitTask, ExitTasks
    <2>3. ~Queued("CloseAll")
      <3>1. ASSUME NEW i \in 1..Len(queue), queue[i].op = "CloseAll" PROVE FALSE
        <4>1. i # 1
          BY <2>1, <3>1
        <4>. QED
          BY <2>1, <3>1, <4>1 DEF ExitLast, ExitTasks
      <3>. QED
        BY <3>1 DEF Queued
    <2>4. TableEmpty
      BY <2>2, <2>3 DEF ClosedOff
    <2>5. \A g \in Generations : ~\E d \in Devices : m_connections[d].gen = g
      BY <2>4 DEF TableEmpty, NoEntry, Generations
    <2>6. Generations' = Generations /\ \A g \in Generations : conns'[g] = conns[g]
      BY <1>2, <2>5 DEF DetachForProcessExitOnExecutor, Generations
    <2>. QED
      BY <2>6 DEF NeverDetached
  <1>. QED
    BY <1>1, <1>2

LEMMA DrainedStep ==
    ASSUME DrainedAtEnd, [Next]_vars
    PROVE  DrainedAtEnd'
  <1>1. CASE Destroyed
    BY <1>1 DEF Destroyed, DrainedAtEnd
  <1>2. CASE ~Destroyed
    <2>1. exit' = "destroyed" => exit = "destroyed"
      <3>1. CASE CloseAll \/ UiExit
        BY <1>2, <3>1 DEF CloseAll, UiExit, CloseAllReturns, DetachForProcessExit, DetachReturns,
           Destroy, Exit
      <3>2. CASE Executor \/ UNCHANGED vars
        BY <3>2, Zenon DEF vars, Executor, CloseAllOnExecutor, DetachForProcessExitOnExecutor, ExecutorStep,
           CreateFails, RegisterFails, ConnectSuspends, ConnectSucceeds, ConnectFails,
           RunConnect, ResumeConnected, ResumeFailed, ResumeClosed, ResumeDiscarded, RunResume,
           DisconnectImpl, StateChangedIgnored, StateChangedDeferred, StateChangedRemoves,
           RunStateChanged
      <3>3. CASE \E d \in Devices : Connect(d) \/ Disconnect(d) \/ ConnectById(d)
                                    \/ LookupSucceeds(d) \/ LookupFails(d)
        BY <3>3 DEF Connect, Disconnect, ConnectById, LookupSucceeds, LookupFails
      <3>4. CASE \E g \in Generations : Platform(g) \/ LinkUp(g) \/ LinkDown(g)
        BY <3>4 DEF Platform, LinkUp, LinkDown, StartCompletes, OpenCompletes, StartSucceeds,
           StartFails, OpenSucceeds, OpenFails, YieldTo, StateCallback
      <3>. QED
        BY <3>1, <3>2, <3>3, <3>4 DEF Next
    <2>2. ASSUME exit = "destroyed", queue = <<>> PROVE queue' = queue
      BY <2>2 DEF Next, vars, CloseAll, UiExit, CloseAllReturns, DetachForProcessExit,
         DetachReturns, Destroy, Destroyed, Exit, Executor, CloseAllOnExecutor,
         DetachForProcessExitOnExecutor, Run, Connect, Disconnect, ConnectById, Request,
         LookupSucceeds, LookupFails, Platform, LinkUp, LinkDown, StartCompletes, OpenCompletes,
         StartSucceeds, StartFails, OpenSucceeds, OpenFails, YieldTo, StateCallback, Post, Accepting
    <2>. QED
      BY <2>1, <2>2 DEF DrainedAtEnd
  <1>. QED
    BY <1>1, <1>2

LEMMA LateStays == ASSUME TypeOK, [Next]_vars, late PROVE late'
  BY Zenon DEF Next, vars, ghosts, Executor, CloseAllOnExecutor, DetachForProcessExitOnExecutor, ExecutorStep,
     CreateFails, RegisterFails, ConnectSuspends, ConnectSucceeds, ConnectFails, RunConnect,
     ResumeConnected, ResumeFailed, ResumeClosed, ResumeDiscarded, RunResume, DisconnectImpl,
     StateChangedIgnored, StateChangedDeferred, StateChangedRemoves, RunStateChanged,
     Connect, Disconnect, ConnectById, LookupSucceeds, LookupFails,
     Platform, LinkUp, LinkDown, StartCompletes, OpenCompletes, StartSucceeds,
     StartFails, OpenSucceeds, OpenFails, YieldTo, StateCallback,
     CloseAll, UiExit, CloseAllReturns, DetachForProcessExit, DetachReturns, Destroy, Destroyed, Exit

(* The exit's inductive invariant. *)
ExitIInv == NotYet /\ ExitInv /\ DrainedAtEnd

LEMMA ExitInvariance == Safety => []ExitIInv
  <1>1. Init => ExitIInv
    BY DEF Init, ExitIInv, NotYet, NoExitTask, ExitInv, ExitLast, ClosedOff, NeverDetached,
           DrainedAtEnd, Generations
  <1>2. TypeOK /\ ExitIInv /\ [Next]_vars => ExitIInv'
    BY NotYetStep, ExitLastStep, ClosedOffStep, NeverDetachedStep, DrainedStep, LateStays
       DEF ExitIInv, ExitInv
  <1>. QED
    BY <1>1, <1>2, TypeCorrect, PTL DEF Safety

(* CleanExit: unless a lookup connects late, every connection ever made has
   been closed, or was lost, when the manager is destroyed, whichever of the
   bounded waits timed out and however far the attempts had come.          *)
THEOREM CleanlyExited == Safety => []CleanExit
  <1>1. IInv /\ ExitIInv => CleanExit
    <2>. SUFFICES ASSUME IInv, ExitIInv, exit = "destroyed", ~late, NEW g \in Generations
                  PROVE  conns[g].fate \in {"closed", "remote", "dropped"}
      BY DEF CleanExit
    <2>1. queue = <<>> /\ ~Queued("CloseAll")
      BY DEF ExitIInv, DrainedAtEnd, Queued
    <2>2. TableEmpty /\ conns[g].fate # "detached"
      BY <2>1 DEF ExitIInv, ExitInv, ClosedOff, NeverDetached
    <2>3. conns[g] \in Conn /\ conns[g].dev \in Devices
      BY DEF IInv, TypeOK, Conn
    <2>4. conns[g].fate # "tracked"
      BY <2>2, <2>3, Implied DEF Ownership, TableEmpty, NoEntry, Generations
    <2>. QED
      BY <2>2, <2>3, <2>4 DEF Conn, Fates
  <1>. QED
    BY <1>1, Invariance, ExitInvariance, PTL
=============================================================================
