---------------------- MODULE ConnectionManager_proofs ----------------------
(***************************************************************************)
(* Theorems about ConnectionManager for any devices and any number of      *)
(* requests, with their proofs.  They hold of Safety, hence of Spec.       *)
(***************************************************************************)
EXTENDS ConnectionManager, SequenceTheorems, TLAPS

-----------------------------------------------------------------------------
(* The operators on connection objects keep their type and what they do not
   name.                                                                   *)

LEMMA NewConnType ==
    ASSUME NEW d \in Devices, NEW p \in Phases
    PROVE  NewConn(d, p) \in Conn
  BY DEF NewConn, Conn, Fates, Links

LEMMA ClosedType == ASSUME NEW c \in Conn PROVE Closed(c) \in Conn
  <1>1. c.closes + 1 \in Nat /\ c.cb + 1 \in Nat
    BY DEF Conn
  <1>2. CASE c.link = "up"
    BY <1>1, <1>2 DEF Closed, Conn, Fates, Links
  <1>3. CASE c.link # "up"
    BY <1>1, <1>3 DEF Closed, Conn, Fates, Links
  <1>. QED
    BY <1>2, <1>3

LEMMA FinishedType == ASSUME NEW c \in Conn PROVE Finished(c) \in Conn
  BY DEF Finished, Conn, Phases

LEMMA HoppingType == ASSUME NEW c \in Conn PROVE Hopping(c) \in Conn
  BY DEF Hopping, Conn, Phases, Links

LEMMA UpType == ASSUME NEW c \in Conn PROVE Up(c) \in Conn
  <1>1. c.cb + 1 \in Nat
    BY DEF Conn
  <1>. QED
    BY <1>1 DEF Up, Conn, Links

(* Creating an object adds one generation. *)
LEMMA ReplacedType ==
    ASSUME TypeOK, NEW d \in Devices, NEW c \in Conn
    PROVE  Replaced(d, c) \in [1..(m_nextGeneration + 1) -> Conn]
  <1>1. ASSUME NEW g \in 1..(m_nextGeneration + 1), ~(g > m_nextGeneration)
        PROVE  conns[g] \in Conn /\ Closed(conns[g]) \in Conn
    BY <1>1, ClosedType DEF TypeOK, Generations
  <1>. QED
    BY <1>1 DEF Replaced

(* Posting appends a task or drops it. *)
LEMMA PostType ==
    ASSUME TypeOK, NEW t \in Tasks, Post(t)
    PROVE  queue' \in Seq(Tasks) /\ usedAfterDestroy' \in BOOLEAN
  BY AppendProperties DEF TypeOK, Post

(* Running a task removes it. *)
LEMMA RunType ==
    ASSUME TypeOK, NEW t, Run(t)
    PROVE  queue' \in Seq(Tasks)
  BY HeadTailProperties DEF TypeOK, Run

LEMMA TaskType ==
    ASSUME NEW op \in Ops, NEW d \in Devices \cup {"none"}, NEW g \in Nat
    PROVE  Task(op, d, g) \in Tasks
  BY DEF Task, Tasks

-----------------------------------------------------------------------------
(* Every step keeps the types: requests, ... *)
LEMMA RequestType ==
    ASSUME TypeOK, NEW d \in Devices,
           Connect(d) \/ Disconnect(d) \/ ConnectById(d) \/ LookupSucceeds(d) \/ LookupFails(d)
    PROVE  TypeOK'
  <1>1. Task("Connect", d, 0) \in Tasks /\ Task("Disconnect", d, 0) \in Tasks
    BY TaskType DEF Ops
  <1>2. CASE Connect(d)
    <2>1. queue' \in Seq(Tasks) /\ usedAfterDestroy' \in BOOLEAN
      BY <1>1, <1>2, PostType DEF Connect
    <2>. QED
      BY <1>2, <2>1 DEF Connect, Request, TypeOK, table, Generations
  <1>3. CASE Disconnect(d)
    <2>1. queue' \in Seq(Tasks) /\ usedAfterDestroy' \in BOOLEAN
      BY <1>1, <1>3, PostType DEF Disconnect
    <2>. QED
      BY <1>3, <2>1 DEF Disconnect, Request, TypeOK, table, Generations
  <1>4. CASE LookupSucceeds(d)
    <2>1. queue' \in Seq(Tasks) /\ usedAfterDestroy' \in BOOLEAN
      BY <1>1, <1>4, PostType DEF LookupSucceeds
    <2>. QED
      BY <1>4, <2>1 DEF LookupSucceeds, TypeOK, table, Generations
  <1>5. CASE ConnectById(d) \/ LookupFails(d)
    BY <1>5 DEF ConnectById, LookupFails, Request, TypeOK, table, ghosts, Generations
  <1>. QED
    BY <1>2, <1>3, <1>4, <1>5

(* ... the first part of ConnectImpl, ... *)
LEMMA ConnectType ==
    ASSUME TypeOK, NEW d \in Devices,
           CreateFails(d) \/ RegisterFails(d) \/ ConnectSuspends(d)
           \/ ConnectSucceeds(d) \/ ConnectFails(d)
    PROVE  TypeOK'
  <1>1. queue' \in Seq(Tasks)
    BY RunType DEF CreateFails, RegisterFails, ConnectSuspends, ConnectSucceeds,
                   ConnectFails, RunConnect
  <1>2. ASSUME NEW s \in Statuses PROVE [shown EXCEPT ![d] = s] \in [Devices -> Statuses]
    BY DEF TypeOK
  <1>3. CASE CreateFails(d)
    BY <1>1, <1>2, <1>3 DEF CreateFails, Report, Statuses, TypeOK, table, ghosts, Generations
  <1>4. ASSUME NEW c \in Conn, conns' = Replaced(d, c), m_nextGeneration' = m_nextGeneration + 1
        PROVE  m_nextGeneration' \in Nat /\ conns' \in [Generations' -> Conn]
    BY <1>4, ReplacedType DEF TypeOK, Generations
  <1>5. /\ TakeOut(d) \in [Devices -> {NoEntry} \cup [gen: Nat \ {0}, state: States]]
        /\ \A s \in States : [m_connections EXCEPT ![d] = Entry(m_nextGeneration + 1, s)]
              \in [Devices -> {NoEntry} \cup [gen: Nat \ {0}, state: States]]
    BY DEF TypeOK, TakeOut, Entry
  <1>6. CASE RegisterFails(d)
    <2>1. [NewConn(d, "finished") EXCEPT !.fate = "dropped", !.link = "dead"] \in Conn
      BY DEF NewConn, Conn, Phases, Fates, Links
    <2>2. m_nextGeneration' \in Nat /\ conns' \in [Generations' -> Conn]
      BY <1>4, <1>6, <2>1 DEF RegisterFails
    <2>. QED
      BY <1>1, <1>2, <1>5, <1>6, <2>2 DEF RegisterFails, Report, Statuses, TypeOK, ghosts
  <1>7. CASE ConnectSuspends(d)
    <2>1. PICK p \in {"start", "open"} : conns' = Replaced(d, NewConn(d, p))
      BY <1>7 DEF ConnectSuspends
    <2>2. NewConn(d, p) \in Conn
      BY NewConnType DEF Phases
    <2>3. m_nextGeneration' \in Nat /\ conns' \in [Generations' -> Conn]
      BY <1>4, <1>7, <2>1, <2>2 DEF ConnectSuspends
    <2>. QED
      BY <1>1, <1>2, <1>5, <1>7, <2>3 DEF ConnectSuspends, Report, Statuses, States, TypeOK, ghosts
  <1>8. CASE ConnectSucceeds(d)
    <2>1. [Up(NewConn(d, "finished")) EXCEPT !.ok = TRUE] \in Conn
      <3>1. ASSUME NEW c \in Conn PROVE [c EXCEPT !.ok = TRUE] \in Conn
        BY DEF Conn
      <3>. QED
        BY <3>1, NewConnType, UpType DEF Phases
    <2>2. m_nextGeneration' \in Nat /\ conns' \in [Generations' -> Conn]
      BY <1>4, <1>8, <2>1 DEF ConnectSucceeds
    <2>. QED
      BY <1>1, <1>2, <1>5, <1>8, <2>2 DEF ConnectSucceeds, Report, Statuses, States, TypeOK, ghosts
  <1>9. CASE ConnectFails(d)
    <2>1. Closed(NewConn(d, "finished")) \in Conn
      BY NewConnType, ClosedType DEF Phases
    <2>2. m_nextGeneration' \in Nat /\ conns' \in [Generations' -> Conn]
      BY <1>4, <1>9, <2>1 DEF ConnectFails
    <2>. QED
      BY <1>1, <1>2, <1>5, <1>9, <2>2 DEF ConnectFails, Report, Statuses, TypeOK, ghosts
  <1>. QED
    BY <1>3, <1>6, <1>7, <1>8, <1>9

(* ... its steps on pool threads, ... *)
LEMMA PlatformType ==
    ASSUME TypeOK, NEW g \in Generations,
           Platform(g) \/ LinkUp(g) \/ LinkDown(g)
    PROVE  TypeOK'
  <1>c. conns[g] \in Conn /\ conns[g].dev \in Devices /\ g \in Nat
    BY DEF TypeOK, Conn, Generations
  <1>t. /\ Task("Resume", conns[g].dev, g) \in Tasks
        /\ Task("StateChanged", conns[g].dev, g) \in Tasks
    BY <1>c, TaskType DEF Ops
  <1>p. ASSUME NEW p \in Phases PROVE [conns[g] EXCEPT !.phase = p] \in Conn
    BY <1>c DEF Conn
  <1>u. ASSUME NEW c \in Conn, conns' = [conns EXCEPT ![g] = c], m_nextGeneration' = m_nextGeneration
        PROVE  m_nextGeneration' \in Nat /\ conns' \in [Generations' -> Conn]
    BY <1>u DEF TypeOK, Generations
  <1>q. ASSUME NEW p \in Phases, Phase(g, p), m_nextGeneration' = m_nextGeneration
        PROVE  m_nextGeneration' \in Nat /\ conns' \in [Generations' -> Conn]
    BY <1>p, <1>q, <1>u, <1>c DEF Phase, TypeOK
  <1>1. CASE StartSucceeds(g)
    <2>1. m_nextGeneration' \in Nat /\ conns' \in [Generations' -> Conn]
      BY <1>1, <1>q DEF StartSucceeds, Phases
    <2>. QED
      BY <1>1, <2>1 DEF StartSucceeds, TypeOK, ghosts
  <1>2. CASE StartFails(g) \/ OpenFails(g)
    <2>1. m_nextGeneration' \in Nat /\ conns' \in [Generations' -> Conn]
      BY <1>2, <1>c, <1>u, HoppingType DEF StartFails, OpenFails, TypeOK
    <2>. QED
      BY <1>2, <2>1 DEF StartFails, OpenFails, TypeOK, ghosts
  <1>3. CASE OpenSucceeds(g)
    <2>1. ASSUME NEW c \in Conn PROVE [c EXCEPT !.ok = TRUE] \in Conn
      BY DEF Conn
    <2>2. m_nextGeneration' \in Nat /\ conns' \in [Generations' -> Conn]
      BY <1>3, <1>c, <1>u, <2>1, UpType, HoppingType DEF OpenSucceeds, TypeOK
    <2>. QED
      BY <1>3, <2>2 DEF OpenSucceeds, TypeOK, ghosts
  <1>4. CASE YieldTo(g)
    <2>1. queue' \in Seq(Tasks) /\ usedAfterDestroy' \in BOOLEAN
      BY <1>4, <1>t, PostType DEF YieldTo
    <2>2. m_nextGeneration' \in Nat /\ conns' \in [Generations' -> Conn]
      BY <1>4, <1>q DEF YieldTo, Phases
    <2>. QED
      BY <1>4, <2>1, <2>2 DEF YieldTo, TypeOK
  <1>5. CASE StateCallback(g)
    <2>1. queue' \in Seq(Tasks) /\ usedAfterDestroy' \in BOOLEAN
      BY <1>5, <1>t, PostType DEF StateCallback, TypeOK
    <2>2. [conns[g] EXCEPT !.cb = @ - 1] \in Conn
      BY <1>5, <1>c DEF StateCallback, Conn
    <2>3. m_nextGeneration' \in Nat /\ conns' \in [Generations' -> Conn]
      BY <1>5, <1>c, <1>u, <2>2 DEF StateCallback, TypeOK
    <2>. QED
      BY <1>5, <2>1, <2>3 DEF StateCallback, TypeOK
  <1>6. CASE LinkUp(g)
    <2>1. ASSUME NEW c \in Conn PROVE [c EXCEPT !.ups = @ + 1] \in Conn
      BY DEF Conn
    <2>2. Up(conns[g]) \in Conn
      BY <1>c, UpType
    <2>3. conns' = [conns EXCEPT ![g] = [Up(conns[g]) EXCEPT !.ups = @ + 1]]
      BY <1>6 DEF LinkUp, TypeOK
    <2>4. m_nextGeneration' \in Nat /\ conns' \in [Generations' -> Conn]
      BY <1>6, <1>u, <2>1, <2>2, <2>3 DEF LinkUp
    <2>. QED
      BY <1>6, <2>4 DEF LinkUp, TypeOK, ghosts
  <1>7. CASE LinkDown(g)
    <2>1. [conns[g] EXCEPT !.link = "down", !.cb = @ + 1] \in Conn
      <3>1. conns[g].cb + 1 \in Nat
        BY <1>c DEF Conn
      <3>. QED
        BY <1>c, <3>1 DEF Conn, Links
    <2>2. conns' = [conns EXCEPT ![g] = [conns[g] EXCEPT !.link = "down", !.cb = @ + 1]]
      BY <1>7 DEF LinkDown, TypeOK
    <2>3. m_nextGeneration' \in Nat /\ conns' \in [Generations' -> Conn]
      BY <1>7, <1>u, <2>1, <2>2 DEF LinkDown
    <2>. QED
      BY <1>7, <2>3 DEF LinkDown, TypeOK, ghosts
  <1>. QED
    BY <1>1, <1>2, <1>3, <1>4, <1>5, <1>6, <1>7 DEF Platform, StartCompletes, OpenCompletes

(* ... its last part and the other tasks that concern one entry, ... *)
LEMMA EntryTaskType ==
    ASSUME TypeOK, NEW d \in Devices, NEW g,
           \/ ResumeConnected(d, g) \/ ResumeFailed(d, g)
           \/ ResumeClosed(d, g) \/ ResumeDiscarded(d, g)
           \/ DisconnectImpl(d)
           \/ StateChangedIgnored(d, g) \/ StateChangedDeferred(d, g) \/ StateChangedRemoves(d, g)
    PROVE  TypeOK'
  <1>1. queue' \in Seq(Tasks)
    BY RunType DEF ResumeConnected, ResumeFailed, ResumeClosed, ResumeDiscarded, RunResume,
                   DisconnectImpl, StateChangedIgnored, StateChangedDeferred,
                   StateChangedRemoves, RunStateChanged
  <1>2. shown' \in [Devices -> Statuses]
    BY DEF ResumeConnected, ResumeFailed, ResumeClosed, ResumeDiscarded,
           DisconnectImpl, StateChangedIgnored, StateChangedDeferred,
           StateChangedRemoves, Report, Statuses, TypeOK
  <1>3. m_connections' \in [Devices -> {NoEntry} \cup [gen: Nat \ {0}, state: States]]
    <2>1. /\ TakeOut(d) \in [Devices -> {NoEntry} \cup [gen: Nat \ {0}, state: States]]
          /\ \A s \in States : m_connections[d] # NoEntry =>
                [m_connections EXCEPT ![d].state = s]
                   \in [Devices -> {NoEntry} \cup [gen: Nat \ {0}, state: States]]
      BY DEF TypeOK, TakeOut
    <2>2. \A s \in States : Entry(g, s) # NoEntry
      BY DEF States, Entry, NoEntry
    <2>. QED
      BY <2>1, <2>2 DEF ResumeConnected, ResumeFailed, ResumeClosed, ResumeDiscarded,
           DisconnectImpl, StateChangedIgnored, StateChangedDeferred,
           StateChangedRemoves, States, TypeOK
  <1>4. /\ m_nextGeneration' = m_nextGeneration
        /\ UNCHANGED <<lookups, requests, exit, ghosts>>
    BY DEF ResumeConnected, ResumeFailed, ResumeClosed, ResumeDiscarded, RunResume,
           DisconnectImpl, StateChangedIgnored, StateChangedDeferred,
           StateChangedRemoves, RunStateChanged
  <1>5. conns' \in [Generations -> Conn]
    <2>1. ASSUME NEW h \in Generations
          PROVE  /\ conns[h] \in Conn /\ Closed(conns[h]) \in Conn
                 /\ Finished(conns[h]) \in Conn /\ Finished(Closed(conns[h])) \in Conn
      BY ClosedType, FinishedType DEF TypeOK
    <2>2. CASE StateChangedRemoves(d, g)
      <3>1. ASSUME NEW c \in Conn, NEW l \in Links
            PROVE  [c EXCEPT !.fate = "remote", !.link = l] \in Conn
        BY DEF Conn, Fates
      <3>2. ASSUME NEW h \in Generations
            PROVE  conns'[h] = conns[h] \/ \E l \in Links :
                      conns'[h] = [conns[h] EXCEPT !.fate = "remote", !.link = l]
        BY <2>2, <2>1 DEF StateChangedRemoves, TypeOK, Conn, Links
      <3>3. DOMAIN conns' = Generations /\ conns' = [h \in DOMAIN conns' |-> conns'[h]]
        BY <2>2 DEF StateChangedRemoves, TypeOK
      <3>4. ASSUME NEW h \in Generations PROVE conns'[h] \in Conn
        <4>1. CASE conns'[h] = conns[h]
          BY <2>1, <4>1
        <4>2. ASSUME NEW l \in Links,
                     conns'[h] = [conns[h] EXCEPT !.fate = "remote", !.link = l]
              PROVE  conns'[h] \in Conn
          BY <2>1, <3>1, <4>2
        <4>. QED
          BY <3>2, <4>1, <4>2
      <3>. QED
        BY <3>3, <3>4
    <2>3. CASE DisconnectImpl(d)
      BY <2>1, <2>3 DEF DisconnectImpl
    <2>. QED
      BY <2>1, <2>2, <2>3 DEF ResumeConnected, ResumeFailed, ResumeClosed, ResumeDiscarded,
           StateChangedIgnored, StateChangedDeferred, TypeOK
  <1>. QED
    BY <1>1, <1>2, <1>3, <1>4, <1>5 DEF TypeOK, Generations, ghosts

(* ... and the exit. *)
LEMMA ExitType ==
    ASSUME TypeOK, CloseAll \/ UiExit \/ CloseAllOnExecutor \/ DetachForProcessExitOnExecutor
    PROVE  TypeOK'
  <1>1. CASE CloseAll \/ DetachForProcessExit
    <2>1. Task("CloseAll", "none", 0) \in Tasks /\ Task("Detach", "none", 0) \in Tasks
      BY TaskType DEF Ops
    <2>2. queue' \in Seq(Tasks) /\ usedAfterDestroy' \in BOOLEAN
      BY <1>1, <2>1, PostType DEF CloseAll, DetachForProcessExit
    <2>. QED
      BY <1>1, <2>2 DEF CloseAll, DetachForProcessExit, Exit, ExitStates, TypeOK, table, Generations
  <1>2. CASE CloseAllReturns \/ DetachReturns \/ Destroy \/ Destroyed
    BY <1>2 DEF CloseAllReturns, DetachReturns, Destroy, Destroyed, Exit, ExitStates,
                TypeOK, table, Generations
  <1>3. CASE CloseAllOnExecutor
    <2>1. queue' \in Seq(Tasks)
      BY <1>3, RunType DEF CloseAllOnExecutor
    <2>2. conns' \in [Generations -> Conn]
      <3>1. ASSUME NEW g \in Generations PROVE conns[g] \in Conn /\ Closed(conns[g]) \in Conn
        BY ClosedType DEF TypeOK
      <3>. QED
        BY <1>3, <3>1 DEF CloseAllOnExecutor
    <2>. QED
      BY <1>3, <2>1, <2>2 DEF CloseAllOnExecutor, Statuses, TypeOK, Generations, ghosts
  <1>4. CASE DetachForProcessExitOnExecutor
    <2>1. queue' \in Seq(Tasks)
      BY <1>4, RunType DEF DetachForProcessExitOnExecutor
    <2>2. conns' \in [Generations -> Conn]
      <3>1. ASSUME NEW g \in Generations
            PROVE  conns[g] \in Conn /\ [conns[g] EXCEPT !.fate = "detached"] \in Conn
        BY DEF TypeOK, Conn, Fates
      <3>. QED
        BY <1>4, <3>1 DEF DetachForProcessExitOnExecutor
    <2>. QED
      BY <1>4, <2>1, <2>2 DEF DetachForProcessExitOnExecutor, TypeOK, Generations, ghosts
  <1>. QED
    BY <1>1, <1>2, <1>3, <1>4 DEF UiExit

(* The types are inductive. *)
LEMMA TypeInit == Init => TypeOK
  <1>1. Init => queue \in Seq(Tasks)
    BY EmptySeq DEF Init
  <1>2. Init => conns \in [Generations -> Conn]
    BY DEF Init, Generations
  <1>3. Init => m_connections \in [Devices -> {NoEntry} \cup [gen: Nat \ {0}, state: States]]
    BY DEF Init
  <1>4. Init => /\ m_nextGeneration \in Nat /\ requests \in Nat
                /\ shown \in [Devices -> Statuses]
                /\ lookups \in SUBSET Devices
                /\ exit \in ExitStates
    BY DEF Init, Statuses, ExitStates
  <1>5. Init => late \in BOOLEAN /\ usedAfterDestroy \in BOOLEAN
    BY Zenon DEF Init
  <1>. QED
    BY <1>1, <1>2, <1>3, <1>4, <1>5 DEF TypeOK

LEMMA TypeStep == TypeOK /\ [Next]_vars => TypeOK'
  <1>1. ASSUME TypeOK, NEW d \in Devices, NEW g, ExecutorStep(d, g) PROVE TypeOK'
    BY <1>1, ConnectType, EntryTaskType DEF ExecutorStep
  <1>2. ASSUME TypeOK, Executor PROVE TypeOK'
    BY <1>1, <1>2, ExitType DEF Executor
  <1>3. ASSUME TypeOK, UNCHANGED vars PROVE TypeOK'
    BY <1>3 DEF vars, table, ghosts, TypeOK, Generations
  <1>. QED
    BY <1>2, <1>3, RequestType, PlatformType, ExitType DEF Next

(* Types: every variable keeps its type. *)
THEOREM TypeCorrect == Safety => []TypeOK
  BY TypeInit, TypeStep, PTL DEF Safety

-----------------------------------------------------------------------------
(* The inductive invariant.  DeviceInv(d) gathers what Ownership,
   EntryMatchesCoroutine and ReportMatchesTable say about one device;
   ResumeShape says that the task which resumes a coroutine names its device:
   without it a stale coroutine could be finished for the entry of another.  *)
Counted(c) == c.closes = IF c.fate = "closed" THEN 1 ELSE 0

Served(e, c) ==
    /\ e.state \in {"Connecting", "Disconnecting"} => c.phase # "finished"
    /\ e.state = "Connected" => c.phase = "finished" /\ c.ok

DeviceInv(d) ==
    /\ m_connections[d] # NoEntry =>
          /\ m_connections[d].gen \in Generations
          /\ conns[m_connections[d].gen].dev = d
          /\ conns[m_connections[d].gen].fate = "tracked"
          /\ Served(m_connections[d], conns[m_connections[d].gen])
          /\ shown[d] \in Told[m_connections[d].state]
    /\ \A g \in Generations : conns[g].dev = d =>
          /\ conns[g].fate = "tracked" => m_connections[d].gen = g
          /\ Counted(conns[g])
    /\ m_connections[d] = NoEntry /\ shown[d] \in {"connecting", "connected"}
          => \E g \in Generations : conns[g].dev = d /\ conns[g].fate = "detached"

ResumeShape ==
    \A i \in 1..Len(queue) : queue[i].op = "Resume" =>
        queue[i].gen \in Generations /\ conns[queue[i].gen].dev = queue[i].dev

IInv == TypeOK /\ (\A d \in Devices : DeviceInv(d)) /\ ResumeShape

LEMMA Implied == IInv => Ownership /\ EntryMatchesCoroutine /\ ReportMatchesTable
  <1>. SUFFICES ASSUME IInv PROVE Ownership /\ EntryMatchesCoroutine /\ ReportMatchesTable
    OBVIOUS
  <1>1. Ownership
    <2>1. ASSUME NEW g \in Generations PROVE conns[g].dev \in Devices
      BY DEF IInv, TypeOK, Conn
    <2>. QED
      BY <2>1 DEF IInv, DeviceInv, Counted, Ownership
  <1>2. EntryMatchesCoroutine
    <2>1. NoEntry.state = "None"
      BY DEF NoEntry
    <2>. QED
      BY <2>1 DEF IInv, DeviceInv, Served, EntryMatchesCoroutine
  <1>3. ReportMatchesTable
    BY DEF IInv, DeviceInv, ReportMatchesTable
  <1>. QED
    BY <1>1, <1>2, <1>3

(* What the operators on objects keep and change. *)
LEMMA ClosedFields ==
    ASSUME NEW c \in Conn
    PROVE  /\ Closed(c).dev = c.dev /\ Closed(c).phase = c.phase /\ Closed(c).ok = c.ok
           /\ Closed(c).fate = "closed" /\ Closed(c).closes = c.closes + 1
  BY DEF Closed, Conn

LEMMA FinishedFields ==
    ASSUME NEW c \in Conn
    PROVE  /\ Finished(c).dev = c.dev /\ Finished(c).phase = "finished"
           /\ Finished(c).ok = c.ok /\ Finished(c).fate = c.fate
           /\ Finished(c).closes = c.closes
  BY DEF Finished, Conn

LEMMA HoppingFields ==
    ASSUME NEW c \in Conn
    PROVE  /\ Hopping(c).dev = c.dev /\ Hopping(c).phase = "hop"
           /\ Hopping(c).fate = c.fate /\ Hopping(c).closes = c.closes
           /\ Hopping(c).ok = c.ok /\ Hopping(c).cb = c.cb /\ Hopping(c).link \in {c.link, "dead"}
  BY DEF Hopping, Conn

LEMMA UpFields ==
    ASSUME NEW c \in Conn
    PROVE  /\ Up(c).dev = c.dev /\ Up(c).phase = c.phase /\ Up(c).ok = c.ok
           /\ Up(c).fate = c.fate /\ Up(c).closes = c.closes
  BY DEF Up, Conn

(* An entry is none, or has a generation and a state. *)
LEMMA EntryShape ==
    ASSUME TypeOK, NEW d \in Devices
    PROVE  \/ m_connections[d] = NoEntry /\ m_connections[d].gen = 0
           \/ /\ m_connections[d] # NoEntry
              /\ m_connections[d].gen \in Nat \ {0}
              /\ m_connections[d].state \in States
              /\ m_connections[d] = Entry(m_connections[d].gen, m_connections[d].state)
  BY DEF TypeOK, NoEntry, Entry, States

(* A step that concerns d alone leaves the invariant of the others. *)
LEMMA Elsewhere ==
    ASSUME IInv, NEW d \in Devices,
           m_nextGeneration' \in {m_nextGeneration, m_nextGeneration + 1},
           \A e \in Devices \ {d} : m_connections'[e] = m_connections[e] /\ shown'[e] = shown[e],
           \A g \in Generations :
              /\ conns'[g].dev = conns[g].dev
              /\ conns[g].dev # d => conns'[g] = conns[g],
           \A g \in Generations' \ Generations : conns'[g].dev = d,
           DeviceInv(d)'
    PROVE  \A e \in Devices : DeviceInv(e)'
  <1>1. Generations \subseteq Generations'
    BY DEF IInv, TypeOK, Generations
  <1>2. SUFFICES ASSUME NEW e \in Devices \ {d} PROVE DeviceInv(e)'
    OBVIOUS
  <1>3. DeviceInv(e)
    BY DEF IInv
  <1>4. e # d /\ m_connections'[e] = m_connections[e] /\ shown'[e] = shown[e]
    OBVIOUS
  <1>8. ASSUME NEW g \in Generations, conns[g].dev = e
        PROVE  g \in Generations' /\ conns'[g] = conns[g]
    BY <1>1, <1>4, <1>8
  <1>9. ASSUME NEW g \in Generations', conns'[g].dev = e
        PROVE  g \in Generations /\ conns[g].dev = e /\ conns'[g] = conns[g]
    BY <1>4, <1>8, <1>9
  <1>5. m_connections'[e] # NoEntry =>
          /\ m_connections'[e].gen \in Generations'
          /\ conns'[m_connections'[e].gen].dev = e
          /\ conns'[m_connections'[e].gen].fate = "tracked"
          /\ Served(m_connections'[e], conns'[m_connections'[e].gen])
          /\ shown'[e] \in Told[m_connections'[e].state]
    <2>1. CASE m_connections[e] # NoEntry
      <3>1. conns'[m_connections[e].gen] = conns[m_connections[e].gen]
            /\ m_connections[e].gen \in Generations'
        BY <1>3, <1>8, <2>1 DEF DeviceInv
      <3>. QED
        BY <1>3, <1>4, <2>1, <3>1 DEF DeviceInv
    <2>. QED
      BY <1>4, <2>1
  <1>6. ASSUME NEW g \in Generations', conns'[g].dev = e
        PROVE  (conns'[g].fate = "tracked" => m_connections'[e].gen = g) /\ Counted(conns'[g])
    BY <1>3, <1>4, <1>6, <1>9 DEF DeviceInv
  <1>7. ASSUME m_connections'[e] = NoEntry, shown'[e] \in {"connecting", "connected"}
        PROVE  \E g \in Generations' : conns'[g].dev = e /\ conns'[g].fate = "detached"
    BY <1>3, <1>4, <1>7, <1>8 DEF DeviceInv
  <1>. QED
    BY <1>5, <1>6, <1>7 DEF DeviceInv, Served, Counted

(* A step that moves no entry, closes no object, tells the user nothing and
   ends no coroutine keeps the invariant of every device.                  *)
LEMMA Quiet ==
    ASSUME IInv, UNCHANGED <<m_connections, m_nextGeneration, shown>>,
           \A g \in Generations :
              /\ conns'[g].dev = conns[g].dev /\ conns'[g].fate = conns[g].fate
              /\ conns'[g].closes = conns[g].closes
              /\ IF conns[g].phase = "finished"
                 THEN conns'[g].phase = "finished" /\ conns'[g].ok = conns[g].ok
                 ELSE conns'[g].phase # "finished"
    PROVE  \A d \in Devices : DeviceInv(d)'
  <1>. SUFFICES ASSUME NEW d \in Devices PROVE DeviceInv(d)'
    OBVIOUS
  <1>1. DeviceInv(d) /\ Generations' = Generations
    BY DEF IInv, Generations
  <1>. QED
    BY <1>1 DEF DeviceInv, Served, Counted

(* The queue grows by tasks of the right shape, and no object changes device. *)
LEMMA QueueStep ==
    ASSUME TypeOK, ResumeShape,
           \A g \in Generations : g \in Generations' /\ conns'[g].dev = conns[g].dev,
           \/ queue' = queue
           \/ queue # <<>> /\ queue' = Tail(queue)
           \/ \E t \in Tasks :
                 /\ queue' = Append(queue, t)
                 /\ t.op = "Resume" => t.gen \in Generations /\ conns[t.gen].dev = t.dev
    PROVE  ResumeShape'
  <1>s. queue \in Seq(Tasks)
    BY DEF TypeOK
  <1>1. CASE queue' = queue
    BY <1>1 DEF ResumeShape
  <1>2. CASE queue # <<>> /\ queue' = Tail(queue)
    <2>1. ASSUME NEW i \in 1..Len(queue')
          PROVE  \E j \in 1..Len(queue) : queue'[i] = queue[j]
      <3>1. i + 1 \in 1..Len(queue) /\ queue'[i] = queue[i + 1]
        BY <1>s, <1>2, HeadTailProperties
      <3>. QED
        BY <3>1
    <2>. QED
      BY <2>1 DEF ResumeShape
  <1>3. ASSUME NEW t \in Tasks, queue' = Append(queue, t),
               t.op = "Resume" => t.gen \in Generations /\ conns[t.gen].dev = t.dev
        PROVE  ResumeShape'
    <2>1. \A i \in 1..Len(queue') : (i \in 1..Len(queue) /\ queue'[i] = queue[i]) \/ queue'[i] = t
      BY <1>s, <1>3, AppendProperties
    <2>. QED
      BY <1>3, <2>1 DEF ResumeShape
  <1>. QED
    BY <1>1, <1>2, <1>3

-----------------------------------------------------------------------------
(* Every step keeps the inductive invariant: requests touch no entry, ... *)
LEMMA RequestStep ==
    ASSUME IInv, NEW d \in Devices,
           Connect(d) \/ Disconnect(d) \/ ConnectById(d) \/ LookupSucceeds(d) \/ LookupFails(d)
    PROVE  (\A e \in Devices : DeviceInv(e)') /\ ResumeShape'
  <1>1. UNCHANGED <<table, shown>>
    BY DEF Connect, Disconnect, ConnectById, LookupSucceeds, LookupFails
  <1>2. \A e \in Devices : DeviceInv(e)'
    BY <1>1, Quiet DEF table
  <1>3. /\ Task("Connect", d, 0) \in Tasks /\ Task("Disconnect", d, 0) \in Tasks
        /\ Task("Connect", d, 0).op # "Resume" /\ Task("Disconnect", d, 0).op # "Resume"
    BY TaskType DEF Ops, Task
  <1>4. \/ queue' = queue
        \/ \E t \in Tasks : queue' = Append(queue, t) /\ t.op # "Resume"
    BY <1>3 DEF Connect, Disconnect, ConnectById, LookupSucceeds, LookupFails, Post
  <1>. QED
    BY <1>1, <1>2, <1>4, QueueStep DEF IInv, table, Generations

(* ... creating an object closes the one it replaces, ... *)
LEMMA Created ==
    ASSUME IInv, NEW d \in Devices, NEW c \in Conn,
           conns' = Replaced(d, c), m_nextGeneration' = m_nextGeneration + 1,
           c.dev = d, Counted(c),
           \A e \in Devices \ {d} : m_connections'[e] = m_connections[e] /\ shown'[e] = shown[e],
           IF c.fate = "tracked"
           THEN \E s \in States : /\ m_connections'[d] = Entry(m_nextGeneration + 1, s)
                                 /\ Served(Entry(m_nextGeneration + 1, s), c)
                                 /\ shown'[d] \in Told[s]
           ELSE m_connections'[d] = NoEntry /\ shown'[d] = "failed"
    PROVE  /\ \A e \in Devices : DeviceInv(e)'
           /\ \A g \in Generations : g \in Generations' /\ conns'[g].dev = conns[g].dev
  <1>1. TypeOK /\ DeviceInv(d) /\ m_nextGeneration \in Nat
    BY DEF IInv, TypeOK
  <1>2. /\ Generations' = Generations \cup {m_nextGeneration + 1}
        /\ m_nextGeneration + 1 \notin Generations
    BY <1>1 DEF Generations
  <1>3. conns'[m_nextGeneration + 1] = c
    BY <1>1 DEF Replaced
  <1>4. ASSUME NEW g \in Generations
        PROVE  /\ conns[g] \in Conn
               /\ conns'[g] = IF m_connections[d].gen = g THEN Closed(conns[g]) ELSE conns[g]
    BY <1>1 DEF Replaced, Generations, TypeOK
  <1>5. ASSUME NEW g \in Generations
        PROVE  /\ conns'[g].dev = conns[g].dev
               /\ conns[g].dev # d => conns'[g] = conns[g]
               /\ conns[g].dev = d => conns'[g].fate # "tracked" /\ Counted(conns'[g])
    <2>1. CASE m_connections[d].gen = g
      <3>1. m_connections[d] # NoEntry
        BY <1>1, <2>1, EntryShape DEF Generations
      <3>2. conns[g].dev = d /\ conns[g].fate = "tracked" /\ conns[g].closes = 0
        BY <1>1, <2>1, <3>1 DEF DeviceInv, Counted
      <3>. QED
        BY <1>4, <2>1, <3>2, ClosedFields DEF Counted
    <2>2. CASE m_connections[d].gen # g
      BY <1>1, <1>4, <2>2 DEF DeviceInv
    <2>. QED
      BY <2>1, <2>2
  <1>6. DeviceInv(d)'
    <2>1. ASSUME NEW g \in Generations', conns'[g].dev = d
          PROVE  (conns'[g].fate = "tracked" => m_connections'[d].gen = g) /\ Counted(conns'[g])
      <3>1. CASE g \in Generations
        BY <1>5, <2>1, <3>1
      <3>2. CASE g = m_nextGeneration + 1
        <4>1. ASSUME NEW s \in States, m_connections'[d] = Entry(m_nextGeneration + 1, s)
              PROVE  m_connections'[d].gen = g
          BY <3>2, <4>1 DEF Entry
        <4>2. Counted(conns'[g])
          BY <1>3, <3>2
        <4>. QED
          BY <1>3, <3>2, <4>1, <4>2
      <3>. QED
        BY <1>2, <3>1, <3>2
    <2>2. CASE c.fate = "tracked"
      <3>1. PICK s \in States : /\ m_connections'[d] = Entry(m_nextGeneration + 1, s)
                                /\ Served(Entry(m_nextGeneration + 1, s), c)
                                /\ shown'[d] \in Told[s]
        BY <2>2
      <3>2. /\ m_connections'[d].gen = m_nextGeneration + 1 /\ m_connections'[d].state = s
            /\ m_connections'[d] # NoEntry
        BY <1>1, <3>1 DEF Entry, NoEntry
      <3>3. Served(m_connections'[d], conns'[m_connections'[d].gen])
        BY <1>3, <3>1, <3>2
      <3>4. m_nextGeneration + 1 \in Generations'
        BY <1>2
      <3>5. shown'[d] \in Told[m_connections'[d].state]
        BY <3>1, <3>2
      <3>. QED
        BY <1>3, <2>1, <2>2, <3>2, <3>3, <3>4, <3>5 DEF DeviceInv, Counted, Served
    <2>3. CASE c.fate # "tracked"
      BY <2>1, <2>3 DEF DeviceInv, Counted
    <2>. QED
      BY <2>2, <2>3
  <1>7. \A g \in Generations' \ Generations : conns'[g].dev = d
    BY <1>2, <1>3
  <1>. QED
    BY <1>2, <1>5, <1>6, <1>7, Elsewhere

LEMMA ConnectStep ==
    ASSUME IInv, NEW d \in Devices,
           CreateFails(d) \/ RegisterFails(d) \/ ConnectSuspends(d)
           \/ ConnectSucceeds(d) \/ ConnectFails(d)
    PROVE  (\A e \in Devices : DeviceInv(e)') /\ ResumeShape'
  <1>1. queue # <<>> /\ queue' = Tail(queue)
    BY DEF CreateFails, RegisterFails, ConnectSuspends, ConnectSucceeds, ConnectFails,
           RunConnect, Run
  <1>t. TypeOK
    BY DEF IInv
  <1>g. ASSUME \A g \in Generations : g \in Generations' /\ conns'[g].dev = conns[g].dev
        PROVE  ResumeShape'
    BY <1>1, <1>g, QueueStep DEF IInv
  <1>2. \A e \in Devices \ {d} : m_connections'[e] = m_connections[e] /\ shown'[e] = shown[e]
    BY <1>t DEF CreateFails, RegisterFails, ConnectSuspends, ConnectSucceeds, ConnectFails,
           TakeOut, Report, TypeOK, table
  <1>3. CASE CreateFails(d)
    <2>1. UNCHANGED table /\ shown'[d] = "failed" /\ Generations' = Generations
      BY <1>t, <1>3 DEF CreateFails, Report, TypeOK, table, Generations
    <2>2. DeviceInv(d)
      BY DEF IInv
    <2>3. m_connections[d] # NoEntry => shown'[d] \in Told[m_connections[d].state]
      BY <1>t, <2>1, EntryShape DEF Told, States
    <2>4. DeviceInv(d)'
      BY <2>1, <2>2, <2>3 DEF DeviceInv, table, Served, Counted
    <2>. QED
      BY <1>2, <1>g, <2>1, <2>4, Elsewhere DEF table
  <1>4. CASE RegisterFails(d)
    <2>. DEFINE c == [NewConn(d, "finished") EXCEPT !.fate = "dropped", !.link = "dead"]
    <2>1. c \in Conn /\ c.dev = d /\ c.fate = "dropped" /\ Counted(c)
      BY DEF NewConn, Conn, Phases, Fates, Links, Counted
    <2>2. m_connections'[d] = NoEntry /\ shown'[d] = "failed"
      BY <1>t, <1>4 DEF RegisterFails, TakeOut, Report, TypeOK
    <2>3. conns' = Replaced(d, c) /\ m_nextGeneration' = m_nextGeneration + 1
      BY <1>4 DEF RegisterFails
    <2>. HIDE DEF c
    <2>. QED
      BY <1>2, <1>g, <2>1, <2>2, <2>3, Created
  <1>5. CASE ConnectSuspends(d)
    <2>1. PICK p \in {"start", "open"} : conns' = Replaced(d, NewConn(d, p))
      BY <1>5 DEF ConnectSuspends
    <2>. DEFINE c == NewConn(d, p)
    <2>2. c \in Conn /\ c.dev = d /\ c.fate = "tracked" /\ Counted(c) /\ c.phase # "finished"
      BY NewConnType DEF Phases, NewConn, Counted
    <2>3. m_connections'[d] = Entry(m_nextGeneration + 1, "Connecting") /\ shown'[d] = "connecting"
      BY <1>t, <1>5 DEF ConnectSuspends, Report, TypeOK
    <2>4. "Connecting" \in States /\ shown'[d] \in Told["Connecting"]
      BY <2>3 DEF States, Told
    <2>5. Served(Entry(m_nextGeneration + 1, "Connecting"), c)
      BY <2>2 DEF Served, Entry
    <2>6. conns' = Replaced(d, c) /\ m_nextGeneration' = m_nextGeneration + 1
      BY <1>5, <2>1 DEF ConnectSuspends
    <2>. HIDE DEF c
    <2>. QED
      BY <1>2, <1>g, <2>2, <2>3, <2>4, <2>5, <2>6, Created
  <1>6. CASE ConnectSucceeds(d)
    <2>. DEFINE c == [Up(NewConn(d, "finished")) EXCEPT !.ok = TRUE]
    <2>1. NewConn(d, "finished") \in Conn
      BY NewConnType DEF Phases
    <2>2. ASSUME NEW b \in Conn
          PROVE  /\ [b EXCEPT !.ok = TRUE] \in Conn
                 /\ [b EXCEPT !.ok = TRUE].dev = b.dev
                 /\ [b EXCEPT !.ok = TRUE].fate = b.fate
                 /\ [b EXCEPT !.ok = TRUE].closes = b.closes
                 /\ [b EXCEPT !.ok = TRUE].phase = b.phase
                 /\ [b EXCEPT !.ok = TRUE].ok
      BY DEF Conn
    <2>3. /\ c \in Conn /\ c.dev = d /\ c.fate = "tracked" /\ Counted(c)
          /\ c.phase = "finished" /\ c.ok
      <3>1. Up(NewConn(d, "finished")) \in Conn
        BY <2>1, UpType
      <3>2. LET b == Up(NewConn(d, "finished")) IN
               b.dev = d /\ b.fate = "tracked" /\ b.closes = 0 /\ b.phase = "finished"
        BY <2>1, UpFields DEF NewConn
      <3>. QED
        BY <2>2, <3>1, <3>2 DEF Counted
    <2>4. m_connections'[d] = Entry(m_nextGeneration + 1, "Connected") /\ shown'[d] = "connected"
      BY <1>t, <1>6 DEF ConnectSucceeds, Report, TypeOK
    <2>5. "Connected" \in States /\ shown'[d] \in Told["Connected"]
      BY <2>4 DEF States, Told
    <2>6. Served(Entry(m_nextGeneration + 1, "Connected"), c)
      BY <2>3 DEF Served, Entry
    <2>7. conns' = Replaced(d, c) /\ m_nextGeneration' = m_nextGeneration + 1
      BY <1>6 DEF ConnectSucceeds
    <2>. HIDE DEF c
    <2>. QED
      BY <1>2, <1>g, <2>3, <2>4, <2>5, <2>6, <2>7, Created
  <1>7. CASE ConnectFails(d)
    <2>. DEFINE c == Closed(NewConn(d, "finished"))
    <2>1. NewConn(d, "finished") \in Conn
      BY NewConnType DEF Phases
    <2>2. c \in Conn /\ c.dev = d /\ c.fate = "closed" /\ Counted(c)
      BY <2>1, ClosedType, ClosedFields DEF NewConn, Counted
    <2>3. m_connections'[d] = NoEntry /\ shown'[d] = "failed"
      BY <1>t, <1>7 DEF ConnectFails, TakeOut, Report, TypeOK
    <2>4. conns' = Replaced(d, c) /\ m_nextGeneration' = m_nextGeneration + 1
      BY <1>7 DEF ConnectFails
    <2>. HIDE DEF c
    <2>. QED
      BY <1>2, <1>g, <2>2, <2>3, <2>4, Created
  <1>. QED
    BY <1>3, <1>4, <1>5, <1>6, <1>7

(* ... the steps on pool threads and of the links end no coroutine, ... *)
LEMMA PlatformStep ==
    ASSUME IInv, NEW g \in Generations,
           Platform(g) \/ LinkUp(g) \/ LinkDown(g)
    PROVE  (\A e \in Devices : DeviceInv(e)') /\ ResumeShape'
  <1>t. TypeOK /\ ResumeShape /\ conns[g] \in Conn /\ conns[g].dev \in Devices
    BY DEF IInv, TypeOK, Conn
  <1>1. UNCHANGED <<m_connections, m_nextGeneration, shown>>
    BY DEF Platform, StartCompletes, OpenCompletes, StartSucceeds, StartFails, OpenSucceeds,
           OpenFails, YieldTo, StateCallback, LinkUp, LinkDown
  <1>2. ASSUME NEW h \in Generations
        PROVE  /\ conns'[h].dev = conns[h].dev /\ conns'[h].fate = conns[h].fate
               /\ conns'[h].closes = conns[h].closes
               /\ IF conns[h].phase = "finished"
                  THEN conns'[h].phase = "finished" /\ conns'[h].ok = conns[h].ok
                  ELSE conns'[h].phase # "finished"
    <2>1. CASE h # g
      BY <1>t, <2>1 DEF Platform, StartCompletes, OpenCompletes, StartSucceeds, StartFails,
           OpenSucceeds, OpenFails, YieldTo, StateCallback, LinkUp, LinkDown, Phase, TypeOK
    <2>2. CASE h = g /\ conns[g].phase # "finished" /\ \E p \in InFlight \cup {"leaked", "crashed"} : Phase(g, p)
      BY <1>t, <2>2 DEF Phase, InFlight, TypeOK, Conn
    <2>3. CASE h = g /\ OpenSucceeds(g)
      <3>1. conns'[g] = [Hopping(Up(conns[g])) EXCEPT !.ok = TRUE]
        BY <1>t, <2>3 DEF OpenSucceeds, TypeOK
      <3>2. ASSUME NEW c \in Conn
            PROVE  LET b == [c EXCEPT !.ok = TRUE] IN
                   b.dev = c.dev /\ b.fate = c.fate /\ b.closes = c.closes /\ b.phase = c.phase
        BY DEF Conn
      <3>3. conns[g].phase # "finished"
        BY <2>3 DEF OpenSucceeds
      <3>. QED
        BY <1>t, <2>3, <3>1, <3>2, <3>3, UpType, UpFields, HoppingType, HoppingFields
    <2>4. CASE h = g /\ LinkUp(g)
      <3>1. conns'[g] = [Up(conns[g]) EXCEPT !.ups = @ + 1]
        BY <1>t, <2>4 DEF LinkUp, TypeOK
      <3>2. ASSUME NEW c \in Conn
            PROVE  LET b == [c EXCEPT !.ups = @ + 1] IN
                   /\ b.dev = c.dev /\ b.fate = c.fate /\ b.closes = c.closes
                   /\ b.phase = c.phase /\ b.ok = c.ok
        BY DEF Conn
      <3>. QED
        BY <1>t, <2>4, <3>1, <3>2, UpType, UpFields
    <2>5. CASE h = g /\ (LinkDown(g) \/ StateCallback(g))
      BY <1>t, <2>5 DEF LinkDown, StateCallback, TypeOK, Conn
    <2>6. CASE h = g /\ (StartSucceeds(g) \/ YieldTo(g))
      BY <2>2, <2>6 DEF StartSucceeds, YieldTo, InFlight
    <2>7. CASE h = g /\ (StartFails(g) \/ OpenFails(g))
      <3>1. conns'[g] = Hopping(conns[g]) /\ conns[g].phase # "finished"
        BY <1>t, <2>7 DEF StartFails, OpenFails, TypeOK
      <3>. QED
        BY <1>t, <2>7, <3>1, HoppingFields
    <2>. QED
      BY <2>1, <2>3, <2>4, <2>5, <2>6, <2>7 DEF Platform, StartCompletes, OpenCompletes
  <1>3. \A e \in Devices : DeviceInv(e)'
    BY <1>1, <1>2, Quiet
  <1>4. /\ Task("Resume", conns[g].dev, g) \in Tasks
        /\ Task("Resume", conns[g].dev, g).gen = g
        /\ Task("Resume", conns[g].dev, g).dev = conns[g].dev
        /\ Task("StateChanged", conns[g].dev, g) \in Tasks
        /\ Task("StateChanged", conns[g].dev, g).op # "Resume"
    BY <1>t, TaskType DEF Ops, Task, Generations
  <1>5. \/ queue' = queue
        \/ \E t \in Tasks :
              /\ queue' = Append(queue, t)
              /\ t.op = "Resume" => t.gen \in Generations /\ conns[t.gen].dev = t.dev
    BY <1>4 DEF Platform, StartCompletes, OpenCompletes, StartSucceeds, StartFails,
           OpenSucceeds, OpenFails, YieldTo, StateCallback, LinkUp, LinkDown, Post
  <1>6. ResumeShape'
    BY <1>t, <1>1, <1>2, <1>5, QueueStep DEF Generations
  <1>. QED
    BY <1>3, <1>6

(* ... a task about the entry of d resumes its own coroutine or none, ... *)
LEMMA EntryTaskStep ==
    ASSUME IInv, NEW d \in Devices, NEW g,
           \/ ResumeConnected(d, g) \/ ResumeFailed(d, g)
           \/ ResumeClosed(d, g) \/ ResumeDiscarded(d, g)
           \/ DisconnectImpl(d)
           \/ StateChangedIgnored(d, g) \/ StateChangedDeferred(d, g) \/ StateChangedRemoves(d, g)
    PROVE  (\A e \in Devices : DeviceInv(e)') /\ ResumeShape'
  <1>t. TypeOK /\ ResumeShape /\ DeviceInv(d)
    BY DEF IInv
  <1>c. ASSUME NEW h \in Generations
        PROVE  /\ conns[h] \in Conn /\ Closed(conns[h]) \in Conn
    BY <1>t, ClosedType DEF TypeOK
  <1>1. queue # <<>> /\ queue' = Tail(queue)
    BY DEF ResumeConnected, ResumeFailed, ResumeClosed, ResumeDiscarded, RunResume,
           DisconnectImpl, StateChangedIgnored, StateChangedDeferred,
           StateChangedRemoves, RunStateChanged, Run
  <1>2. m_nextGeneration' = m_nextGeneration /\ Generations' = Generations
    BY DEF ResumeConnected, ResumeFailed, ResumeClosed, ResumeDiscarded, RunResume,
           DisconnectImpl, StateChangedIgnored, StateChangedDeferred,
           StateChangedRemoves, RunStateChanged, Generations
  <1>3. \A e \in Devices \ {d} : m_connections'[e] = m_connections[e] /\ shown'[e] = shown[e]
    BY <1>t DEF ResumeConnected, ResumeFailed, ResumeClosed, ResumeDiscarded,
           DisconnectImpl, StateChangedIgnored, StateChangedDeferred,
           StateChangedRemoves, TakeOut, Report, TypeOK
  <1>4. SUFFICES /\ DeviceInv(d)'
                 /\ \A h \in Generations :
                       /\ conns'[h].dev = conns[h].dev
                       /\ conns[h].dev # d => conns'[h] = conns[h]
    <2>1. \A e \in Devices : DeviceInv(e)'
      BY <1>2, <1>3, <1>4, Elsewhere
    <2>2. ResumeShape'
      BY <1>t, <1>1, <1>2, <1>4, QueueStep
    <2>. QED
      BY <2>1, <2>2
  (* What is left is about d alone. *)
  <1>e. \A s : /\ m_connections[d] = Entry(g, s) /\ s \in States =>
                     /\ m_connections[d] # NoEntry
                     /\ m_connections[d].gen = g /\ m_connections[d].state = s
                     /\ g \in Generations
                     /\ conns[g].dev = d /\ conns[g].fate = "tracked" /\ conns[g].closes = 0
                     /\ Served(m_connections[d], conns[g])
                     /\ shown[d] \in Told[s]
    BY <1>t DEF Entry, NoEntry, States, DeviceInv, Counted
  (* The entry leaves, and its object with a fate that counts. *)
  <1>out. ASSUME m_connections' = TakeOut(d), shown'[d] = "closed" \/ shown'[d] = "failed",
                 \A h \in Generations :
                    IF m_connections[d].gen = h
                    THEN conns'[h].dev = conns[h].dev /\ conns'[h].fate # "tracked" /\ Counted(conns'[h])
                    ELSE conns'[h] = conns[h]
          PROVE  /\ DeviceInv(d)'
                 /\ \A h \in Generations :
                       /\ conns'[h].dev = conns[h].dev
                       /\ conns[h].dev # d => conns'[h] = conns[h]
    <2>1. m_connections'[d] = NoEntry
      BY <1>t, <1>out DEF TakeOut, TypeOK
    <2>2. \A h \in Generations : m_connections[d].gen = h => conns[h].dev = d
      BY <1>t, EntryShape DEF DeviceInv, Generations
    <2>3. \A h \in Generations : conns[h].dev = d =>
             conns'[h].fate # "tracked" /\ Counted(conns'[h])
      BY <1>t, <1>out DEF DeviceInv, Counted
    <2>. QED
      BY <1>2, <1>out, <2>1, <2>2, <2>3 DEF DeviceInv, Counted
  <1>5. CASE ResumeConnected(d, g)
    <2>1. /\ m_connections[d] = Entry(g, "Connecting") /\ conns[g].ok
          /\ m_connections' = [m_connections EXCEPT ![d].state = "Connected"]
          /\ conns' = [conns EXCEPT ![g] = Finished(@)]
          /\ shown' = [shown EXCEPT ![d] = "connected"]
      BY <1>5 DEF ResumeConnected, Report
    <2>2. /\ m_connections[d] # NoEntry /\ m_connections[d].gen = g /\ g \in Generations
          /\ conns[g].dev = d /\ conns[g].fate = "tracked"
      BY <1>e, <2>1 DEF States
    <2>3. m_connections'[d] = Entry(g, "Connected") /\ shown'[d] = "connected"
      BY <1>t, <2>1 DEF Entry, TypeOK
    <2>4. m_connections'[d].gen = g /\ m_connections'[d].state = "Connected" /\ m_connections'[d] # NoEntry
      BY <2>3 DEF Entry, NoEntry
    <2>5. conns'[g] = Finished(conns[g]) /\ \A h \in Generations : h # g => conns'[h] = conns[h]
      BY <1>t, <2>1, <2>2 DEF TypeOK
    <2>6. /\ conns'[g].dev = d /\ conns'[g].fate = "tracked" /\ conns'[g].phase = "finished"
          /\ conns'[g].ok /\ conns'[g].closes = conns[g].closes
      BY <1>c, <2>1, <2>2, <2>5, FinishedFields
    <2>7. shown'[d] \in Told[m_connections'[d].state]
      BY <2>3, <2>4 DEF Told
    <2>8. Served(m_connections'[d], conns'[g])
      BY <2>4, <2>6 DEF Served
    <2>9. \A h \in Generations : conns[h].dev = d =>
             (conns'[h].fate = "tracked" => g = h) /\ Counted(conns'[h])
      BY <1>t, <2>2, <2>5, <2>6 DEF DeviceInv, Counted
    <2>10. \A h \in Generations :
              conns'[h].dev = conns[h].dev /\ (conns[h].dev # d => conns'[h] = conns[h])
      BY <2>2, <2>5, <2>6
    <2>. QED
      BY <1>2, <2>2, <2>4, <2>6, <2>7, <2>8, <2>9, <2>10 DEF DeviceInv, Counted, Served
  <1>6. CASE ResumeFailed(d, g) \/ ResumeClosed(d, g)
    <2>1. /\ m_connections[d] = Entry(g, "Connecting") \/ m_connections[d] = Entry(g, "Disconnecting")
          /\ m_connections' = TakeOut(d)
          /\ conns' = [conns EXCEPT ![g] = Finished(Closed(@))]
          /\ shown'[d] = "closed" \/ shown'[d] = "failed"
      BY <1>t, <1>6 DEF ResumeFailed, ResumeClosed, Report, TypeOK
    <2>2. /\ m_connections[d].gen = g /\ g \in Generations
          /\ conns[g].dev = d /\ conns[g].closes = 0
      BY <1>e, <2>1 DEF States
    <2>3. conns'[g] = Finished(Closed(conns[g])) /\ \A h \in Generations : h # g => conns'[h] = conns[h]
      BY <1>t, <2>1, <2>2 DEF TypeOK
    <2>4. conns'[g].dev = d /\ conns'[g].fate = "closed" /\ Counted(conns'[g])
      BY <1>c, <2>2, <2>3, ClosedFields, FinishedFields DEF Counted
    <2>. QED
      BY <1>out, <2>1, <2>2, <2>3, <2>4
  <1>7. CASE ResumeDiscarded(d, g)
    <2>1. /\ UNCHANGED <<m_connections, shown>> /\ m_connections[d].gen # g
          /\ conns' = [conns EXCEPT ![g] = Finished(@)]
          /\ Head(queue) = Task("Resume", d, g)
      BY <1>7 DEF ResumeDiscarded, RunResume, Run
    <2>2. g \in Generations /\ conns[g].dev = d
      <3>1. queue \in Seq(Tasks) /\ 1 \in 1..Len(queue) /\ queue[1] = Task("Resume", d, g)
        BY <1>t, <1>1, <2>1 DEF TypeOK
      <3>. QED
        BY <1>t, <3>1 DEF ResumeShape, Task
    <2>3. conns'[g] = Finished(conns[g]) /\ \A h \in Generations : h # g => conns'[h] = conns[h]
      BY <1>t, <2>1, <2>2 DEF TypeOK
    <2>4. /\ conns'[g].dev = d /\ conns'[g].fate = conns[g].fate
          /\ conns'[g].closes = conns[g].closes
      BY <1>c, <2>2, <2>3, FinishedFields
    <2>5. \A h \in Generations :
             /\ conns'[h].dev = conns[h].dev /\ conns'[h].fate = conns[h].fate
             /\ conns'[h].closes = conns[h].closes
             /\ h = m_connections[d].gen => conns'[h] = conns[h]
      BY <2>1, <2>2, <2>3, <2>4
    <2>6. DeviceInv(d)'
      BY <1>t, <1>2, <2>1, <2>5 DEF DeviceInv, Counted, Served
    <2>7. \A h \in Generations :
              conns'[h].dev = conns[h].dev /\ (conns[h].dev # d => conns'[h] = conns[h])
      BY <2>2, <2>3, <2>5
    <2>. QED
      BY <2>6, <2>7
  <1>8. CASE DisconnectImpl(d)
    <2>1. /\ m_connections' = TakeOut(d) /\ shown'[d] = "closed"
          /\ \A h \in Generations : conns'[h] =
                IF m_connections[d].gen = h THEN Closed(conns[h]) ELSE conns[h]
      BY <1>t, <1>8 DEF DisconnectImpl, Report, TypeOK
    <2>2. ASSUME NEW h \in Generations, m_connections[d].gen = h
          PROVE  conns'[h].dev = conns[h].dev /\ conns'[h].fate # "tracked" /\ Counted(conns'[h])
      <3>1. m_connections[d] # NoEntry
        BY <1>t, <2>2, EntryShape DEF Generations
      <3>2. conns[h].dev = d /\ conns[h].fate = "tracked" /\ conns[h].closes = 0
        BY <1>t, <2>2, <3>1 DEF DeviceInv, Counted
      <3>. QED
        BY <1>c, <2>1, <2>2, <3>2, ClosedFields DEF Counted
    <2>. QED
      BY <1>out, <2>1, <2>2
  <1>9. CASE StateChangedIgnored(d, g) \/ StateChangedDeferred(d, g)
    <2>1. UNCHANGED <<conns, shown>>
      BY <1>9 DEF StateChangedIgnored, StateChangedDeferred
    <2>2. CASE m_connections' = m_connections
      BY <1>t, <1>2, <2>1, <2>2 DEF DeviceInv, Counted, Served
    <2>3. CASE StateChangedDeferred(d, g)
      <3>1. /\ m_connections[d] = Entry(g, "Connecting")
            /\ m_connections' = [m_connections EXCEPT ![d].state = "Disconnecting"]
        BY <2>3 DEF StateChangedDeferred
      <3>2. /\ m_connections[d] # NoEntry /\ m_connections[d].gen = g
            /\ m_connections[d].state = "Connecting"
        BY <1>e, <3>1 DEF States
      <3>3. m_connections'[d] = Entry(g, "Disconnecting")
        BY <1>t, <3>1 DEF Entry, TypeOK
      <3>4. /\ m_connections'[d] # NoEntry /\ m_connections'[d].gen = g
            /\ m_connections'[d].state = "Disconnecting"
        BY <3>3 DEF Entry, NoEntry
      <3>5. Told["Connecting"] = Told["Disconnecting"]
        BY DEF Told
      <3>. QED
        BY <1>t, <1>2, <2>1, <3>2, <3>4, <3>5 DEF DeviceInv, Counted, Served
    <2>. QED
      BY <1>9, <2>2, <2>3 DEF StateChangedIgnored
  <1>10. CASE StateChangedRemoves(d, g)
    <2>1. /\ m_connections[d] = Entry(g, "Connected") \/ m_connections[d] = Entry(g, "Disconnecting")
          /\ m_connections' = TakeOut(d) /\ shown'[d] = "closed"
      BY <1>t, <1>10 DEF StateChangedRemoves, Report, TypeOK
    <2>2. /\ m_connections[d].gen = g /\ g \in Generations
          /\ conns[g].dev = d /\ conns[g].closes = 0
      BY <1>e, <2>1 DEF States
    <2>3. /\ conns'[g].dev = d /\ conns'[g].fate = "remote" /\ conns'[g].closes = 0
          /\ \A h \in Generations : h # g => conns'[h] = conns[h]
      BY <1>t, <1>c, <1>10, <2>2 DEF StateChangedRemoves, TypeOK, Conn
    <2>. QED
      BY <1>out, <2>1, <2>2, <2>3 DEF Counted
  <1>. QED
    BY <1>5, <1>6, <1>7, <1>8, <1>9, <1>10

(* ... and the exit empties the table, closing or detaching what it held. *)
LEMMA ExitStep ==
    ASSUME IInv, CloseAll \/ UiExit \/ CloseAllOnExecutor \/ DetachForProcessExitOnExecutor
    PROVE  (\A e \in Devices : DeviceInv(e)') /\ ResumeShape'
  <1>t. TypeOK /\ ResumeShape
    BY DEF IInv
  <1>1. CASE CloseAll \/ UiExit
    <2>1. UNCHANGED <<table, shown>>
      BY <1>1 DEF CloseAll, UiExit, CloseAllReturns, DetachForProcessExit, DetachReturns,
                  Destroy, Destroyed, Exit
    <2>2. /\ Task("CloseAll", "none", 0) \in Tasks /\ Task("Detach", "none", 0) \in Tasks
          /\ Task("CloseAll", "none", 0).op # "Resume" /\ Task("Detach", "none", 0).op # "Resume"
      BY TaskType DEF Ops, Task
    <2>3. \/ queue' = queue
          \/ \E t \in Tasks : queue' = Append(queue, t) /\ t.op # "Resume"
      BY <1>1, <2>2 DEF CloseAll, UiExit, CloseAllReturns, DetachForProcessExit, DetachReturns,
                  Destroy, Destroyed, Post
    <2>. QED
      BY <1>t, <2>1, <2>3, Quiet, QueueStep DEF table, Generations
  <1>2. CASE CloseAllOnExecutor \/ DetachForProcessExitOnExecutor
    <2>1. /\ queue # <<>> /\ queue' = Tail(queue)
          /\ m_nextGeneration' = m_nextGeneration /\ Generations' = Generations
          /\ \A d \in Devices : m_connections'[d] = NoEntry
          /\ \A d \in Devices : m_connections[d] = NoEntry => shown'[d] = shown[d]
      BY <1>2, <1>t DEF CloseAllOnExecutor, DetachForProcessExitOnExecutor, Run, Generations, TypeOK
    <2>2. ASSUME NEW g \in Generations
          PROVE  /\ conns'[g].dev = conns[g].dev
                 /\ conns'[g].fate # "tracked" /\ Counted(conns'[g])
                 /\ m_connections[conns[g].dev] = NoEntry => conns'[g] = conns[g]
      <3>1. /\ conns[g] \in Conn /\ conns[g].dev \in Devices
            /\ conns[g].fate = "tracked" => m_connections[conns[g].dev].gen = g
            /\ Counted(conns[g])
        BY <1>t DEF IInv, TypeOK, Conn, DeviceInv
      <3>2. CASE \E d \in Devices : m_connections[d].gen = g
        <4>1. PICK d \in Devices : m_connections[d].gen = g
          BY <3>2
        <4>2. m_connections[d] # NoEntry
          BY <1>t, <4>1, EntryShape DEF Generations
        <4>3. conns[g].dev = d /\ conns[g].closes = 0
          BY <4>1, <4>2 DEF IInv, DeviceInv, Counted
        <4>4. CASE CloseAllOnExecutor
          <5>1. conns'[g] = Closed(conns[g])
            BY <3>2, <4>4 DEF CloseAllOnExecutor
          <5>. QED
            BY <3>1, <4>2, <4>3, <5>1, ClosedFields DEF Counted
        <4>5. CASE DetachForProcessExitOnExecutor
          <5>1. conns'[g] = [conns[g] EXCEPT !.fate = "detached"]
            BY <3>2, <4>5 DEF DetachForProcessExitOnExecutor
          <5>. QED
            BY <3>1, <4>2, <4>3, <5>1 DEF Counted, Conn
        <4>. QED
          BY <1>2, <4>4, <4>5
      <3>3. CASE ~\E d \in Devices : m_connections[d].gen = g
        <4>1. conns'[g] = conns[g]
          BY <1>2, <3>3 DEF CloseAllOnExecutor, DetachForProcessExitOnExecutor
        <4>. QED
          BY <3>1, <3>3, <4>1
      <3>. QED
        BY <3>2, <3>3
    <2>3. ASSUME NEW d \in Devices PROVE DeviceInv(d)'
      <3>1. CASE m_connections[d] = NoEntry
        BY <2>1, <2>2, <3>1 DEF DeviceInv, IInv, Counted
      <3>2. CASE m_connections[d] # NoEntry /\ CloseAllOnExecutor
        <4>1. shown'[d] = "closed"
          BY <3>2 DEF CloseAllOnExecutor
        <4>. QED
          BY <2>1, <2>2, <4>1 DEF DeviceInv, Counted
      <3>3. CASE m_connections[d] # NoEntry /\ DetachForProcessExitOnExecutor
        <4>1. /\ m_connections[d].gen \in Generations /\ conns[m_connections[d].gen] \in Conn
              /\ conns[m_connections[d].gen].dev = d
          BY <1>t, <3>3 DEF IInv, DeviceInv, TypeOK
        <4>2. conns'[m_connections[d].gen] = [conns[m_connections[d].gen] EXCEPT !.fate = "detached"]
          BY <3>3, <4>1 DEF DetachForProcessExitOnExecutor
        <4>3. conns'[m_connections[d].gen].fate = "detached" /\ conns'[m_connections[d].gen].dev = d
          BY <4>1, <4>2 DEF Conn
        <4>. QED
          BY <2>1, <2>2, <4>1, <4>3 DEF DeviceInv, Counted
      <3>. QED
        BY <1>2, <3>1, <3>2, <3>3
    <2>. QED
      BY <1>t, <2>1, <2>2, <2>3, QueueStep
  <1>. QED
    BY <1>1, <1>2

LEMMA IInvInit == Init => IInv
  <1>. SUFFICES ASSUME Init PROVE IInv
    OBVIOUS
  <1>1. TypeOK
    BY TypeInit
  <1>2. Generations = {}
    BY DEF Init, Generations
  <1>3. ASSUME NEW d \in Devices PROVE DeviceInv(d)
    <2>1. m_connections[d] = NoEntry /\ shown[d] = "none"
      BY DEF Init
    <2>. QED
      BY <1>2, <2>1 DEF DeviceInv
  <1>4. ResumeShape
    BY DEF Init, ResumeShape
  <1>. QED
    BY <1>1, <1>3, <1>4 DEF IInv

LEMMA IInvStep == IInv /\ [Next]_vars => IInv'
  <1>1. ASSUME IInv, NEW d \in Devices, NEW g, ExecutorStep(d, g)
        PROVE  (\A e \in Devices : DeviceInv(e)') /\ ResumeShape'
    BY <1>1, ConnectStep, EntryTaskStep DEF ExecutorStep
  <1>2. ASSUME IInv, Executor
        PROVE  (\A e \in Devices : DeviceInv(e)') /\ ResumeShape'
    BY <1>1, <1>2, ExitStep DEF Executor
  <1>3. ASSUME IInv, UNCHANGED vars
        PROVE  (\A e \in Devices : DeviceInv(e)') /\ ResumeShape'
    <2>1. UNCHANGED <<m_connections, m_nextGeneration, conns, queue, shown>>
      BY <1>3 DEF vars, table
    <2>. QED
      BY <1>3, <2>1, Quiet, QueueStep DEF IInv, Generations
  <1>4. ASSUME IInv, [Next]_vars
        PROVE  (\A e \in Devices : DeviceInv(e)') /\ ResumeShape'
    BY <1>2, <1>3, <1>4, RequestStep, PlatformStep, ExitStep DEF Next
  <1>5. ASSUME IInv, [Next]_vars PROVE TypeOK'
    BY <1>5, TypeStep DEF IInv
  <1>. QED
    BY <1>4, <1>5 DEF IInv

(* The inductive invariant holds in every reachable state. *)
THEOREM Invariance == Safety => []IInv
  BY IInvInit, IInvStep, PTL DEF Safety

(* Ownership: no connection is leaked or closed twice, whatever replaced,
   closed or lost it, in whatever order.                                   *)
THEOREM Owned == Safety => []Ownership
  BY Invariance, Implied, PTL

(* EntryMatchesCoroutine: an entry still opening always has a coroutine that
   comes back for it, and a Connected one opened.                          *)
THEOREM Matched == Safety => []EntryMatchesCoroutine
  BY Invariance, Implied, PTL

(* ReportMatchesTable: the last word the user heard fits the table. *)
THEOREM Reported == Safety => []ReportMatchesTable
  BY Invariance, Implied, PTL

-----------------------------------------------------------------------------
(* GenerationsOnlyGrow: an entry that is new has a generation that is new, so
   that a notification or coroutine of an older one can never be taken for it. *)
THEOREM Younger == Safety => GenerationsOnlyGrow
  <1>1. ASSUME TypeOK, NEW d \in Devices, [Next]_vars,
               m_connections'[d].gen > 0, m_connections'[d].gen # m_connections[d].gen
        PROVE  m_connections'[d].gen > m_nextGeneration
    <2>n. m_nextGeneration \in Nat /\ NoEntry.gen = 0
      BY <1>1 DEF TypeOK, NoEntry
    <2>1. ASSUME NEW e \in Devices, NEW g, ExecutorStep(e, g)
          PROVE  \/ m_connections'[d].gen \in {0, m_connections[d].gen}
                 \/ \E s \in States : m_connections'[d] = Entry(m_nextGeneration + 1, s)
      <3>1. CASE m_connections' = m_connections
        BY <3>1
      <3>2. CASE m_connections' = TakeOut(e)
        BY <1>1, <2>n, <3>2 DEF TypeOK, TakeOut
      <3>3. ASSUME NEW s \in States, m_connections' = [m_connections EXCEPT ![e] = Entry(m_nextGeneration + 1, s)]
            PROVE  \/ m_connections'[d].gen \in {0, m_connections[d].gen}
                   \/ \E r \in States : m_connections'[d] = Entry(m_nextGeneration + 1, r)
        BY <1>1, <3>3 DEF TypeOK
      <3>4. CASE ResumeConnected(e, g) \/ StateChangedDeferred(e, g)
        <4>1. PICK s \in States : /\ m_connections[e] = Entry(g, "Connecting")
                                  /\ m_connections' = [m_connections EXCEPT ![e].state = s]
          BY <3>4 DEF ResumeConnected, StateChangedDeferred, States
        <4>2. m_connections[e].gen = g /\ m_connections'[e] = Entry(g, s)
          BY <1>1, <4>1 DEF Entry, TypeOK
        <4>3. m_connections'[e].gen = g
          BY <4>2 DEF Entry
        <4>. QED
          BY <1>1, <4>1, <4>2, <4>3 DEF TypeOK
      <3>. QED
        BY <2>1, <3>1, <3>2, <3>3, <3>4 DEF ExecutorStep, CreateFails, RegisterFails,
           ConnectSuspends, ConnectSucceeds, ConnectFails, ResumeFailed, ResumeClosed,
           ResumeDiscarded, DisconnectImpl, StateChangedIgnored, StateChangedRemoves,
           States, table
    <2>2. ASSUME Executor
          PROVE  \/ m_connections'[d].gen \in {0, m_connections[d].gen}
                 \/ \E s \in States : m_connections'[d] = Entry(m_nextGeneration + 1, s)
      <3>1. CASE CloseAllOnExecutor \/ DetachForProcessExitOnExecutor
        BY <2>n, <3>1 DEF CloseAllOnExecutor, DetachForProcessExitOnExecutor
      <3>. QED
        BY <2>1, <2>2, <3>1 DEF Executor
    <2>3. CASE ~Executor
      <3>1. m_connections' = m_connections
        BY <1>1, <2>3 DEF Next, vars, table, Connect, Disconnect, ConnectById, LookupSucceeds,
           LookupFails, Platform, StartCompletes, OpenCompletes, StartSucceeds, StartFails,
           OpenSucceeds, OpenFails, YieldTo, StateCallback, LinkUp, LinkDown, CloseAll, UiExit,
           CloseAllReturns, DetachForProcessExit, DetachReturns, Destroy, Destroyed, Exit
      <3>. QED
        BY <1>1, <3>1
    <2>4. ASSUME NEW s \in States, m_connections'[d] = Entry(m_nextGeneration + 1, s)
          PROVE  m_connections'[d].gen > m_nextGeneration
      BY <2>n, <2>4 DEF Entry
    <2>. QED
      BY <1>1, <2>2, <2>3, <2>4
  <1>2. TypeOK /\ [Next]_vars =>
          [\A d \in Devices : m_connections'[d].gen > 0 /\ m_connections'[d].gen # m_connections[d].gen
             => m_connections'[d].gen > m_nextGeneration]_vars
    BY <1>1
  <1>. QED
    BY <1>2, TypeCorrect, PTL DEF Safety, GenerationsOnlyGrow
=============================================================================
