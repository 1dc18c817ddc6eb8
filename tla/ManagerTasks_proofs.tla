------------------------- MODULE ManagerTasks_proofs -------------------------
(***************************************************************************)
(* Theorems about the tasks ConnectionManager has in its queue: each hop   *)
(* of a coroutine resumes it once, and the loss of a link is never         *)
(* forgotten.                                                              *)
(***************************************************************************)
EXTENDS ManagerExit_proofs, FiniteSetTheorems

-----------------------------------------------------------------------------
(* The coroutines that hop and the tasks that resume them. *)
IsResume(i, g) == queue[i].op = "Resume" /\ queue[i].gen = g

ResumeInv ==
    /\ \A i \in 1..Len(queue) : queue[i].op = "Resume" => conns[queue[i].gen].phase = "posted"
    /\ \A i, j \in 1..Len(queue) :
          (queue[i].op = "Resume" /\ queue[j].op = "Resume" /\ queue[i].gen = queue[j].gen) => i = j
    /\ \A g \in Generations :
          conns[g].phase = "posted" => \E i \in 1..Len(queue) : IsResume(i, g)

(* Three kinds of steps: no coroutine begins or ends to wait in the queue; ... *)
PhaseStep ==
    /\ \A g \in Generations : g \in Generations' /\ (conns'[g].phase = "posted" <=> conns[g].phase = "posted")
    /\ \A g \in Generations' \ Generations : conns'[g].phase # "posted"
Neutral ==
    /\ PhaseStep
    /\ \/ queue' = queue
       \/ \E t \in Tasks : queue' = Append(queue, t) /\ t.op # "Resume"
       \/ queue # <<>> /\ queue' = Tail(queue) /\ Head(queue).op # "Resume"

(* ... one begins to; ... *)
Hopped(g) ==
    /\ Generations' = Generations
    /\ conns[g].phase = "hop"
    /\ conns' = [conns EXCEPT ![g].phase = "posted"]
    /\ queue' = Append(queue, Task("Resume", conns[g].dev, g))

(* ... and one ends to. *)
Resumed(g) ==
    /\ Generations' = Generations
    /\ queue # <<>> /\ queue' = Tail(queue) /\ Head(queue).op = "Resume" /\ Head(queue).gen = g
    /\ \E c \in Conn : c.phase = "finished" /\ conns' = [conns EXCEPT ![g] = c]

LEMMA PhaseOfClosed ==
    ASSUME NEW c \in Conn
    PROVE  Closed(c) \in Conn /\ Closed(c).phase = c.phase
  BY ClosedType, ClosedFields

LEMMA CreatedPhases ==
    ASSUME TypeOK, NEW d \in Devices, NEW c \in Conn, c.phase # "posted",
           conns' = Replaced(d, c), m_nextGeneration' = m_nextGeneration + 1
    PROVE  PhaseStep
  <1>1. /\ m_nextGeneration \in Nat /\ Generations' = 1..(m_nextGeneration + 1)
        /\ Generations = 1..m_nextGeneration
    BY DEF TypeOK, Generations
  <1>2. ASSUME NEW g \in Generations
        PROVE  conns'[g].phase = conns[g].phase
    <2>1. conns[g] \in Conn /\ g \in 1..(m_nextGeneration + 1) /\ ~(g > m_nextGeneration)
      BY <1>1 DEF TypeOK
    <2>. QED
      BY <2>1, PhaseOfClosed DEF Replaced
  <1>3. ASSUME NEW g \in Generations' \ Generations
        PROVE  conns'[g] = c
    BY <1>1, <1>3 DEF Replaced
  <1>. QED
    BY <1>1, <1>2, <1>3 DEF PhaseStep

LEMMA NewPhases ==
    ASSUME NEW d \in Devices
    PROVE  /\ [NewConn(d, "finished") EXCEPT !.fate = "dropped", !.link = "dead"] \in Conn
           /\ [NewConn(d, "finished") EXCEPT !.fate = "dropped", !.link = "dead"].phase = "finished"
           /\ [Up(NewConn(d, "finished")) EXCEPT !.ok = TRUE] \in Conn
           /\ [Up(NewConn(d, "finished")) EXCEPT !.ok = TRUE].phase = "finished"
           /\ Closed(NewConn(d, "finished")) \in Conn
           /\ Closed(NewConn(d, "finished")).phase = "finished"
           /\ \A phase \in {"start", "open"} : NewConn(d, phase) \in Conn /\ NewConn(d, phase).phase = phase
  <1>1. \A phase \in {"start", "open", "finished"} :
            NewConn(d, phase) \in Conn /\ NewConn(d, phase).phase = phase
    BY DEF NewConn, Conn, Phases, Fates, Links
  <1>2. Up(NewConn(d, "finished")) \in Conn /\ Up(NewConn(d, "finished")).phase = "finished"
    BY <1>1, UpType, UpFields
  <1>3. ASSUME NEW c \in Conn
        PROVE  /\ [c EXCEPT !.fate = "dropped", !.link = "dead"] \in Conn
               /\ [c EXCEPT !.fate = "dropped", !.link = "dead"].phase = c.phase
               /\ [c EXCEPT !.ok = TRUE] \in Conn /\ [c EXCEPT !.ok = TRUE].phase = c.phase
    BY DEF Conn, Fates, Links
  <1>. QED
    BY <1>1, <1>2, <1>3, PhaseOfClosed

LEMMA SamePhases ==
    ASSUME TypeOK, UNCHANGED m_nextGeneration,
           \A g \in Generations : conns'[g].phase = conns[g].phase
                                  \/ (conns'[g].phase # "posted" /\ conns[g].phase # "posted")
    PROVE  PhaseStep
  BY DEF PhaseStep, Generations

(* The tasks of one device. *)
LEMMA TaskKinds ==
    ASSUME IInv, NEW d \in Devices, NEW g, ExecutorStep(d, g)
    PROVE  Neutral \/ Resumed(g)
  <1>t. TypeOK /\ \A h \in Generations : conns[h] \in Conn
    BY DEF IInv, TypeOK
  <1>1. CASE CreateFails(d) \/ StateChangedIgnored(d, g) \/ StateChangedDeferred(d, g)
    <2>1. /\ UNCHANGED <<m_nextGeneration, conns>>
          /\ queue # <<>> /\ queue' = Tail(queue) /\ Head(queue).op # "Resume"
      BY <1>1 DEF CreateFails, StateChangedIgnored, StateChangedDeferred, RunStateChanged, RunConnect,
         Run, Task, table
    <2>. QED
      BY <1>t, <2>1, SamePhases DEF Neutral
  <1>2. CASE RegisterFails(d) \/ ConnectSuspends(d) \/ ConnectSucceeds(d) \/ ConnectFails(d)
    <2>1. \E c \in Conn : c.phase # "posted" /\ conns' = Replaced(d, c)
      BY <1>2, NewPhases DEF RegisterFails, ConnectSuspends, ConnectSucceeds, ConnectFails
    <2>2. /\ m_nextGeneration' = m_nextGeneration + 1
          /\ queue # <<>> /\ queue' = Tail(queue) /\ Head(queue).op # "Resume"
      BY <1>2 DEF RegisterFails, ConnectSuspends, ConnectSucceeds, ConnectFails, RunConnect, Run, Task
    <2>. QED
      BY <1>t, <2>1, <2>2, CreatedPhases DEF Neutral
  <1>3. CASE ResumeConnected(d, g) \/ ResumeFailed(d, g) \/ ResumeClosed(d, g) \/ ResumeDiscarded(d, g)
    <2>1. /\ queue # <<>> /\ queue' = Tail(queue) /\ Head(queue) = Task("Resume", d, g)
          /\ UNCHANGED m_nextGeneration
      BY <1>3 DEF ResumeConnected, ResumeFailed, ResumeClosed, ResumeDiscarded, RunResume, Run
    <2>2. g \in Generations
      <3>1. 1 \in 1..Len(queue) /\ queue[1] = Task("Resume", d, g)
        BY <1>t, <2>1, HeadTailProperties DEF TypeOK
      <3>. QED
        BY <3>1 DEF IInv, ResumeShape, Task
    <2>3. \/ conns' = [conns EXCEPT ![g] = Finished(conns[g])]
          \/ conns' = [conns EXCEPT ![g] = Finished(Closed(conns[g]))]
      BY <1>3 DEF ResumeConnected, ResumeFailed, ResumeClosed, ResumeDiscarded
    <2>4. /\ Finished(conns[g]) \in Conn /\ Finished(conns[g]).phase = "finished"
          /\ Finished(Closed(conns[g])) \in Conn /\ Finished(Closed(conns[g])).phase = "finished"
      BY <1>t, <2>2, ClosedType, FinishedType, FinishedFields
    <2>. QED
      BY <2>1, <2>3, <2>4 DEF Resumed, Task, Generations
  <1>4. CASE DisconnectImpl(d)
    <2>1. /\ UNCHANGED m_nextGeneration
          /\ queue # <<>> /\ queue' = Tail(queue) /\ Head(queue).op # "Resume"
          /\ \A h \in Generations : conns'[h] = conns[h] \/ conns'[h] = Closed(conns[h])
      BY <1>4 DEF DisconnectImpl, Run, Task
    <2>. QED
      BY <1>t, <2>1, SamePhases, PhaseOfClosed DEF Neutral
  <1>5. CASE StateChangedRemoves(d, g)
    <2>1. /\ UNCHANGED m_nextGeneration
          /\ queue # <<>> /\ queue' = Tail(queue) /\ Head(queue).op # "Resume"
      BY <1>5 DEF StateChangedRemoves, RunStateChanged, Run, Task
    <2>2. \A h \in Generations : conns'[h].phase = conns[h].phase
      BY <1>5, <1>t DEF StateChangedRemoves, Conn, TypeOK
    <2>. QED
      BY <1>t, <2>1, <2>2, SamePhases DEF Neutral
  <1>. QED
    BY <1>1, <1>2, <1>3, <1>4, <1>5 DEF ExecutorStep

(* Every step is of one of the three kinds. *)
LEMMA StepKinds ==
    ASSUME IInv, [Next]_vars
    PROVE  Neutral \/ \E g \in Generations : Hopped(g) \/ Resumed(g)
  <1>t. TypeOK /\ \A h \in Generations : conns[h] \in Conn
    BY DEF IInv, TypeOK
  <1>1. ASSUME NEW d \in Devices, NEW g, ExecutorStep(d, g)
        PROVE  Neutral \/ \E h \in Generations : Resumed(h)
    <2>1. Resumed(g) => g \in Generations
      <3>1. Resumed(g) => 1 \in 1..Len(queue) /\ queue[1].op = "Resume" /\ queue[1].gen = g
        BY <1>t, HeadTailProperties DEF TypeOK, Resumed
      <3>. QED
        BY <3>1 DEF IInv, ResumeShape
    <2>. QED
      BY <1>1, <2>1, TaskKinds
  <1>2. CASE CloseAllOnExecutor \/ DetachForProcessExitOnExecutor
    <2>1. /\ UNCHANGED m_nextGeneration
          /\ queue # <<>> /\ queue' = Tail(queue) /\ Head(queue).op # "Resume"
      BY <1>2 DEF CloseAllOnExecutor, DetachForProcessExitOnExecutor, Run, Task
    <2>2. ASSUME NEW h \in Generations PROVE conns'[h].phase = conns[h].phase
      <3>1. \/ conns'[h] = conns[h] \/ conns'[h] = Closed(conns[h])
            \/ conns'[h] = [conns[h] EXCEPT !.fate = "detached"]
        BY <1>2 DEF CloseAllOnExecutor, DetachForProcessExitOnExecutor
      <3>. QED
        BY <1>t, <3>1, PhaseOfClosed DEF Conn
    <2>. QED
      BY <1>t, <2>1, <2>2, SamePhases DEF Neutral
  <1>3. ASSUME NEW d \in Devices, Connect(d) \/ Disconnect(d) \/ ConnectById(d)
                                  \/ LookupSucceeds(d) \/ LookupFails(d)
        PROVE  Neutral
    <2>1. \A op \in {"Connect", "Disconnect"} : Task(op, d, 0) \in Tasks /\ Task(op, d, 0).op # "Resume"
      BY TaskType DEF Task, Ops
    <2>2. UNCHANGED <<m_nextGeneration, conns>>
      BY <1>3 DEF Connect, Disconnect, ConnectById, LookupSucceeds, LookupFails, table
    <2>3. queue' = queue \/ \E t \in Tasks : queue' = Append(queue, t) /\ t.op # "Resume"
      BY <1>3, <2>1 DEF Connect, Disconnect, ConnectById, LookupSucceeds, LookupFails, Post
    <2>. QED
      BY <1>t, <2>2, <2>3, SamePhases DEF Neutral
  <1>4. ASSUME NEW g \in Generations, StartCompletes(g) \/ OpenCompletes(g) \/ LinkUp(g) \/ LinkDown(g)
        PROVE  Neutral
    <2>1. UNCHANGED <<m_nextGeneration, queue>>
      BY <1>4 DEF StartCompletes, OpenCompletes, StartSucceeds, StartFails, OpenSucceeds, OpenFails,
         LinkUp, LinkDown
    <2>2. ASSUME NEW h \in Generations
          PROVE  conns'[h].phase = conns[h].phase \/ (conns'[h].phase # "posted" /\ conns[h].phase # "posted")
      <3>1. CASE h # g
        BY <1>4, <1>t, <3>1 DEF StartCompletes, OpenCompletes, StartSucceeds, StartFails, OpenSucceeds,
           OpenFails, LinkUp, LinkDown, Phase, TypeOK
      <3>2. CASE h = g
        <4>1. /\ conns[g] \in Conn /\ Up(conns[g]) \in Conn /\ Up(conns[g]).phase = conns[g].phase
              /\ Hopping(conns[g]).phase = "hop"
              /\ Hopping(Up(conns[g])) \in Conn /\ Hopping(Up(conns[g])).phase = "hop"
          BY <1>t, UpType, UpFields, HoppingType, HoppingFields
        <4>2. CASE StartSucceeds(g)
          BY <1>t, <3>2, <4>1, <4>2 DEF StartSucceeds, Phase, TypeOK, Conn
        <4>3. CASE StartFails(g) \/ OpenFails(g)
          BY <1>t, <3>2, <4>1, <4>3 DEF StartFails, OpenFails, TypeOK
        <4>4. CASE OpenSucceeds(g)
          BY <1>t, <3>2, <4>1, <4>4 DEF OpenSucceeds, TypeOK, Conn
        <4>5. CASE LinkUp(g)
          BY <1>t, <3>2, <4>1, <4>5 DEF LinkUp, TypeOK, Conn
        <4>6. CASE LinkDown(g)
          BY <1>t, <3>2, <4>1, <4>6 DEF LinkDown, TypeOK, Conn
        <4>. QED
          BY <1>4, <4>2, <4>3, <4>4, <4>5, <4>6 DEF StartCompletes, OpenCompletes
      <3>. QED
        BY <3>1, <3>2
    <2>. QED
      BY <1>t, <2>1, <2>2, SamePhases DEF Neutral
  <1>5. ASSUME NEW g \in Generations, YieldTo(g) PROVE Neutral \/ Hopped(g)
    <2>1. CASE Accepting
      BY <1>5, <2>1 DEF YieldTo, Post, Phase, Hopped, Generations
    <2>2. CASE ~Accepting
      <3>1. UNCHANGED <<m_nextGeneration, queue>>
        BY <1>5, <2>2 DEF YieldTo, Post
      <3>2. \A h \in Generations : conns'[h].phase = conns[h].phase
                                  \/ (conns'[h].phase # "posted" /\ conns[h].phase # "posted")
        BY <1>5, <1>t, <2>2 DEF YieldTo, Phase, TypeOK, Conn
      <3>. QED
        BY <1>t, <3>1, <3>2, SamePhases DEF Neutral
    <2>. QED
      BY <2>1, <2>2
  <1>6. ASSUME NEW g \in Generations, StateCallback(g) PROVE Neutral
    <2>1. /\ UNCHANGED m_nextGeneration
          /\ queue' = queue \/ queue' = Append(queue, Task("StateChanged", conns[g].dev, g))
      BY <1>6 DEF StateCallback, Post
    <2>2. \A h \in Generations : conns'[h].phase = conns[h].phase
      BY <1>6, <1>t DEF StateCallback, TypeOK, Conn
    <2>3. Task("StateChanged", conns[g].dev, g) \in Tasks /\ Task("StateChanged", conns[g].dev, g).op # "Resume"
      <3>1. conns[g].dev \in Devices /\ g \in Nat
        BY <1>t DEF Conn, TypeOK, Generations
      <3>. QED
        BY <3>1, TaskType DEF Task, Ops
    <2>. QED
      BY <1>t, <2>1, <2>2, <2>3, SamePhases DEF Neutral
  <1>7. CASE CloseAll \/ UiExit
    <2>1. UNCHANGED <<m_nextGeneration, conns>>
      BY <1>7 DEF CloseAll, UiExit, CloseAllReturns, DetachForProcessExit, DetachReturns, Destroy,
         Destroyed, Exit, table
    <2>2. \A op \in ExitTasks : Task(op, "none", 0) \in Tasks /\ Task(op, "none", 0).op # "Resume"
      BY TaskType DEF Task, Ops, ExitTasks
    <2>3. queue' = queue \/ \E t \in Tasks : queue' = Append(queue, t) /\ t.op # "Resume"
      BY <1>7, <2>2 DEF CloseAll, UiExit, CloseAllReturns, DetachForProcessExit, DetachReturns, Destroy,
         Destroyed, Exit, Post, ExitTasks
    <2>. QED
      BY <1>t, <2>1, <2>3, SamePhases DEF Neutral
  <1>8. CASE UNCHANGED vars
    <2>1. UNCHANGED <<m_nextGeneration, conns, queue>>
      BY <1>8 DEF vars, table
    <2>. QED
      BY <1>t, <2>1, SamePhases DEF Neutral
  <1>. QED
    BY <1>1, <1>2, <1>3, <1>4, <1>5, <1>6, <1>7, <1>8 DEF Next, Executor, Platform

LEMMA NeutralKeeps ==
    ASSUME IInv, ResumeInv, Neutral
    PROVE  ResumeInv'
  <1>t. TypeOK /\ ResumeShape
    BY DEF IInv
  <1>1. CASE queue' = queue
    BY <1>t, <1>1 DEF Neutral, PhaseStep, ResumeInv, ResumeShape, IsResume
  <1>2. ASSUME NEW t \in Tasks, queue' = Append(queue, t), t.op # "Resume" PROVE ResumeInv'
    <2>1. /\ \A i \in 1..Len(queue) : i \in 1..Len(queue') /\ queue'[i] = queue[i]
          /\ \A i \in 1..Len(queue') : queue'[i].op = "Resume" => i \in 1..Len(queue) /\ queue'[i] = queue[i]
      BY <1>t, <1>2, AppendMoves
    <2>2. \A i \in 1..Len(queue') : queue'[i].op = "Resume" => conns'[queue'[i].gen].phase = "posted"
      BY <1>t, <2>1 DEF Neutral, PhaseStep, ResumeInv, ResumeShape
    <2>3. \A i, j \in 1..Len(queue') :
              (queue'[i].op = "Resume" /\ queue'[j].op = "Resume" /\ queue'[i].gen = queue'[j].gen) => i = j
      BY <2>1 DEF ResumeInv
    <2>4. \A g \in Generations' : conns'[g].phase = "posted" => \E i \in 1..Len(queue') : IsResume(i, g)'
      BY <2>1 DEF Neutral, PhaseStep, ResumeInv, IsResume
    <2>. QED
      BY <2>2, <2>3, <2>4 DEF ResumeInv
  <1>3. CASE queue # <<>> /\ queue' = Tail(queue) /\ Head(queue).op # "Resume"
    <2>1. /\ \A i \in 1..Len(queue') : i + 1 \in 1..Len(queue) /\ queue'[i] = queue[i + 1]
          /\ \A i \in 1..Len(queue) : i = 1 \/ (i - 1 \in 1..Len(queue') /\ (i - 1) + 1 = i)
          /\ queue[1].op # "Resume"
      BY <1>t, <1>3, TailMoves DEF TypeOK
    <2>2. \A i \in 1..Len(queue') : queue'[i].op = "Resume" => conns'[queue'[i].gen].phase = "posted"
      BY <1>t, <2>1 DEF Neutral, PhaseStep, ResumeInv, ResumeShape
    <2>3. \A i, j \in 1..Len(queue') :
              (queue'[i].op = "Resume" /\ queue'[j].op = "Resume" /\ queue'[i].gen = queue'[j].gen) => i = j
      BY <2>1 DEF ResumeInv
    <2>4. ASSUME NEW g \in Generations', conns'[g].phase = "posted"
          PROVE  \E i \in 1..Len(queue') : IsResume(i, g)'
      <3>1. g \in Generations /\ conns[g].phase = "posted"
        BY <2>4 DEF Neutral, PhaseStep
      <3>2. PICK i \in 1..Len(queue) : IsResume(i, g)
        BY <3>1 DEF ResumeInv
      <3>3. i - 1 \in 1..Len(queue') /\ queue'[i - 1] = queue[i]
        BY <2>1, <3>2 DEF IsResume
      <3>. QED
        BY <3>2, <3>3 DEF IsResume
    <2>. QED
      BY <2>2, <2>3, <2>4 DEF ResumeInv
  <1>. QED
    BY <1>1, <1>2, <1>3 DEF Neutral

LEMMA HoppedKeeps ==
    ASSUME IInv, ResumeInv, NEW g \in Generations, Hopped(g)
    PROVE  ResumeInv'
  <1>t. TypeOK /\ ResumeShape /\ conns \in [Generations -> Conn]
    BY DEF IInv, TypeOK
  <1>. DEFINE t == Task("Resume", conns[g].dev, g)
  <1>1. t \in Tasks /\ t.op = "Resume" /\ t.gen = g
    <2>1. conns[g].dev \in Devices /\ g \in Nat
      BY <1>t DEF Conn, TypeOK, Generations
    <2>. QED
      BY <2>1, TaskType DEF Task, Ops
  <1>2. conns'[g].phase = "posted" /\ \A h \in Generations \ {g} : conns'[h] = conns[h]
    BY <1>t DEF Hopped, Conn
  <1>3. queue' = Append(queue, t) /\ Generations' = Generations
    BY DEF Hopped
  <1>. HIDE DEF t
  <1>4. /\ Len(queue) \in Nat /\ Len(queue') = Len(queue) + 1 /\ queue'[Len(queue) + 1] = t
        /\ \A i \in 1..Len(queue) : i \in 1..Len(queue') /\ queue'[i] = queue[i]
        /\ \A i \in 1..Len(queue') : i \in 1..Len(queue) \/ i = Len(queue) + 1
    BY <1>t, <1>1, <1>3, AppendProperties DEF TypeOK
  <1>5. \A i \in 1..Len(queue) : queue[i].op = "Resume" => queue[i].gen \in Generations \ {g}
    BY <1>t DEF ResumeInv, ResumeShape, Hopped
  <1>6. \A i \in 1..Len(queue') : queue'[i].op = "Resume" => conns'[queue'[i].gen].phase = "posted"
    BY <1>1, <1>2, <1>4, <1>5 DEF ResumeInv
  <1>7. \A i, j \in 1..Len(queue') :
            (queue'[i].op = "Resume" /\ queue'[j].op = "Resume" /\ queue'[i].gen = queue'[j].gen) => i = j
    BY <1>1, <1>4, <1>5 DEF ResumeInv
  <1>8. \A h \in Generations' : conns'[h].phase = "posted" => \E i \in 1..Len(queue') : IsResume(i, h)'
    <2>1. Len(queue) + 1 \in 1..Len(queue')
      BY <1>4
    <2>. QED
      BY <1>1, <1>2, <1>3, <1>4, <2>1 DEF ResumeInv, IsResume
  <1>. QED
    BY <1>6, <1>7, <1>8 DEF ResumeInv

LEMMA ResumedKeeps ==
    ASSUME IInv, ResumeInv, NEW g \in Generations, Resumed(g)
    PROVE  ResumeInv'
  <1>t. TypeOK /\ ResumeShape /\ conns \in [Generations -> Conn]
    BY DEF IInv, TypeOK
  <1>1. conns'[g].phase = "finished" /\ \A h \in Generations \ {g} : conns'[h] = conns[h]
    BY <1>t DEF Resumed
  <1>2. /\ \A i \in 1..Len(queue') : i + 1 \in 1..Len(queue) /\ i + 1 # 1 /\ queue'[i] = queue[i + 1]
        /\ \A i \in 1..Len(queue) : i = 1 \/ (i - 1 \in 1..Len(queue') /\ (i - 1) + 1 = i)
        /\ 1 \in 1..Len(queue) /\ IsResume(1, g)
    BY <1>t, TailMoves DEF TypeOK, Resumed, IsResume
  <1>3. \A i \in 1..Len(queue) : IsResume(i, g) => i = 1
    BY <1>2 DEF ResumeInv, IsResume
  <1>4. \A i \in 1..Len(queue') : queue'[i].op = "Resume" => conns'[queue'[i].gen].phase = "posted"
    BY <1>t, <1>1, <1>2, <1>3 DEF ResumeInv, ResumeShape, IsResume
  <1>5. \A i, j \in 1..Len(queue') :
            (queue'[i].op = "Resume" /\ queue'[j].op = "Resume" /\ queue'[i].gen = queue'[j].gen) => i = j
    <2>. SUFFICES ASSUME NEW i \in 1..Len(queue'), NEW j \in 1..Len(queue'), queue'[i].op = "Resume",
                         queue'[j].op = "Resume", queue'[i].gen = queue'[j].gen
                  PROVE  i = j
      OBVIOUS
    <2>1. /\ i + 1 \in 1..Len(queue) /\ queue'[i] = queue[i + 1]
          /\ j + 1 \in 1..Len(queue) /\ queue'[j] = queue[j + 1]
      BY <1>2
    <2>2. i + 1 = j + 1
      BY <2>1 DEF ResumeInv
    <2>. QED
      BY <2>2
  <1>6. ASSUME NEW h \in Generations', conns'[h].phase = "posted"
        PROVE  \E i \in 1..Len(queue') : IsResume(i, h)'
    <2>1. h \in Generations \ {g} /\ conns[h].phase = "posted"
      BY <1>1, <1>6 DEF Resumed
    <2>2. PICK i \in 1..Len(queue) : IsResume(i, h)
      BY <2>1 DEF ResumeInv
    <2>3. i - 1 \in 1..Len(queue') /\ queue'[i - 1] = queue[i]
      BY <1>2, <2>1, <2>2 DEF IsResume
    <2>. QED
      BY <2>2, <2>3 DEF IsResume
  <1>. QED
    BY <1>4, <1>5, <1>6 DEF ResumeInv

(* ResumeInv is inductive, by the three kinds of steps. *)
LEMMA ResumeInvStep == IInv /\ ResumeInv /\ [Next]_vars => ResumeInv'
  BY StepKinds, NeutralKeeps, HoppedKeeps, ResumedKeeps

(* ResumedOnce: a coroutine that has hopped is resumed by one task, and no
   other coroutine by any.                                                 *)
THEOREM Once == Safety => []ResumedOnce
  <1>1. Init => ResumeInv
    BY DEF Init, ResumeInv, Generations
  <1>2. IInv /\ ResumeInv => ResumedOnce
    <2>. SUFFICES ASSUME IInv, ResumeInv, NEW g \in Generations
                  PROVE  Cardinality(Resumes(g)) = IF conns[g].phase = "posted" THEN 1 ELSE 0
      BY DEF ResumedOnce
    <2>1. CASE conns[g].phase = "posted"
      <3>1. PICK i \in 1..Len(queue) : IsResume(i, g)
        BY <2>1 DEF ResumeInv
      <3>2. Resumes(g) = {i}
        BY <3>1 DEF ResumeInv, IsResume, Resumes
      <3>. QED
        BY <2>1, <3>2, FS_Singleton
    <2>2. CASE conns[g].phase # "posted"
      <3>1. Resumes(g) = {}
        BY <2>2 DEF ResumeInv, Resumes
      <3>. QED
        BY <2>2, <3>1, FS_EmptySet
    <2>. QED
      BY <2>1, <2>2
  <1>. QED
    BY <1>1, <1>2, ResumeInvStep, Invariance, PTL DEF Safety

-----------------------------------------------------------------------------
(* The loss of a link.  What LossIsKnown says of a Connected entry is true
   of one that is still opening as soon as its Open has succeeded.         *)
WordQueued(d, g) == \E i \in 1..Len(queue) : queue[i] = Task("StateChanged", d, g)

Claim(d) ==
    LET g == m_connections[d].gen IN
    (m_connections[d].state \in {"Connecting", "Connected"} /\ conns[g].ok /\ conns[g].link = "down")
        => conns[g].cb > 0 \/ WordQueued(d, g)

LossInv == Accepting => \A d \in Devices : Claim(d)

(* A task stays in the queue until it runs. *)
LEMMA WordStays ==
    ASSUME TypeOK, [Next]_vars, NEW d \in Devices, NEW g, WordQueued(d, g),
           ~(queue # <<>> /\ queue' = Tail(queue) /\ Head(queue) = Task("StateChanged", d, g))
    PROVE  WordQueued(d, g)'
  <1>1. PICK i \in 1..Len(queue) : queue[i] = Task("StateChanged", d, g)
    BY DEF WordQueued
  <1>2. CASE queue' = queue
    BY <1>1, <1>2 DEF WordQueued
  <1>3. ASSUME NEW t \in Tasks, queue' = Append(queue, t) PROVE WordQueued(d, g)'
    BY <1>1, <1>3, AppendMoves DEF WordQueued
  <1>4. CASE queue # <<>> /\ queue' = Tail(queue)
    <2>1. i # 1 /\ i - 1 \in 1..Len(queue') /\ (i - 1) + 1 = i
      BY <1>1, <1>4, TailMoves DEF TypeOK
    <2>2. queue'[i - 1] = queue[i]
      BY <1>4, <2>1, TailMoves
    <2>. QED
      BY <1>1, <2>1, <2>2 DEF WordQueued
  <1>. QED
    BY <1>2, <1>3, <1>4, QueueMoves

(* A task is either appended or taken. *)
LEMMA NotTaken ==
    ASSUME TypeOK, queue' = queue \/ \E t \in Tasks : queue' = Append(queue, t)
    PROVE  ~(queue # <<>> /\ queue' = Tail(queue))
  <1>1. queue # <<>> => Len(Tail(queue)) = Len(queue) - 1
    BY HeadTailProperties DEF TypeOK
  <1>2. \A t \in Tasks : Len(Append(queue, t)) = Len(queue) + 1
    BY AppendProperties DEF TypeOK
  <1>3. Len(queue) \in Nat
    BY LenProperties DEF TypeOK
  <1>. QED
    BY <1>1, <1>2, <1>3

(* What a step may do to a device's claim without breaking it. *)
LEMMA ClaimKept ==
    ASSUME TypeOK, [Next]_vars, NEW d \in Devices, Claim(d),
           m_connections'[d].gen = m_connections[d].gen,
           m_connections'[d].state \in {"Connecting", "Connected"}
              => m_connections[d].state \in {"Connecting", "Connected"},
           LET g == m_connections[d].gen IN
              /\ (conns'[g].ok /\ conns'[g].link = "down")
                    => conns[g].ok /\ conns[g].link = "down" /\ conns'[g].cb = conns[g].cb
              /\ ~(queue # <<>> /\ queue' = Tail(queue) /\ Head(queue) = Task("StateChanged", d, g))
    PROVE  Claim(d)'
  BY WordStays DEF Claim

(* Without a Connecting or Connected entry there is nothing to claim. *)
LEMMA NoClaim ==
    ASSUME NEW d \in Devices, m_connections'[d].state \notin {"Connecting", "Connected"}
    PROVE  Claim(d)'
  BY DEF Claim

(* What the operators on objects do to their links. *)
LEMMA LinkFields ==
    ASSUME NEW c \in Conn
    PROVE  /\ Closed(c).link = "dead"
           /\ Finished(c).ok = c.ok /\ Finished(c).cb = c.cb /\ Finished(c).link \in {c.link, "dead"}
           /\ Up(c).ok = c.ok
           /\ c.link # "dead" => Up(c).link = "up"
           /\ Finished(c) \in Conn /\ Closed(c) \in Conn /\ Up(c) \in Conn
  <1>1. /\ Closed(c).link = "dead"
        /\ Finished(c).ok = c.ok /\ Finished(c).cb = c.cb /\ Finished(c).link \in {c.link, "dead"}
    BY DEF Closed, Finished, Conn
  <1>2. Up(c).ok = c.ok /\ (c.link # "dead" => Up(c).link = "up")
    BY DEF Up, Conn, Links
  <1>. QED
    BY <1>1, <1>2, FinishedType, ClosedType, UpType

(* A step that concerns d alone keeps the claims of the others. *)
LEMMA OthersClaim ==
    ASSUME IInv, [Next]_vars, NEW d \in Devices, \A e \in Devices : Claim(e),
           \A e \in Devices \ {d} : m_connections'[e] = m_connections[e],
           \A g \in Generations : conns[g].dev # d => conns'[g] = conns[g],
           queue # <<>> /\ queue' = Tail(queue) => \E op, g : Head(queue) = Task(op, d, g)
    PROVE  \A e \in Devices \ {d} : Claim(e)'
  <1>. SUFFICES ASSUME NEW e \in Devices \ {d} PROVE Claim(e)'
    OBVIOUS
  <1>1. CASE m_connections[e] = NoEntry
    BY <1>1, NoClaim DEF NoEntry
  <1>2. CASE m_connections[e] # NoEntry
    <2>1. m_connections[e].gen \in Generations /\ conns[m_connections[e].gen].dev = e
      BY <1>2 DEF IInv, DeviceInv
    <2>2. conns'[m_connections[e].gen] = conns[m_connections[e].gen]
      BY <2>1
    <2>3. ~(queue # <<>> /\ queue' = Tail(queue) /\ Head(queue) = Task("StateChanged", e, m_connections[e].gen))
      BY DEF Task
    <2>. QED
      BY <2>2, <2>3, ClaimKept DEF IInv
  <1>. QED
    BY <1>1, <1>2

(* A Connect leaves the claims alone when it creates nothing; else its new
   object is down only while Open has not succeeded. *)
LEMMA ConnectClaims ==
    ASSUME IInv, \A e \in Devices : Claim(e), NEW d \in Devices, [Next]_vars,
           CreateFails(d) \/ RegisterFails(d) \/ ConnectSuspends(d) \/ ConnectSucceeds(d) \/ ConnectFails(d)
    PROVE  \A e \in Devices : Claim(e)'
  <1>t. TypeOK /\ conns \in [Generations -> Conn] /\ m_nextGeneration \in Nat
    BY DEF IInv, TypeOK
  <1>q. queue # <<>> /\ queue' = Tail(queue) /\ Head(queue) = Task("Connect", d, 0)
    BY DEF CreateFails, RegisterFails, ConnectSuspends, ConnectSucceeds, ConnectFails, RunConnect, Run
  <1>1. CASE CreateFails(d)
    <2>1. UNCHANGED <<m_connections, conns>>
      BY <1>1 DEF CreateFails, table
    <2>2. \A e \in Devices : \A g : Head(queue) # Task("StateChanged", e, g)
      BY <1>q DEF Task
    <2>. QED
      BY <1>t, <2>1, <2>2, ClaimKept
  <1>2. ASSUME NEW c \in Conn, conns' = Replaced(d, c), m_nextGeneration' = m_nextGeneration + 1,
               ~c.ok \/ c.link # "down",
               \/ m_connections' = TakeOut(d)
               \/ \E s \in States : m_connections' = [m_connections EXCEPT ![d] = Entry(m_nextGeneration + 1, s)]
        PROVE  \A e \in Devices : Claim(e)'
    <2>1. ASSUME NEW g \in Generations, conns[g].dev # d PROVE conns'[g] = conns[g]
      <3>1. m_connections[d].gen # g
        <4>1. m_connections[d] = NoEntry => m_connections[d].gen = 0
          BY DEF NoEntry
        <4>2. m_connections[d] # NoEntry => conns[m_connections[d].gen].dev = d
          BY DEF IInv, DeviceInv
        <4>. QED
          BY <1>t, <2>1, <4>1, <4>2 DEF Generations
      <3>2. g \in 1..(m_nextGeneration + 1) /\ ~(g > m_nextGeneration)
        BY <1>t DEF Generations
      <3>. QED
        BY <1>2, <3>1, <3>2 DEF Replaced
    <2>2. \A e \in Devices \ {d} : m_connections'[e] = m_connections[e]
      BY <1>t, <1>2 DEF TakeOut, TypeOK
    <2>3. Claim(d)'
      <3>1. CASE m_connections' = TakeOut(d)
        <4>1. m_connections'[d] = NoEntry
          BY <1>t, <3>1 DEF TakeOut, TypeOK
        <4>. QED
          BY <4>1, NoClaim DEF NoEntry
      <3>2. CASE \E s \in States : m_connections' = [m_connections EXCEPT ![d] = Entry(m_nextGeneration + 1, s)]
        <4>1. m_connections'[d].gen = m_nextGeneration + 1
          BY <1>t, <3>2 DEF TypeOK, Entry
        <4>2. conns'[m_nextGeneration + 1] = c
          BY <1>t, <1>2 DEF Replaced
        <4>. QED
          BY <1>2, <4>1, <4>2 DEF Claim
      <3>. QED
        BY <1>2, <3>1, <3>2
    <2>. QED
      BY <1>q, <2>1, <2>2, <2>3, OthersClaim
  <1>3. /\ \A phase \in {"start", "open", "finished"} : NewConn(d, phase) \in Conn /\ ~NewConn(d, phase).ok
        /\ NewConn(d, "finished").link = "down"
    BY DEF NewConn, Conn, Phases, Fates, Links
  <1>4. CASE RegisterFails(d)
    <2>. DEFINE c == [NewConn(d, "finished") EXCEPT !.fate = "dropped", !.link = "dead"]
    <2>1. c \in Conn /\ c.link = "dead"
      BY NewPhases DEF NewConn
    <2>2. conns' = Replaced(d, c) /\ m_nextGeneration' = m_nextGeneration + 1 /\ m_connections' = TakeOut(d)
      BY <1>4 DEF RegisterFails
    <2>. HIDE DEF c
    <2>. QED
      BY <1>2, <2>1, <2>2
  <1>5. CASE ConnectSuspends(d)
    <2>1. PICK phase \in {"start", "open"} : conns' = Replaced(d, NewConn(d, phase))
      BY <1>5 DEF ConnectSuspends
    <2>2. /\ m_nextGeneration' = m_nextGeneration + 1
          /\ m_connections' = [m_connections EXCEPT ![d] = Entry(m_nextGeneration + 1, "Connecting")]
      BY <1>5 DEF ConnectSuspends
    <2>. QED
      BY <1>2, <1>3, <2>1, <2>2 DEF States
  <1>6. CASE ConnectSucceeds(d)
    <2>. DEFINE c == [Up(NewConn(d, "finished")) EXCEPT !.ok = TRUE]
    <2>1. c \in Conn /\ c.link = "up"
      <3>1. Up(NewConn(d, "finished")) \in Conn /\ Up(NewConn(d, "finished")).link = "up"
        BY <1>3, LinkFields
      <3>2. \A x \in Conn : [x EXCEPT !.ok = TRUE].link = x.link
        BY DEF Conn
      <3>3. c.link = "up"
        BY <3>1, <3>2
      <3>4. c \in Conn
        BY NewPhases
      <3>. QED
        BY <3>3, <3>4
    <2>2. /\ conns' = Replaced(d, c) /\ m_nextGeneration' = m_nextGeneration + 1
          /\ m_connections' = [m_connections EXCEPT ![d] = Entry(m_nextGeneration + 1, "Connected")]
      BY <1>6 DEF ConnectSucceeds
    <2>. HIDE DEF c
    <2>. QED
      BY <1>2, <2>1, <2>2 DEF States
  <1>7. CASE ConnectFails(d)
    <2>1. /\ conns' = Replaced(d, Closed(NewConn(d, "finished"))) /\ m_nextGeneration' = m_nextGeneration + 1
          /\ m_connections' = TakeOut(d)
      BY <1>7 DEF ConnectFails
    <2>. QED
      BY <1>2, <1>3, <2>1, LinkFields
  <1>. QED
    BY <1>1, <1>4, <1>5, <1>6, <1>7

(* The object whose coroutine or notification a task serves. *)
LEMMA ServedObject ==
    ASSUME IInv, NEW d \in Devices, NEW g, queue # <<>>, Head(queue) = Task("Resume", d, g)
    PROVE  g \in Generations /\ conns[g].dev = d
  <1>1. 1 \in 1..Len(queue) /\ queue[1] = Task("Resume", d, g)
    BY HeadTailProperties DEF IInv, TypeOK
  <1>. QED
    BY <1>1 DEF IInv, ResumeShape, Task

LEMMA EntryClaims ==
    ASSUME IInv, \A e \in Devices : Claim(e), NEW d \in Devices, NEW g, [Next]_vars,
           \/ ResumeConnected(d, g) \/ ResumeFailed(d, g) \/ ResumeClosed(d, g) \/ ResumeDiscarded(d, g)
           \/ DisconnectImpl(d)
           \/ StateChangedIgnored(d, g) \/ StateChangedDeferred(d, g) \/ StateChangedRemoves(d, g)
    PROVE  \A e \in Devices : Claim(e)'
  <1>t. TypeOK /\ conns \in [Generations -> Conn] /\ Generations = 1..m_nextGeneration /\ m_nextGeneration \in Nat
    BY DEF IInv, TypeOK, Generations
  <1>d. DeviceInv(d) /\ NoEntry.gen = 0 /\ NoEntry.state = "None"
    BY DEF IInv, NoEntry
  <1>1. CASE ResumeConnected(d, g) \/ ResumeFailed(d, g) \/ ResumeClosed(d, g) \/ ResumeDiscarded(d, g)
    <2>1. queue # <<>> /\ queue' = Tail(queue) /\ Head(queue) = Task("Resume", d, g)
      BY <1>1 DEF ResumeConnected, ResumeFailed, ResumeClosed, ResumeDiscarded, RunResume, Run
    <2>2. g \in Generations /\ conns[g].dev = d
      BY <2>1, ServedObject
    <2>3. \A h \in Generations \ {g} : conns'[h] = conns[h]
      BY <1>1, <1>t DEF ResumeConnected, ResumeFailed, ResumeClosed, ResumeDiscarded
    <2>4. \A e \in Devices \ {d} : m_connections'[e] = m_connections[e]
      BY <1>1, <1>t DEF ResumeConnected, ResumeFailed, ResumeClosed, ResumeDiscarded, TakeOut, TypeOK
    <2>5. Claim(d)'
      <3>1. CASE ResumeFailed(d, g) \/ ResumeClosed(d, g)
        <4>1. m_connections'[d] = NoEntry
          BY <1>t, <3>1 DEF ResumeFailed, ResumeClosed, TakeOut, TypeOK
        <4>. QED
          BY <1>d, <4>1, NoClaim
      <3>2. CASE ResumeConnected(d, g)
        <4>1. /\ m_connections[d].gen = g /\ m_connections[d].state = "Connecting"
              /\ m_connections'[d].gen = g
          BY <1>t, <3>2 DEF ResumeConnected, Entry, TypeOK
        <4>2. conns'[g] = Finished(conns[g])
          BY <1>t, <2>2, <3>2 DEF ResumeConnected
        <4>3. conns'[g].ok = conns[g].ok /\ conns'[g].cb = conns[g].cb /\ conns'[g].link \in {conns[g].link, "dead"}
          BY <1>t, <2>2, <4>2, LinkFields
        <4>4. Head(queue) # Task("StateChanged", d, g)
          BY <2>1 DEF Task
        <4>. QED
          BY <1>t, <4>1, <4>3, <4>4, ClaimKept
      <3>3. CASE ResumeDiscarded(d, g)
        <4>1. m_connections'[d] = m_connections[d] /\ m_connections[d].gen # g
          BY <3>3 DEF ResumeDiscarded
        <4>2. CASE m_connections[d] = NoEntry
          BY <1>d, <4>1, <4>2, NoClaim
        <4>3. CASE m_connections[d] # NoEntry
          <5>1. conns'[m_connections[d].gen] = conns[m_connections[d].gen]
            BY <1>d, <2>3, <4>1, <4>3 DEF DeviceInv
          <5>2. Head(queue) # Task("StateChanged", d, m_connections[d].gen)
            BY <2>1 DEF Task
          <5>. QED
            BY <1>t, <4>1, <5>1, <5>2, ClaimKept
        <4>. QED
          BY <4>2, <4>3
      <3>. QED
        BY <1>1, <3>1, <3>2, <3>3
    <2>6. \A h \in Generations : conns[h].dev # d => conns'[h] = conns[h]
      BY <2>2, <2>3
    <2>. QED
      BY <2>1, <2>4, <2>5, <2>6, OthersClaim
  <1>2. CASE DisconnectImpl(d)
    <2>1. queue # <<>> /\ queue' = Tail(queue) /\ Head(queue) = Task("Disconnect", d, 0)
      BY <1>2 DEF DisconnectImpl, Run
    <2>2. m_connections' = TakeOut(d)
      BY <1>2 DEF DisconnectImpl
    <2>3. m_connections'[d] = NoEntry /\ \A e \in Devices \ {d} : m_connections'[e] = m_connections[e]
      BY <1>t, <2>2 DEF TakeOut, TypeOK
    <2>4. \A h \in Generations : conns[h].dev # d => conns'[h] = conns[h]
      <3>1. \A h \in Generations : m_connections[d].gen = h => conns[h].dev = d
        BY <1>d, <1>t DEF DeviceInv
      <3>. QED
        BY <1>2, <3>1 DEF DisconnectImpl
    <2>. QED
      BY <1>d, <2>1, <2>3, <2>4, NoClaim, OthersClaim
  <1>3. CASE StateChangedIgnored(d, g)
    <2>1. /\ UNCHANGED <<m_connections, conns>> /\ Head(queue) = Task("StateChanged", d, g)
          /\ m_connections[d].gen # g
      BY <1>3 DEF StateChangedIgnored, RunStateChanged, Run
    <2>2. \A e \in Devices : Head(queue) # Task("StateChanged", e, m_connections[e].gen)
      BY <2>1 DEF Task
    <2>. QED
      BY <1>t, <2>1, <2>2, ClaimKept
  <1>4. CASE StateChangedDeferred(d, g) \/ StateChangedRemoves(d, g)
    <2>1. queue # <<>> /\ queue' = Tail(queue) /\ Head(queue) = Task("StateChanged", d, g)
      BY <1>4 DEF StateChangedDeferred, StateChangedRemoves, RunStateChanged, Run
    <2>2. /\ m_connections[d].gen = g /\ m_connections[d] # NoEntry
      <3>1. \E s \in States : m_connections[d] = Entry(g, s)
        BY <1>4 DEF StateChangedDeferred, StateChangedRemoves, States
      <3>. QED
        BY <3>1, <1>d DEF Entry, States
    <2>3. conns[g].dev = d
      BY <1>d, <2>2 DEF DeviceInv
    <2>4. /\ m_connections'[d].state \notin {"Connecting", "Connected"}
          /\ \A e \in Devices \ {d} : m_connections'[e] = m_connections[e]
      BY <1>t, <1>d, <1>4 DEF StateChangedDeferred, StateChangedRemoves, TakeOut, TypeOK, Entry
    <2>5. \A h \in Generations : conns[h].dev # d => conns'[h] = conns[h]
      BY <1>t, <1>4, <2>3 DEF StateChangedDeferred, StateChangedRemoves
    <2>. QED
      BY <2>1, <2>4, <2>5, NoClaim, OthersClaim
  <1>. QED
    BY <1>1, <1>2, <1>3, <1>4

(* Steps that leave the table alone and take no task. *)
LEMMA PlatformClaims ==
    ASSUME IInv, \A e \in Devices : Claim(e), Accepting, [Next]_vars, NEW g \in Generations,
           Platform(g) \/ LinkUp(g) \/ LinkDown(g)
    PROVE  \A e \in Devices : Claim(e)'
  <1>t. TypeOK /\ conns \in [Generations -> Conn] /\ conns[g] \in Conn
    BY DEF IInv, TypeOK
  <1>1. /\ UNCHANGED m_connections
        /\ \A h \in Generations \ {g} : conns'[h] = conns[h]
    BY <1>t DEF Platform, StartCompletes, OpenCompletes, StartSucceeds, StartFails, OpenSucceeds, OpenFails,
       YieldTo, StateCallback, LinkUp, LinkDown, Phase, Post
  <1>2. ~(queue # <<>> /\ queue' = Tail(queue))
    <2>1. \A op \in {"Resume", "StateChanged"} : Task(op, conns[g].dev, g) \in Tasks
      <3>1. conns[g].dev \in Devices /\ g \in Nat
        BY <1>t DEF Conn, TypeOK, Generations
      <3>. QED
        BY <3>1, TaskType DEF Ops
    <2>2. queue' = queue \/ \E t \in Tasks : queue' = Append(queue, t)
      BY <2>1 DEF Platform, StartCompletes, OpenCompletes, StartSucceeds, StartFails, OpenSucceeds,
         OpenFails, YieldTo, StateCallback, LinkUp, LinkDown, Post
    <2>. QED
      BY <1>t, <2>2, NotTaken
  <1>3. ASSUME NEW e \in Devices, m_connections[e].gen # g PROVE Claim(e)'
    <2>1. CASE m_connections[e] = NoEntry
      BY <1>1, <2>1, NoClaim DEF NoEntry
    <2>2. CASE m_connections[e] # NoEntry
      <3>1. conns'[m_connections[e].gen] = conns[m_connections[e].gen]
        BY <1>1, <1>3, <2>2 DEF IInv, DeviceInv
      <3>. QED
        BY <1>t, <1>1, <1>2, <3>1, ClaimKept
    <2>. QED
      BY <2>1, <2>2
  <1>4. ASSUME NEW e \in Devices, m_connections[e].gen = g PROVE Claim(e)'
    <2>0. conns[g].dev = e
      <3>1. m_connections[e] # NoEntry
        BY <1>4 DEF NoEntry, IInv, TypeOK, Generations
      <3>. QED
        BY <1>4, <3>1 DEF IInv, DeviceInv
    <2>1. CASE StartCompletes(g) \/ OpenFails(g) \/ YieldTo(g)
      <3>1. CASE StartSucceeds(g) \/ YieldTo(g)
        <4>1. conns'[g].ok = conns[g].ok /\ conns'[g].link = conns[g].link /\ conns'[g].cb = conns[g].cb
          BY <1>t, <3>1 DEF StartSucceeds, YieldTo, Phase, Conn
        <4>. QED
          BY <1>t, <1>1, <1>2, <1>4, <4>1, ClaimKept
      <3>2. CASE StartFails(g) \/ OpenFails(g)
        <4>1. conns'[g] = Hopping(conns[g])
          BY <1>t, <3>2 DEF StartFails, OpenFails
        <4>2. /\ conns'[g].ok = conns[g].ok /\ conns'[g].cb = conns[g].cb
              /\ conns'[g].link \in {conns[g].link, "dead"}
          BY <1>t, <4>1, HoppingFields
        <4>. QED
          BY <1>t, <1>1, <1>2, <1>4, <4>2, ClaimKept
      <3>. QED
        BY <2>1, <3>1, <3>2 DEF StartCompletes
    <2>2. CASE OpenSucceeds(g) \/ LinkUp(g)
      <3>1. /\ Up(conns[g]).link = "up" /\ Up(conns[g]) \in Conn
            /\ Hopping(Up(conns[g])) \in Conn /\ Hopping(Up(conns[g])).link \in {"up", "dead"}
        BY <1>t, <2>2, LinkFields, HoppingFields, HoppingType DEF OpenSucceeds, LinkUp
      <3>2. conns'[g].link \in {"up", "dead"}
        <4>1. CASE OpenSucceeds(g)
          BY <1>t, <3>1, <4>1 DEF OpenSucceeds, Conn
        <4>2. CASE LinkUp(g)
          BY <1>t, <3>1, <4>2 DEF LinkUp, Conn
        <4>. QED
          BY <2>2, <4>1, <4>2
      <3>. QED
        BY <1>1, <1>4, <3>2 DEF Claim
    <2>3. CASE LinkDown(g)
      <3>1. conns'[g].cb > 0
        BY <1>t, <2>3 DEF LinkDown, Conn
      <3>. QED
        BY <1>1, <1>4, <3>1 DEF Claim
    <2>4. CASE StateCallback(g) /\ conns[g].link = "up"
      <3>1. conns'[g].link = "up"
        BY <1>t, <2>4 DEF StateCallback, Conn
      <3>. QED
        BY <1>1, <1>4, <3>1 DEF Claim
    <2>5. CASE StateCallback(g) /\ conns[g].link # "up"
      <3>. DEFINE t == Task("StateChanged", e, g)
      <3>1. queue' = Append(queue, t)
        BY <2>0, <2>5 DEF StateCallback, Post
      <3>2. t \in Tasks
        BY TaskType DEF Ops, Generations
      <3>. HIDE DEF t
      <3>3. Len(queue) + 1 \in 1..Len(queue') /\ queue'[Len(queue) + 1] = t
        BY <1>t, <3>1, <3>2, AppendProperties DEF TypeOK
      <3>4. WordQueued(e, g)'
        BY <3>3 DEF WordQueued, t
      <3>. QED
        BY <1>1, <1>4, <3>4 DEF Claim
    <2>. QED
      BY <2>1, <2>2, <2>3, <2>4, <2>5 DEF Platform, OpenCompletes
  <1>. QED
    BY <1>3, <1>4

(* LossInv is inductive: a claim stands until word of the loss has run, and
   the task that brings the word takes the entry out. *)
LEMMA LossInvStep == IInv /\ LossInv /\ [Next]_vars => LossInv'
  <1>. SUFFICES ASSUME IInv, LossInv, [Next]_vars, Accepting' PROVE \A e \in Devices : Claim(e)'
    BY DEF LossInv
  <1>0. Accepting
    <2>1. CASE CloseAll \/ UiExit
      BY <2>1 DEF CloseAll, UiExit, CloseAllReturns, DetachForProcessExit, DetachReturns, Destroy,
         Destroyed, Exit, Accepting
    <2>2. CASE exit' = exit
      BY <2>2 DEF Accepting
    <2>3. CASE Executor
      BY <2>2, <2>3, Zenon DEF Executor, CloseAllOnExecutor, DetachForProcessExitOnExecutor, ExecutorStep,
         CreateFails, RegisterFails, ConnectSuspends, ConnectSucceeds, ConnectFails, RunConnect,
         ResumeConnected, ResumeFailed, ResumeClosed, ResumeDiscarded, RunResume, DisconnectImpl,
         StateChangedIgnored, StateChangedDeferred, StateChangedRemoves, RunStateChanged
    <2>4. CASE \E d \in Devices : Connect(d) \/ Disconnect(d) \/ ConnectById(d)
                                  \/ LookupSucceeds(d) \/ LookupFails(d)
      BY <2>2, <2>4 DEF Connect, Disconnect, ConnectById, LookupSucceeds, LookupFails
    <2>5. CASE \E g \in Generations : Platform(g) \/ LinkUp(g) \/ LinkDown(g)
      BY <2>2, <2>5 DEF Platform, LinkUp, LinkDown, StartCompletes, OpenCompletes, StartSucceeds,
         StartFails, OpenSucceeds, OpenFails, YieldTo, StateCallback
    <2>6. CASE UNCHANGED vars
      BY <2>2, <2>6 DEF vars
    <2>. QED
      BY <2>1, <2>3, <2>4, <2>5, <2>6 DEF Next
  <1>1. \A e \in Devices : Claim(e)
    BY <1>0 DEF LossInv
  <1>t. TypeOK
    BY DEF IInv
  <1>2. ASSUME NEW d \in Devices, NEW g, ExecutorStep(d, g) PROVE \A e \in Devices : Claim(e)'
    BY <1>1, <1>2, ConnectClaims, EntryClaims DEF ExecutorStep
  <1>3. CASE CloseAllOnExecutor \/ DetachForProcessExitOnExecutor
    <2>1. \A e \in Devices : m_connections'[e] = NoEntry
      BY <1>3 DEF CloseAllOnExecutor, DetachForProcessExitOnExecutor
    <2>. QED
      BY <2>1, NoClaim DEF NoEntry
  <1>4. CASE \/ \E d \in Devices : Connect(d) \/ Disconnect(d) \/ ConnectById(d)
                                   \/ LookupSucceeds(d) \/ LookupFails(d)
             \/ CloseAll \/ UiExit \/ UNCHANGED vars
    <2>1. UNCHANGED <<m_connections, conns>>
      BY <1>4 DEF Connect, Disconnect, ConnectById, LookupSucceeds, LookupFails, CloseAll, UiExit,
         CloseAllReturns, DetachForProcessExit, DetachReturns, Destroy, Destroyed, Exit, table, vars
    <2>2. ~(queue # <<>> /\ queue' = Tail(queue))
      <3>1. /\ \A op \in ExitTasks : Task(op, "none", 0) \in Tasks
            /\ \A op \in {"Connect", "Disconnect"}, d \in Devices : Task(op, d, 0) \in Tasks
        BY TaskType DEF Ops, ExitTasks
      <3>2. queue' = queue \/ \E t \in Tasks : queue' = Append(queue, t)
        BY <1>4, <3>1 DEF Connect, Disconnect, ConnectById, LookupSucceeds, LookupFails, CloseAll, UiExit,
           CloseAllReturns, DetachForProcessExit, DetachReturns, Destroy, Destroyed, Exit, Post,
           ExitTasks, vars
      <3>. QED
        BY <1>t, <3>2, NotTaken
    <2>. QED
      BY <1>1, <1>t, <2>1, <2>2, ClaimKept
  <1>5. ASSUME NEW g \in Generations, Platform(g) \/ LinkUp(g) \/ LinkDown(g)
        PROVE  \A e \in Devices : Claim(e)'
    BY <1>0, <1>1, <1>5, PlatformClaims
  <1>. QED
    BY <1>2, <1>3, <1>4, <1>5 DEF Next, Executor

(* LossIsKnown: no zombie.  When the link of a Connected entry is down,
   word of it is under way until the entry is taken out.                   *)
THEOREM LossKnown == Safety => []LossIsKnown
  <1>1. Init => LossInv
    BY DEF Init, LossInv, Claim, NoEntry
  <1>2. IInv /\ LossInv => LossIsKnown
    <2>. SUFFICES ASSUME IInv, LossInv, NEW d \in Devices, Accepting,
                         m_connections[d].state = "Connected", conns[m_connections[d].gen].link = "down"
                  PROVE  \/ conns[m_connections[d].gen].cb > 0
                         \/ ClosedTasks(d, m_connections[d].gen) # {}
      BY DEF LossIsKnown
    <2>1. conns[m_connections[d].gen].ok
      <3>1. m_connections[d] # NoEntry
        BY DEF NoEntry
      <3>. QED
        BY <3>1 DEF IInv, DeviceInv, Served
    <2>. QED
      BY <2>1 DEF LossInv, Claim, WordQueued, ClosedTasks
  <1>. QED
    BY <1>1, <1>2, LossInvStep, Invariance, PTL DEF Safety

-----------------------------------------------------------------------------
(* Every generation was asked for: a Connect that waits in the queue and a
   lookup under way may still use one each.                                *)
ConnectsIn(q) == {i \in 1..Len(q) : q[i].op = "Connect"}

AskedInv ==
    /\ IsFiniteSet(lookups) /\ requests <= MaxRequests
    /\ m_nextGeneration + Cardinality(ConnectsIn(queue)) + Cardinality(lookups) <= requests

LEMMA ConnectsCounted ==
    ASSUME NEW q \in Seq(Tasks)
    PROVE  IsFiniteSet(ConnectsIn(q)) /\ Cardinality(ConnectsIn(q)) \in Nat
  <1>1. Len(q) \in Nat
    BY LenProperties
  <1>2. IsFiniteSet(1..Len(q)) /\ ConnectsIn(q) \in SUBSET (1..Len(q))
    BY <1>1, FS_Interval DEF ConnectsIn
  <1>3. IsFiniteSet(ConnectsIn(q))
    BY <1>2, FS_Subset
  <1>. QED
    BY <1>3, FS_CardinalityType

LEMMA ConnectAppended ==
    ASSUME NEW q \in Seq(Tasks), NEW t \in Tasks
    PROVE  Cardinality(ConnectsIn(Append(q, t)))
               = Cardinality(ConnectsIn(q)) + (IF t.op = "Connect" THEN 1 ELSE 0)
  <1>. PICK r : r = Append(q, t)
    OBVIOUS
  <1>. PICK n \in Nat : n = Len(q)
    BY LenProperties
  <1>1. Len(r) = n + 1 /\ r[n + 1] = t /\ \A i \in 1..n : r[i] = q[i]
    BY AppendProperties
  <1>2. ConnectsIn(r) = ConnectsIn(q) \cup (IF t.op = "Connect" THEN {n + 1} ELSE {})
    BY <1>1 DEF ConnectsIn
  <1>3. IsFiniteSet(ConnectsIn(q)) /\ Cardinality(ConnectsIn(q)) \in Nat /\ n + 1 \notin ConnectsIn(q)
    BY ConnectsCounted DEF ConnectsIn
  <1>4. CASE t.op = "Connect"
    BY <1>2, <1>3, <1>4, FS_AddElement
  <1>5. CASE t.op # "Connect"
    BY <1>2, <1>3, <1>5
  <1>. QED
    BY <1>4, <1>5

LEMMA ConnectTaken ==
    ASSUME NEW q \in Seq(Tasks), q # <<>>
    PROVE  Cardinality(ConnectsIn(Tail(q)))
               <= Cardinality(ConnectsIn(q)) - (IF Head(q).op = "Connect" THEN 1 ELSE 0)
  <1>. PICK r : r = Tail(q)
    OBVIOUS
  <1>. PICK n \in Nat : n = Len(q)
    BY LenProperties
  <1>. DEFINE S == ConnectsIn(q) \ {1}
              T == ConnectsIn(r)
              f == [i \in T |-> i + 1]
  <1>1. Len(r) = n - 1 /\ Head(q) = q[1] /\ n >= 1 /\ \A i \in 1..(n - 1) : r[i] = q[i + 1]
    BY HeadTailProperties, LenProperties, EmptySeq
  <1>2. \A i \in T : i \in 1..(n - 1) /\ i + 1 \in S
    BY <1>1 DEF ConnectsIn
  <1>3. f \in Injection(T, S)
    <2>1. f \in [T -> S]
      BY <1>2
    <2>2. \A i, j \in T : f[i] = f[j] => i = j
      BY <1>2
    <2>. QED
      BY <2>1, <2>2 DEF Injection, IsInjective
  <1>4. IsFiniteSet(ConnectsIn(q)) /\ Cardinality(ConnectsIn(q)) \in Nat
    BY ConnectsCounted
  <1>5. IsFiniteSet(S) /\ Cardinality(S) = Cardinality(ConnectsIn(q)) - (IF Head(q).op = "Connect" THEN 1 ELSE 0)
    <2>1. 1 \in ConnectsIn(q) <=> Head(q).op = "Connect"
      BY <1>1 DEF ConnectsIn
    <2>2. /\ IsFiniteSet(S)
          /\ Cardinality(S) = IF 1 \in ConnectsIn(q) THEN Cardinality(ConnectsIn(q)) - 1 ELSE Cardinality(ConnectsIn(q))
      BY <1>4, FS_RemoveElement
    <2>. QED
      BY <1>4, <2>1, <2>2
  <1>. HIDE DEF S, T, f
  <1>6. Cardinality(T) <= Cardinality(S)
    BY <1>3, <1>5, FS_Injection
  <1>. QED
    BY <1>5, <1>6 DEF T

(* What each step does to what was asked for. *)
Asks == m_nextGeneration' = m_nextGeneration /\ requests < MaxRequests /\ requests' = requests + 1
Other == UNCHANGED <<m_nextGeneration, requests, lookups>>
PostsConnect == queue' = queue \/ \E t \in Tasks : queue' = Append(queue, t)
PostsOther == queue' = queue \/ \E t \in Tasks : queue' = Append(queue, t) /\ t.op # "Connect"

LEMMA AskingSteps ==
    ASSUME TypeOK, [Next]_vars
    PROVE  \/ Asks /\ UNCHANGED lookups /\ PostsConnect
           \/ Asks /\ UNCHANGED queue /\ \E d \in Devices : d \notin lookups /\ lookups' = lookups \cup {d}
           \/ /\ UNCHANGED <<m_nextGeneration, requests>> /\ PostsConnect
              /\ \E d \in lookups : lookups' = lookups \ {d}
           \/ Other /\ PostsOther
           \/ /\ UNCHANGED <<requests, lookups>> /\ queue # <<>> /\ queue' = Tail(queue)
              /\ \/ UNCHANGED m_nextGeneration
                 \/ m_nextGeneration' = m_nextGeneration + 1 /\ Head(queue).op = "Connect"
  <1>1. CASE Executor
    <2>1. ASSUME NEW d \in Devices, RegisterFails(d) \/ ConnectSuspends(d) \/ ConnectSucceeds(d) \/ ConnectFails(d)
          PROVE  /\ UNCHANGED <<requests, lookups>> /\ queue # <<>> /\ queue' = Tail(queue)
                 /\ m_nextGeneration' = m_nextGeneration + 1 /\ Head(queue).op = "Connect"
      BY <2>1 DEF RegisterFails, ConnectSuspends, ConnectSucceeds, ConnectFails, RunConnect, Run, Task
    <2>2. ASSUME NEW d \in Devices, NEW g,
                 \/ CreateFails(d) \/ ResumeConnected(d, g) \/ ResumeFailed(d, g) \/ ResumeClosed(d, g)
                 \/ ResumeDiscarded(d, g) \/ DisconnectImpl(d) \/ StateChangedIgnored(d, g)
                 \/ StateChangedDeferred(d, g) \/ StateChangedRemoves(d, g)
          PROVE  /\ UNCHANGED <<requests, lookups>> /\ queue # <<>> /\ queue' = Tail(queue)
                 /\ UNCHANGED m_nextGeneration
      BY <2>2 DEF CreateFails, RunConnect, ResumeConnected, ResumeFailed, ResumeClosed, ResumeDiscarded,
         RunResume, DisconnectImpl, StateChangedIgnored, StateChangedDeferred, StateChangedRemoves,
         RunStateChanged, Run, table
    <2>3. CASE CloseAllOnExecutor \/ DetachForProcessExitOnExecutor
      BY <2>3 DEF CloseAllOnExecutor, DetachForProcessExitOnExecutor, Run
    <2>. QED
      BY <1>1, <2>1, <2>2, <2>3 DEF Executor, ExecutorStep
  <1>2. ASSUME NEW d \in Devices, Connect(d) \/ Disconnect(d)
        PROVE  Asks /\ UNCHANGED lookups /\ PostsConnect
    <2>1. \A op \in {"Connect", "Disconnect"} : Task(op, d, 0) \in Tasks
      BY TaskType DEF Ops
    <2>. QED
      BY <1>2, <2>1 DEF Connect, Disconnect, Request, Post, table, Asks, PostsConnect
  <1>3. ASSUME NEW d \in Devices, ConnectById(d)
        PROVE  Asks /\ UNCHANGED queue /\ d \notin lookups /\ lookups' = lookups \cup {d}
    BY <1>3 DEF ConnectById, Request, table, Asks
  <1>4. ASSUME NEW d \in Devices, LookupSucceeds(d) \/ LookupFails(d)
        PROVE  /\ UNCHANGED <<m_nextGeneration, requests>> /\ PostsConnect
               /\ d \in lookups /\ lookups' = lookups \ {d}
    <2>1. Task("Connect", d, 0) \in Tasks
      BY TaskType DEF Ops
    <2>. QED
      BY <1>4, <2>1 DEF LookupSucceeds, LookupFails, Post, table, PostsConnect
  <1>5. ASSUME NEW g \in Generations, Platform(g) \/ LinkUp(g) \/ LinkDown(g)
        PROVE  Other /\ PostsOther
    <2>1. conns[g].dev \in Devices /\ g \in Nat
      BY DEF TypeOK, Conn, Generations
    <2>2. \A op \in {"Resume", "StateChanged"} :
              Task(op, conns[g].dev, g) \in Tasks /\ Task(op, conns[g].dev, g).op # "Connect"
      BY <2>1, TaskType DEF Ops, Task
    <2>. QED
      BY <1>5, <2>2 DEF Platform, LinkUp, LinkDown, StartCompletes, OpenCompletes, StartSucceeds,
         StartFails, OpenSucceeds, OpenFails, YieldTo, StateCallback, Post, Other, PostsOther
  <1>6. CASE CloseAll \/ UiExit
    <2>1. \A op \in ExitTasks : Task(op, "none", 0) \in Tasks /\ Task(op, "none", 0).op # "Connect"
      BY TaskType DEF Ops, ExitTasks, Task
    <2>. QED
      BY <1>6, <2>1 DEF CloseAll, UiExit, CloseAllReturns, DetachForProcessExit, DetachReturns,
         Destroy, Destroyed, Exit, Post, ExitTasks, table, Other, PostsOther
  <1>7. CASE UNCHANGED vars
    BY <1>7 DEF vars, table, Other, PostsOther
  <1>. QED
    BY <1>1, <1>2, <1>3, <1>4, <1>5, <1>6, <1>7 DEF Next

LEMMA AskedStep == TypeOK /\ AskedInv /\ [Next]_vars => AskedInv'
  <1>. SUFFICES ASSUME TypeOK, AskedInv, [Next]_vars PROVE AskedInv'
    OBVIOUS
  <1>. PICK c \in Nat : c = Cardinality(ConnectsIn(queue))
    BY ConnectsCounted DEF TypeOK
  <1>. PICK l \in Nat : l = Cardinality(lookups)
    BY FS_CardinalityType DEF AskedInv
  <1>0. /\ m_nextGeneration \in Nat /\ requests \in Nat /\ MaxRequests \in Nat
        /\ m_nextGeneration + c + l <= requests /\ requests <= MaxRequests
    BY MaxRequestsAssumption DEF TypeOK, AskedInv
  <1>1. PostsConnect => \E n \in {c, c + 1} : Cardinality(ConnectsIn(queue')) = n
    <2>1. queue \in Seq(Tasks)
      BY DEF TypeOK
    <2>2. ASSUME NEW t \in Tasks, queue' = Append(queue, t)
          PROVE  Cardinality(ConnectsIn(queue')) \in {c, c + 1}
      BY <2>1, <2>2, ConnectAppended
    <2>. QED
      BY <2>2 DEF PostsConnect
  <1>2. PostsOther => Cardinality(ConnectsIn(queue')) = c
    <2>1. queue \in Seq(Tasks)
      BY DEF TypeOK
    <2>2. ASSUME NEW t \in Tasks, queue' = Append(queue, t), t.op # "Connect"
          PROVE  Cardinality(ConnectsIn(queue')) = c
      BY <2>1, <2>2, ConnectAppended
    <2>. QED
      BY <2>2 DEF PostsOther
  <1>3. CASE Asks /\ UNCHANGED lookups /\ PostsConnect
    <2>1. PICK n \in {c, c + 1} : Cardinality(ConnectsIn(queue')) = n
      BY <1>1, <1>3
    <2>2. m_nextGeneration' + n + l <= requests' /\ requests' <= MaxRequests
      BY <1>0, <1>3 DEF Asks
    <2>3. Cardinality(lookups') = l /\ IsFiniteSet(lookups')
      BY <1>3 DEF AskedInv
    <2>. QED
      BY <2>1, <2>2, <2>3 DEF AskedInv
  <1>4. ASSUME NEW d \in Devices, Asks, UNCHANGED queue, d \notin lookups, lookups' = lookups \cup {d}
        PROVE  AskedInv'
    <2>1. IsFiniteSet(lookups') /\ Cardinality(lookups') = l + 1
      BY <1>4, FS_AddElement DEF AskedInv
    <2>2. m_nextGeneration' + c + (l + 1) <= requests' /\ requests' <= MaxRequests
      BY <1>0, <1>4 DEF Asks
    <2>. QED
      BY <1>4, <2>1, <2>2 DEF AskedInv
  <1>5. ASSUME NEW d \in lookups, UNCHANGED <<m_nextGeneration, requests>>, PostsConnect, lookups' = lookups \ {d}
        PROVE  AskedInv'
    <2>1. IsFiniteSet(lookups') /\ Cardinality(lookups') = l - 1
      BY <1>5, FS_RemoveElement DEF AskedInv
    <2>2. PICK n \in {c, c + 1} : Cardinality(ConnectsIn(queue')) = n
      BY <1>1, <1>5
    <2>3. m_nextGeneration' + n + (l - 1) <= requests' /\ requests' <= MaxRequests
      BY <1>0, <1>5
    <2>. QED
      BY <2>1, <2>2, <2>3 DEF AskedInv
  <1>6. CASE Other /\ PostsOther
    BY <1>2, <1>6 DEF Other, AskedInv
  <1>7. CASE /\ UNCHANGED <<requests, lookups>> /\ queue # <<>> /\ queue' = Tail(queue)
             /\ \/ UNCHANGED m_nextGeneration
                \/ m_nextGeneration' = m_nextGeneration + 1 /\ Head(queue).op = "Connect"
    <2>1. PICK n \in Nat : n = Cardinality(ConnectsIn(queue'))
      BY ConnectsCounted, TypeStep DEF TypeOK
    <2>2. n <= c - (IF Head(queue).op = "Connect" THEN 1 ELSE 0)
      BY <1>7, <2>1, ConnectTaken DEF TypeOK
    <2>3. m_nextGeneration' + n + l <= requests
      <3>1. CASE UNCHANGED m_nextGeneration
        <4>1. n <= c
          BY <2>2
        <4>. QED
          BY <1>0, <3>1, <4>1
      <3>2. CASE m_nextGeneration' = m_nextGeneration + 1 /\ Head(queue).op = "Connect"
        <4>1. n <= c - 1
          BY <2>2, <3>2
        <4>. QED
          BY <1>0, <3>2, <4>1
      <3>. QED
        BY <1>7, <3>1, <3>2
    <2>4. Cardinality(lookups') = l /\ IsFiniteSet(lookups') /\ requests' <= MaxRequests
      BY <1>0, <1>7 DEF AskedInv
    <2>. QED
      BY <1>7, <2>1, <2>3, <2>4 DEF AskedInv
  <1>. QED
    BY <1>3, <1>4, <1>5, <1>6, <1>7, AskingSteps

(* A generation is used up by a request only: m_nextGeneration wraps after 2^32
   calls of Connect and ConnectById and not before, so that in any shorter
   session a late notification never meets a newer entry by its number.     *)
THEOREM GenerationsAsked == Safety => [](m_nextGeneration <= requests /\ requests <= MaxRequests)
  <1>1. Init => AskedInv
    <2>. SUFFICES ASSUME Init PROVE AskedInv
      OBVIOUS
    <2>1. ConnectsIn(queue) = {} /\ lookups = {} /\ requests = 0 /\ m_nextGeneration = 0
      BY EmptySeq DEF Init, ConnectsIn
    <2>. QED
      BY <2>1, FS_EmptySet, MaxRequestsAssumption DEF AskedInv
  <1>2. TypeOK /\ AskedInv => m_nextGeneration <= requests /\ requests <= MaxRequests
    <2>. SUFFICES ASSUME TypeOK, AskedInv PROVE m_nextGeneration <= requests
      BY DEF AskedInv
    <2>1. Cardinality(ConnectsIn(queue)) \in Nat /\ Cardinality(lookups) \in Nat
      BY ConnectsCounted, FS_CardinalityType DEF AskedInv, TypeOK
    <2>. QED
      BY <2>1 DEF AskedInv, TypeOK
  <1>. QED
    BY <1>1, <1>2, AskedStep, TypeCorrect, PTL DEF Safety

-----------------------------------------------------------------------------
(* The manager's queue and the door it is posted through are those of
   TaskQueue: each task of the executor is an Execute, each Post that is not
   refused an Accept, Destroy is Shut.                                     *)
Posted == {Task(op, d, 0) : op \in {"Connect", "Disconnect"}, d \in Devices}
          \cup {Task(op, d, g) : op \in {"Resume", "StateChanged"}, d \in Devices, g \in Nat \ {0}}
          \cup {Task(op, "none", 0) : op \in ExitTasks}

Queue == INSTANCE TaskQueue WITH Tasks <- Posted, pending <- queue, open <- Accepting

LEMMA PostAccepts ==
    ASSUME NEW t \in Posted, Post(t), Accepting' = Accepting
    PROVE  [Queue!Next]_(Queue!vars)
  <1>1. CASE Accepting
    <2>1. Queue!Accept(t)
      BY <1>1 DEF Post, Queue!Accept
    <2>. QED
      BY <2>1 DEF Queue!Next
  <1>2. CASE ~Accepting
    BY <1>2 DEF Post, Queue!vars
  <1>. QED
    BY <1>1, <1>2

LEMMA StepQueues ==
    ASSUME TypeOK, [Next]_vars
    PROVE  [Queue!Next]_(Queue!vars)
  <1>1. ASSUME queue # <<>>, queue' = Tail(queue), exit' = exit
        PROVE  Queue!Execute
    BY <1>1 DEF Queue!Execute, Accepting
  <1>2. CASE Executor
    <2>1. ASSUME NEW d \in Devices,
                 \/ RegisterFails(d) \/ ConnectSuspends(d) \/ ConnectSucceeds(d) \/ ConnectFails(d)
                 \/ CreateFails(d) \/ DisconnectImpl(d)
          PROVE  queue # <<>> /\ queue' = Tail(queue) /\ exit' = exit
      BY <2>1 DEF RegisterFails, ConnectSuspends, ConnectSucceeds, ConnectFails, CreateFails,
         RunConnect, DisconnectImpl, Run
    <2>2. ASSUME NEW d \in Devices, NEW g,
                 \/ ResumeConnected(d, g) \/ ResumeFailed(d, g) \/ ResumeClosed(d, g)
                 \/ ResumeDiscarded(d, g) \/ StateChangedIgnored(d, g)
                 \/ StateChangedDeferred(d, g) \/ StateChangedRemoves(d, g)
          PROVE  queue # <<>> /\ queue' = Tail(queue) /\ exit' = exit
      BY <2>2 DEF ResumeConnected, ResumeFailed, ResumeClosed, ResumeDiscarded, RunResume,
         StateChangedIgnored, StateChangedDeferred, StateChangedRemoves, RunStateChanged, Run
    <2>3. CASE CloseAllOnExecutor \/ DetachForProcessExitOnExecutor
      BY <2>3, <1>1 DEF CloseAllOnExecutor, DetachForProcessExitOnExecutor, Run, Queue!Next
    <2>. QED
      BY <1>1, <1>2, <2>1, <2>2, <2>3 DEF Executor, ExecutorStep, Queue!Next
  <1>3. ASSUME NEW d \in Devices, Connect(d) \/ Disconnect(d) \/ LookupSucceeds(d)
        PROVE  [Queue!Next]_(Queue!vars)
    <2>1. exit' = exit /\ \E op \in {"Connect", "Disconnect"} : Post(Task(op, d, 0))
      BY <1>3 DEF Connect, Disconnect, LookupSucceeds
    <2>2. \A op \in {"Connect", "Disconnect"} : Task(op, d, 0) \in Posted
      BY DEF Posted
    <2>. QED
      BY <2>1, <2>2, PostAccepts DEF Accepting
  <1>4. ASSUME NEW d \in Devices, ConnectById(d) \/ LookupFails(d)
        PROVE  UNCHANGED <<queue, exit>>
    BY <1>4 DEF ConnectById, LookupFails
  <1>5. ASSUME NEW g \in Generations, YieldTo(g) \/ (StateCallback(g) /\ conns[g].link # "up")
        PROVE  [Queue!Next]_(Queue!vars)
    <2>1. exit' = exit /\ \E op \in {"Resume", "StateChanged"} : Post(Task(op, conns[g].dev, g))
      BY <1>5 DEF YieldTo, StateCallback
    <2>2. conns[g].dev \in Devices /\ g \in Nat \ {0}
      BY DEF TypeOK, Conn, Generations
    <2>3. \A op \in {"Resume", "StateChanged"} : Task(op, conns[g].dev, g) \in Posted
      BY <2>2 DEF Posted
    <2>. QED
      BY <2>1, <2>3, PostAccepts DEF Accepting
  <1>6. ASSUME NEW g \in Generations,
               \/ StartCompletes(g) \/ OpenCompletes(g) \/ LinkUp(g) \/ LinkDown(g)
               \/ (StateCallback(g) /\ conns[g].link = "up")
        PROVE  UNCHANGED <<queue, exit>>
    BY <1>6 DEF StartCompletes, OpenCompletes, StartSucceeds, StartFails, OpenSucceeds, OpenFails,
       LinkUp, LinkDown, StateCallback
  <1>7. CASE CloseAll \/ DetachForProcessExit
    <2>1. Accepting' = Accepting /\ \E op \in ExitTasks : Post(Task(op, "none", 0))
      BY <1>7 DEF CloseAll, DetachForProcessExit, Exit, Accepting, ExitTasks
    <2>2. \A op \in ExitTasks : Task(op, "none", 0) \in Posted
      BY DEF Posted
    <2>. QED
      BY <2>1, <2>2, PostAccepts
  <1>8. CASE Destroy
    <2>1. Queue!Shut
      BY <1>8 DEF Destroy, Exit, Accepting, Queue!Shut
    <2>. QED
      BY <2>1 DEF Queue!Next
  <1>9. CASE CloseAllReturns \/ DetachReturns \/ Destroyed
    <2>1. UNCHANGED queue /\ Accepting' = Accepting
      BY <1>9 DEF CloseAllReturns, DetachReturns, Destroyed, Exit, Accepting
    <2>. QED
      BY <2>1 DEF Queue!vars
  <1>10. CASE UNCHANGED <<queue, exit>>
    BY <1>10 DEF Queue!vars, Accepting
  <1>11. UNCHANGED vars => UNCHANGED <<queue, exit>>
    BY DEF vars
  <1>. QED
    BY <1>2, <1>3, <1>4, <1>5, <1>6, <1>7, <1>8, <1>9, <1>10, <1>11 DEF Next, Platform, UiExit

(* The manager takes nothing for granted of its queue that the executor does
   not keep: it is posted to, run and shut as a TaskQueue is, which
   SerializedExecutor implements (ExecutorIsQueue).                        *)
THEOREM ManagerUsesQueue == Safety => Queue!Spec
  <1>1. Init => Queue!Init
    BY DEF Init, Queue!Init, Accepting
  <1>2. TypeOK /\ [Next]_vars => [Queue!Next]_(Queue!vars)
    BY StepQueues
  <1>. QED
    BY <1>1, <1>2, TypeCorrect, PTL DEF Safety, Queue!Spec

-----------------------------------------------------------------------------
(* The model has a step for whatever the executor finds at the head of its
   queue.  ConnectImpl's last part has no case for a Connected entry of its
   own generation, and the executor none for a task after the destructor: the
   code would do something there, which the model leaves out because it does
   not happen.                                                             *)
StepFor(t) ==
    \/ t.op \in {"Connect", "Disconnect"} /\ t.dev \in Devices /\ t = Task(t.op, t.dev, 0)
    \/ t.op \in ExitTasks /\ t = Task(t.op, "none", 0)
    \/ /\ t.op = "Resume" /\ t.dev \in Devices /\ t = Task("Resume", t.dev, t.gen)
       /\ \/ m_connections[t.dev] \in {Entry(t.gen, "Connecting"), Entry(t.gen, "Disconnecting")}
          \/ m_connections[t.dev].gen # t.gen
    \/ /\ t.op = "StateChanged" /\ t.dev \in Devices /\ t = Task("StateChanged", t.dev, t.gen)
       /\ \/ \E s \in States : m_connections[t.dev] = Entry(t.gen, s)
          \/ m_connections[t.dev].gen # t.gen

NeverJams == queue # <<>> => exit # "destroyed" /\ StepFor(Head(queue))

PostedInv == queue \in Seq(Posted)

LEMMA PostedStep == TypeOK /\ PostedInv /\ [Next]_vars => PostedInv'
  <1>. SUFFICES ASSUME TypeOK, queue \in Seq(Posted), [Next]_vars PROVE queue' \in Seq(Posted)
    BY DEF PostedInv, Posted
  <1>1. [Queue!Next]_(Queue!vars)
    BY StepQueues
  <1>2. ASSUME NEW t \in Posted, queue' = Append(queue, t) PROVE queue' \in Seq(Posted)
    BY <1>2, AppendProperties
  <1>3. ASSUME queue # <<>>, queue' = Tail(queue) PROVE queue' \in Seq(Posted)
    BY <1>3, HeadTailProperties
  <1>. QED
    BY <1>1, <1>2, <1>3 DEF Queue!Next, Queue!vars, Queue!Accept, Queue!Execute, Queue!Shut

LEMMA HeadHasStep ==
    ASSUME IInv, ResumeInv, queue \in Seq(Posted), queue # <<>>
    PROVE  StepFor(Head(queue))
  <1>. PICK t : t = Head(queue)
    OBVIOUS
  <1>1. t \in Posted /\ 1 \in 1..Len(queue) /\ t = queue[1]
    BY HeadTailProperties
  <1>2. \A e \in Devices : m_connections[e] = NoEntry
                           \/ \E s \in States : m_connections[e] = Entry(m_connections[e].gen, s)
    BY DEF IInv, TypeOK, Entry
  <1>3. CASE \E op \in {"Connect", "Disconnect"}, d \in Devices : t = Task(op, d, 0)
    BY <1>3 DEF StepFor, Task
  <1>4. CASE \E op \in ExitTasks : t = Task(op, "none", 0)
    BY <1>4 DEF StepFor, Task
  <1>5. ASSUME NEW d \in Devices, NEW g \in Nat \ {0}, t = Task("Resume", d, g)
        PROVE  StepFor(t)
    <2>1. t.op = "Resume" /\ t.dev = d /\ t.gen = g
      BY <1>5 DEF Task
    <2>2. g \in Generations /\ conns[g].phase = "posted"
      BY <1>1, <2>1 DEF IInv, ResumeShape, ResumeInv
    <2>3. CASE m_connections[d].gen = g
      <3>1. m_connections[d] # NoEntry
        BY <2>2, <2>3 DEF NoEntry, Generations
      <3>2. m_connections[d].state # "Connected"
        BY <2>2, <2>3, <3>1 DEF IInv, DeviceInv, Served
      <3>3. \E s \in {"Connecting", "Disconnecting"} : m_connections[d] = Entry(g, s)
        <4>1. PICK s \in States : m_connections[d] = Entry(g, s)
          BY <1>2, <2>3, <3>1
        <4>2. s # "Connected"
          BY <4>1, <3>2 DEF Entry
        <4>. QED
          BY <4>1, <4>2 DEF States
      <3>. QED
        BY <1>5, <2>1, <3>3 DEF StepFor
    <2>4. CASE m_connections[d].gen # g
      BY <1>5, <2>1, <2>4 DEF StepFor
    <2>. QED
      BY <2>3, <2>4
  <1>6. ASSUME NEW d \in Devices, NEW g \in Nat \ {0}, t = Task("StateChanged", d, g)
        PROVE  StepFor(t)
    <2>1. t.op = "StateChanged" /\ t.dev = d /\ t.gen = g
      BY <1>6 DEF Task
    <2>2. CASE m_connections[d].gen = g
      <3>1. m_connections[d] # NoEntry
        BY <2>2 DEF NoEntry
      <3>2. \E s \in States : m_connections[d] = Entry(g, s)
        BY <1>2, <2>2, <3>1
      <3>. QED
        BY <1>6, <2>1, <3>2 DEF StepFor
    <2>3. CASE m_connections[d].gen # g
      BY <1>6, <2>1, <2>3 DEF StepFor
    <2>. QED
      BY <2>2, <2>3
  <1>. QED
    BY <1>1, <1>3, <1>4, <1>5, <1>6 DEF Posted

(* No task jams the executor: one of the steps of the model is there for it,
   whatever has become of its device meanwhile.  This is what the fairness of
   the executor rests on.                                                  *)
THEOREM ExecutorNeverJams == Safety => []NeverJams
  <1>1. Init => ResumeInv /\ PostedInv
    BY EmptySeq DEF Init, ResumeInv, PostedInv, Generations
  <1>2. IInv /\ ResumeInv /\ PostedInv /\ ExitIInv => NeverJams
    BY HeadHasStep DEF NeverJams, PostedInv, ExitIInv, DrainedAtEnd
  <1>3. IInv => TypeOK
    BY DEF IInv
  <1>. QED
    BY <1>1, <1>2, <1>3, ResumeInvStep, PostedStep, Invariance, ExitInvariance, PTL DEF Safety
=============================================================================
