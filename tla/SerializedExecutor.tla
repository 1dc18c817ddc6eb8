------------------------- MODULE SerializedExecutor -------------------------
(***************************************************************************)
(* src/SerializedExecutor.{h,cpp}: one thread, one task queue, one mutex   *)
(* and ONE condition variable, shared by the executor thread (waiting for  *)
(* work) and by the callers of DrainFor (waiting for the queue to empty).  *)
(*                                                                         *)
(* Each critical section of m_mutex is one action; what the code does      *)
(* outside the lock (notify_one, notify_all, join, running the task) is an *)
(* action of its own.  A task is named by the thread that posted it.  A    *)
(* task that posts further tasks is a client whose Post falls while the    *)
(* executor is at "task".                                                  *)
(***************************************************************************)
EXTENDS Naturals, Sequences

CONSTANTS
    Clients,      \* threads that call Post and Stop
    Drainers,     \* the clients that also call DrainFor
    MaxPosts,     \* bound: number of accepted Posts
    EarlyStart    \* may m_thread enter Run's first critical section before the
                  \* members declared after it (h:87-91) are constructed?

ASSUME DrainersAssumption == Drainers \subseteq Clients
ASSUME MaxPostsAssumption == MaxPosts \in Nat
ASSUME EarlyStartAssumption == EarlyStart \in BOOLEAN

NoTask == <<>>

VARIABLES
    m_queue, m_executing, m_stopped,
    constructed,  \* the constructor has initialised the members of h:87-91
    run,          \* where the executor thread stands in Run
    task,         \* the task popped and not finished: <<poster>> or NoTask
    pc,           \* where each client stands in Post, Stop or DrainFor
    mark,         \* per client: tasks accepted when its last DrainFor began
    result,       \* per client: how its last call ended
    accepted,     \* history: tasks that Post accepted
    finished      \* history: tasks run to their end

members == <<m_queue, m_executing, m_stopped>>
clients == <<pc, mark, result>>
history == <<accepted, finished>>
vars == <<members, constructed, run, task, clients, history>>

RunStates == {"init", "check", "waiting", "task", "executed", "notify", "exited"}
ClientStates == {"idle", "post_notify", "stop_notify", "join", "drain_check", "drain_wait"}
(* DrainFor returns true for both "drained" and "drained_by_stop". *)
Results == {"none", "posted", "rejected", "stopped", "already_stopped",
            "drained", "drained_by_stop", "timeout"}

TypeOK ==
    /\ m_queue \in Seq(Clients)
    /\ m_executing \in BOOLEAN
    /\ m_stopped \in BOOLEAN
    /\ constructed \in BOOLEAN
    /\ run \in RunStates
    /\ task \in {NoTask} \cup {<<c>> : c \in Clients}
    /\ pc \in [Clients -> ClientStates]
    /\ mark \in [Clients -> Nat]
    /\ result \in [Clients -> Results]
    /\ accepted \in Seq(Clients)
    /\ finished \in Seq(Clients)

(* make_shared gives no value to the memory of m_stopped before its default
   member initialiser runs.                                                *)
Init ==
    /\ m_queue = <<>>
    /\ m_executing = FALSE
    /\ m_stopped \in BOOLEAN
    /\ constructed = FALSE
    /\ run = "init"
    /\ task = NoTask
    /\ pc = [c \in Clients |-> "idle"]
    /\ mark = [c \in Clients |-> 0]
    /\ result = [c \in Clients |-> "none"]
    /\ accepted = <<>>
    /\ finished = <<>>

-----------------------------------------------------------------------------
(* The condition variable.  A waiter that is notified goes back to its check
   of the predicate, under the lock.                                       *)

RunnerWaits == run = "waiting"
DrainWaiters == {c \in Clients : pc[c] = "drain_wait"}

(* Client c leaves its call with outcome r. *)
Return(c, r) == /\ pc' = [pc EXCEPT ![c] = "idle"]
                /\ result' = [result EXCEPT ![c] = r]

-----------------------------------------------------------------------------
(* Faulty variants of actions below, one slip each.  No specification uses
   them: each is what one of the properties is there to exclude.           *)

(* wait without its predicate. *)
RunWaitUnchecked ==
    /\ run = "check" /\ constructed
    /\ ~m_stopped
    /\ run' = "waiting"
    /\ UNCHANGED <<members, constructed, task, clients, history>>

(* if (m_stopped) break, with tasks still queued. *)
RunExitUndrained ==
    /\ run = "check" /\ constructed
    /\ m_stopped
    /\ run' = "exited"
    /\ UNCHANGED <<members, constructed, task, clients, history>>

(* The youngest task first. *)
RunPopBack ==
    /\ run = "check" /\ constructed
    /\ m_queue # <<>>
    /\ task' = <<m_queue[Len(m_queue)]>>
    /\ m_queue' = SubSeq(m_queue, 1, Len(m_queue) - 1)
    /\ m_executing' = TRUE
    /\ run' = "task"
    /\ UNCHANGED <<m_stopped, constructed, clients, history>>

(* The task that is executing is not accounted for. *)
QueueEmpty == m_queue = <<>>

(* The function is moved from before it is queued. *)
PostMovedFrom(c) ==
    /\ constructed
    /\ pc[c] = "idle"
    /\ Len(accepted) < MaxPosts
    /\ ~m_stopped
    /\ m_queue' = Append(m_queue, NoTask)
    /\ accepted' = Append(accepted, c)
    /\ pc' = [pc EXCEPT ![c] = "post_notify"]
    /\ UNCHANGED <<m_executing, m_stopped, constructed, run, task, mark, result, finished>>

(* No test of m_stopped. *)
PostAfterStop(c) ==
    /\ constructed
    /\ pc[c] = "idle"
    /\ Len(accepted) < MaxPosts
    /\ m_queue' = Append(m_queue, c)
    /\ accepted' = Append(accepted, c)
    /\ pc' = [pc EXCEPT ![c] = "post_notify"]
    /\ UNCHANGED <<m_executing, m_stopped, constructed, run, task, mark, result, finished>>

(* notify_one instead of notify_all. *)
StopNotifiesOne(c) ==
    /\ pc[c] = "stop_notify"
    /\ \/ /\ RunnerWaits \/ DrainWaiters = {}
          /\ run' = IF RunnerWaits THEN "check" ELSE run
          /\ pc' = [pc EXCEPT ![c] = "join"]
       \/ \E d \in DrainWaiters :
             /\ pc' = [pc EXCEPT ![c] = "join", ![d] = "drain_check"]
             /\ UNCHANGED run
    /\ UNCHANGED <<members, constructed, task, mark, result, history>>

(* detach instead of join. *)
StopDetach(c) ==
    /\ pc[c] = "join"
    /\ Return(c, "stopped")
    /\ UNCHANGED <<members, constructed, run, task, mark, history>>

-----------------------------------------------------------------------------
(* The constructor and the executor thread. *)

Construct ==
    /\ ~constructed
    /\ constructed' = TRUE
    /\ m_queue' = <<>>
    /\ m_executing' = FALSE
    /\ m_stopped' = FALSE
    /\ UNCHANGED <<run, task, clients, history>>

(* Run: thread name and threadInit, whose exceptions are swallowed. *)
RunInit ==
    /\ run = "init"
    /\ run' = "check"
    /\ UNCHANGED <<members, constructed, task, clients, history>>

(* The members Run reads under the lock: after the constructor, unless the
   thread is early.                                                        *)
RunnerMayLock == run = "check" /\ (constructed \/ EarlyStart)

RunWait ==
    /\ RunnerMayLock
    /\ ~m_stopped
    /\ m_queue = <<>>
    /\ run' = "waiting"
    /\ UNCHANGED <<members, constructed, task, clients, history>>

RunExit ==
    /\ RunnerMayLock
    /\ m_stopped
    /\ m_queue = <<>>
    /\ run' = "exited"
    /\ UNCHANGED <<members, constructed, task, clients, history>>

RunPop ==
    /\ RunnerMayLock
    /\ m_queue # <<>>
    /\ task' = <<Head(m_queue)>>
    /\ m_queue' = Tail(m_queue)
    /\ m_executing' = TRUE
    /\ run' = "task"
    /\ UNCHANGED <<m_stopped, constructed, clients, history>>

(* The task returns or throws; either way the loop goes on. *)
RunTask ==
    /\ run = "task"
    /\ finished' = finished \o task
    /\ task' = NoTask
    /\ run' = "executed"
    /\ UNCHANGED <<members, constructed, clients, accepted>>

RunFinish ==
    /\ run = "executed"
    /\ m_executing' = FALSE
    /\ run' = "notify"
    /\ UNCHANGED <<m_queue, m_stopped, constructed, task, clients, history>>

RunNotify ==
    /\ run = "notify"
    /\ run' = "check"
    /\ pc' = [c \in Clients |-> IF c \in DrainWaiters THEN "drain_check" ELSE pc[c]]
    /\ UNCHANGED <<members, constructed, task, mark, result, history>>

(* std::condition_variable::wait may return without a notification. *)
RunWakesSpuriously ==
    /\ RunnerWaits
    /\ run' = "check"
    /\ UNCHANGED <<members, constructed, task, clients, history>>

-----------------------------------------------------------------------------
(* Post *)

PostAccepted(c) ==
    /\ constructed
    /\ pc[c] = "idle"
    /\ Len(accepted) < MaxPosts
    /\ ~m_stopped
    /\ m_queue' = Append(m_queue, c)
    /\ accepted' = Append(accepted, c)
    /\ pc' = [pc EXCEPT ![c] = "post_notify"]
    /\ UNCHANGED <<m_executing, m_stopped, constructed, run, task, mark, result, finished>>

PostRejected(c) ==
    /\ constructed
    /\ pc[c] = "idle"
    /\ m_stopped
    /\ Return(c, "rejected")
    /\ UNCHANGED <<members, constructed, run, task, mark, history>>

(* notify_one, outside the lock: it wakes ANY one waiter of m_cv, or none if
   nobody waits at that moment.                                            *)
PostNotify(c) ==
    /\ pc[c] = "post_notify"
    /\ result' = [result EXCEPT ![c] = "posted"]
    /\ \/ /\ RunnerWaits
          /\ run' = "check"
          /\ pc' = [pc EXCEPT ![c] = "idle"]
       \/ /\ \E d \in DrainWaiters : pc' = [pc EXCEPT ![c] = "idle", ![d] = "drain_check"]
          /\ UNCHANGED run
       \/ /\ ~RunnerWaits /\ DrainWaiters = {}
          /\ pc' = [pc EXCEPT ![c] = "idle"]
          /\ UNCHANGED run
    /\ UNCHANGED <<members, constructed, task, mark, history>>

-----------------------------------------------------------------------------
(* Stop *)

StopFirst(c) ==
    /\ constructed
    /\ pc[c] = "idle"
    /\ ~m_stopped
    /\ m_stopped' = TRUE
    /\ pc' = [pc EXCEPT ![c] = "stop_notify"]
    /\ UNCHANGED <<m_queue, m_executing, constructed, run, task, mark, result, history>>

(* A later Stop returns at once, joined or not. *)
StopAgain(c) ==
    /\ constructed
    /\ pc[c] = "idle"
    /\ m_stopped
    /\ Return(c, "already_stopped")
    /\ UNCHANGED <<members, constructed, run, task, mark, history>>

StopNotify(c) ==
    /\ pc[c] = "stop_notify"
    /\ run' = IF RunnerWaits THEN "check" ELSE run
    /\ pc' = [d \in Clients |-> IF d = c THEN "join"
                                ELSE IF d \in DrainWaiters THEN "drain_check" ELSE pc[d]]
    /\ UNCHANGED <<members, constructed, task, mark, result, history>>

StopJoin(c) ==
    /\ pc[c] = "join"
    /\ run = "exited"
    /\ Return(c, "stopped")
    /\ UNCHANGED <<members, constructed, run, task, mark, history>>

-----------------------------------------------------------------------------
(* DrainFor *)

QueueDrained == m_queue = <<>> /\ ~m_executing

DrainCall(c) ==
    /\ constructed
    /\ pc[c] = "idle"
    /\ pc' = [pc EXCEPT ![c] = "drain_check"]
    /\ mark' = [mark EXCEPT ![c] = Len(accepted)]
    /\ UNCHANGED <<members, constructed, run, task, result, history>>

DrainPasses(c) ==
    /\ pc[c] = "drain_check"
    /\ m_stopped \/ QueueDrained
    /\ Return(c, IF QueueDrained THEN "drained" ELSE "drained_by_stop")
    /\ UNCHANGED <<members, constructed, run, task, mark, history>>

DrainWaits(c) ==
    /\ pc[c] = "drain_check"
    /\ ~m_stopped
    /\ ~QueueDrained
    /\ pc' = [pc EXCEPT ![c] = "drain_wait"]
    /\ UNCHANGED <<members, constructed, run, task, mark, result, history>>

(* wait_for evaluates the predicate once more when the time is up; a
   predicate that holds by then is a wakeup followed by DrainPasses.       *)
DrainTimesOut(c) ==
    /\ pc[c] = "drain_wait"
    /\ ~m_stopped
    /\ ~QueueDrained
    /\ Return(c, "timeout")
    /\ UNCHANGED <<members, constructed, run, task, mark, history>>

DrainWakes(c) ==
    /\ pc[c] = "drain_wait"
    /\ pc' = [pc EXCEPT ![c] = "drain_check"]
    /\ UNCHANGED <<members, constructed, run, task, mark, result, history>>

-----------------------------------------------------------------------------
(* What the executor thread does without being woken, and what a client does
   inside a call it has begun.                                             *)
RunStep == RunInit \/ RunWait \/ RunExit \/ RunPop \/ RunTask \/ RunFinish \/ RunNotify

CallStep(c) == PostNotify(c) \/ StopNotify(c) \/ StopJoin(c)
               \/ DrainPasses(c) \/ DrainWaits(c) \/ DrainTimesOut(c)

Call(c) == PostAccepted(c) \/ PostRejected(c) \/ StopFirst(c) \/ StopAgain(c)

Next ==
    \/ Construct
    \/ RunStep
    \/ RunWakesSpuriously
    \/ \E c \in Clients : Call(c) \/ CallStep(c)
    \/ \E c \in Drainers : DrainCall(c) \/ DrainWakes(c)

(* Threads that can go on do; nobody is obliged to begin a call, and no
   spurious wakeup is ever owed.                                           *)
Fairness == /\ WF_vars(Construct)
            /\ WF_vars(RunStep)
            /\ \A c \in Clients : WF_vars(CallStep(c))

Safety == Init /\ [][Next]_vars
Spec == Safety /\ Fairness

-----------------------------------------------------------------------------
(* Every accepted task is executed once, alone and in the order of
   acceptance: what is not finished is the popped task and the queue.      *)
FifoExactlyOnce == accepted = finished \o task \o m_queue

(* "Stopped and drained, hence done" (cpp:96): the executor thread leaves Run
   only after Stop and with nothing left to run, so no accepted task stays
   behind in a queue that nobody serves.                                   *)
ExitDrained == run = "exited" => m_stopped /\ m_queue = <<>>

(* Stop drains (h:40): when the call that stopped the executor returns, the
   thread is gone and every task ever accepted has been executed.          *)
StopDrains ==
    \A c \in Clients : result[c] = "stopped" /\ pc[c] = "idle"
        => run = "exited" /\ finished = accepted

(* DrainFor (h:46): unless it was cut short by Stop, a true answer means that
   every task accepted before the call has run to its end, the one that was
   executing included.                                                     *)
DrainBarrier ==
    \A c \in Drainers : result[c] = "drained" /\ pc[c] = "idle"
        => Len(finished) >= mark[c]

(* Every accepted task is executed in the end (h:4), with no help from later
   calls.                                                                  *)
TasksRun == \A n \in 1..MaxPosts : Len(accepted) >= n ~> Len(finished) >= n

(* The same when nobody waits in DrainFor, which is how the application uses
   the executor: DrainFor is there for the tests (h:47).                   *)
NobodyDrains == \A c \in Clients : pc[c] \notin {"drain_check", "drain_wait"}
TasksRunUndrained == [](NobodyDrains) => TasksRun

(* Stop comes back: notify_all reaches a waiting executor thread however
   many other waiters there are, and the thread drains and leaves.         *)
StopReturns == \A c \in Clients : pc[c] = "stop_notify" ~> pc[c] = "idle"

(* The executor keeps the promise of TaskLog. *)
Log == INSTANCE TaskLog WITH log <- accepted, done <- finished,
                             open <- ~(constructed /\ m_stopped)
ImplementsTaskLog == Log!Spec
=============================================================================
