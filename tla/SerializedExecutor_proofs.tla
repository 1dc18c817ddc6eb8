---------------------- MODULE SerializedExecutor_proofs ----------------------
(***************************************************************************)
(* Theorems about SerializedExecutor for any set of threads and any number *)
(* of posts, with their proofs.  They hold of Safety, hence of Spec.       *)
(***************************************************************************)
EXTENDS SerializedExecutor, SequenceTheorems, TLAPS

-----------------------------------------------------------------------------
(* The inductive invariant. *)

(* The popped task, the executing flag and the place in Run agree, and
   nothing has been queued before the constructor is through.              *)
RunShape ==
    /\ run = "task" <=> task # NoTask
    /\ run \in {"task", "executed"} <=> m_executing
    /\ ~constructed => /\ run \in {"init", "check"}
                       /\ m_queue = <<>>
                       /\ \A c \in Clients : pc[c] = "idle"

(* The marks lie in the history, and those of a drained call behind it. *)
MarkShape ==
    \A c \in Clients :
        /\ pc[c] \in {"drain_check", "drain_wait"} => mark[c] <= Len(accepted)
        /\ result[c] = "drained" /\ pc[c] = "idle" => mark[c] <= Len(finished)

(* "stopped" is the result of a join. *)
JoinShape ==
    \A c \in Clients : result[c] = "stopped" => run = "exited"

IInv == TypeOK /\ RunShape /\ FifoExactlyOnce /\ ExitDrained /\ MarkShape /\ JoinShape

-----------------------------------------------------------------------------
(* Facts about sequences. *)

(* A task is a sequence of at most one client. *)
LEMMA TaskIsSeq == TypeOK => task \in Seq(Clients)
  <1>. SUFFICES ASSUME TypeOK, task # <<>> PROVE task \in Seq(Clients)
    BY EmptySeq
  <1>1. PICK c \in Clients : task = <<c>>
    BY DEF TypeOK, NoTask
  <1>. QED
    BY <1>1

(* Appending to the queue appends to the whole. *)
LEMMA AppendLast ==
    ASSUME NEW f \in Seq(Clients), NEW t \in Seq(Clients), NEW q \in Seq(Clients),
           NEW c \in Clients
    PROVE  Append(f \o t \o q, c) = f \o t \o Append(q, c)
  <1>. DEFINE s == f \o t
  <1>1. s \in Seq(Clients) /\ s \o q \in Seq(Clients) /\ <<c>> \in Seq(Clients)
    BY ConcatProperties
  <1>2. Append(s \o q, c) = (s \o q) \o <<c>> /\ Append(q, c) = q \o <<c>>
    BY <1>1, AppendIsConcat
  <1>3. (s \o q) \o <<c>> = s \o (q \o <<c>>)
    BY <1>1, ConcatAssociative
  <1>. QED
    BY <1>2, <1>3

(* A non-empty sequence is its head followed by its tail. *)
LEMMA HeadThenTail ==
    ASSUME NEW S, NEW q \in Seq(S), q # <<>>
    PROVE  q = <<Head(q)>> \o Tail(q)
  <1>1. /\ Head(q) \in S /\ Tail(q) \in Seq(S) /\ Len(Tail(q)) = Len(q) - 1
        /\ \A i \in 1 .. Len(Tail(q)) : Tail(q)[i] = q[i + 1]
        /\ <<Head(q)>> \in Seq(S) /\ Head(q) = q[1] /\ Len(q) \in Nat
    BY HeadTailProperties
  <1>2. <<Head(q)>> \o Tail(q) \in Seq(S)
    BY <1>1, ConcatProperties
  <1>3. Len(<<Head(q)>> \o Tail(q)) = Len(q)
    BY <1>1, ConcatProperties
  <1>4. ASSUME NEW i \in 1 .. Len(q)
        PROVE  q[i] = (<<Head(q)>> \o Tail(q))[i]
    BY <1>1, ConcatProperties
  <1>. QED
    BY <1>2, <1>3, <1>4, SeqEqual

(* Popping moves the head of the queue into the task. *)
LEMMA PopHead ==
    ASSUME NEW S, NEW f \in Seq(S), NEW q \in Seq(S), q # <<>>
    PROVE  f \o <<>> \o q = f \o <<Head(q)>> \o Tail(q)
  <1>1. Head(q) \in S /\ Tail(q) \in Seq(S) /\ <<Head(q)>> \in Seq(S)
    BY HeadTailProperties
  <1>2. f \o <<>> = f
    BY ConcatEmptySeq
  <1>3. (f \o <<Head(q)>>) \o Tail(q) = f \o (<<Head(q)>> \o Tail(q))
    BY <1>1, ConcatAssociative
  <1>. QED
    BY <1>2, <1>3, HeadThenTail

(* Finishing the task moves it behind the finished ones. *)
LEMMA FinishTask ==
    ASSUME NEW S, NEW f \in Seq(S), NEW t \in Seq(S), NEW q \in Seq(S)
    PROVE  f \o t \o q = (f \o t) \o <<>> \o q
  <1>1. f \o t \in Seq(S)
    BY ConcatProperties
  <1>. QED
    BY <1>1, ConcatEmptySeq

(* The element after the finished ones is the task. *)
LEMMA NextIsTask ==
    ASSUME NEW S, NEW f \in Seq(S), NEW e \in S, NEW q \in Seq(S)
    PROVE  /\ Len(f) < Len(f \o <<e>> \o q)
           /\ f \o <<e>> = Append(f, (f \o <<e>> \o q)[Len(f) + 1])
  <1>1. <<e>> \in Seq(S) /\ Len(<<e>>) = 1 /\ <<e>>[1] = e /\ Len(f) \in Nat /\ Len(q) \in Nat
    OBVIOUS
  <1>2. /\ f \o <<e>> \in Seq(S)
        /\ Len(f \o <<e>>) = Len(f) + 1
        /\ (f \o <<e>>)[Len(f) + 1] = e
    BY <1>1, ConcatProperties
  <1>3. /\ Len(f \o <<e>> \o q) = Len(f) + 1 + Len(q)
        /\ (f \o <<e>> \o q)[Len(f) + 1] = e
    BY <1>1, <1>2, ConcatProperties
  <1>4. Append(f, e) = f \o <<e>>
    BY AppendIsConcat
  <1>. QED
    BY <1>1, <1>3, <1>4

-----------------------------------------------------------------------------
(* The initial values have their types. *)
LEMMA TypeInit == Init => TypeOK
  <1>. SUFFICES ASSUME Init PROVE TypeOK
    OBVIOUS
  <1>1. /\ m_queue \in Seq(Clients) /\ accepted \in Seq(Clients)
        /\ finished \in Seq(Clients)
    BY EmptySeq DEF Init
  <1>2. /\ m_executing \in BOOLEAN /\ m_stopped \in BOOLEAN /\ constructed \in BOOLEAN
        /\ run \in RunStates /\ task \in {NoTask} \cup {<<c>> : c \in Clients}
    BY DEF Init, RunStates
  <1>3. /\ pc \in [Clients -> ClientStates]
        /\ mark \in [Clients -> Nat]
        /\ result \in [Clients -> Results]
    BY DEF Init, ClientStates, Results
  <1>. QED
    BY <1>1, <1>2, <1>3 DEF TypeOK

(* Every step keeps the types. *)
LEMMA TypeStep == TypeOK /\ [Next]_vars => TypeOK'
  <1>. SUFFICES ASSUME TypeOK, [Next]_vars PROVE TypeOK'
    OBVIOUS
  <1>. USE DEF TypeOK, RunStates, ClientStates, Results, NoTask,
               vars, members, clients, history
  <1>1. CASE Construct
    BY <1>1, EmptySeq DEF Construct
  <1>2. CASE RunStep
    <2>1. CASE RunPop
      BY <2>1 DEF RunPop, RunnerMayLock
    <2>2. CASE RunTask
      <3>1. finished' \in Seq(Clients)
        BY <2>2, TaskIsSeq, ConcatProperties DEF RunTask
      <3>. QED
        BY <2>2, <3>1 DEF RunTask
    <2>3. CASE RunInit \/ RunWait \/ RunExit \/ RunFinish \/ RunNotify
      BY <2>3 DEF RunInit, RunWait, RunExit, RunFinish, RunNotify, RunnerMayLock,
                  DrainWaiters
    <2>. QED
      BY <1>2, <2>1, <2>2, <2>3 DEF RunStep
  <1>3. CASE RunWakesSpuriously
    BY <1>3 DEF RunWakesSpuriously
  <1>4. ASSUME NEW c \in Clients, Call(c) PROVE TypeOK'
    <2>1. CASE PostAccepted(c)
      BY <2>1, AppendProperties DEF PostAccepted
    <2>2. CASE PostRejected(c) \/ StopFirst(c) \/ StopAgain(c)
      BY <2>2 DEF PostRejected, StopFirst, StopAgain, Return
    <2>. QED
      BY <1>4, <2>1, <2>2 DEF Call
  <1>5. ASSUME NEW c \in Clients, CallStep(c) PROVE TypeOK'
    <2>1. CASE PostNotify(c)
      BY <2>1 DEF PostNotify, Return, DrainWaiters
    <2>2. CASE StopNotify(c) \/ StopJoin(c)
      BY <2>2 DEF StopNotify, StopJoin, Return, DrainWaiters
    <2>3. CASE DrainPasses(c) \/ DrainWaits(c) \/ DrainTimesOut(c)
      BY <2>3 DEF DrainPasses, DrainWaits, DrainTimesOut, Return
    <2>. QED
      BY <1>5, <2>1, <2>2, <2>3 DEF CallStep
  <1>6. ASSUME NEW c \in Drainers, DrainCall(c) \/ DrainWakes(c) PROVE TypeOK'
    <2>1. c \in Clients /\ Len(accepted) \in Nat
      BY DrainersAssumption, LenProperties
    <2>. QED
      BY <1>6, <2>1 DEF DrainCall, DrainWakes
  <1>7. CASE UNCHANGED vars
    BY <1>7
  <1>. QED
    BY <1>1, <1>2, <1>3, <1>4, <1>5, <1>6, <1>7 DEF Next

(* Every variable keeps its type. *)
THEOREM TypeCorrect == Safety => []TypeOK
  BY TypeInit, TypeStep, PTL DEF Safety

-----------------------------------------------------------------------------
(* The inductive invariant holds at the start and every step preserves it.
   The executor thread's part needs ~EarlyStart: a thread that reads the
   members before they are constructed breaks RunShape and ExitDrained.    *)

LEMMA InitIInv == Init => IInv
  <1>. SUFFICES ASSUME Init PROVE IInv
    OBVIOUS
  <1>1. TypeOK
    BY TypeInit
  <1>2. RunShape
    BY DEF Init, RunShape, NoTask
  <1>3. FifoExactlyOnce
    BY EmptySeq, ConcatEmptySeq DEF Init, FifoExactlyOnce, NoTask
  <1>4. ExitDrained /\ MarkShape /\ JoinShape
    BY DEF Init, ExitDrained, MarkShape, JoinShape
  <1>. QED
    BY <1>1, <1>2, <1>3, <1>4 DEF IInv

(* Construct runs before any task exists. *)
LEMMA ConstructIInv == IInv /\ Construct => RunShape' /\ FifoExactlyOnce' /\ ExitDrained'
                                            /\ MarkShape' /\ JoinShape'
  <1>. SUFFICES ASSUME IInv, Construct
                PROVE  RunShape' /\ FifoExactlyOnce' /\ ExitDrained' /\ MarkShape' /\ JoinShape'
    OBVIOUS
  <1>. USE DEF IInv, Construct, clients, history
  <1>1. m_queue = <<>> /\ run \in {"init", "check"} /\ ~m_executing
    BY DEF RunShape
  <1>2. RunShape'
    BY <1>1 DEF RunShape
  <1>3. FifoExactlyOnce' /\ ExitDrained'
    BY <1>1 DEF FifoExactlyOnce, ExitDrained
  <1>4. MarkShape' /\ JoinShape'
    BY DEF MarkShape, JoinShape
  <1>. QED
    BY <1>2, <1>3, <1>4

(* The executor thread. *)
LEMMA RunStepIInv ==
    ASSUME IInv, RunStep \/ RunWakesSpuriously, ~EarlyStart
    PROVE  RunShape' /\ FifoExactlyOnce' /\ ExitDrained' /\ MarkShape' /\ JoinShape'
  <1>. USE DEF IInv, members, clients, history
  <1>t. task \in Seq(Clients) /\ m_queue \in Seq(Clients) /\ finished \in Seq(Clients)
        /\ accepted \in Seq(Clients) /\ mark \in [Clients -> Nat]
    BY TaskIsSeq DEF TypeOK
  <1>1. CASE RunPop
    <2>1. constructed /\ task = <<>> /\ run = "check" /\ task' = <<Head(m_queue)>>
      BY <1>1 DEF RunPop, RunnerMayLock, RunShape, NoTask
    <2>2. RunShape'
      BY <1>1, <2>1 DEF RunPop, RunShape, NoTask
    <2>3. FifoExactlyOnce'
      BY <1>1, <1>t, <2>1, PopHead DEF RunPop, FifoExactlyOnce
    <2>4. ExitDrained' /\ MarkShape' /\ JoinShape'
      BY <1>1, <2>1 DEF RunPop, ExitDrained, MarkShape, JoinShape
    <2>. QED
      BY <2>2, <2>3, <2>4
  <1>2. CASE RunTask
    <2>1. RunShape'
      BY <1>2 DEF RunTask, RunShape
    <2>2. FifoExactlyOnce'
      BY <1>2, <1>t, FinishTask DEF RunTask, FifoExactlyOnce, NoTask
    <2>3. Len(finished) <= Len(finished') /\ Len(finished) \in Nat /\ Len(finished') \in Nat
      BY <1>2, <1>t, ConcatProperties, LenProperties DEF RunTask
    <2>4. ExitDrained' /\ JoinShape'
      BY <1>2 DEF RunTask, ExitDrained, JoinShape
    <2>5. MarkShape'
      <3>. SUFFICES ASSUME NEW c \in Clients
                    PROVE  /\ pc[c] \in {"drain_check", "drain_wait"} => mark[c] <= Len(accepted)
                           /\ result[c] = "drained" /\ pc[c] = "idle" => mark[c] <= Len(finished')
        BY <1>2 DEF RunTask, MarkShape
      <3>1. mark[c] \in Nat
        BY <1>t
      <3>. QED
        BY <2>3, <3>1 DEF MarkShape
    <2>. QED
      BY <2>1, <2>2, <2>4, <2>5
  <1>3. CASE RunNotify
    <2>1. pc \in [Clients -> ClientStates]
      BY DEF TypeOK
    <2>2. RunShape'
      BY <1>3 DEF RunNotify, RunShape, DrainWaiters
    <2>3. FifoExactlyOnce' /\ ExitDrained' /\ JoinShape'
      BY <1>3 DEF RunNotify, FifoExactlyOnce, ExitDrained, JoinShape
    <2>4. MarkShape'
      BY <1>3, <2>1 DEF RunNotify, MarkShape, DrainWaiters
    <2>. QED
      BY <2>2, <2>3, <2>4
  <1>4. CASE RunInit \/ RunWait \/ RunExit \/ RunFinish \/ RunWakesSpuriously
    <2>1. RunShape'
      BY <1>4 DEF RunInit, RunWait, RunExit, RunFinish, RunWakesSpuriously, RunnerWaits,
                  RunnerMayLock, RunShape
    <2>2. FifoExactlyOnce' /\ ExitDrained' /\ MarkShape' /\ JoinShape'
      BY <1>4 DEF RunInit, RunWait, RunExit, RunFinish, RunWakesSpuriously, RunnerWaits,
                  RunnerMayLock, FifoExactlyOnce, ExitDrained, MarkShape, JoinShape
    <2>. QED
      BY <2>1, <2>2
  <1>. QED
    BY <1>1, <1>2, <1>3, <1>4 DEF RunStep

(* Post, Stop and DrainFor. *)
LEMMA ClientIInv ==
    ASSUME IInv, NEW c \in Clients,
           Call(c) \/ CallStep(c) \/ DrainCall(c) \/ DrainWakes(c)
    PROVE  RunShape' /\ FifoExactlyOnce' /\ ExitDrained' /\ MarkShape' /\ JoinShape'
  <1>. USE DEF IInv, members, clients, history
  <1>s. task \in Seq(Clients) /\ m_queue \in Seq(Clients) /\ finished \in Seq(Clients)
    BY TaskIsSeq DEF TypeOK
  <1>t. finished \in Seq(Clients) /\ accepted \in Seq(Clients) /\ mark \in [Clients -> Nat]
        /\ pc \in [Clients -> ClientStates] /\ result \in [Clients -> Results]
    BY TaskIsSeq DEF TypeOK
  <1>n. Len(accepted) \in Nat /\ Len(finished) \in Nat
    BY <1>t, LenProperties
  <1>1. CASE PostAccepted(c)
    <2>1. RunShape' /\ ExitDrained' /\ JoinShape'
      BY <1>1, <1>t DEF PostAccepted, RunShape, ExitDrained, JoinShape
    <2>2. FifoExactlyOnce'
      <3>1. Append(finished \o task \o m_queue, c) = finished \o task \o Append(m_queue, c)
        BY <1>s, AppendLast
      <3>. QED
        BY <1>1, <3>1 DEF PostAccepted, FifoExactlyOnce
    <2>3. Len(accepted') = Len(accepted) + 1
      BY <1>1, <1>t, AppendProperties DEF PostAccepted
    <2>4. MarkShape'
      BY <1>1, <1>t, <1>n, <2>3 DEF PostAccepted, MarkShape
    <2>. QED
      BY <2>1, <2>2, <2>4
  <1>2. CASE PostRejected(c) \/ StopAgain(c) \/ PostNotify(c)
    <2>1. RunShape'
      BY <1>2, <1>t DEF PostRejected, StopAgain, PostNotify, Return, RunShape, RunnerWaits, DrainWaiters
    <2>2. FifoExactlyOnce'
      BY <1>2 DEF PostRejected, StopAgain, PostNotify, FifoExactlyOnce
    <2>3. ExitDrained' /\ JoinShape'
      BY <1>2, <1>t DEF PostRejected, StopAgain, PostNotify, Return, RunnerWaits,
            ExitDrained, JoinShape
    <2>4. MarkShape'
      BY <1>2, <1>t DEF PostRejected, StopAgain, PostNotify, Return, DrainWaiters, MarkShape
    <2>. QED
      BY <2>1, <2>2, <2>3, <2>4
  <1>3. CASE StopFirst(c) \/ StopNotify(c) \/ StopJoin(c)
    <2>1. RunShape'
      BY <1>3, <1>t DEF StopFirst, StopNotify, StopJoin, Return, RunShape, RunnerWaits,
                        DrainWaiters
    <2>2. FifoExactlyOnce'
      BY <1>3 DEF StopFirst, StopNotify, StopJoin, FifoExactlyOnce
    <2>3. ExitDrained' /\ JoinShape'
      BY <1>3, <1>t DEF StopFirst, StopNotify, StopJoin, Return, RunnerWaits,
                        ExitDrained, JoinShape
    <2>4. MarkShape'
      BY <1>3, <1>t DEF StopFirst, StopNotify, StopJoin, Return, DrainWaiters, MarkShape
    <2>. QED
      BY <2>1, <2>2, <2>3, <2>4
  <1>4. CASE DrainPasses(c)
    <2>1. RunShape' /\ FifoExactlyOnce' /\ ExitDrained' /\ JoinShape'
      BY <1>4, <1>t DEF DrainPasses, Return, RunShape, FifoExactlyOnce, ExitDrained,
                        JoinShape
    <2>2. QueueDrained => Len(accepted) = Len(finished)
      <3>1. QueueDrained => task = <<>> /\ m_queue = <<>>
        BY DEF QueueDrained, RunShape, NoTask
      <3>. QED
        BY <3>1, <1>t, ConcatEmptySeq DEF FifoExactlyOnce
    <2>3. MarkShape'
      BY <1>4, <1>t, <2>2 DEF DrainPasses, Return, MarkShape
    <2>. QED
      BY <2>1, <2>3
  <1>5. CASE DrainCall(c) \/ DrainWaits(c) \/ DrainTimesOut(c) \/ DrainWakes(c)
    <2>1. RunShape'
      BY <1>5, <1>t DEF DrainCall, DrainWaits, DrainTimesOut, DrainWakes, Return, RunShape
    <2>2. FifoExactlyOnce' /\ ExitDrained' /\ JoinShape'
      BY <1>5, <1>t DEF DrainCall, DrainWaits, DrainTimesOut, DrainWakes, Return,
                        FifoExactlyOnce, ExitDrained, JoinShape
    <2>3. MarkShape'
      BY <1>5, <1>t, <1>n DEF DrainCall, DrainWaits, DrainTimesOut, DrainWakes, Return,
                              MarkShape
    <2>. QED
      BY <2>1, <2>2, <2>3
  <1>. QED
    BY <1>1, <1>2, <1>3, <1>4, <1>5 DEF Call, CallStep

(* The whole step. *)
LEMMA StepIInv == ~EarlyStart /\ IInv /\ [Next]_vars => IInv'
  <1>. SUFFICES ASSUME ~EarlyStart, IInv, [Next]_vars PROVE IInv'
    OBVIOUS
  <1>1. TypeOK'
    BY TypeStep DEF IInv
  <1>2. CASE Construct
    BY <1>1, <1>2, ConstructIInv DEF IInv
  <1>3. CASE RunStep \/ RunWakesSpuriously
    BY <1>1, <1>3, RunStepIInv DEF IInv
  <1>4. CASE \E c \in Clients : Call(c) \/ CallStep(c)
    BY <1>1, <1>4, ClientIInv DEF IInv
  <1>5. CASE \E c \in Drainers : DrainCall(c) \/ DrainWakes(c)
    BY <1>1, <1>5, ClientIInv, DrainersAssumption DEF IInv
  <1>6. CASE UNCHANGED vars
    BY <1>6 DEF IInv, TypeOK, RunShape, FifoExactlyOnce, ExitDrained, MarkShape, JoinShape,
                vars, members, clients, history
  <1>. QED
    BY <1>2, <1>3, <1>4, <1>5, <1>6 DEF Next

(* The inductive invariant is an invariant. *)
THEOREM Invariance == ASSUME ~EarlyStart PROVE Safety => []IInv
  <1>1. Init => IInv
    BY InitIInv
  <1>2. IInv /\ [Next]_vars => IInv'
    BY StepIInv
  <1>. QED
    BY <1>1, <1>2, PTL DEF Safety

-----------------------------------------------------------------------------
(* Every accepted task is executed once, alone and in the order of
   acceptance, whoever posts, stops and drains.                            *)
THEOREM Fifo == ASSUME ~EarlyStart PROVE Safety => []FifoExactlyOnce
  <1>1. IInv => FifoExactlyOnce
    BY DEF IInv
  <1>. QED
    BY <1>1, Invariance, PTL

(* The executor thread leaves Run only stopped and drained (cpp:96). *)
THEOREM Exit == ASSUME ~EarlyStart PROVE Safety => []ExitDrained
  <1>1. IInv => ExitDrained
    BY DEF IInv
  <1>. QED
    BY <1>1, Invariance, PTL

(* The Stop that stopped the executor returns to a thread that is gone and a
   history that is complete (h:40).                                        *)
THEOREM StopDrained == ASSUME ~EarlyStart PROVE Safety => []StopDrains
  <1>1. ASSUME IInv PROVE StopDrains
    <2>. USE <1>1 DEF IInv
    <2>1. ASSUME run = "exited" PROVE finished = accepted
      <3>1. task = <<>> /\ m_queue = <<>>
        BY <2>1 DEF RunShape, ExitDrained, NoTask
      <3>2. finished \in Seq(Clients)
        BY DEF TypeOK
      <3>. QED
        BY <3>1, <3>2, ConcatEmptySeq DEF FifoExactlyOnce
    <2>. QED
      BY <2>1 DEF StopDrains, JoinShape
  <1>. QED
    BY <1>1, Invariance, PTL

(* A drained DrainFor is a barrier for every task accepted before it (h:46). *)
THEOREM Barrier == ASSUME ~EarlyStart PROVE Safety => []DrainBarrier
  <1>1. ASSUME IInv PROVE DrainBarrier
    <2>. SUFFICES ASSUME NEW c \in Drainers, result[c] = "drained", pc[c] = "idle"
                  PROVE  Len(finished) >= mark[c]
      BY DEF DrainBarrier
    <2>1. c \in Clients
      BY DrainersAssumption
    <2>2. mark[c] <= Len(finished)
      BY <1>1, <2>1 DEF IInv, MarkShape
    <2>3. mark[c] \in Nat /\ Len(finished) \in Nat
      BY <1>1, <2>1, LenProperties DEF IInv, TypeOK
    <2>. QED
      BY <2>2, <2>3
  <1>. QED
    BY <1>1, Invariance, PTL

-----------------------------------------------------------------------------
(* Refinement: RunTask is Execute, an accepted Post is Accept, the first Stop
   is Shut, and every other step leaves the log, the executed tasks and the
   door as they are.                                                       *)

LEMMA RunTaskExecutes == IInv /\ RunTask => Log!Execute
  <1>. SUFFICES ASSUME IInv, RunTask PROVE Log!Execute
    OBVIOUS
  <1>1. PICK e \in Clients : task = <<e>>
    BY DEF IInv, TypeOK, RunShape, RunTask
  <1>2. finished \in Seq(Clients) /\ m_queue \in Seq(Clients)
    BY DEF IInv, TypeOK
  <1>3. /\ Len(finished) < Len(finished \o <<e>> \o m_queue)
        /\ finished \o <<e>> = Append(finished, (finished \o <<e>> \o m_queue)[Len(finished) + 1])
    BY <1>2, NextIsTask
  <1>4. accepted = finished \o <<e>> \o m_queue
    BY <1>1 DEF IInv, FifoExactlyOnce
  <1>. QED
    BY <1>1, <1>3, <1>4 DEF RunTask, Log!Execute, members, clients

LEMMA StepRefines == ~EarlyStart /\ IInv /\ [Next]_vars => [Log!Next]_(Log!vars)
  <1>. SUFFICES ASSUME ~EarlyStart, IInv, [Next]_vars PROVE [Log!Next]_(Log!vars)
    OBVIOUS
  <1>. USE DEF members, clients, history
  <1>1. CASE Construct
    BY <1>1 DEF Construct, Log!vars
  <1>2. CASE RunStep
    <2>1. CASE RunTask
      BY <2>1, RunTaskExecutes DEF Log!Next
    <2>2. CASE RunInit \/ RunWait \/ RunExit \/ RunPop \/ RunFinish \/ RunNotify
      BY <2>2 DEF RunInit, RunWait, RunExit, RunPop, RunFinish, RunNotify, Log!vars
    <2>. QED
      BY <1>2, <2>1, <2>2 DEF RunStep
  <1>3. CASE RunWakesSpuriously
    BY <1>3 DEF RunWakesSpuriously, Log!vars
  <1>4. ASSUME NEW c \in Clients, Call(c) PROVE [Log!Next]_(Log!vars)
    <2>1. CASE PostAccepted(c)
      <3>1. Log!Accept(c)
        BY <2>1 DEF PostAccepted, Log!Accept
      <3>. QED
        BY <3>1 DEF Log!Next
    <2>2. CASE StopFirst(c)
      <3>1. Log!Shut
        BY <2>2 DEF StopFirst, Log!Shut
      <3>. QED
        BY <3>1 DEF Log!Next
    <2>3. CASE PostRejected(c) \/ StopAgain(c)
      BY <2>3 DEF PostRejected, StopAgain, Log!vars
    <2>. QED
      BY <1>4, <2>1, <2>2, <2>3 DEF Call
  <1>5. ASSUME NEW c \in Clients, CallStep(c) PROVE [Log!Next]_(Log!vars)
    BY <1>5 DEF CallStep, PostNotify, StopNotify, StopJoin, DrainPasses, DrainWaits, DrainTimesOut,
         Log!vars
  <1>6. ASSUME NEW c \in Drainers, DrainCall(c) \/ DrainWakes(c)
        PROVE  [Log!Next]_(Log!vars)
    BY <1>6 DEF DrainCall, DrainWakes, Log!vars
  <1>7. CASE UNCHANGED vars
    BY <1>7 DEF vars, Log!vars
  <1>. QED
    BY <1>1, <1>2, <1>3, <1>4, <1>5, <1>6, <1>7 DEF Next

(* The executor, locks, condition variable and all, keeps the promise of
   TaskLog.                                                                *)
THEOREM Refinement == ASSUME ~EarlyStart PROVE Safety => ImplementsTaskLog
  <1>1. Init => Log!Init
    BY DEF Init, Log!Init
  <1>2. IInv /\ [Next]_vars => [Log!Next]_(Log!vars)
    BY StepRefines
  <1>. QED
    BY <1>1, <1>2, Invariance, PTL DEF Safety, ImplementsTaskLog, Log!Spec

-----------------------------------------------------------------------------
(* The tail of a head and a rest is the rest. *)
LEMMA OneThenRest ==
    ASSUME NEW S, NEW e \in S, NEW q \in Seq(S)
    PROVE  <<e>> \o q # <<>> /\ Tail(<<e>> \o q) = q
  <1>. PICK s : s = <<e>> \o q
    OBVIOUS
  <1>1. <<e>> \in Seq(S) /\ Len(<<e>>) = 1 /\ Len(q) \in Nat
    OBVIOUS
  <1>2. s \in Seq(S) /\ Len(s) = 1 + Len(q) /\ \A i \in 1..Len(q) : s[i + 1] = q[i]
    BY <1>1, ConcatProperties
  <1>3. s # <<>>
    BY <1>1, <1>2
  <1>4. Tail(s) \in Seq(S) /\ Len(Tail(s)) = Len(q) /\ \A i \in 1..Len(Tail(s)) : Tail(s)[i] = s[i + 1]
    BY <1>1, <1>2, <1>3, HeadTailProperties
  <1>5. Tail(s) = q
    BY <1>2, <1>4, SeqEqual
  <1>. QED
    BY <1>3, <1>5

-----------------------------------------------------------------------------
(* The same promise, seen by the tasks that still have to run: the popped one
   and those in the queue.                                                 *)
Pending == INSTANCE TaskQueue WITH Tasks <- Clients, pending <- task \o m_queue,
                                   open <- ~(constructed /\ m_stopped)

LEMMA StepQueues == ~EarlyStart /\ IInv /\ [Next]_vars => [Pending!Next]_(Pending!vars)
  <1>. SUFFICES ASSUME ~EarlyStart, IInv, [Next]_vars PROVE [Pending!Next]_(Pending!vars)
    OBVIOUS
  <1>. USE DEF members, clients, history
  <1>t. TypeOK /\ task \in Seq(Clients) /\ m_queue \in Seq(Clients) /\ <<>> \in Seq(Clients)
    BY TaskIsSeq, EmptySeq DEF IInv, TypeOK
  <1>e. \A q \in Seq(Clients) : <<>> \o q = q
    BY ConcatEmptySeq
  <1>1. CASE Construct
    <2>1. m_queue' = m_queue /\ task' = task /\ ~constructed /\ ~m_stopped'
      BY <1>1 DEF Construct, IInv, RunShape
    <2>. QED
      BY <2>1 DEF Pending!vars
  <1>2. CASE RunStep
    <2>1. CASE RunTask
      <3>1. PICK c \in Clients : task = <<c>>
        BY <1>t, <2>1 DEF IInv, TypeOK, RunShape, RunTask
      <3>2. task' \o m_queue' = m_queue
        BY <1>t, <1>e, <2>1 DEF RunTask, NoTask
      <3>3. task \o m_queue # <<>> /\ Tail(task \o m_queue) = m_queue
        BY <1>t, <3>1, OneThenRest
      <3>4. Pending!Execute
        BY <2>1, <3>2, <3>3 DEF RunTask, Pending!Execute
      <3>. QED
        BY <3>4 DEF Pending!Next
    <2>2. CASE RunPop
      <3>1. task = <<>>
        BY <2>2 DEF RunPop, RunnerMayLock, IInv, RunShape, NoTask
      <3>2. task' \o m_queue' = m_queue
        BY <1>t, <2>2, HeadThenTail DEF RunPop
      <3>3. task \o m_queue = m_queue
        BY <1>t, <1>e, <3>1
      <3>. QED
        BY <2>2, <3>2, <3>3 DEF RunPop, Pending!vars
    <2>3. CASE RunInit \/ RunWait \/ RunExit \/ RunFinish \/ RunNotify
      BY <2>3 DEF RunInit, RunWait, RunExit, RunFinish, RunNotify, Pending!vars
    <2>. QED
      BY <1>2, <2>1, <2>2, <2>3 DEF RunStep
  <1>3. CASE RunWakesSpuriously
    BY <1>3 DEF RunWakesSpuriously, Pending!vars
  <1>4. ASSUME NEW c \in Clients, Call(c) PROVE [Pending!Next]_(Pending!vars)
    <2>1. CASE PostAccepted(c)
      <3>1. task' \o m_queue' = Append(task \o m_queue, c)
        <4>1. Append(<<>> \o task \o m_queue, c) = <<>> \o task \o Append(m_queue, c)
          BY <1>t, AppendLast
        <4>. QED
          BY <1>t, <1>e, <2>1, <4>1 DEF PostAccepted
      <3>2. Pending!Accept(c)
        BY <2>1, <3>1 DEF PostAccepted, Pending!Accept
      <3>. QED
        BY <3>2 DEF Pending!Next
    <2>2. CASE StopFirst(c)
      <3>1. Pending!Shut
        BY <2>2 DEF StopFirst, Pending!Shut
      <3>. QED
        BY <3>1 DEF Pending!Next
    <2>3. CASE PostRejected(c) \/ StopAgain(c)
      <3>1. UNCHANGED <<task, m_queue, constructed, m_stopped>>
        BY <2>3 DEF PostRejected, StopAgain
      <3>. QED
        BY <3>1 DEF Pending!vars
    <2>. QED
      BY <1>4, <2>1, <2>2, <2>3 DEF Call
  <1>5. ASSUME NEW c \in Clients, CallStep(c) PROVE [Pending!Next]_(Pending!vars)
    BY <1>5 DEF CallStep, PostNotify, StopNotify, StopJoin, DrainPasses, DrainWaits, DrainTimesOut,
         Pending!vars
  <1>6. ASSUME NEW c \in Drainers, DrainCall(c) \/ DrainWakes(c)
        PROVE  [Pending!Next]_(Pending!vars)
    BY <1>6 DEF DrainCall, DrainWakes, Pending!vars
  <1>7. CASE UNCHANGED vars
    BY <1>7 DEF vars, Pending!vars
  <1>. QED
    BY <1>1, <1>2, <1>3, <1>4, <1>5, <1>6, <1>7 DEF Next

(* To those who post, the executor is a queue whose head is a task until it
   has run to its end: popping it (RunPop) is not yet its execution.       *)
THEOREM ExecutorIsQueue == ASSUME ~EarlyStart PROVE Safety => Pending!Spec
  <1>1. Init => Pending!Init
    BY ConcatEmptySeq, EmptySeq DEF Init, NoTask, Pending!Init
  <1>2. IInv /\ [Next]_vars => [Pending!Next]_(Pending!vars)
    BY StepQueues
  <1>. QED
    BY <1>1, <1>2, Invariance, PTL DEF Safety, Pending!Spec

-----------------------------------------------------------------------------
(* Who waits for something that has happened will be told: the safety half of
   StopReturns and TasksRunUndrained.  The fairness of the notifying thread
   does the rest.                                                          *)

(* The stop flag is set, and the thread or a DrainFor sleeps on. *)
StopWakes == m_stopped /\ (RunnerWaits \/ DrainWaiters # {})
             => \E c \in Clients : pc[c] = "stop_notify"

(* The queue has drained, and a DrainFor sleeps on. *)
FinishWakes == QueueDrained /\ DrainWaiters # {} => run = "notify"

(* A task is queued, and the thread sleeps on. *)
PostWakes == m_queue # <<>> /\ RunnerWaits => \E c \in Clients : pc[c] = "post_notify"

LEMMA StopWakesStep == TypeOK /\ StopWakes /\ [Next]_vars => StopWakes'
  <1>. SUFFICES ASSUME TypeOK, StopWakes, [Next]_vars PROVE StopWakes'
    OBVIOUS
  <1>. USE DEF TypeOK, StopWakes, RunnerWaits, DrainWaiters
  <1>1. CASE Construct
    BY <1>1 DEF Construct
  <1>2. CASE RunInit \/ RunWait \/ RunExit \/ RunPop \/ RunTask \/ RunFinish \/ RunWakesSpuriously
    BY <1>2 DEF RunInit, RunWait, RunExit, RunPop, RunTask, RunFinish, RunWakesSpuriously,
       members, clients
  <1>3. CASE RunNotify
    <2>1. run' = "check" /\ m_stopped' = m_stopped /\ \A c \in Clients : pc'[c] # "drain_wait"
      BY <1>3 DEF RunNotify, members
    <2>. QED
      BY <2>1
  <1>4. ASSUME NEW c \in Clients, PostAccepted(c) \/ PostRejected(c) \/ StopAgain(c)
        PROVE  StopWakes'
    BY <1>4 DEF PostAccepted, PostRejected, StopAgain, Return, members
  <1>5. ASSUME NEW c \in Clients, StopFirst(c) PROVE StopWakes'
    BY <1>5 DEF StopFirst
  <1>6. ASSUME NEW c \in Clients, PostNotify(c) PROVE StopWakes'
    BY <1>6 DEF PostNotify, members
  <1>7. ASSUME NEW c \in Clients, StopNotify(c) PROVE StopWakes'
    BY <1>7 DEF StopNotify, members
  <1>8. ASSUME NEW c \in Clients, StopJoin(c) \/ DrainPasses(c) \/ DrainWaits(c) \/ DrainTimesOut(c)
        PROVE  StopWakes'
    BY <1>8 DEF StopJoin, DrainPasses, DrainWaits, DrainTimesOut, Return, members
  <1>9. ASSUME NEW c \in Clients, DrainCall(c) \/ DrainWakes(c) PROVE StopWakes'
    BY <1>9 DEF DrainCall, DrainWakes, members
  <1>10. CASE UNCHANGED vars
    BY <1>10 DEF vars, members, clients
  <1>. QED
    BY <1>1, <1>2, <1>3, <1>4, <1>5, <1>6, <1>7, <1>8, <1>9, <1>10, DrainersAssumption
    DEF Next, RunStep, Call, CallStep

(* Stop reaches whoever sleeps on the condition variable: the thread that set
   the flag has its notify_all still to come.                              *)
THEOREM StopIsHeard == Safety => []StopWakes
  <1>1. Init => StopWakes
    BY DEF Init, StopWakes, RunnerWaits, DrainWaiters
  <1>. QED
    BY <1>1, StopWakesStep, TypeCorrect, PTL DEF Safety

LEMMA FinishWakesStep == IInv /\ FinishWakes /\ [Next]_vars => FinishWakes'
  <1>. SUFFICES ASSUME IInv, FinishWakes, [Next]_vars PROVE FinishWakes'
    OBVIOUS
  <1>. USE DEF FinishWakes, DrainWaiters, QueueDrained
  <1>t. TypeOK
    BY DEF IInv
  <1>1. CASE Construct
    <2>1. pc' = pc /\ \A c \in Clients : pc[c] # "drain_wait"
      BY <1>1 DEF Construct, IInv, RunShape, clients
    <2>. QED
      BY <2>1
  <1>2. CASE RunInit \/ RunWait \/ RunExit \/ RunPop \/ RunTask \/ RunFinish \/ RunWakesSpuriously
    BY <1>2 DEF RunInit, RunWait, RunExit, RunPop, RunTask, RunFinish, RunWakesSpuriously,
       RunnerMayLock, RunnerWaits, members, clients, IInv, RunShape
  <1>3. CASE RunNotify
    <2>1. \A c \in Clients : pc'[c] # "drain_wait"
      BY <1>3 DEF RunNotify
    <2>. QED
      BY <2>1
  <1>4. ASSUME NEW c \in Clients, PostAccepted(c) PROVE FinishWakes'
    <2>1. m_queue' # <<>>
      BY <1>t, <1>4, AppendProperties DEF PostAccepted, TypeOK
    <2>. QED
      BY <2>1
  <1>5. ASSUME NEW c \in Clients, PostRejected(c) \/ StopAgain(c) \/ StopFirst(c) PROVE FinishWakes'
    BY <1>t, <1>5 DEF PostRejected, StopAgain, StopFirst, Return, members, TypeOK
  <1>6. ASSUME NEW c \in Clients, PostNotify(c) PROVE FinishWakes'
    BY <1>t, <1>6 DEF PostNotify, RunnerWaits, members, TypeOK
  <1>7. ASSUME NEW c \in Clients, StopNotify(c) PROVE FinishWakes'
    <2>1. \A d \in Clients : pc'[d] # "drain_wait"
      BY <1>7 DEF StopNotify
    <2>. QED
      BY <2>1
  <1>8. ASSUME NEW c \in Clients, StopJoin(c) \/ DrainPasses(c) \/ DrainWaits(c) \/ DrainTimesOut(c)
        PROVE  FinishWakes'
    BY <1>t, <1>8 DEF StopJoin, DrainPasses, DrainWaits, DrainTimesOut, Return, members, TypeOK
  <1>9. ASSUME NEW c \in Clients, DrainCall(c) \/ DrainWakes(c) PROVE FinishWakes'
    BY <1>t, <1>9 DEF DrainCall, DrainWakes, members, TypeOK
  <1>10. CASE UNCHANGED vars
    BY <1>10 DEF vars, members, clients
  <1>. QED
    BY <1>1, <1>2, <1>3, <1>4, <1>5, <1>6, <1>7, <1>8, <1>9, <1>10, DrainersAssumption
    DEF Next, RunStep, Call, CallStep

(* A caller of DrainFor does not sleep through the end of the last task until
   it times out: the thread's notify_all is still to come.                 *)
THEOREM DrainIsHeard == ASSUME ~EarlyStart PROVE Safety => []FinishWakes
  <1>1. Init => FinishWakes
    BY DEF Init, FinishWakes, DrainWaiters
  <1>. QED
    BY <1>1, FinishWakesStep, Invariance, PTL DEF Safety

LEMMA PostWakesStep == TypeOK /\ PostWakes /\ NobodyDrains /\ [Next]_vars => PostWakes'
  <1>. SUFFICES ASSUME TypeOK, PostWakes, NobodyDrains, [Next]_vars PROVE PostWakes'
    OBVIOUS
  <1>. USE DEF TypeOK, PostWakes, RunnerWaits
  <1>1. CASE Construct
    BY <1>1 DEF Construct
  <1>2. CASE RunInit \/ RunWait \/ RunExit \/ RunPop \/ RunTask \/ RunFinish \/ RunNotify
             \/ RunWakesSpuriously
    BY <1>2 DEF RunInit, RunWait, RunExit, RunPop, RunTask, RunFinish, RunNotify,
       RunWakesSpuriously, RunnerWaits, members
  <1>3. ASSUME NEW c \in Clients, PostAccepted(c) PROVE PostWakes'
    BY <1>3 DEF PostAccepted
  <1>4. ASSUME NEW c \in Clients, PostRejected(c) \/ StopAgain(c) \/ StopFirst(c) PROVE PostWakes'
    BY <1>4 DEF PostRejected, StopAgain, StopFirst, Return, members
  <1>5. ASSUME NEW c \in Clients, PostNotify(c) PROVE PostWakes'
    <2>1. DrainWaiters = {}
      BY DEF NobodyDrains, DrainWaiters
    <2>2. run' # "waiting"
      BY <1>5, <2>1 DEF PostNotify
    <2>. QED
      BY <2>2
  <1>6. ASSUME NEW c \in Clients, StopNotify(c) PROVE PostWakes'
    BY <1>6 DEF StopNotify
  <1>7. ASSUME NEW c \in Clients, StopJoin(c) \/ DrainPasses(c) \/ DrainWaits(c) \/ DrainTimesOut(c)
        PROVE  PostWakes'
    BY <1>7 DEF StopJoin, DrainPasses, DrainWaits, DrainTimesOut, Return, members
  <1>8. ASSUME NEW c \in Clients, DrainCall(c) \/ DrainWakes(c) PROVE PostWakes'
    BY <1>8 DEF DrainCall, DrainWakes, members
  <1>9. CASE UNCHANGED vars
    BY <1>9 DEF vars, members, clients
  <1>. QED
    BY <1>1, <1>2, <1>3, <1>4, <1>5, <1>6, <1>7, <1>8, <1>9, DrainersAssumption
    DEF Next, RunStep, Call, CallStep

(* While nobody calls DrainFor, notify_one cannot reach the wrong waiter: a
   queued task has the executor awake or a Post about to wake it.  TLC shows
   in lost_wakeup that the condition is needed.                            *)
THEOREM PostIsHeard == Safety /\ []NobodyDrains => []PostWakes
  <1>1. Init => PostWakes
    BY DEF Init, PostWakes, RunnerWaits
  <1>. QED
    BY <1>1, PostWakesStep, TypeCorrect, PTL DEF Safety
=============================================================================
