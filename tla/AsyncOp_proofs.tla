--------------------------- MODULE AsyncOp_proofs ---------------------------
(***************************************************************************)
(* Theorems about AsyncOp for any number of completing threads and calls,  *)
(* with their proofs.  They hold of Safety, hence of Spec.                 *)
(***************************************************************************)
EXTENDS AsyncOp, TLAPS

LEMMA TypeInit == Init => TypeOK
  <1>1. Init => m_completed \in BOOLEAN /\ m_continuation \in BOOLEAN
    BY Zenon DEF Init
  <1>. QED
    BY <1>1 DEF Init, TypeOK, CoroStates

LEMMA TypeStep == TypeOK /\ [Next]_vars => TypeOK'
  <1>. SUFFICES ASSUME TypeOK, [Next]_vars PROVE TypeOK'
    OBVIOUS
  <1>1. CASE CoroStep
    BY <1>1 DEF CoroStep, AwaitReady, SuspendRefused, Suspend, TakeResult, state, TypeOK, CoroStates
  <1>2. ASSUME NEW c \in Completers, NEW o \in Outcomes, Complete(c, o) PROVE TypeOK'
    BY <1>2 DEF Complete, Call, TypeOK
  <1>3. ASSUME NEW c \in Completers, CompleteIgnored(c) \/ Resume(c) PROVE TypeOK'
    BY <1>3 DEF CompleteIgnored, Call, Resume, state, TypeOK, CoroStates
  <1>4. CASE UNCHANGED vars
    BY <1>4 DEF vars, state, TypeOK
  <1>. QED
    BY <1>1, <1>2, <1>3, <1>4 DEF Next

(* Types: every variable keeps its type. *)
THEOREM TypeCorrect == Safety => []TypeOK
  BY TypeInit, TypeStep, PTL DEF Safety

-----------------------------------------------------------------------------
(* The inductive invariant adds where the outcome is at each stage, and that
   the continuation is stored only by a coroutine that suspends: a thread
   that holds it is the one that completed, hence alone.                   *)
OutcomeInv ==
    /\ m_completed <=> first # None
    /\ coro # "done" => m_outcome = first /\ taken = None
    /\ coro = "done" => m_outcome = None
    /\ coro \in {"ready", "done"} => m_completed

HolderInv ==
    /\ m_continuation => coro \in {"suspended", "ready", "done"}
    /\ coro = "suspended" => m_continuation
    /\ holds # {} => m_completed

IInv == TypeOK /\ OutcomeInv /\ HolderInv /\ ResumedOnce /\ NoLostWakeup /\ ResultIsFirst

LEMMA NoneApart == \A o \in Outcomes : o # None
  BY DEF Outcomes, None

LEMMA IInvInit == Init => IInv
  BY TypeInit DEF Init, IInv, OutcomeInv, HolderInv, ResumedOnce, NoLostWakeup, ResultIsFirst

LEMMA IInvStep == IInv /\ [Next]_vars => IInv'
  <1>. SUFFICES ASSUME IInv, [Next]_vars PROVE IInv'
    OBVIOUS
  <1>t. TypeOK'
    BY TypeStep DEF IInv
  <1>. USE DEF OutcomeInv, HolderInv, ResumedOnce, NoLostWakeup, ResultIsFirst
  <1>1. CASE AwaitReady \/ SuspendRefused
    BY <1>1, <1>t DEF AwaitReady, SuspendRefused, state, IInv
  <1>2. CASE Suspend
    BY <1>2, <1>t DEF Suspend, IInv
  <1>3. CASE TakeResult
    BY <1>3, <1>t DEF TakeResult, IInv
  <1>4. ASSUME NEW c \in Completers, NEW o \in Outcomes, Complete(c, o) PROVE IInv'
    <2>1. first = None /\ first' = o /\ o # None /\ m_completed' /\ m_outcome' = o
      BY <1>4, NoneApart DEF Complete, IInv
    <2>2. holds = {} /\ coro \notin {"ready", "done"}
      BY <1>4 DEF Complete, IInv
    <2>3. coro = "suspended" => holds' = {c}
      BY <1>4, <2>2 DEF Complete, IInv
    <2>4. coro # "suspended" => holds' = {}
      BY <1>4, <2>2 DEF Complete, IInv
    <2>5. UNCHANGED <<m_continuation, coro, taken>>
      BY <1>4 DEF Complete
    <2>. QED
      BY <1>t, <2>1, <2>2, <2>3, <2>4, <2>5 DEF IInv
  <1>5. ASSUME NEW c \in Completers, CompleteIgnored(c) PROVE IInv'
    BY <1>5, <1>t DEF CompleteIgnored, Call, state, IInv
  <1>6. ASSUME NEW c \in Completers, Resume(c) PROVE IInv'
    <2>1. coro = "suspended" /\ m_completed /\ holds' = {} /\ coro' = "ready"
      BY <1>6 DEF Resume, IInv
    <2>2. UNCHANGED <<m_completed, m_continuation, m_outcome, first, taken>>
      BY <1>6 DEF Resume, state
    <2>. QED
      BY <1>t, <2>1, <2>2 DEF IInv
  <1>7. CASE UNCHANGED vars
    BY <1>7, <1>t DEF vars, state, IInv
  <1>. QED
    BY <1>1, <1>2, <1>3, <1>4, <1>5, <1>6, <1>7 DEF Next, CoroStep

(* The inductive invariant holds in every reachable state. *)
THEOREM Invariance == Safety => []IInv
  BY IInvInit, IInvStep, PTL DEF Safety

(* ResumedOnce: the coroutine is resumed by one thread, once, and only while
   it is suspended.                                                        *)
THEOREM Once == Safety => []ResumedOnce
  <1>1. IInv => ResumedOnce
    BY DEF IInv
  <1>. QED
    BY <1>1, Invariance, PTL

(* NoLostWakeup: no interleaving of completion and suspension strands it. *)
THEOREM Woken == Safety => []NoLostWakeup
  <1>1. IInv => NoLostWakeup
    BY DEF IInv
  <1>. QED
    BY <1>1, Invariance, PTL

(* ResultIsFirst: co_await gives the outcome of the first call. *)
THEOREM First == Safety => []ResultIsFirst
  <1>1. IInv => ResultIsFirst
    BY DEF IInv
  <1>. QED
    BY <1>1, Invariance, PTL

-----------------------------------------------------------------------------
(* ImplementsOneShot: the result is settled once and taken once. *)
THEOREM Refinement == Safety => ImplementsOneShot
  <1>1. Init => Shot!Init
    BY DEF Init, Shot!Init
  <1>2. IInv /\ [Next]_vars => [Shot!Next]_Shot!vars
    <2>. SUFFICES ASSUME IInv, [Next]_vars PROVE [Shot!Next]_Shot!vars
      OBVIOUS
    <2>1. ASSUME NEW c \in Completers, NEW o \in Outcomes, Complete(c, o) PROVE Shot!Settle
      <3>1. m_outcome = None /\ coro # "done"
        BY <2>1 DEF Complete, IInv, OutcomeInv
      <3>. QED
        BY <2>1, <3>1 DEF Complete, Shot!Settle
    <2>2. CASE TakeResult
      <3>1. coro # "done" /\ m_outcome # None /\ taken = None
        BY <2>2 DEF TakeResult, IInv, OutcomeInv
      <3>2. coro' = "done" /\ taken' = m_outcome
        BY <2>2 DEF TakeResult, IInv, OutcomeInv
      <3>3. Shot!Take
        BY <3>1, <3>2 DEF Shot!Take
      <3>. QED
        BY <3>3 DEF Shot!Next
    <2>3. CASE AwaitReady \/ SuspendRefused \/ Suspend \/ UNCHANGED vars
      BY <2>3 DEF AwaitReady, SuspendRefused, Suspend, vars, state, Shot!vars
    <2>4. ASSUME NEW c \in Completers, CompleteIgnored(c) \/ Resume(c) PROVE UNCHANGED Shot!vars
      BY <2>4 DEF CompleteIgnored, Call, Resume, state, IInv, ResumedOnce, Shot!vars
    <2>. QED
      BY <2>1, <2>2, <2>3, <2>4 DEF Next, CoroStep, Shot!Next
  <1>. QED
    BY <1>1, <1>2, Invariance, PTL DEF Safety, ImplementsOneShot, Shot!Spec
=============================================================================
