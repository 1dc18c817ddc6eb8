------------------------------ MODULE AsyncOp ------------------------------
(***************************************************************************)
(* src/AsyncOp.hpp: the one-shot result a platform callback completes and  *)
(* a coroutine awaits.  Any thread may complete it, more than one may try, *)
(* before, while or after the coroutine comes to wait.                     *)
(*                                                                         *)
(* Each critical section of State::m_mutex is one action; resume(), which  *)
(* Complete calls after it has let go of the lock, is another, and runs    *)
(* the coroutine on the completing thread.  The two specialisations differ *)
(* in what a value is, and not in anything modelled here.                  *)
(***************************************************************************)
EXTENDS Naturals

CONSTANTS
    Completers,   \* threads that call Complete or CompleteError
    MaxCalls      \* bound: number of these calls

ASSUME MaxCallsAssumption == MaxCalls \in Nat

None == [kind |-> "none"]

(* m_value or m_error, and whose call stored it. *)
Outcomes == [kind: {"value", "error"}, by: Completers]

VARIABLES
    m_completed, m_continuation,
    m_outcome,    \* m_value and m_error
    holds,        \* the threads between unlock and resume() in a call
    coro,         \* where the awaiting coroutine stands
    calls,        \* number of calls so far
    first,        \* history: the outcome of the first call
    taken         \* history: what co_await gave the coroutine

state == <<m_completed, m_continuation, m_outcome>>
vars == <<state, holds, coro, calls, first, taken>>

(* "stray": resumed when it was not suspended, which is undefined behaviour;
   "threw": TakeResult found nothing.                                      *)
CoroStates == {"before", "unready", "suspended", "ready", "done", "stray", "threw"}

TypeOK ==
    /\ m_completed \in BOOLEAN
    /\ m_continuation \in BOOLEAN
    /\ m_outcome \in Outcomes \cup {None}
    /\ holds \in SUBSET Completers
    /\ coro \in CoroStates
    /\ calls \in Nat
    /\ first \in Outcomes \cup {None}
    /\ taken \in Outcomes \cup {None}

Init ==
    /\ m_completed = FALSE
    /\ m_continuation = FALSE
    /\ m_outcome = None
    /\ holds = {}
    /\ coro = "before"
    /\ calls = 0
    /\ first = None
    /\ taken = None

-----------------------------------------------------------------------------
(* Faulty variants of actions below, one slip each.  No specification uses
   them: each is what one of the properties is there to exclude.           *)

(* No test of m_completed: the last completion wins, and resumes again. *)
CompleteAgain(c, o) ==
    /\ c \notin holds
    /\ calls < MaxCalls
    /\ calls' = calls + 1
    /\ m_completed' = TRUE
    /\ m_outcome' = o
    /\ first' = IF first = None THEN o ELSE first
    /\ holds' = IF m_continuation THEN holds \cup {c} ELSE holds
    /\ UNCHANGED <<m_continuation, coro, taken>>

(* m_completed is set, and the value written elsewhere. *)
CompleteEmpty(c, o) ==
    /\ c \notin holds
    /\ calls < MaxCalls
    /\ ~m_completed
    /\ calls' = calls + 1
    /\ m_completed' = TRUE
    /\ m_outcome' = [kind |-> o.kind]
    /\ first' = o
    /\ holds' = IF m_continuation THEN holds \cup {c} ELSE holds
    /\ UNCHANGED <<m_continuation, coro, taken>>

(* The coroutine suspends without a second look at m_completed. *)
SuspendBlindly ==
    /\ coro = "unready"
    /\ m_continuation' = TRUE
    /\ coro' = "suspended"
    /\ UNCHANGED <<m_completed, m_outcome, holds, calls, first, taken>>

(* The continuation is dropped, and the coroutine never runs again. *)
ResumeDropped(c) ==
    /\ c \in holds
    /\ holds' = holds \ {c}
    /\ UNCHANGED <<state, coro, calls, first, taken>>

(* resume() without a test of the continuation. *)
CompleteResumesAlways(c, o) ==
    /\ c \notin holds
    /\ calls < MaxCalls
    /\ ~m_completed
    /\ calls' = calls + 1
    /\ m_completed' = TRUE
    /\ m_outcome' = o
    /\ first' = o
    /\ holds' = holds \cup {c}
    /\ UNCHANGED <<m_continuation, coro, taken>>

-----------------------------------------------------------------------------
(* Complete and CompleteError: the first call stores its outcome and copies
   the continuation under the lock; every later one is ignored.            *)

Call(c) == /\ c \notin holds
           /\ calls < MaxCalls
           /\ calls' = calls + 1

Complete(c, o) ==
    /\ Call(c)
    /\ ~m_completed
    /\ m_completed' = TRUE
    /\ m_outcome' = o
    /\ first' = IF first = None THEN o ELSE first
    /\ holds' = IF m_continuation THEN holds \cup {c} ELSE holds
    /\ UNCHANGED <<m_continuation, coro, taken>>

CompleteIgnored(c) ==
    /\ Call(c)
    /\ m_completed
    /\ UNCHANGED <<state, holds, coro, first, taken>>

(* continuation.resume(), outside the lock. *)
Resume(c) ==
    /\ c \in holds
    /\ holds' = holds \ {c}
    /\ coro' = IF coro = "suspended" THEN "ready" ELSE "stray"
    /\ UNCHANGED <<state, calls, first, taken>>

-----------------------------------------------------------------------------
(* co_await *)

AwaitReady ==
    /\ coro = "before"
    /\ coro' = IF m_completed THEN "ready" ELSE "unready"
    /\ UNCHANGED <<state, holds, calls, first, taken>>

(* await_suspend: SetContinuation looks at m_completed again, under the lock. *)
SuspendRefused ==
    /\ coro = "unready"
    /\ m_completed
    /\ coro' = "ready"
    /\ UNCHANGED <<state, holds, calls, first, taken>>

Suspend ==
    /\ coro = "unready"
    /\ ~m_completed
    /\ m_continuation' = TRUE
    /\ coro' = "suspended"
    /\ UNCHANGED <<m_completed, m_outcome, holds, calls, first, taken>>

(* await_resume: the value or the error is moved out. *)
TakeResult ==
    /\ coro = "ready"
    /\ coro' = IF m_completed THEN "done" ELSE "threw"
    /\ taken' = m_outcome
    /\ m_outcome' = None
    /\ UNCHANGED <<m_completed, m_continuation, holds, calls, first>>

-----------------------------------------------------------------------------
CoroStep == AwaitReady \/ SuspendRefused \/ Suspend \/ TakeResult

Next ==
    \/ CoroStep
    \/ \E c \in Completers :
          \/ \E o \in Outcomes : o.by = c /\ Complete(c, o)
          \/ CompleteIgnored(c)
          \/ Resume(c)

(* The coroutine goes on unless it is suspended, and so does a call that has
   begun.  Nobody is obliged to complete anything.                         *)
Fairness == WF_vars(CoroStep) /\ \A c \in Completers : WF_vars(Resume(c))

Safety == Init /\ [][Next]_vars
Spec == Safety /\ Fairness

-----------------------------------------------------------------------------
(* A coroutine handle is resumed by one thread, once, and only while the
   coroutine is suspended, however many threads complete (hpp:7-8).        *)
ResumedOnce ==
    /\ \A c, d \in holds : c = d
    /\ holds # {} => coro = "suspended"
    /\ coro # "stray"

(* "No lost wakeup" (hpp:134): a coroutine that suspended although the result
   is there has a thread about to resume it.                               *)
NoLostWakeup == coro = "suspended" /\ m_completed => holds # {}

(* co_await gives the outcome of the first call, never one that came later
   and never one that is not there yet (hpp:7-8, 84-85).                   *)
ResultIsFirst ==
    /\ coro = "done" => first # None /\ taken = first
    /\ coro # "threw"

(* A co_await whose operation completes comes back. *)
AwaitEnds == m_completed ~> coro = "done"

(* The promise of OneShot is kept: what is settled is stored until the
   coroutine has it.                                                       *)
Shot == INSTANCE OneShot WITH settled <- IF coro = "done" THEN taken ELSE m_outcome
ImplementsOneShot == Shot!Spec
=============================================================================
