------------------------------ MODULE TaskLog ------------------------------
(***************************************************************************)
(* What SerializedExecutor.h promises its callers, without threads, locks  *)
(* or condition variables: tasks are accepted while the executor is open   *)
(* and every accepted task is executed once, alone, in the order of        *)
(* acceptance.  SerializedExecutor.tla is shown to implement it.           *)
(***************************************************************************)
EXTENDS Naturals, Sequences

CONSTANT Clients        \* the threads that call Post; a task is named by its poster

VARIABLES log,          \* the accepted tasks, oldest first
          done,         \* the executed tasks, oldest first
          open          \* Post still accepts

vars == <<log, done, open>>

TypeOK == /\ log \in Seq(Clients)
          /\ done \in Seq(Clients)
          /\ open \in BOOLEAN

Init == /\ log = <<>>
        /\ done = <<>>
        /\ open = TRUE

Accept(c) == /\ open
             /\ log' = Append(log, c)
             /\ UNCHANGED <<done, open>>

Shut == /\ open
        /\ open' = FALSE
        /\ UNCHANGED <<log, done>>

(* The oldest task not executed yet is executed, before or after Shut. *)
Execute == /\ Len(done) < Len(log)
           /\ done' = Append(done, log[Len(done) + 1])
           /\ UNCHANGED <<log, open>>

Next == (\E c \in Clients : Accept(c)) \/ Shut \/ Execute

Spec == Init /\ [][Next]_vars
=============================================================================
