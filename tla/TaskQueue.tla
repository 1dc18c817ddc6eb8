----------------------------- MODULE TaskQueue -----------------------------
(***************************************************************************)
(* What is left of TaskLog for one who posts tasks and is run by them: the *)
(* tasks that still have to run.  A task leaves when it has run to its     *)
(* end, so one that is executing is the head.  SerializedExecutor is shown *)
(* to implement it, and so is the queue that ConnectionManager uses: the   *)
(* manager takes nothing for granted that the executor does not keep.      *)
(***************************************************************************)
EXTENDS Sequences

CONSTANT Tasks

VARIABLES pending,      \* the accepted tasks that have not run, oldest first
          open          \* Post still accepts

vars == <<pending, open>>

Init == /\ pending = <<>>
        /\ open = TRUE

Accept(t) == /\ open
             /\ pending' = Append(pending, t)
             /\ UNCHANGED open

Execute == /\ pending # <<>>
           /\ pending' = Tail(pending)
           /\ UNCHANGED open

Shut == /\ open
        /\ open' = FALSE
        /\ UNCHANGED pending

Next == (\E t \in Tasks : Accept(t)) \/ Execute \/ Shut

Spec == Init /\ [][Next]_vars
=============================================================================
