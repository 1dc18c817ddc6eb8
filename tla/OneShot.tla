------------------------------ MODULE OneShot ------------------------------
(***************************************************************************)
(* What AsyncOp.hpp promises, without locks or coroutines: a result is     *)
(* settled at most once, never changes, and is taken at most once, by the  *)
(* one who awaits it.  AsyncOp.tla is shown to implement it.               *)
(***************************************************************************)
CONSTANTS Outcomes, None    \* what a completion can say; nothing said yet

VARIABLES settled, taken

vars == <<settled, taken>>

Init == settled = None /\ taken = None

Settle == /\ settled = None
          /\ settled' \in Outcomes
          /\ UNCHANGED taken

Take == /\ settled # None
        /\ taken = None
        /\ taken' = settled
        /\ UNCHANGED settled

Next == Settle \/ Take

Spec == Init /\ [][Next]_vars
=============================================================================
