----------------------------- MODULE DeviceTable -----------------------------
(***************************************************************************)
(* What ConnectionManager promises to the application: per device, where   *)
(* it stands, and what the status handler was last told.  The two change   *)
(* together, in one task of the executor.  ConnectionManager implements    *)
(* this module; AppShell uses its actions in place of the manager.         *)
(***************************************************************************)
CONSTANT Devices

VARIABLES
    tracked,  \* device -> "none", "connecting" or "connected"
    shown,    \* device -> the status last given to the status handler
    ending    \* has the exit of the process begun?

vars == <<tracked, shown, ending>>

Places == {"none", "connecting", "connected"}
Statuses == {"none", "connecting", "connected", "failed", "closed"}

Init ==
    /\ tracked = [d \in Devices |-> "none"]
    /\ shown = [d \in Devices |-> "none"]
    /\ ending = FALSE

Move(d, place, status) ==
    /\ tracked' = [tracked EXCEPT ![d] = place]
    /\ shown' = [shown EXCEPT ![d] = status]
    /\ UNCHANGED ending

(* An attempt that creates no connection leaves the older one alone. *)
Refuse(d) == Move(d, tracked[d], "failed")

Begin(d) == Move(d, "connecting", "connecting")
Open(d) == Move(d, "connected", "connected")

(* An attempt, or the older connection with it, comes to nothing. *)
Fail(d) == Move(d, "none", "failed")

(* Disconnected by the user or by the remote side. *)
Drop(d) == Move(d, "none", "closed")

End == /\ ~ending
       /\ ending' = TRUE
       /\ UNCHANGED <<tracked, shown>>

Emptied == tracked' = [d \in Devices |-> "none"]

CloseAll ==
    /\ ending
    /\ Emptied
    /\ shown' = [d \in Devices |-> IF tracked[d] = "none" THEN shown[d] ELSE "closed"]
    /\ UNCHANGED ending

(* Only the exit may empty the table and tell nobody. *)
Detach == /\ ending
          /\ Emptied
          /\ UNCHANGED <<shown, ending>>

Next ==
    \/ \E d \in Devices : Refuse(d) \/ Begin(d) \/ Open(d) \/ Fail(d) \/ Drop(d)
    \/ End \/ CloseAll \/ Detach

Spec == Init /\ [][Next]_vars
=============================================================================
