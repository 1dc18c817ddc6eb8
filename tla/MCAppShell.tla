----------------------------- MODULE MCAppShell -----------------------------
(* AppShell for TLC: devices are interchangeable. *)
EXTENDS AppShell

DeviceSymmetry == Permutations(Devices)
=============================================================================
