------------------------ MODULE MCConnectionManager ------------------------
(* ConnectionManager for TLC: devices are interchangeable. *)
EXTENDS ConnectionManager, TLC

DeviceSymmetry == Permutations(Devices)
=============================================================================
