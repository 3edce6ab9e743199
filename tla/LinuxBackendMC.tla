--------------------------- MODULE LinuxBackendMC ---------------------------
(***************************************************************************)
(* The keyboards of the run: each has one shift, and they share a native   *)
(* key.                                                                    *)
(***************************************************************************)
EXTENDS LinuxBackend

MCKeysOf == [d \in Devices |-> IF d = 1 THEN {"ShiftLeft", "n1", "n2"} ELSE {"ShiftRight", "n1"}]
\* The native codes collide.
MCHashes == {[code \in Native |-> 0]}
=============================================================================
