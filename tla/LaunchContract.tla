--------------------------- MODULE LaunchContract ---------------------------
(***************************************************************************)
(* What a device back end of the OpenCL driver promises about the launches *)
(* submitted to it (trait Device, ocl-bare/src/device.rs, and the status   *)
(* word of struct Event): the launch runs every one of its units of work,  *)
(* no unit of another launch in between, and only then retires; a failed   *)
(* unit makes the launch retire with an error; a refused launch never runs.*)
(* SmpDevice and DescriptorRing are shown to implement this specification. *)
(***************************************************************************)
EXTENDS Naturals

CONSTANTS
    Launches,   \* launch identifiers
    MaxUnits    \* units of work of the largest launch

VARIABLES
    status,     \* the event's status, with the outcome submit or a wait reports
    units,      \* units of work of each launch: work-groups, or the whole range
    ran,        \* how many of them have been executed
    failed      \* whether one of them failed

contract == <<status, units, ran, failed>>

Init ==
    /\ status = [l \in Launches |-> "queued"]
    /\ units = [l \in Launches |-> 0]
    /\ ran = [l \in Launches |-> 0]
    /\ failed = [l \in Launches |-> FALSE]

\* Device::submit sets CL_SUBMITTED first.
Submit(l, n) ==
    /\ status[l] = "queued"
    /\ status' = [status EXCEPT ![l] = "submitted"]
    /\ units' = [units EXCEPT ![l] = n]
    /\ UNCHANGED <<ran, failed>>

\* CL_RUNNING: an asynchronous device may already have executed the launch.
Start(l) ==
    /\ status[l] = "submitted"
    /\ status' = [status EXCEPT ![l] = "running"]
    /\ UNCHANGED <<units, ran, failed>>

\* One unit of work, while no other launch is half-way through its own.
Execute(l, ok) ==
    /\ status[l] \in {"submitted", "running"}
    /\ ran[l] < units[l]
    /\ \A k \in Launches \ {l} : ran[k] \in {0, units[k]}
    /\ ran' = [ran EXCEPT ![l] = @ + 1]
    /\ failed' = [failed EXCEPT ![l] = @ \/ ~ok]
    /\ UNCHANGED <<status, units>>

\* The command retires: everything ran, and the outcome says how it went.
Retire(l) ==
    /\ status[l] = "running"
    /\ ran[l] = units[l]
    /\ status' = [status EXCEPT ![l] = IF failed[l] THEN "error" ELSE "complete"]
    /\ UNCHANGED <<units, ran, failed>>

\* submit returns an error before anything was published.
Refuse(l) ==
    /\ status[l] = "submitted" /\ ran[l] = 0
    /\ status' = [status EXCEPT ![l] = "refused"]
    /\ UNCHANGED <<units, ran, failed>>

Next ==
    \E l \in Launches :
        \/ \E n \in 0..MaxUnits : Submit(l, n)
        \/ Start(l)
        \/ \E ok \in BOOLEAN : Execute(l, ok)
        \/ Retire(l)
        \/ Refuse(l)

Spec == Init /\ [][Next]_contract
=============================================================================
