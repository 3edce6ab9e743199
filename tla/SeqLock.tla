------------------------------ MODULE SeqLock ------------------------------
(***************************************************************************)
(* The sequence lock of the keyboard state and of the pointer state        *)
(* (kuitui/src/input): atomics behind a counter.  The pump, the only       *)
(* writer, makes the counter odd, updates fields one atomic access at a    *)
(* time and makes it even again (apply, finish_frame); a reader copies all *)
(* fields between two loads of an equal, even counter (snapshot).          *)
(*                                                                         *)
(* Every access is a step, taken when it becomes visible to other threads. *)
(* The orderings the code asks for leave two gaps: a relaxed load of a     *)
(* field may be performed after the acquire load meant to validate it, and *)
(* a relaxed store before the increment meant to announce it is visible.   *)
(* The value of a field is the number of times it was stored: which fields *)
(* an event stores, how often and in which order is arbitrary here, and    *)
(* module KeyboardState says what it stores.                               *)
(***************************************************************************)
EXTENDS Naturals, Sequences

CONSTANTS
    Fields,          \* the atomics behind the counter
    Readers,         \* threads that take snapshots
    Gaps,            \* the accesses that the build lets pass the counter
    MaxTransitions,  \* bound: events applied and frames finished
    MaxStores        \* bound: stores of one event

ASSUME SeqLockConstants ==
    /\ Gaps \subseteq {"loads", "stores"}
    /\ MaxTransitions \in Nat /\ MaxStores \in Nat

VARIABLES
    sequence,  \* the counter; odd while the writer is active
    mem,       \* the fields
    writer,    \* whether an event is being applied, the stores left to it, and the
               \* fields it has stored ahead of the counter
    reader,    \* where each snapshot is, and what it has loaded
    history    \* history: the fields before and after each finished transition

vars == <<sequence, mem, writer, reader, history>>

\* at is the number of transitions that had finished when the counter was loaded, and
\* loose are the fields whose load the counter did not validate: loaded after its second
\* load, or from a store that the counter did not announce yet.
NewReader == [pc |-> "begin", before |-> 0, at |-> 1, loaded |-> {}, loose |-> {},
              copy |-> [f \in Fields |-> 0], rechecked |-> FALSE, agrees |-> FALSE]

Idle == [active |-> FALSE, stores |-> MaxStores, ahead |-> {}]

Init ==
    /\ sequence = 0
    /\ mem = [f \in Fields |-> 0]
    /\ writer = Idle
    /\ reader = [r \in Readers |-> NewReader]
    /\ history = <<mem>>
-----------------------------------------------------------------------------
(* The writer: apply and finish_frame.                                      *)

\* Mutant: the counter is left even while the fields are stored.
BeginQuietly ==
    /\ ~ writer.active /\ Len(history) <= MaxTransitions
    /\ writer' = [writer EXCEPT !.active = TRUE, !.ahead = {}]
    /\ UNCHANGED <<sequence, mem, reader, history>>

\* A relaxed store of the next event that is visible before the increment is: AcqRel
\* keeps later accesses behind the load of the increment, not behind its store.
StoreAhead(f) ==
    /\ "stores" \in Gaps
    /\ ~ writer.active /\ writer.stores > 0 /\ Len(history) <= MaxTransitions
    /\ mem' = [mem EXCEPT ![f] = @ + 1]
    /\ writer' = [writer EXCEPT !.stores = @ - 1, !.ahead = @ \cup {f}]
    /\ UNCHANGED <<sequence, reader, history>>

\* sequence.fetch_add(1, AcqRel)
Begin ==
    /\ ~ writer.active /\ Len(history) <= MaxTransitions
    /\ sequence' = sequence + 1
    /\ writer' = [writer EXCEPT !.active = TRUE, !.ahead = {}]
    /\ UNCHANGED <<mem, reader, history>>

\* One relaxed store or read-modify-write of a field.
Store(f) ==
    /\ writer.active /\ writer.stores > 0
    /\ mem' = [mem EXCEPT ![f] = @ + 1]
    /\ writer' = [writer EXCEPT !.stores = @ - 1]
    /\ UNCHANGED <<sequence, reader, history>>

\* sequence.fetch_add(1, Release)
End ==
    /\ writer.active
    /\ sequence' = sequence + 1
    /\ writer' = Idle
    /\ history' = Append(history, mem)
    /\ UNCHANGED <<mem, reader>>
-----------------------------------------------------------------------------
(* A reader: snapshot.                                                      *)

\* The first load of the counter; an odd value is loaded again.
LoadBefore(r) ==
    /\ reader[r].pc = "begin"
    /\ sequence % 2 = 0
    /\ reader' = [reader EXCEPT ![r].pc = "copy", ![r].before = sequence,
                                ![r].at = Len(history)]
    /\ UNCHANGED <<sequence, mem, writer, history>>

\* A relaxed load of a field, in any order.
LoadField(r, f) ==
    /\ reader[r].pc = "copy" /\ f \notin reader[r].loaded
    /\ reader' = [reader EXCEPT ![r].loaded = @ \cup {f}, ![r].copy[f] = mem[f],
                                ![r].loose = IF reader[r].rechecked \/ f \in writer.ahead
                                             THEN @ \cup {f} ELSE @]
    /\ UNCHANGED <<sequence, mem, writer, history>>

\* The second load of the counter.  Acquire keeps later accesses behind it and says
\* nothing of the field loads before it: it may be performed before any of them, unless
\* the build happens to keep loads in order.
LoadAfter(r) ==
    /\ reader[r].pc = "copy" /\ ~ reader[r].rechecked
    /\ "loads" \in Gaps \/ reader[r].loaded = Fields
    /\ reader' = [reader EXCEPT ![r].rechecked = TRUE,
                                ![r].agrees = sequence = reader[r].before]
    /\ UNCHANGED <<sequence, mem, writer, history>>

\* The snapshot is returned when the two values agree, and taken again otherwise.
Return(r) ==
    /\ reader[r].pc = "copy" /\ reader[r].rechecked /\ reader[r].loaded = Fields
    /\ reader' = [reader EXCEPT ![r] =
                    IF @.agrees THEN [@ EXCEPT !.pc = "done"] ELSE NewReader]
    /\ UNCHANGED <<sequence, mem, writer, history>>

\* The next call of snapshot.
Again(r) ==
    /\ reader[r].pc = "done"
    /\ reader' = [reader EXCEPT ![r] = NewReader]
    /\ UNCHANGED <<sequence, mem, writer, history>>

Next ==
    \/ Begin
    \/ \E f \in Fields : StoreAhead(f) \/ Store(f)
    \/ End
    \/ \E r \in Readers :
           \/ LoadBefore(r)
           \/ \E f \in Fields : LoadField(r, f)
           \/ LoadAfter(r)
           \/ Return(r)
           \/ Again(r)

Spec == Init /\ [][Next]_vars
-----------------------------------------------------------------------------
(* Properties *)

ReaderType ==
    [pc : {"begin", "copy", "done"}, before : Nat, at : Nat, loaded : SUBSET Fields,
     loose : SUBSET Fields, copy : [Fields -> Nat], rechecked : BOOLEAN, agrees : BOOLEAN]

\* Every variable keeps its type.
TypeOK ==
    /\ sequence \in Nat
    /\ mem \in [Fields -> Nat]
    /\ writer \in [active : BOOLEAN, stores : Nat, ahead : SUBSET Fields]
    /\ reader \in [Readers -> ReaderType]
    /\ history \in Seq([Fields -> Nat])

\* What the counter of the keyboard and pointer state guarantees whatever the build does
\* with the relaxed accesses: a snapshot that is returned mixes transitions in nothing but
\* the fields whose access passed the counter.  Every other field is what the transition
\* its counter value stands for left behind, and no field is older than that.
OnlyLooseFieldsMix ==
    \A r \in Readers : reader[r].pc = "done" =>
        \A f \in Fields :
            /\ f \notin reader[r].loose => reader[r].copy[f] = history[reader[r].at][f]
            /\ reader[r].copy[f] >= history[reader[r].at][f]

\* "the combination it returns is one transition, never a mix of two" (snapshot.rs): the
\* fields of a snapshot that is returned are the ones that the transition its counter
\* value stands for left behind, all of them.
SnapshotIsOneTransition ==
    \A r \in Readers : reader[r].pc = "done" => reader[r].copy = history[reader[r].at]
=============================================================================
