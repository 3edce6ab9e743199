--------------------------- MODULE SeqLockProofs ---------------------------
(***************************************************************************)
(* Theorems of SeqLock, for any fields, any number of readers, any number  *)
(* of transitions and stores, and every build: loads and stores may pass   *)
(* the counter wherever the orderings of the code let them.                *)
(***************************************************************************)
EXTENDS SeqLock, TLAPS

\* The counter counts the transitions, and is odd exactly while one is being applied.
Counter ==
    /\ Len(history) >= 1
    /\ writer.active => sequence = 2 * Len(history) - 1
    /\ ~ writer.active => sequence = 2 * Len(history) - 2

\* Between transitions the fields are what the last one left, except for the ones that
\* the next has stored ahead of the counter.
Settled ==
    /\ writer.active => writer.ahead = {}
    /\ ~ writer.active =>
           \A f \in Fields \ writer.ahead : mem[f] = history[Len(history)][f]

\* A field is never older than any finished transition.
Growing == \A i \in 1..Len(history) : \A f \in Fields : history[i][f] <= mem[f]

\* The fields that a reader has loaded, and whose load did not pass the counter, are the
\* ones of the transition it names.
Exact(r) ==
    \A f \in reader[r].loaded \ reader[r].loose : reader[r].copy[f] = history[reader[r].at][f]

\* A reader's first load named a transition, the fields it has copied are not older, and
\* are exact as long as the counter has not moved and once it was seen not to have moved.
Copying(r) ==
    /\ reader[r].pc = "begin" => reader[r].loaded = {} /\ ~ reader[r].rechecked
    /\ reader[r].pc # "begin" =>
           /\ reader[r].at >= 1 /\ reader[r].at <= Len(history)
           /\ reader[r].before = 2 * reader[r].at - 2
           /\ \A f \in reader[r].loaded : history[reader[r].at][f] <= reader[r].copy[f]
    /\ reader[r].pc = "copy" /\ ~ reader[r].rechecked /\ sequence = reader[r].before => Exact(r)
    /\ reader[r].pc = "copy" /\ reader[r].rechecked /\ reader[r].agrees => Exact(r)
    /\ reader[r].pc = "done" => reader[r].loaded = Fields /\ Exact(r)

\* The inductive invariant.
LockInvariant ==
    /\ TypeOK
    /\ Counter
    /\ Settled
    /\ Growing
    /\ \A r \in Readers : Copying(r)

\* The states the program starts in satisfy the invariant.
LEMMA LockInit == Init => LockInvariant
  <1> SUFFICES ASSUME Init PROVE LockInvariant
    OBVIOUS
  <1>1. mem \in [Fields -> Nat] /\ history = <<mem>>
    BY DEF Init
  <1>2. history \in Seq([Fields -> Nat]) /\ Len(history) = 1 /\ history[1] = mem
    BY <1>1
  <1>3. NewReader \in ReaderType
    BY DEF NewReader, ReaderType
  <1>4. TypeOK
    BY <1>1, <1>2, <1>3, SeqLockConstants DEF Init, TypeOK, Idle
  <1>5. Counter /\ Settled
    BY <1>2 DEF Init, Counter, Settled, Idle
  <1>6. Growing
    BY <1>1, <1>2 DEF Growing
  <1>7. \A r \in Readers : Copying(r)
    BY DEF Init, Copying, NewReader
  <1> QED
    BY <1>4, <1>5, <1>6, <1>7 DEF LockInvariant

\* A step that changes neither a reader nor the transition it names, and does not set the
\* counter back to the value it read, leaves its copy as good as it was.
LEMMA CopyStands ==
  ASSUME NEW r \in Readers, LockInvariant, reader' = reader,
         Len(history) <= Len(history'),
         Len(history') \in Nat,
         \A i \in 1..Len(history) : history'[i] = history[i],
         sequence' = sequence \/ (reader[r].pc # "begin" => sequence' # reader[r].before)
  PROVE  Copying(r)'
  <1>1. Copying(r) /\ reader[r] \in ReaderType /\ Len(history) \in Nat
    BY DEF LockInvariant, TypeOK
  <1>2. reader[r].pc # "begin" => reader[r].at \in 1..Len(history)
    BY <1>1 DEF Copying, ReaderType
  <1>3. reader[r].pc # "begin" => history'[reader[r].at] = history[reader[r].at]
    BY <1>2
  <1>4. reader[r].pc # "begin" => (Exact(r)' <=> Exact(r))
    BY <1>3 DEF Exact
  <1>5. reader[r].pc # "begin" => reader[r].at <= Len(history')
    BY <1>1 DEF Copying, ReaderType
  <1> QED
    BY <1>1, <1>3, <1>4, <1>5 DEF Copying, ReaderType

\* The writer's steps leave every reader's copy valid or move the counter away from it.
LEMMA WriterKeeps ==
  ASSUME LockInvariant,
         Begin \/ (\E f \in Fields : StoreAhead(f) \/ Store(f)) \/ End
  PROVE  LockInvariant'
  <1>1. /\ TypeOK /\ Counter /\ Settled /\ Growing
        /\ Len(history) \in Nat /\ mem \in [Fields -> Nat]
    BY DEF LockInvariant, TypeOK
  <1>2. CASE Begin
    <2>1. TypeOK'
      <3>1. writer' \in [active : BOOLEAN, stores : Nat, ahead : SUBSET Fields]
        BY <1>1, <1>2 DEF Begin, TypeOK
      <3>2. sequence' \in Nat /\ UNCHANGED <<mem, reader, history>>
        BY <1>1, <1>2 DEF Begin, TypeOK
      <3> QED
        BY <1>1, <3>1, <3>2 DEF TypeOK
    <2>2. Counter' /\ Settled' /\ Growing'
      BY <1>1, <1>2 DEF Begin, TypeOK, Counter, Settled, Growing
    <2>3. ASSUME NEW r \in Readers PROVE Copying(r)'
      <3>1. UNCHANGED <<reader, history>> /\ sequence' = sequence + 1 /\ ~ writer.active
        BY <1>2 DEF Begin
      <3>2. reader[r].at \in Nat /\ Len(history) \in Nat /\ Copying(r)
        BY DEF LockInvariant, TypeOK, ReaderType
      <3>3. reader[r].pc # "begin" => sequence' # reader[r].before
        BY <1>1, <3>1, <3>2 DEF Counter, Copying
      <3> QED
        BY <1>1, <3>1, <3>3, CopyStands
    <2> QED
      BY <2>1, <2>2, <2>3 DEF LockInvariant
  <1>3. ASSUME NEW f \in Fields, StoreAhead(f) \/ Store(f) PROVE LockInvariant'
    <2>1. /\ mem' = [mem EXCEPT ![f] = mem[f] + 1]
          /\ UNCHANGED <<sequence, reader, history>>
          /\ writer' \in [active : BOOLEAN, stores : Nat, ahead : SUBSET Fields]
          /\ writer'.active = writer.active
          /\ writer'.ahead = IF writer.active THEN writer.ahead ELSE writer.ahead \cup {f}
      <3>1. writer \in [active : BOOLEAN, stores : Nat, ahead : SUBSET Fields]
        BY <1>1 DEF TypeOK
      <3>2. CASE StoreAhead(f)
        <4>1. /\ ~ writer.active /\ writer.stores > 0
              /\ writer' = [writer EXCEPT !.stores = writer.stores - 1,
                                          !.ahead = writer.ahead \cup {f}]
          BY <3>2 DEF StoreAhead
        <4>2. writer.stores - 1 \in Nat /\ writer.ahead \cup {f} \in SUBSET Fields
          BY <3>1, <4>1
        <4>3. mem' = [mem EXCEPT ![f] = mem[f] + 1] /\ UNCHANGED <<sequence, reader, history>>
          BY <3>2 DEF StoreAhead
        <4> QED
          BY <3>1, <4>1, <4>2, <4>3
      <3>3. CASE Store(f)
        <4>1. /\ writer.active /\ writer.stores > 0
              /\ writer' = [writer EXCEPT !.stores = writer.stores - 1]
          BY <3>3 DEF Store
        <4>2. writer.stores - 1 \in Nat
          BY <3>1, <4>1
        <4>3. mem' = [mem EXCEPT ![f] = mem[f] + 1] /\ UNCHANGED <<sequence, reader, history>>
          BY <3>3 DEF Store
        <4> QED
          BY <3>1, <4>1, <4>2, <4>3
      <3> QED
        BY <1>3, <3>2, <3>3
    <2>2. mem' \in [Fields -> Nat] /\ \A g \in Fields : mem[g] <= mem'[g]
      BY <1>1, <2>1
    <2>3. TypeOK'
      BY <1>1, <2>1, <2>2 DEF TypeOK
    <2>4. Counter' /\ Settled'
      BY <1>1, <2>1 DEF TypeOK, Counter, Settled
    <2>5. Growing'
      <3> SUFFICES ASSUME NEW i \in 1..Len(history), NEW g \in Fields
                   PROVE  history[i][g] <= mem'[g]
        BY <2>1 DEF Growing
      <3>1. history[i] \in [Fields -> Nat]
        BY <1>1 DEF TypeOK
      <3>2. history[i][g] \in Nat /\ history[i][g] <= mem[g] /\ mem[g] <= mem'[g]
        BY <1>1, <2>2, <3>1 DEF Growing
      <3> QED
        BY <1>1, <2>2, <3>2
    <2>6. ASSUME NEW r \in Readers PROVE Copying(r)'
      BY <1>1, <2>1, CopyStands
    <2> QED
      BY <2>3, <2>4, <2>5, <2>6 DEF LockInvariant
  <1>4. CASE End
    <2>1. /\ history' \in Seq([Fields -> Nat])
          /\ Len(history') = Len(history) + 1
          /\ history'[Len(history) + 1] = mem
          /\ \A i \in 1..Len(history) : history'[i] = history[i]
      BY <1>1, <1>4 DEF End, TypeOK
    <2>2. TypeOK'
      BY <1>1, <1>4, <2>1, SeqLockConstants DEF End, TypeOK, Idle
    <2>3. sequence' = 2 * Len(history) /\ ~ writer'.active /\ mem' = mem /\ reader' = reader
      BY <1>1, <1>4 DEF End, Counter, Idle
    <2>4. Counter' /\ Settled'
      BY <1>1, <2>1, <2>3 DEF Counter, Settled
    <2>5. Growing'
      <3> SUFFICES ASSUME NEW i \in 1..(Len(history) + 1), NEW g \in Fields
                   PROVE  history'[i][g] <= mem[g]
        BY <2>1, <2>3 DEF Growing
      <3>1. CASE i = Len(history) + 1
        BY <1>1, <2>1, <3>1
      <3>2. CASE i \in 1..Len(history)
        BY <1>1, <2>1, <3>2 DEF Growing
      <3> QED
        BY <1>1, <3>1, <3>2
    <2>6. ASSUME NEW r \in Readers PROVE Copying(r)'
      <3>1. Copying(r) /\ reader[r].at \in Nat
        BY DEF LockInvariant, TypeOK, ReaderType
      <3>2. reader[r].pc # "begin" => sequence' # reader[r].before
        BY <1>1, <2>3, <3>1 DEF Copying
      <3> QED
        BY <1>1, <2>1, <2>3, <3>2, CopyStands
    <2> QED
      BY <2>2, <2>4, <2>5, <2>6 DEF LockInvariant
  <1> QED
    BY <1>2, <1>3, <1>4

\* A reader's steps keep its own copy valid and leave everything else alone.
LEMMA ReaderKeeps ==
  ASSUME LockInvariant, NEW r \in Readers,
         \/ LoadBefore(r) \/ (\E f \in Fields : LoadField(r, f))
         \/ LoadAfter(r) \/ Return(r) \/ Again(r)
  PROVE  LockInvariant'
  <1> USE DEF LockInvariant
  <1> DEFINE Others == \A q \in Readers \ {r} : reader'[q] = reader[q]
  <1>1. UNCHANGED <<sequence, mem, writer, history>>
    BY DEF LoadBefore, LoadField, LoadAfter, Return, Again
  <1>2. ASSUME TypeOK', Others, Copying(r)' PROVE LockInvariant'
    <2>1. Counter' /\ Settled' /\ Growing'
      BY <1>1 DEF Counter, Settled, Growing
    <2>2. ASSUME NEW q \in Readers \ {r} PROVE Copying(q)'
      BY <1>1, <1>2, <2>2 DEF Copying, Exact
    <2> QED
      BY <1>2, <2>1, <2>2
  <1>3. NewReader \in ReaderType
    BY DEF NewReader, ReaderType
  <1>0. reader[r] \in ReaderType /\ reader \in [Readers -> ReaderType] /\ Len(history) \in Nat
    BY DEF TypeOK
  <1>4. CASE LoadBefore(r)
    <2> DEFINE new == [reader[r] EXCEPT !.pc = "copy", !.before = sequence,
                                        !.at = Len(history)]
    <2>1. reader' = [reader EXCEPT ![r] = new]
      BY <1>0, <1>4 DEF LoadBefore
    <2>2. new \in ReaderType
      BY <1>0 DEF TypeOK, ReaderType
    <2>3. TypeOK' /\ Others
      BY <1>1, <2>1, <2>2 DEF TypeOK
    <2>4. ~ writer.active
      BY <1>4 DEF LoadBefore, TypeOK, Counter
    <2>5. reader[r].loaded = {} /\ ~ reader[r].rechecked
      BY <1>4 DEF LoadBefore, Copying
    <2>6. /\ reader'[r].pc = "copy" /\ reader'[r].before = sequence
          /\ reader'[r].at = Len(history) /\ reader'[r].loaded = {} /\ ~ reader'[r].rechecked
      BY <1>0, <2>1, <2>5 DEF ReaderType
    <2>7. Copying(r)'
      BY <1>0, <1>1, <2>4, <2>6 DEF Counter, Copying, Exact
    <2> QED
      BY <1>2, <2>3, <2>7
  <1>5. ASSUME NEW f \in Fields, LoadField(r, f) PROVE LockInvariant'
    <2> DEFINE late == IF reader[r].rechecked \/ f \in writer.ahead
                       THEN reader[r].loose \cup {f} ELSE reader[r].loose
               new == [reader[r] EXCEPT !.loaded = reader[r].loaded \cup {f},
                                        !.copy = [reader[r].copy EXCEPT ![f] = mem[f]],
                                        !.loose = late]
    <2>1. reader' = [reader EXCEPT ![r] = new]
      BY <1>0, <1>5 DEF LoadField
    <2>2. new \in ReaderType
      <3>1. reader[r].loaded \cup {f} \in SUBSET Fields /\ late \in SUBSET Fields
        BY <1>0 DEF ReaderType
      <3>2. [reader[r].copy EXCEPT ![f] = mem[f]] \in [Fields -> Nat]
        BY <1>0 DEF TypeOK, ReaderType
      <3> QED
        BY <1>0, <3>1, <3>2 DEF ReaderType
    <2>3. TypeOK' /\ Others
      BY <1>1, <2>1, <2>2 DEF TypeOK
    <2>4. /\ reader'[r].loaded = reader[r].loaded \cup {f} /\ reader'[r].loose = late
          /\ reader'[r].copy = [reader[r].copy EXCEPT ![f] = mem[f]]
          /\ reader'[r].pc = reader[r].pc /\ reader'[r].before = reader[r].before
          /\ reader'[r].at = reader[r].at /\ reader'[r].rechecked = reader[r].rechecked
          /\ reader'[r].agrees = reader[r].agrees /\ reader[r].pc = "copy"
          /\ f \notin reader[r].loaded
      <3>1. reader'[r] = new
        BY <1>0, <2>1
      <3>2. reader[r].pc = "copy" /\ f \notin reader[r].loaded
        BY <1>5 DEF LoadField
      <3> QED
        BY <1>0, <3>1, <3>2 DEF ReaderType
    <2>5. /\ reader[r].at \in 1..Len(history) /\ reader[r].before = 2 * reader[r].at - 2
          /\ reader[r].copy \in [Fields -> Nat] /\ reader[r].loaded \subseteq Fields
      BY <1>0, <2>4 DEF Copying, ReaderType
    <2>6. \A g \in reader'[r].loaded : history[reader[r].at][g] <= reader'[r].copy[g]
      <3> SUFFICES ASSUME NEW g \in reader[r].loaded \cup {f}
                   PROVE  history[reader[r].at][g] <= reader'[r].copy[g]
        BY <2>4
      <3>1. CASE g = f
        BY <2>4, <2>5, <3>1 DEF Growing
      <3>2. CASE g # f
        BY <2>4, <2>5, <3>2 DEF Copying
      <3> QED
        BY <3>1, <3>2
    <2>7. ASSUME \/ ~ reader[r].rechecked /\ sequence = reader[r].before
                 \/ reader[r].rechecked /\ reader[r].agrees
          PROVE  Exact(r)'
      <3>1. Exact(r)
        BY <2>4, <2>7 DEF Copying
      <3> SUFFICES ASSUME NEW g \in (reader[r].loaded \cup {f}) \ late
                   PROVE  reader'[r].copy[g] = history[reader[r].at][g]
        BY <1>1, <2>4 DEF Exact
      <3>2. CASE g # f
        BY <2>4, <2>5, <3>1, <3>2 DEF Exact
      <3>3. CASE g = f
        <4>1. ~ reader[r].rechecked /\ f \notin writer.ahead /\ sequence = reader[r].before
          BY <2>7, <3>3
        <4>2. ~ writer.active /\ reader[r].at = Len(history)
          BY <1>0, <2>5, <4>1 DEF Counter
        <4>3. mem[f] = history[reader[r].at][f]
          BY <4>1, <4>2 DEF Settled
        <4> QED
          BY <2>4, <2>5, <3>3, <4>3
      <3> QED
        BY <3>2, <3>3
    <2>8. Copying(r)'
      BY <1>1, <2>4, <2>5, <2>6, <2>7 DEF Copying
    <2> QED
      BY <1>2, <2>3, <2>8
  <1>6. CASE LoadAfter(r)
    <2> DEFINE new == [reader[r] EXCEPT !.rechecked = TRUE,
                                        !.agrees = sequence = reader[r].before]
    <2>1. reader' = [reader EXCEPT ![r] = new]
      BY <1>0, <1>6 DEF LoadAfter
    <2>2. new \in ReaderType
      BY <1>0 DEF ReaderType
    <2>3. TypeOK' /\ Others
      BY <1>1, <2>1, <2>2 DEF TypeOK
    <2>4. /\ reader'[r].pc = "copy" /\ reader'[r].rechecked
          /\ reader'[r].agrees = (sequence = reader[r].before)
          /\ reader'[r].loaded = reader[r].loaded /\ reader'[r].copy = reader[r].copy
          /\ reader'[r].before = reader[r].before /\ reader'[r].at = reader[r].at
          /\ reader'[r].loose = reader[r].loose
          /\ reader[r].pc = "copy" /\ ~ reader[r].rechecked
      BY <1>0, <1>6, <2>1 DEF LoadAfter, ReaderType
    <2>5. Exact(r)' <=> Exact(r)
      BY <1>1, <2>4 DEF Exact
    <2>6. Copying(r)'
      BY <1>1, <2>4, <2>5 DEF Copying
    <2> QED
      BY <1>2, <2>3, <2>6
  <1>7. CASE Return(r)
    <2> DEFINE new == IF reader[r].agrees THEN [reader[r] EXCEPT !.pc = "done"] ELSE NewReader
    <2>1. reader' = [reader EXCEPT ![r] = new]
      BY <1>7 DEF Return
    <2>2. [reader[r] EXCEPT !.pc = "done"] \in ReaderType
      BY <1>0 DEF ReaderType
    <2>3. TypeOK' /\ Others
      BY <1>1, <1>3, <2>1, <2>2 DEF TypeOK
    <2>4. Copying(r)'
      <3>1. CASE reader[r].agrees
        <4>1. /\ reader'[r].pc = "done" /\ reader'[r].loaded = reader[r].loaded
              /\ reader'[r].copy = reader[r].copy /\ reader'[r].loose = reader[r].loose
              /\ reader'[r].before = reader[r].before /\ reader'[r].at = reader[r].at
              /\ reader[r].pc = "copy" /\ reader[r].rechecked /\ reader[r].loaded = Fields
          BY <1>0, <1>7, <2>1, <3>1 DEF Return, ReaderType
        <4>2. Exact(r)
          BY <3>1, <4>1 DEF Copying
        <4>3. Exact(r)'
          BY <1>1, <4>1, <4>2 DEF Exact
        <4> QED
          BY <1>1, <4>1, <4>3 DEF Copying
      <3>2. CASE ~ reader[r].agrees
        <4>1. reader'[r] = NewReader
          BY <1>0, <2>1, <3>2
        <4> QED
          BY <4>1 DEF Copying, NewReader
      <3> QED
        BY <3>1, <3>2
    <2> QED
      BY <1>2, <2>3, <2>4
  <1>8. CASE Again(r)
    <2>1. TypeOK' /\ Others /\ reader'[r] = NewReader
      BY <1>1, <1>3, <1>8 DEF Again, TypeOK
    <2>2. Copying(r)'
      BY <2>1 DEF Copying, NewReader
    <2> QED
      BY <1>2, <2>1, <2>2
  <1> QED
    BY <1>4, <1>5, <1>6, <1>7, <1>8

\* The sequence lock keeps its invariant in every build: nothing is assumed of the order in
\* which field loads and stores are performed beyond what the code's orderings say.
THEOREM LockInvariantHolds == Spec => []LockInvariant
  <1>1. ASSUME LockInvariant, [Next]_vars PROVE LockInvariant'
    <2>1. CASE UNCHANGED vars
      BY <1>1, <2>1 DEF LockInvariant, TypeOK, Counter, Settled, Growing, Copying, Exact, vars
    <2>2. CASE Begin \/ (\E f \in Fields : StoreAhead(f) \/ Store(f)) \/ End
      BY <1>1, <2>2, WriterKeeps
    <2>3. ASSUME NEW r \in Readers,
                 \/ LoadBefore(r) \/ (\E f \in Fields : LoadField(r, f))
                 \/ LoadAfter(r) \/ Return(r) \/ Again(r)
          PROVE  LockInvariant'
      BY <1>1, <2>3, ReaderKeeps
    <2> QED
      BY <1>1, <2>1, <2>2, <2>3 DEF Next
  <1> QED
    BY <1>1, LockInit, PTL DEF Spec

\* What a snapshot of the keyboard or pointer state is worth (snapshot.rs), for every set of
\* fields, number of readers and number of transitions, in every build: none of its fields
\* is older than the transition its counter value names, and only a field whose own load or
\* store passed the counter can be newer.
THEOREM SnapshotsMixOnlyLooseFields == Spec => []OnlyLooseFieldsMix
  <1>1. ASSUME LockInvariant, NEW r \in Readers, reader[r].pc = "done", NEW f \in Fields
        PROVE  /\ f \notin reader[r].loose => reader[r].copy[f] = history[reader[r].at][f]
               /\ reader[r].copy[f] >= history[reader[r].at][f]
    <2>1. /\ reader[r] \in ReaderType /\ history \in Seq([Fields -> Nat]) /\ Copying(r)
          /\ Len(history) \in Nat
      BY <1>1 DEF LockInvariant, TypeOK
    <2>2. /\ reader[r].at \in 1..Len(history) /\ reader[r].loaded = Fields /\ Exact(r)
          /\ history[reader[r].at][f] <= reader[r].copy[f]
      BY <1>1, <2>1 DEF Copying, ReaderType
    <2>3. history[reader[r].at] \in [Fields -> Nat] /\ reader[r].copy \in [Fields -> Nat]
      BY <2>1, <2>2 DEF ReaderType
    <2> QED
      BY <2>2, <2>3 DEF Exact
  <1>2. LockInvariant => OnlyLooseFieldsMix
    BY <1>1 DEF OnlyLooseFieldsMix
  <1> QED
    BY <1>2, LockInvariantHolds, PTL
=============================================================================
