------------------------- MODULE LinuxBackendProofs -------------------------
(***************************************************************************)
(* Proofs about the Linux backend and the keyboard state behind it.        *)
(*                                                                         *)
(* For any number of nodes, of plugs and of faults: what devices() answers *)
(* is what the task reads, and no node is read through two opens.  For any *)
(* queue size, hash and number of slots: a key that missed no transition   *)
(* is in the keyboard state as it is on the keyboards, once no record of   *)
(* it waits, and the native key set finds exactly the codes it stores.     *)
(***************************************************************************)
EXTENDS LinuxBackend, SequenceTheorems, FiniteSetTheorems, WellFoundedInduction, TLAPS

-----------------------------------------------------------------------------
(* Sequences of opens.                                                      *)

\* An open has its four fields and belongs to a node.
OpenFields == {"id", "dead", "shift", "queue"}
IsOpen(o) == DOMAIN o = OpenFields /\ o.id \in Devices

\* A sequence of opens of different nodes.
Distinct(s) ==
    /\ s \in Seq(Range(s))
    /\ \A i \in DOMAIN s : IsOpen(s[i])
    /\ \A i, j \in DOMAIN s : i # j => s[i].id # s[j].id

\* Two sequences with the same ids, position by position.
LEMMA SameIds ==
    ASSUME NEW s, Distinct(s), NEW t, t = [i \in DOMAIN s |-> t[i]],
           \A i \in DOMAIN s : DOMAIN t[i] = OpenFields /\ t[i].id = s[i].id
    PROVE  Distinct(t) /\ Ids(t) = Ids(s) /\ Len(t) = Len(s)
<1>1. Len(s) \in Nat /\ DOMAIN s = 1..Len(s)
  BY DEF Distinct
<1>2. DOMAIN t = DOMAIN s
  OBVIOUS
<1>3. t \in [1..Len(s) -> Range(t)]
  BY <1>1 DEF Range
<1>4. t \in Seq(Range(t))
  BY <1>1, <1>3
<1>5. Len(t) = Len(s)
  BY <1>1, <1>2, <1>4
<1>6. Ids(t) = Ids(s)
  BY <1>2 DEF Ids, Range
<1> QED
  BY <1>2, <1>4, <1>5, <1>6 DEF Distinct, IsOpen

\* adopt: the new opens follow those that are read.
LEMMA JoinedOpens ==
    ASSUME NEW s, Distinct(s), NEW t, Distinct(t), Ids(s) \cap Ids(t) = {}
    PROVE  Distinct(s \o t) /\ Ids(s \o t) = Ids(s) \cup Ids(t)
<1> DEFINE S == Range(s) \cup Range(t)
           m == Len(s)
           n == Len(t)
           u == s \o t
<1>1. s \in Seq(Range(s)) /\ t \in Seq(Range(t))
  BY DEF Distinct
<1>2. s \in Seq(S) /\ t \in Seq(S)
  <2> HIDE DEF S
  <2>1. Range(s) \subseteq S /\ Range(t) \subseteq S
    BY DEF S
  <2> QED
    BY <1>1, <2>1, SeqMonotonic
<1> HIDE DEF S
<1>3. m \in Nat /\ n \in Nat /\ DOMAIN s = 1..m /\ DOMAIN t = 1..n
  BY <1>2
<1>4. u \in Seq(S) /\ Len(u) = m + n /\ DOMAIN u = 1..m + n
  BY <1>2
<1>5. /\ \A i \in 1..m : u[i] = s[i]
      /\ \A i \in 1..n : u[m + i] = t[i]
  BY <1>2
<1>6. \A i \in 1..m + n : i \in 1..m \/ \E j \in 1..n : i = m + j
  <2> SUFFICES ASSUME NEW i \in 1..m + n, i \notin 1..m
               PROVE  i - m \in 1..n /\ i = m + (i - m)
    OBVIOUS
  <2> QED
    BY <1>3
<1>7. \A i \in 1..m : i \in 1..m + n
  BY <1>3
<1>8. \A j \in 1..n : m + j \in 1..m + n /\ \A i \in 1..n : m + i = m + j => i = j
  BY <1>3
<1> HIDE DEF m, n, u
<1>9. \A i \in 1..m + n : (\E k \in 1..m : i = k /\ u[i] = s[k]) \/ (\E j \in 1..n : i = m + j /\ u[i] = t[j])
  BY <1>5, <1>6
<1>10. Ids(s) = {s[i].id : i \in 1..m} /\ Ids(t) = {t[i].id : i \in 1..n}
  BY <1>3 DEF Ids, Range
<1>11. Ids(u) = {u[i].id : i \in 1..m + n}
  BY <1>4 DEF Ids, Range
<1>12. Ids(u) = Ids(s) \cup Ids(t)
  BY <1>5, <1>7, <1>8, <1>9, <1>10, <1>11
<1>13. \A i \in 1..m + n : IsOpen(u[i])
  BY <1>3, <1>9 DEF Distinct
<1>14. ASSUME NEW i \in 1..m + n, NEW j \in 1..m + n, i # j
       PROVE  u[i].id # u[j].id
  <2>1. \A k \in 1..m, l \in 1..n : s[k].id # t[l].id
    BY <1>10
  <2>2. \A k, l \in 1..m : k # l => s[k].id # s[l].id
    BY <1>3 DEF Distinct
  <2>3. \A k, l \in 1..n : k # l => t[k].id # t[l].id
    BY <1>3 DEF Distinct
  <2> QED
    BY <1>9, <1>14, <2>1, <2>2, <2>3
<1>15. u \in Seq(Range(u))
  <2>1. u \in [1..m + n -> Range(u)] /\ m + n \in Nat
    BY <1>3, <1>4 DEF Range
  <2> QED
    BY <2>1
<1> QED
  BY <1>4, <1>12, <1>13, <1>14, <1>15 DEF Distinct, u

\* The nodes a scan opened, each once.
LEMMA ScannedOpens ==
    ASSUME NEW wanted \in SUBSET Devices, NEW order \in SetToAllKPermutations(wanted)
    PROVE  /\ Distinct(NewOpens(order)) /\ Ids(NewOpens(order)) = ToSet(order)
           /\ ToSet(order) \subseteq wanted
<1>1. PICK S \in SUBSET wanted : order \in SetToSeqs(S)
  BY DEF SetToAllKPermutations
<1> DEFINE n == Cardinality(S)
           u == NewOpens(order)
<1>2. n \in Nat
  BY LinuxConstants, FS_Subset, FS_CardinalityType
<1> HIDE DEF n
<1>3. order \in [1..n -> S] /\ \A i, j \in 1..n : i # j => order[i] # order[j]
  BY <1>1 DEF SetToSeqs, n
<1>4. DOMAIN u = 1..n /\ \A i \in 1..n : u[i] = Opened(order[i])
  BY <1>3 DEF NewOpens
<1>5. \A d : DOMAIN Opened(d) = OpenFields /\ Opened(d).id = d
  BY DEF Opened, OpenFields
<1>6. u \in Seq(Range(u))
  <2>1. u = [i \in 1..n |-> u[i]]
    BY <1>3 DEF NewOpens
  <2>2. u \in [1..n -> Range(u)]
    BY <1>4, <2>1 DEF Range
  <2> QED
    BY <1>2, <2>2
<1> HIDE DEF u
<1>7. \A i \in 1..n : IsOpen(u[i]) /\ u[i].id = order[i]
  BY <1>3, <1>4, <1>5 DEF IsOpen
<1>8. Ids(u) = ToSet(order)
  BY <1>3, <1>4, <1>7 DEF Ids, Range, ToSet
<1>9. ToSet(order) \subseteq wanted
  BY <1>3 DEF ToSet
<1> QED
  BY <1>3, <1>4, <1>6, <1>7, <1>8, <1>9 DEF Distinct, u

\* swap_remove: the open at i leaves, and the last one takes its place.
LEMMA RetiredOpens ==
    ASSUME NEW s, Distinct(s), NEW i \in DOMAIN s
    PROVE  LET t == SubSeq([s EXCEPT ![i] = s[Len(s)]], 1, Len(s) - 1)
           IN  /\ Distinct(t) /\ Ids(t) = Ids(s) \ {s[i].id}
               /\ Range(t) \subseteq Range(s) /\ Range(s) \subseteq Range(t) \cup {s[i]}
<1> DEFINE n == Len(s)
           m == n - 1
           e == [s EXCEPT ![i] = s[n]]
           t == SubSeq(e, 1, m)
<1>1. s \in Seq(Range(s)) /\ n \in Nat /\ DOMAIN s = 1..n /\ i \in 1..n
  BY DEF Distinct
<1>2. m \in Nat /\ n \in 1..n /\ n = m + 1
  BY <1>1
<1>3. e \in Seq(Range(s)) /\ Len(e) = n
  <2>1. \A k \in 1..n : s[k] \in Range(s)
    BY <1>1 DEF Range
  <2>2. e \in [1..n -> Range(s)]
    BY <1>1, <1>2, <2>1
  <2> QED
    BY <1>1, <2>2
<1>4. \A k \in 1..m : k \in 1..n /\ k # n /\ e[k] = IF k = i THEN s[n] ELSE s[k]
  BY <1>1, <1>2
<1> HIDE DEF n, m, e
<1>5. t \in Seq(Range(s)) /\ Len(t) = m /\ DOMAIN t = 1..m /\ \A k \in 1..m : t[k] = e[k]
  <2>1. m <= Len(e) /\ 1 \in Int /\ m \in Int
    BY <1>1, <1>2, <1>3
  <2> QED
    BY <1>2, <1>3, <2>1
<1> HIDE DEF t
<1>6. \A k \in 1..n : k = n \/ k \in 1..m
  BY <1>1, <1>2
<1>7. t \in Seq(Range(t))
  <2>1. t \in [1..m -> Range(t)]
    BY <1>5 DEF Range
  <2> QED
    BY <1>2, <2>1
<1>8. \A k \in 1..m : \E l \in 1..n : t[k] = s[l] /\ l # i /\ l = IF k = i THEN n ELSE k
  <2> SUFFICES ASSUME NEW k \in 1..m
               PROVE  \E l \in 1..n : t[k] = s[l] /\ l # i /\ l = IF k = i THEN n ELSE k
    OBVIOUS
  <2>1. CASE k = i
    BY <1>2, <1>4, <1>5, <2>1
  <2>2. CASE k # i
    BY <1>4, <1>5, <2>2
  <2> QED
    BY <2>1, <2>2
<1>9. \A k, l \in 1..n : k # l => s[k].id # s[l].id
  BY <1>1 DEF Distinct
<1>10. \A k, l \in 1..m : k # l => t[k].id # t[l].id
  <2> SUFFICES ASSUME NEW k \in 1..m, NEW l \in 1..m, k # l
               PROVE  t[k].id # t[l].id
    OBVIOUS
  <2>1. k \in 1..n /\ k # n /\ l \in 1..n /\ l # n
    BY <1>4
  <2> QED
    BY <1>8, <1>9, <2>1
<1>11. \A k \in 1..m : IsOpen(t[k])
  BY <1>1, <1>8 DEF Distinct
<1>12. Ids(s) = {s[k].id : k \in 1..n} /\ Ids(t) = {t[k].id : k \in 1..m}
  BY <1>1, <1>5 DEF Ids, Range
<1>13. \A l \in 1..n : l # i => \E k \in 1..m : t[k] = s[l]
  <2> SUFFICES ASSUME NEW l \in 1..n, l # i
               PROVE  \E k \in 1..m : t[k] = s[l]
    OBVIOUS
  <2>1. CASE l = n
    <3>1. i \in 1..m
      BY <1>1, <1>6, <2>1
    <3> QED
      BY <1>4, <1>5, <2>1, <3>1
  <2>2. CASE l # n
    <3>1. l \in 1..m
      BY <1>6, <2>2
    <3> QED
      BY <1>4, <1>5, <3>1
  <2> QED
    BY <2>1, <2>2
<1>14. Ids(t) = Ids(s) \ {s[i].id}
  <2>1. ASSUME NEW x \in Ids(t) PROVE x \in Ids(s) \ {s[i].id}
    BY <1>1, <1>8, <1>9, <1>12
  <2>2. ASSUME NEW x \in Ids(s) \ {s[i].id} PROVE x \in Ids(t)
    BY <1>1, <1>12, <1>13
  <2> QED
    BY <2>1, <2>2
<1>15. Range(s) = {s[k] : k \in 1..n} /\ Range(t) = {t[k] : k \in 1..m}
  BY <1>1, <1>5 DEF Range
<1>16. Range(t) \subseteq Range(s) /\ Range(s) \subseteq Range(t) \cup {s[i]}
  BY <1>8, <1>13, <1>15
<1>17. Distinct(t)
  BY <1>5, <1>7, <1>10, <1>11 DEF Distinct
<1> QED
  BY <1>14, <1>16, <1>17 DEF t, e, m, n

\* No opens at all.
LEMMA NoOpens == Distinct(<<>>) /\ Ids(<<>>) = {}
<1>1. <<>> \in Seq(Range(<<>>)) /\ DOMAIN <<>> = {}
  OBVIOUS
<1> QED
  BY <1>1 DEF Distinct, Ids, Range

\* The kernel's steps change no id.
LEMMA KernelOpens ==
    ASSUME NEW s, Distinct(s), NEW d, NEW record
    PROVE  /\ Distinct(Killed(s, d)) /\ Ids(Killed(s, d)) = Ids(s)
           /\ Distinct(Enqueued(s, d, record)) /\ Ids(Enqueued(s, d, record)) = Ids(s)
           /\ s = <<>> => Killed(s, d) = <<>> /\ Enqueued(s, d, record) = <<>>
<1>0. \A t : Distinct(t) => t \in Seq(Range(t)) /\ (Len(t) = 0 <=> t = <<>>)
  BY EmptySeq DEF Distinct
<1>1. \A i \in DOMAIN s : DOMAIN s[i] = OpenFields
  BY DEF Distinct, IsOpen
<1>2. /\ Distinct(Killed(s, d)) /\ Ids(Killed(s, d)) = Ids(s)
      /\ s = <<>> => Killed(s, d) = <<>>
  <2> DEFINE t == Killed(s, d)
  <2>1. \A i \in DOMAIN s : DOMAIN t[i] = OpenFields /\ t[i].id = s[i].id
    BY <1>1 DEF Killed, OpenFields
  <2>2. t = [i \in DOMAIN s |-> t[i]]
    BY DEF Killed
  <2> HIDE DEF t
  <2>3. Distinct(t) /\ Ids(t) = Ids(s) /\ Len(t) = Len(s)
    BY <2>1, <2>2, SameIds
  <2> QED
    BY <1>0, <2>3 DEF t
<1>3. /\ Distinct(Enqueued(s, d, record)) /\ Ids(Enqueued(s, d, record)) = Ids(s)
      /\ s = <<>> => Enqueued(s, d, record) = <<>>
  <2> DEFINE t == Enqueued(s, d, record)
  <2>1. \A i \in DOMAIN s : DOMAIN t[i] = OpenFields /\ t[i].id = s[i].id
    BY <1>1 DEF Enqueued, OpenFields
  <2>2. t = [i \in DOMAIN s |-> t[i]]
    BY DEF Enqueued
  <2> HIDE DEF t
  <2>3. Distinct(t) /\ Ids(t) = Ids(s) /\ Len(t) = Len(s)
    BY <2>1, <2>2, SameIds
  <2> QED
    BY <1>0, <2>3 DEF t
<1> QED
  BY <1>2, <1>3

-----------------------------------------------------------------------------
(* The invariant of the class task.                                         *)

\* The opens that are read and those that wait to be adopted are of different nodes, the
\* snapshot has the ids of the former, and nothing is open before the class is registered.
Readers ==
    /\ Distinct(devices) /\ Distinct(inbox) /\ Ids(devices) \cap Ids(inbox) = {}
    /\ published = Ids(devices)
    /\ ~session => inbox = <<>> /\ pc = "app"
    /\ index \in Nat \ {0}

\* Every step of the kernel, the backend and the class task keeps it.
LEMMA ReadersStep ==
    ASSUME Readers, [Next]_vars
    PROVE  Readers'
<1>0. Plugged \subseteq Devices
  BY DEF Plugged
<1>1. CASE UNCHANGED vars
  BY <1>1 DEF vars, Readers
<1>2. ASSUME NEW d \in Devices, Plug(d)
      PROVE  Readers'
  BY <1>2 DEF Plug, Readers
<1>3. ASSUME NEW d \in Devices, Unplug(d)
      PROVE  Readers'
  <2>1. /\ devices' = Killed(devices, d) /\ inbox' = Killed(inbox, d)
        /\ UNCHANGED <<session, pc, index, published>>
    BY <1>3 DEF Unplug
  <2>2. /\ Distinct(devices') /\ Ids(devices') = Ids(devices)
        /\ Distinct(inbox') /\ Ids(inbox') = Ids(inbox) /\ (inbox = <<>> => inbox' = <<>>)
    BY <2>1, KernelOpens DEF Readers
  <2> QED
    BY <2>1, <2>2 DEF Readers
<1>4. ASSUME NEW d \in Devices, NEW code \in Codes, NEW state \in {"press", "release"},
             Key(d, code, state)
      PROVE  Readers'
  <2> DEFINE r == Record(code, state)
  <2>1. /\ devices' = Enqueued(devices, d, r) /\ inbox' = Enqueued(inbox, d, r)
        /\ UNCHANGED <<session, pc, index, published>>
    BY <1>4 DEF Key
  <2>2. /\ Distinct(devices') /\ Ids(devices') = Ids(devices)
        /\ Distinct(inbox') /\ Ids(inbox') = Ids(inbox) /\ (inbox = <<>> => inbox' = <<>>)
    BY <2>1, KernelOpens DEF Readers
  <2> QED
    BY <2>1, <2>2 DEF Readers
<1>5. ASSUME NEW order, Start(order)
      PROVE  Readers'
  <2>1. /\ order \in SetToAllKPermutations(Plugged) /\ ~session /\ session'
        /\ devices' = NewOpens(order) /\ published' = ToSet(order)
        /\ UNCHANGED <<pc, inbox, index>>
    BY <1>5 DEF Start
  <2>2. Distinct(devices') /\ Ids(devices') = ToSet(order)
    BY <1>0, <2>1, ScannedOpens
  <2>3. inbox = <<>> /\ Ids(inbox) = {}
    BY <2>1, NoOpens DEF Readers
  <2> QED
    BY <2>1, <2>2, <2>3 DEF Readers
<1>6. CASE Stop
  BY <1>6, NoOpens DEF Stop, Readers
<1>7. CASE TimedOut \/ Returned
  BY <1>7 DEF TimedOut, Returned, Readers
<1>8. ASSUME NEW order, Rescan(order)
      PROVE  Readers'
  <2>1. /\ order \in SetToAllKPermutations(Plugged \ Known) /\ pc = "rescan"
        /\ inbox' = inbox \o NewOpens(order) /\ pc' = "adopt"
        /\ UNCHANGED <<session, devices, index, published>>
    BY <1>8 DEF Rescan, Scan
  <2>2. Plugged \ Known \in SUBSET Devices
    BY <1>0
  <2>3. /\ Distinct(NewOpens(order)) /\ Ids(NewOpens(order)) = ToSet(order)
        /\ ToSet(order) \subseteq Plugged \ Known
    BY <2>1, <2>2, ScannedOpens
  <2>4. Ids(inbox) \cap Ids(NewOpens(order)) = {} /\ Ids(devices) \cap Ids(NewOpens(order)) = {}
    BY <2>3 DEF Known, Readers
  <2>5. Distinct(inbox') /\ Ids(inbox') = Ids(inbox) \cup Ids(NewOpens(order))
    BY <2>1, <2>3, <2>4, JoinedOpens DEF Readers
  <2> QED
    BY <2>1, <2>4, <2>5 DEF Readers
<1>9. CASE Adopt
  <2>1. /\ devices' = devices \o inbox /\ inbox' = <<>> /\ published' = published \cup Ids(inbox)
        /\ index' = 1 /\ session' = session /\ pc = "adopt"
    BY <1>9 DEF Adopt, Opens
  <2>2. Distinct(devices') /\ Ids(devices') = Ids(devices) \cup Ids(inbox)
    BY <2>1, JoinedOpens DEF Readers
  <2> QED
    BY <2>1, <2>2, NoOpens DEF Readers
<1>10. ASSUME NEW lost, ReadBatch(lost)
       PROVE  Readers'
  <2>0. PICK sh : /\ UNCHANGED <<session, pc, inbox, index, published>>
                  /\ devices' = [devices EXCEPT ![index].queue = <<>>, ![index].shift = sh]
    BY <1>10 DEF ReadBatch
  <2> DEFINE o == [devices[index] EXCEPT !.queue = <<>>, !.shift = sh]
  <2>1. devices' = [devices EXCEPT ![index] = o]
    BY <2>0
  <2>2. \A i \in DOMAIN devices : DOMAIN devices[i] = OpenFields
    BY DEF Readers, Distinct, IsOpen
  <2>3. /\ devices' = [i \in DOMAIN devices |-> devices'[i]]
        /\ \A i \in DOMAIN devices :
             DOMAIN devices'[i] = OpenFields /\ devices'[i].id = devices[i].id
    <3>1. DOMAIN o = DOMAIN devices[index]
          /\ ("id" \in DOMAIN devices[index] => o.id = devices[index].id)
      OBVIOUS
    <3> HIDE DEF o
    <3> QED
      BY <2>1, <2>2, <3>1 DEF OpenFields
  <2>4. Distinct(devices') /\ Ids(devices') = Ids(devices)
    BY <2>3, SameIds DEF Readers
  <2> QED
    BY <2>0, <2>4 DEF Readers
<1>11. CASE ReadEnds \/ DrainDone
  <2>1. /\ UNCHANGED <<session, inbox, devices, published>> /\ pc = "drain"
        /\ index' = index + 1 \/ index' = 1
    BY <1>11 DEF ReadEnds, DrainDone
  <2> QED
    BY <2>1 DEF Readers
<1>12. CASE Retire
  <2>1. /\ index <= Len(devices)
        /\ devices' = SubSeq([devices EXCEPT ![index] = devices[Len(devices)]], 1, Len(devices) - 1)
        /\ published' = published \ {devices[index].id}
        /\ UNCHANGED <<session, pc, inbox, index>>
    BY <1>12 DEF Retire, Unpublished
  <2>2. index \in DOMAIN devices
    BY <2>1 DEF Readers, Distinct
  <2>3. Distinct(devices') /\ Ids(devices') = Ids(devices) \ {devices[index].id}
    BY <2>1, <2>2, RetiredOpens DEF Readers
  <2> QED
    BY <2>1, <2>3 DEF Readers
<1> QED
  BY <1>1, <1>2, <1>3, <1>4, <1>5, <1>6, <1>7, <1>8, <1>9, <1>10, <1>11, <1>12
  DEF Next, InPoll

\* The invariant of adopt, drain, rescan, start and stop (task.rs, lib.rs).
THEOREM ReadersAgree == Spec => []Readers
<1>1. Init => Readers
  BY NoOpens DEF Init, Readers
<1>2. Readers /\ [Next]_vars => Readers'
  BY ReadersStep
<1> QED
  BY <1>1, <1>2, PTL DEF Spec

\* devices() answers what the task reads, and no node is read through two opens, for any
\* number of nodes, plugs, registrations and faults.
THEOREM NodesAreReadOnce == Spec => []OneReaderPerDevice
<1>1. Readers => OneReaderPerDevice
  <2> SUFFICES ASSUME Readers PROVE OneReaderPerDevice
    OBVIOUS
  <2>1. Distinct(devices \o inbox)
    BY JoinedOpens DEF Readers
  <2> QED
    BY <2>1 DEF OneReaderPerDevice, Readers, Distinct, Opens
<1> QED
  BY <1>1, ReadersAgree, PTL
-----------------------------------------------------------------------------
(* The native key set, for every hash function and any number of slots.     *)

\* The slots and the hash have their types, and a probe for a stored code meets no empty
\* slot before it.
WellFormed(k) ==
    /\ DOMAIN k = {"start", "pressed", "held", "native"}
    /\ k.start \in [Native -> Indices]
    /\ k.native \in [Indices -> Native \cup {Empty, Tombstone}]
    /\ \A c \in Native, s \in Indices :
         k.native[Probe(k, c, s)] = c => \A t \in 0..s : k.native[Probe(k, c, t)] # Empty

\* Where a code is stored: after a lost release and a press it may be in two slots.
Stored(k, c) == {i \in Indices : k.native[i] = c}
Once(k, c) == \A i, j \in Stored(k, c) : i = j

\* A set of natural numbers that is not empty has a least element.
LEMMA LeastElement ==
    ASSUME NEW S, S \subseteq Nat, S # {}
    PROVE  \E x \in S : \A y \in S : x <= y
<1> DEFINE R == {p \in Nat \X Nat : p[1] < p[2]}
<1>1. IsWellFoundedOn(R, Nat)
  BY NatLessThanWellFounded, Zenon DEF OpToRel
<1> HIDE DEF R
<1>2. PICK x \in S : \A y \in S : <<y, x>> \notin R
  BY <1>1, WFMin, Zenon
<1>3. \A y \in S : y < x => <<y, x>> \in R
  BY DEF R
<1>4. \A y \in S : ~(y < x)
  BY <1>2, <1>3
<1> QED
  BY <1>4

\* The index of a probe wraps once.
LEMMA Wraps ==
    ASSUME NEW n \in Nat, n > 0, NEW x \in Nat, x < n + n
    PROVE  x % n = IF x < n THEN x ELSE x - n
<1> DEFINE q == x \div n
           r == x % n
<1>1. x = n * q + r /\ q \in Int /\ r \in Int /\ 0 <= r /\ r < n
  OBVIOUS
<1> HIDE DEF q, r
<1>2. q > -1
  <2> SUFFICES ASSUME q <= -1 PROVE FALSE
    BY <1>1
  <2>1. n * q <= -n
    BY <1>1
  <2> QED
    BY <1>1, <2>1
<1>3. q < 2
  <2> SUFFICES ASSUME q >= 2 PROVE FALSE
    BY <1>1
  <2>1. n * q >= n + n
    BY <1>1
  <2> QED
    BY <1>1, <2>1
<1>4. CASE q = 0
  <2>1. x = r
    BY <1>1, <1>4
  <2> QED
    BY <1>1, <2>1 DEF r
<1>5. CASE q = 1
  <2>1. x = n + r
    BY <1>1, <1>5
  <2> QED
    BY <1>1, <2>1 DEF r
<1> QED
  BY <1>1, <1>2, <1>3, <1>4, <1>5

\* The steps of a probe visit every slot once.
LEMMA ProbeVisits ==
    ASSUME NEW k, WellFormed(k), NEW c \in Native
    PROVE  /\ \A s \in Indices : Probe(k, c, s) \in Indices
           /\ \A i \in Indices : \E s \in Indices : Probe(k, c, s) = i
           /\ \A s, t \in Indices : Probe(k, c, s) = Probe(k, c, t) => s = t
<1> DEFINE a == k.start[c]
           n == Slots
<1>1. n \in Nat /\ n > 0 /\ a \in 0..n - 1 /\ Indices = 0..n - 1
  BY KeyboardConstants DEF WellFormed, Indices
<1>2. \A s : Probe(k, c, s) = (a + s) % n
  BY DEF Probe
<1> HIDE DEF a, n
<1>3. \A s \in 0..n - 1 : (a + s) % n = IF a + s < n THEN a + s ELSE a + s - n
  BY <1>1, Wraps
<1> DEFINE f(s) == IF a + s < n THEN a + s ELSE a + s - n
<1>4. \A s \in 0..n - 1 : f(s) \in 0..n - 1
  BY <1>1
<1>5. \A s, t \in 0..n - 1 : f(s) = f(t) => s = t
  BY <1>1
<1>6. \A i \in 0..n - 1 : \E s \in 0..n - 1 : f(s) = i
  <2> SUFFICES ASSUME NEW i \in 0..n - 1 PROVE \E s \in 0..n - 1 : f(s) = i
    OBVIOUS
  <2>1. CASE i >= a
    <3>1. i - a \in 0..n - 1 /\ f(i - a) = i
      BY <1>1, <2>1
    <3> QED
      BY <3>1
  <2>2. CASE i < a
    <3>1. i - a + n \in 0..n - 1 /\ f(i - a + n) = i
      BY <1>1, <2>2
    <3> QED
      BY <3>1
  <2> QED
    BY <1>1, <2>1, <2>2
<1>7. \A s \in 0..n - 1 : Probe(k, c, s) = f(s)
  BY <1>2, <1>3
<1> HIDE DEF f
<1>8. \A s \in Indices : Probe(k, c, s) \in Indices
  BY <1>1, <1>4, <1>7
<1>9. \A i \in Indices : \E s \in Indices : Probe(k, c, s) = i
  BY <1>1, <1>6, <1>7
<1>10. \A s, t \in Indices : Probe(k, c, s) = Probe(k, c, t) => s = t
  BY <1>1, <1>5, <1>7
<1> QED
  BY <1>8, <1>9, <1>10

\* The first stop of a probe.
LEMMA FirstStopIsFirst ==
    ASSUME NEW k, NEW c, NEW values, Stops(k, c, values) # {}
    PROVE  /\ FirstStop(k, c, values) \in Indices
           /\ k.native[Probe(k, c, FirstStop(k, c, values))] \in values
           /\ \A t \in Indices : t < FirstStop(k, c, values) =>
                k.native[Probe(k, c, t)] \notin values
<1> DEFINE S == Stops(k, c, values)
           f == FirstStop(k, c, values)
<1>1. Indices \subseteq Nat
  BY KeyboardConstants DEF Indices
<1>2. S \subseteq Nat /\ S # {}
  BY <1>1 DEF Stops
<1>3. f \in S /\ \A t \in S : f <= t
  <2>1. \E s \in S : \A t \in S : s <= t
    <3> HIDE DEF S
    <3> QED
      BY <1>2, LeastElement
  <2> QED
    BY <2>1 DEF FirstStop
<1>4. f \in Nat /\ \A t \in Indices : t < f => t \notin S
  BY <1>1, <1>2, <1>3
<1> HIDE DEF f
<1> QED
  BY <1>3, <1>4 DEF Stops, f

\* native_contains finds a code exactly when some slot holds it.
LEMMA ContainsIsStored ==
    ASSUME NEW k, WellFormed(k), NEW c \in Native
    PROVE  NativeContains(k, c) <=> Stored(k, c) # {}
<1> DEFINE f == FirstStop(k, c, {c, Empty})
<1>1. ASSUME NativeContains(k, c) PROVE Stored(k, c) # {}
  <2>1. f \in Indices /\ k.native[Probe(k, c, f)] = c
    BY <1>1, FirstStopIsFirst DEF NativeContains
  <2>2. Probe(k, c, f) \in Indices
    BY <2>1, ProbeVisits
  <2> QED
    BY <2>1, <2>2 DEF Stored
<1>2. ASSUME NEW i \in Stored(k, c) PROVE NativeContains(k, c)
  <2>1. PICK s \in Indices : Probe(k, c, s) = i
    BY ProbeVisits DEF Stored
  <2>2. k.native[Probe(k, c, s)] = c
    BY <2>1 DEF Stored
  <2>3. s \in Stops(k, c, {c, Empty})
    BY <2>2 DEF Stops
  <2>4. /\ f \in Indices /\ k.native[Probe(k, c, f)] \in {c, Empty}
        /\ ~(s < f)
    BY <2>2, <2>3, FirstStopIsFirst
  <2> HIDE DEF f
  <2>5. f \in 0..s
    BY <2>4, KeyboardConstants DEF Indices
  <2>6. k.native[Probe(k, c, f)] # Empty
    BY <2>2, <2>5 DEF WellFormed
  <2> QED
    BY <2>3, <2>4, <2>6 DEF NativeContains, f
<1> QED
  BY <1>1, <1>2

\* Writing one slot: what the slot held before is not a native code other than c, and the
\* code c is written only where a probe for it finds no empty slot on its way.
LEMMA SlotWritten ==
    ASSUME NEW k, WellFormed(k), NEW p \in Indices, NEW c \in Native,
           NEW v \in {c, Tombstone}, k.native[p] \in {c, Empty, Tombstone},
           v = c => \E f \in Indices :
                      /\ Probe(k, c, f) = p
                      /\ \A t \in Indices : t < f => k.native[Probe(k, c, t)] # Empty,
           NEW l, l = [k EXCEPT !.native[p] = v]
    PROVE  /\ WellFormed(l)
           /\ l.start = k.start /\ l.pressed = k.pressed /\ l.held = k.held
           /\ Stored(l, c) = IF v = c THEN Stored(k, c) \cup {p} ELSE Stored(k, c) \ {p}
           /\ \A x \in Native \ {c} : Stored(l, x) = Stored(k, x)
<1> DEFINE nat == [k.native EXCEPT ![p] = v]
<1>0. /\ Empty \notin Native /\ Tombstone \notin Native /\ Empty # Tombstone /\ Indices \subseteq Nat
      /\ k.native \in [Indices -> Native \cup {Empty, Tombstone}]
  BY KeyboardConstants DEF WellFormed, Indices
<1>1. /\ nat \in [Indices -> Native \cup {Empty, Tombstone}]
      /\ \A i \in Indices : nat[i] = IF i = p THEN v ELSE k.native[i]
  BY <1>0
<1>2. /\ DOMAIN l = {"start", "pressed", "held", "native"}
      /\ l.start = k.start /\ l.pressed = k.pressed /\ l.held = k.held /\ l.native = nat
  BY DEF WellFormed
<1> HIDE DEF nat
<1>3. \A x, s : Probe(l, x, s) = Probe(k, x, s)
  BY <1>2 DEF Probe
<1>4. \A i \in Indices : k.native[i] # Empty => nat[i] # Empty
  BY <1>0, <1>1
<1>5. ASSUME NEW x \in Native, NEW s \in Indices, nat[Probe(k, x, s)] = x, NEW t \in 0..s
      PROVE  nat[Probe(k, x, t)] # Empty
  <2>1. t \in Indices /\ t <= s
    BY KeyboardConstants DEF Indices
  <2>2. Probe(k, x, s) \in Indices /\ Probe(k, x, t) \in Indices
    BY <2>1, ProbeVisits
  <2>3. CASE k.native[Probe(k, x, s)] = x
    <3>1. k.native[Probe(k, x, t)] # Empty
      BY <2>3 DEF WellFormed
    <3> QED
      BY <1>4, <2>2, <3>1
  <2>4. CASE k.native[Probe(k, x, s)] # x
    <3>1. Probe(k, x, s) = p /\ v = x /\ x = c
      BY <1>0, <1>1, <1>5, <2>2, <2>4
    <3>2. PICK f \in Indices : /\ Probe(k, c, f) = p
                               /\ \A u \in Indices : u < f => k.native[Probe(k, c, u)] # Empty
      BY <3>1
    <3>3. f = s
      BY <3>1, <3>2, ProbeVisits
    <3>4. CASE t = s
      BY <1>0, <1>1, <2>2, <3>1, <3>4
    <3>5. CASE t # s
      <4>1. t < f
        BY <1>0, <2>1, <3>3, <3>5
      <4>2. k.native[Probe(k, c, t)] # Empty
        BY <2>1, <3>2, <4>1
      <4> QED
        BY <1>4, <2>2, <3>1, <4>2
    <3> QED
      BY <3>4, <3>5
  <2> QED
    BY <2>3, <2>4
<1>6. WellFormed(l)
  <2>1. l.start \in [Native -> Indices]
    BY <1>2 DEF WellFormed
  <2>2. \A x \in Native, s \in Indices :
          l.native[Probe(l, x, s)] = x => \A t \in 0..s : l.native[Probe(l, x, t)] # Empty
    BY <1>2, <1>3, <1>5
  <2>3. l.native \in [Indices -> Native \cup {Empty, Tombstone}]
    BY <1>1, <1>2
  <2> QED
    BY <1>2, <2>1, <2>2, <2>3, Zenon DEF WellFormed
<1>7. Stored(l, c) = IF v = c THEN Stored(k, c) \cup {p} ELSE Stored(k, c) \ {p}
  BY <1>0, <1>1, <1>2 DEF Stored
<1>8. \A x \in Native \ {c} : Stored(l, x) = Stored(k, x)
  <2> SUFFICES ASSUME NEW x \in Native \ {c}
               PROVE  \A i \in Indices : nat[i] = x <=> k.native[i] = x
    BY <1>2 DEF Stored
  <2> QED
    BY <1>0, <1>1
<1> QED
  BY <1>2, <1>6, <1>7, <1>8

\* What native_insert does when there is a slot, and native_remove.
LEMMA Inserted ==
    ASSUME NEW k, WellFormed(k), NEW c \in Native
    PROVE  LET l == NativeInsert(k, c)
           IN  /\ WellFormed(l)
               /\ l.start = k.start /\ l.pressed = k.pressed /\ l.held = k.held
               /\ \A x \in Native \ {c} : Stored(l, x) = Stored(k, x)
               /\ HasSlot(k, c) => /\ Stored(l, c) # {}
                                   /\ Stored(k, c) = {} => Once(l, c)
               /\ ~HasSlot(k, c) => l = k
<1>1. CASE ~HasSlot(k, c)
  BY <1>1 DEF NativeInsert
<1>2. CASE HasSlot(k, c)
  <2> DEFINE f == FirstStop(k, c, {c, Empty, Tombstone})
             p == Probe(k, c, f)
             l == NativeInsert(k, c)
  <2>1. /\ f \in Indices /\ k.native[p] \in {c, Empty, Tombstone}
        /\ \A t \in Indices : t < f => k.native[Probe(k, c, t)] \notin {c, Empty, Tombstone}
    BY <1>2, FirstStopIsFirst DEF HasSlot
  <2>2. p \in Indices
    BY <2>1, ProbeVisits
  <2>3. l = [k EXCEPT !.native[p] = c]
    BY <1>2 DEF NativeInsert
  <2>4. \E g \in Indices : /\ Probe(k, c, g) = p
                           /\ \A t \in Indices : t < g => k.native[Probe(k, c, t)] # Empty
    <3>1. \A t \in Indices : t < f => k.native[Probe(k, c, t)] # Empty
      BY <2>1
    <3> QED
      BY <2>1, <3>1
  <2> HIDE DEF f, p, l
  <2>5. /\ WellFormed(l) /\ l.start = k.start /\ l.pressed = k.pressed /\ l.held = k.held
        /\ Stored(l, c) = Stored(k, c) \cup {p}
        /\ \A x \in Native \ {c} : Stored(l, x) = Stored(k, x)
    BY <2>1, <2>2, <2>3, <2>4, SlotWritten
  <2> QED
    BY <1>2, <2>5 DEF Once, l
<1> QED
  BY <1>1, <1>2

\* native_remove takes away one of the slots that hold the code.
LEMMA Removed ==
    ASSUME NEW k, WellFormed(k), NEW c \in Native
    PROVE  LET l == NativeRemove(k, c)
           IN  /\ WellFormed(l)
               /\ l.start = k.start /\ l.pressed = k.pressed /\ l.held = k.held
               /\ \A x \in Native \ {c} : Stored(l, x) = Stored(k, x)
               /\ Once(k, c) => Stored(l, c) = {}
<1>1. CASE ~NativeContains(k, c)
  BY <1>1, ContainsIsStored DEF NativeRemove
<1>2. CASE NativeContains(k, c)
  <2> DEFINE f == FirstStop(k, c, {c, Empty})
             p == Probe(k, c, f)
             l == NativeRemove(k, c)
  <2>1. f \in Indices /\ k.native[p] = c
    BY <1>2, FirstStopIsFirst DEF NativeContains
  <2>2. p \in Indices /\ p \in Stored(k, c)
    BY <2>1, ProbeVisits DEF Stored
  <2>3. l = [k EXCEPT !.native[p] = Tombstone]
    BY <1>2 DEF NativeRemove
  <2> HIDE DEF f, p, l
  <2>4. Tombstone # c
    BY KeyboardConstants
  <2>5. /\ WellFormed(l) /\ l.start = k.start /\ l.pressed = k.pressed /\ l.held = k.held
        /\ Stored(l, c) = Stored(k, c) \ {p}
        /\ \A x \in Native \ {c} : Stored(l, x) = Stored(k, x)
    BY <2>1, <2>2, <2>3, <2>4, SlotWritten
  <2> QED
    BY <2>2, <2>5 DEF Once, l
<1> QED
  BY <1>1, <1>2

-----------------------------------------------------------------------------
(* What an event makes of the keyboard state.                               *)

\* is_pressed, by what the state holds.
LEMMA PressedIsStored ==
    ASSUME NEW k, WellFormed(k), NEW c \in Codes
    PROVE  IsPressed(k, c) <=> IF c \in Native THEN Stored(k, c) # {} ELSE c \in k.pressed
BY ContainsIsStored DEF IsPressed

\* A state with the same native set.
LEMMA SameNative ==
    ASSUME NEW k, WellFormed(k), NEW l, DOMAIN l = DOMAIN k, l.native = k.native, l.start = k.start
    PROVE  WellFormed(l) /\ \A x : Stored(l, x) = Stored(k, x)
<1>1. \A x, s : Probe(l, x, s) = Probe(k, x, s)
  BY DEF Probe
<1>2. \A x : Stored(l, x) = Stored(k, x)
  BY DEF Stored
<1> QED
  BY <1>1, <1>2 DEF WellFormed

\* mark_pressed: the code is set or cleared, and no other code changes.
LEMMA Marked ==
    ASSUME NEW k, WellFormed(k), NEW c \in Codes, NEW pressed \in BOOLEAN,
           NEW m, m = MarkPressed(k, c, pressed)
    PROVE  /\ WellFormed(m) /\ m.held = k.held
           /\ \A x \in Codes \ {c} : IsPressed(m, x) <=> IsPressed(k, x)
           /\ \A x \in Native \ {c} : Once(k, x) => Once(m, x)
           /\ c \in Normalized => (IsPressed(m, c) <=> pressed)
           /\ c \in Native /\ pressed /\ HasSlot(k, c) =>
                IsPressed(m, c) /\ (~IsPressed(k, c) => Once(m, c))
           /\ c \in Native /\ ~pressed /\ Once(k, c) => ~IsPressed(m, c) /\ Once(m, c)
<1>0. Normalized \cap Native = {}
  BY KeyboardConstants
<1>1. CASE c \in Normalized
  <2>0. c \notin Native
    BY <1>0, <1>1
  <2>1. m = [k EXCEPT !.pressed = IF pressed THEN @ \cup {c} ELSE @ \ {c}]
    BY <1>1, <2>0 DEF MarkPressed
  <2>2. /\ DOMAIN m = DOMAIN k /\ m.native = k.native /\ m.start = k.start /\ m.held = k.held
        /\ m.pressed = IF pressed THEN k.pressed \cup {c} ELSE k.pressed \ {c}
    BY <2>1 DEF WellFormed
  <2>3. WellFormed(m) /\ \A x : Stored(m, x) = Stored(k, x)
    BY <2>2, SameNative
  <2>4. \A x \in Codes : x # c => (x \in m.pressed <=> x \in k.pressed)
    BY <2>2
  <2>5. c \in m.pressed <=> pressed
    BY <2>2
  <2>6. \A x \in Codes \ {c} : IsPressed(m, x) <=> IsPressed(k, x)
    BY <2>3, <2>4, PressedIsStored
  <2>7. IsPressed(m, c) <=> pressed
    BY <2>0, <2>3, <2>5, PressedIsStored
  <2> QED
    BY <2>0, <2>2, <2>3, <2>6, <2>7 DEF Once
<1>2. CASE c \in Native
  <2>0. c \notin Normalized
    BY <1>0, <1>2
  <2>1. m = IF pressed THEN NativeInsert(k, c) ELSE NativeRemove(k, c)
    BY <1>2, <2>0 DEF MarkPressed
  <2>2. /\ WellFormed(m) /\ m.held = k.held /\ m.pressed = k.pressed
        /\ \A x \in Native \ {c} : Stored(m, x) = Stored(k, x)
        /\ pressed /\ HasSlot(k, c) => Stored(m, c) # {} /\ (Stored(k, c) = {} => Once(m, c))
        /\ ~pressed /\ Once(k, c) => Stored(m, c) = {}
    BY <1>2, <2>1, Inserted, Removed
  <2>3. \A x \in Codes \ {c} : IsPressed(m, x) <=> IsPressed(k, x)
    BY <2>2, PressedIsStored
  <2>4. \A x \in Native \ {c} : Once(k, x) => Once(m, x)
    BY <2>2 DEF Once
  <2>5. Stored(m, c) = {} => Once(m, c)
    BY DEF Once
  <2>6. (IsPressed(m, c) <=> Stored(m, c) # {}) /\ (IsPressed(k, c) <=> Stored(k, c) # {})
    BY <1>2, <2>2, PressedIsStored
  <2> QED
    BY <2>0, <2>2, <2>3, <2>4, <2>5, <2>6
<1> QED
  BY <1>1, <1>2 DEF Codes

\* apply: what it does to the keys, and to the shift flag.
LEMMA AppliedEvent ==
    ASSUME NEW k, WellFormed(k), NEW c \in Codes, NEW state \in {"press", "release"}, NEW shift,
           NEW l, l = Applied(k, c, state, shift)
    PROVE  /\ WellFormed(l)
           /\ \A x \in Codes \ {c} : IsPressed(l, x) <=> IsPressed(k, x)
           /\ \A x \in Native \ {c} : Once(k, x) => Once(l, x)
           /\ c \in Normalized => (IsPressed(l, c) <=> state = "press")
           /\ c \in Native /\ state = "press" /\ HasSlot(k, c) =>
                IsPressed(l, c) /\ (~IsPressed(k, c) => Once(l, c))
           /\ c \in Native /\ state = "release" /\ Once(k, c) => ~IsPressed(l, c) /\ Once(l, c)
           /\ state = "press" => (l.held <=> k.held \/ c \in Shifts \/ shift)
           /\ state = "release" /\ c \in Shifts => (l.held <=> l.pressed \cap Shifts # {})
           /\ state = "release" /\ c \notin Shifts => l.held = k.held
<1> DEFINE m == MarkPressed(k, c, state = "press")
<1>1. /\ WellFormed(m) /\ m.held = k.held
      /\ \A x \in Codes \ {c} : IsPressed(m, x) <=> IsPressed(k, x)
      /\ \A x \in Native \ {c} : Once(k, x) => Once(m, x)
      /\ c \in Normalized => (IsPressed(m, c) <=> state = "press")
      /\ c \in Native /\ state = "press" /\ HasSlot(k, c) =>
           IsPressed(m, c) /\ (~IsPressed(k, c) => Once(m, c))
      /\ c \in Native /\ state # "press" /\ Once(k, c) => ~IsPressed(m, c) /\ Once(m, c)
  <2> DEFINE pressed == state = "press"
             n == m
  <2>1. pressed \in BOOLEAN /\ n = MarkPressed(k, c, pressed)
    OBVIOUS
  <2> HIDE DEF pressed, n
  <2>2. /\ WellFormed(n) /\ n.held = k.held
        /\ \A x \in Codes \ {c} : IsPressed(n, x) <=> IsPressed(k, x)
        /\ \A x \in Native \ {c} : Once(k, x) => Once(n, x)
        /\ c \in Normalized => (IsPressed(n, c) <=> pressed)
        /\ c \in Native /\ pressed /\ HasSlot(k, c) =>
             IsPressed(n, c) /\ (~IsPressed(k, c) => Once(n, c))
        /\ c \in Native /\ ~pressed /\ Once(k, c) => ~IsPressed(n, c) /\ Once(n, c)
    BY <2>1, Marked
  <2> QED
    BY <2>2 DEF pressed, n
<1>2. /\ state = "press" => l = [m EXCEPT !.held = @ \/ c \in Shifts \/ shift]
      /\ state = "release" =>
           l = IF c \in Shifts THEN [m EXCEPT !.held = m.pressed \cap Shifts # {}] ELSE m
  <2>1. CASE state = "press"
    <3>1. m = MarkPressed(k, c, TRUE)
      BY <2>1
    <3> QED
      BY <2>1, <3>1 DEF Applied
  <2>2. CASE state = "release"
    <3>1. m = MarkPressed(k, c, FALSE)
      BY <2>2
    <3> QED
      BY <2>2, <3>1 DEF Applied, RefreshModifier
  <2> QED
    BY <2>1, <2>2
<1> HIDE DEF m
<1>3. /\ DOMAIN l = DOMAIN m /\ l.native = m.native /\ l.start = m.start /\ l.pressed = m.pressed
      /\ state = "press" => (l.held <=> m.held \/ c \in Shifts \/ shift)
      /\ state = "release" /\ c \in Shifts => (l.held <=> m.pressed \cap Shifts # {})
      /\ state = "release" /\ c \notin Shifts => l.held = m.held
  <2>1. DOMAIN m = {"start", "pressed", "held", "native"}
    BY <1>1 DEF WellFormed
  <2> QED
    BY <1>2, <2>1
<1>4. WellFormed(l) /\ \A x : Stored(l, x) = Stored(m, x)
  BY <1>1, <1>3, SameNative
<1>5. \A x \in Codes : IsPressed(l, x) <=> IsPressed(m, x)
  BY <1>1, <1>3, <1>4, PressedIsStored
<1>6. \A x : Once(l, x) <=> Once(m, x)
  BY <1>4 DEF Once
<1>7. c \in Codes /\ \A x \in Native : x \in Codes
  BY DEF Codes
<1> QED
  BY <1>1, <1>3, <1>4, <1>5, <1>6, <1>7

-----------------------------------------------------------------------------
(* What the records that wait in a queue say of a key.                      *)

KeyRecords == [code : Codes, state : {"press", "release"}]
Records == KeyRecords \cup {Dropped}

\* Whether key c was down just before record j of the queue: the first record of the key
\* from there on tells, and without one the key is as it is now.
Later(q, j, c) == {i \in j..Len(q) : q[i].code = c}
Was(q, j, c, down) ==
    IF Later(q, j, c) = {} THEN c \in down
    ELSE \E i \in Later(q, j, c) : (\A k \in Later(q, j, c) : i <= k) /\ q[i].state = "release"

\* Each record says how its key was left, whatever an overrun has dropped before it.
Truthful(q, down) ==
    \A i \in 1..Len(q) :
        q[i] # Dropped => (Was(q, i + 1, q[i].code, down) <=> q[i].state = "press")

\* A record that is no marker is of a key.
LEMMA RecordFacts ==
    /\ \A r \in Records : r # Dropped => r.code \in Codes /\ r.state \in {"press", "release"}
    /\ Dropped.code \notin Codes /\ "SHIFT" \notin Codes
    /\ \A r \in KeyRecords : r # Dropped /\ r \in Records
<1>1. Dropped.code = "SYN_DROPPED" /\ "SYN_DROPPED" \notin Codes /\ "SHIFT" \notin Codes
  BY LinuxConstants DEF Dropped, Record
<1> QED
  BY <1>1 DEF Records, KeyRecords

\* One record further.
LEMMA WasStep ==
    ASSUME NEW q \in Seq(Records), NEW j \in 1..Len(q), NEW c, NEW down
    PROVE  Was(q, j, c, down) <=>
             IF q[j].code = c THEN q[j].state = "release" ELSE Was(q, j + 1, c, down)
<1> DEFINE n == Len(q)
<1>0. n \in Nat /\ j \in Nat /\ j <= n
  OBVIOUS
<1> HIDE DEF n
<1>1. \A i : i \in j..n <=> i = j \/ i \in j + 1..n
  BY <1>0
<1>2. CASE q[j].code = c
  <2>1. j \in Later(q, j, c)
    BY <1>1, <1>2 DEF Later, n
  <2>2. \A k \in Later(q, j, c) : k \in Nat /\ j <= k
    BY <1>0 DEF Later, n
  <2>3. \A i \in Later(q, j, c) : (\A k \in Later(q, j, c) : i <= k) => i = j
    BY <1>0, <2>1, <2>2
  <2> QED
    BY <1>2, <2>1, <2>2, <2>3 DEF Was
<1>3. CASE q[j].code # c
  <2>1. Later(q, j, c) = Later(q, j + 1, c)
    BY <1>1, <1>3 DEF Later, n
  <2> QED
    BY <1>3, <2>1 DEF Was
<1> QED
  BY <1>2, <1>3

\* After the last record the key is as it is now.
LEMMA WasLast ==
    ASSUME NEW q \in Seq(Records), NEW c, NEW down
    PROVE  Was(q, Len(q) + 1, c, down) <=> c \in down
<1>1. Later(q, Len(q) + 1, c) = {}
  BY DEF Later
<1> QED
  BY <1>1 DEF Was

\* A key without a record.
LEMMA WasNow ==
    ASSUME NEW q \in Seq(Records), NEW j \in Nat, j >= 1, NEW c, NEW down,
           \A i \in 1..Len(q) : q[i].code # c
    PROVE  Was(q, j, c, down) <=> c \in down
<1>1. Later(q, j, c) = {}
  BY DEF Later
<1> QED
  BY <1>1 DEF Was

\* A key changes: with the record of the change at the end, the queue says of the past
\* what it said before.
LEMMA WasAppended ==
    ASSUME NEW q \in Seq(Records), NEW r \in KeyRecords, NEW j \in 1..Len(q) + 1,
           NEW down, NEW changed, NEW c,
           c # r.code => (c \in changed <=> c \in down),
           r.state = "release" <=> r.code \in down
    PROVE  Was(Append(q, r), j, c, changed) <=> Was(q, j, c, down)
<1> DEFINE n == Len(q)
           p == Append(q, r)
<1>0. n \in Nat /\ j \in 1..n + 1 /\ Len(p) = n + 1 /\ p[n + 1] = r /\ \A i \in 1..n : p[i] = q[i]
  BY RecordFacts
<1> HIDE DEF n, p
<1>1. \A i : i \in j..n + 1 <=> i = n + 1 \/ i \in j..n
  BY <1>0
<1>2. \A i \in j..n : i \in 1..n /\ i < n + 1 /\ i \in Nat
  BY <1>0
<1>3. Later(q, j, c) = {i \in j..n : q[i].code = c}
  BY DEF Later, n
<1>4. Later(p, j, c) = {i \in j..n + 1 : p[i].code = c}
  BY <1>0 DEF Later
<1>5. CASE c # r.code
  <2>1. Later(p, j, c) = Later(q, j, c)
    BY <1>0, <1>1, <1>2, <1>3, <1>4, <1>5
  <2>2. \A i \in Later(q, j, c) : p[i] = q[i]
    BY <1>0, <1>2, <1>3
  <2> QED
    BY <1>5, <2>1, <2>2 DEF Was, p
<1>6. CASE c = r.code
  <2>1. Later(p, j, c) = Later(q, j, c) \cup {n + 1}
    BY <1>0, <1>1, <1>2, <1>3, <1>4, <1>6
  <2>2. \A i \in Later(q, j, c) : p[i] = q[i] /\ i < n + 1 /\ i \in Nat
    BY <1>0, <1>2, <1>3
  <2>3. CASE Later(q, j, c) = {}
    <3>1. Later(p, j, c) = {n + 1}
      BY <2>1, <2>3
    <3>2. Was(p, j, c, changed) <=> r.state = "release"
      BY <1>0, <3>1 DEF Was
    <3> QED
      BY <1>6, <2>3, <3>2 DEF Was, p
  <2>4. CASE Later(q, j, c) # {}
    <3> DEFINE L == Later(q, j, c)
               M == Later(p, j, c)
    <3>1. \A i \in M : (\A k \in M : i <= k) <=> (i \in L /\ \A k \in L : i <= k)
      BY <1>0, <2>1, <2>2, <2>4
    <3>2. L \subseteq M /\ M # {}
      BY <2>1
    <3>3. Was(q, j, c, down) <=> \E i \in L : (\A k \in L : i <= k) /\ q[i].state = "release"
      BY <2>4 DEF Was
    <3>4. Was(p, j, c, changed) <=> \E i \in M : (\A k \in M : i <= k) /\ p[i].state = "release"
      BY <3>2 DEF Was
    <3> HIDE DEF L, M
    <3>5. \A i \in L : p[i] = q[i]
      BY <2>2 DEF L
    <3> QED
      BY <3>1, <3>2, <3>3, <3>4, <3>5 DEF p
  <2> QED
    BY <2>3, <2>4
<1> QED
  BY <1>5, <1>6

\* The queue that an overrun leaves, of a key that had no record before.
LEMMA WasOverrun ==
    ASSUME NEW r \in KeyRecords, NEW down, NEW changed, NEW c \in Codes,
           c # r.code => (c \in changed <=> c \in down),
           r.state = "release" <=> r.code \in down
    PROVE  Was(<<Dropped, r>>, 1, c, changed) <=> c \in down
<1> DEFINE p == <<Dropped, r>>
<1>0. p \in Seq(Records) /\ Len(p) = 2 /\ p[1] = Dropped /\ p[2] = r /\ 1 \in 1..Len(p) /\ 2 \in 1..Len(p)
  BY RecordFacts DEF Records
<1> HIDE DEF p
<1>1. Dropped.code # c
  BY RecordFacts
<1>2. Was(p, 1, c, changed) <=> Was(p, 2, c, changed)
  BY <1>0, <1>1, WasStep
<1>3. Was(p, 2, c, changed) <=> IF r.code = c THEN r.state = "release" ELSE Was(p, 3, c, changed)
  BY <1>0, WasStep
<1>4. Was(p, 3, c, changed) <=> c \in changed
  <2>1. Len(p) + 1 = 3
    BY <1>0
  <2> QED
    BY <1>0, <2>1, WasLast
<1> QED
  BY <1>2, <1>3, <1>4 DEF p

\* An empty queue says nothing.
LEMMA TruthEmpty == \A down : Truthful(<<>>, down) /\ <<>> \in Seq(Records)
BY DEF Truthful

\* The kernel queues a change, in a queue with room or not.
LEMMA TruthQueued ==
    ASSUME NEW q \in Seq(Records), NEW r \in KeyRecords, NEW down, NEW changed,
           \A c : c # r.code => (c \in changed <=> c \in down),
           r.state = "release" <=> r.code \in down,
           r.state = "press" <=> r.code \in changed,
           Truthful(q, down)
    PROVE  /\ Append(q, r) \in Seq(Records) /\ Truthful(Append(q, r), changed)
           /\ <<Dropped, r>> \in Seq(Records) /\ Truthful(<<Dropped, r>>, changed)
<1>0. r \in Records /\ Dropped \in Records
  BY DEF Records
<1>1. Append(q, r) \in Seq(Records) /\ Truthful(Append(q, r), changed)
  <2> DEFINE n == Len(q)
             p == Append(q, r)
  <2>1. /\ n \in Nat /\ p \in Seq(Records) /\ Len(p) = n + 1 /\ p[n + 1] = r
        /\ \A i \in 1..n : p[i] = q[i] /\ i + 1 \in 1..n + 1
    BY <1>0
  <2>2. \A i \in 1..n + 1 : i = n + 1 \/ i \in 1..n
    BY <2>1
  <2>3. ASSUME NEW i \in 1..n, q[i] # Dropped
        PROVE  Was(p, i + 1, q[i].code, changed) <=> q[i].state = "press"
    <3> DEFINE j == i + 1
    <3>1. j \in 1..Len(q) + 1
      BY <2>1
    <3>2. Was(q, j, q[i].code, down) <=> q[i].state = "press"
      BY <2>3 DEF Truthful
    <3> HIDE DEF j, n
    <3>3. Was(p, j, q[i].code, changed) <=> Was(q, j, q[i].code, down)
      BY <3>1, WasAppended
    <3> QED
      BY <3>2, <3>3 DEF j
  <2>4. Was(p, Len(p) + 1, r.code, changed) <=> r.state = "press"
    <3> HIDE DEF p
    <3> QED
      BY <2>1, WasLast
  <2> HIDE DEF n, p
  <2>5. \A i \in 1..n + 1 :
          p[i] # Dropped => (Was(p, i + 1, p[i].code, changed) <=> p[i].state = "press")
    BY <2>1, <2>2, <2>3, <2>4
  <2> QED
    BY <2>1, <2>5 DEF Truthful, p
<1>2. <<Dropped, r>> \in Seq(Records) /\ Truthful(<<Dropped, r>>, changed)
  <2> DEFINE p == <<Dropped, r>>
  <2>1. /\ p \in Seq(Records) /\ Len(p) = 2 /\ p[1] = Dropped /\ p[2] = r /\ Len(p) + 1 = 3
        /\ \A i \in 1..2 : i = 1 \/ i = 2
    BY <1>0
  <2> HIDE DEF p
  <2>2. Was(p, 3, r.code, changed) <=> r.state = "press"
    BY <2>1, WasLast
  <2>3. \A i \in 1..2 : p[i] # Dropped => (Was(p, i + 1, p[i].code, changed) <=> p[i].state = "press")
    BY <2>1, <2>2
  <2> QED
    BY <2>1, <2>3 DEF Truthful, p
<1> QED
  BY <1>1, <1>2

\* The codes that a queue has records of.
KeyCodes(q) == {q[i].code : i \in 1..Len(q)} \ {Dropped.code}

\* A code without a record in the queue.
LEMMA NoRecord ==
    ASSUME NEW q \in Seq(Records), NEW c \in Codes
    PROVE  c \notin KeyCodes(q) <=> \A i \in 1..Len(q) : q[i].code # c
BY RecordFacts DEF KeyCodes

\* What a new record adds.
LEMMA CodesQueued ==
    ASSUME NEW q \in Seq(Records), NEW r \in KeyRecords
    PROVE  /\ KeyCodes(Append(q, r)) = KeyCodes(q) \cup {r.code}
           /\ KeyCodes(<<Dropped, r>>) = {r.code}
           /\ KeyCodes(<<>>) = {}
<1>0. r.code # Dropped.code /\ r \in Records
  BY RecordFacts DEF KeyRecords
<1>1. KeyCodes(Append(q, r)) = KeyCodes(q) \cup {r.code}
  <2> DEFINE n == Len(q)
             p == Append(q, r)
  <2>1. n \in Nat /\ Len(p) = n + 1 /\ p[n + 1] = r /\ \A i \in 1..n : p[i] = q[i]
    BY <1>0
  <2> HIDE DEF n, p
  <2>2. \A i : i \in 1..n + 1 <=> i = n + 1 \/ i \in 1..n
    BY <2>1
  <2>3. {p[i].code : i \in 1..n + 1} = {q[i].code : i \in 1..n} \cup {r.code}
    BY <2>1, <2>2
  <2> QED
    BY <1>0, <2>1, <2>3 DEF KeyCodes, n, p
<1>2. KeyCodes(<<Dropped, r>>) = {r.code}
  <2> DEFINE p == <<Dropped, r>>
  <2>1. Len(p) = 2 /\ p[1] = Dropped /\ p[2] = r /\ \A i : i \in 1..2 <=> i = 1 \/ i = 2
    OBVIOUS
  <2> HIDE DEF p
  <2>2. {p[i].code : i \in 1..2} = {Dropped.code, r.code}
    BY <2>1
  <2> QED
    BY <1>0, <2>1, <2>2 DEF KeyCodes, p
<1>3. KeyCodes(<<>>) = {}
  BY DEF KeyCodes
<1> QED
  BY <1>1, <1>2, <1>3

-----------------------------------------------------------------------------
(* The invariant that the keyboard state follows the keys: over a set of    *)
(* opens, the keys that are down on each node, a keyboard state and the     *)
(* codes that missed a transition.                                          *)

\* The opens are of different nodes, and what the kernel queued for a node that is gone is
\* gone too.
TypedOpens(opens) ==
    /\ \A o \in opens : /\ IsOpen(o) /\ o.dead \in BOOLEAN /\ o.shift \in BOOLEAN
                        /\ o.queue \in Seq(Records) /\ (o.dead => o.queue = <<>>)
    /\ \A o, p \in opens : o.id = p.id => o = p

\* A key that missed nothing: while records of it wait in a queue, in one queue only and
\* down on no other node, the keyboard state has it as the queue says it was; otherwise as
\* it is.  A native code is in one slot at most, so that its release takes it away.
KeyExact(opens, downs, k, c) ==
    /\ \A o \in opens : c \in KeyCodes(o.queue) =>
         /\ IsPressed(k, c) <=> Was(o.queue, 1, c, downs[o.id])
         /\ \A p \in opens : c \in KeyCodes(p.queue) => p = o
         /\ \A e \in Devices : c \in downs[e] => e = o.id
    /\ (\A o \in opens : c \notin KeyCodes(o.queue)) =>
         (IsPressed(k, c) <=> \E e \in Devices : c \in downs[e])
    /\ c \in Native => Once(k, c)

\* The task reports a shift with a press only while one is held, as its queue has it.
ShiftSeen(o, downs) ==
    o.dead \/ ~o.shift \/ \E c \in Shifts : Was(o.queue, 1, c, downs[o.id])

Follows(opens, downs, k, gone) ==
    /\ TypedOpens(opens) /\ downs \in [Devices -> SUBSET Codes] /\ WellFormed(k)
    /\ \A o \in opens : Truthful(o.queue, downs[o.id])
    /\ \A c \in Codes \ gone : KeyExact(opens, downs, k, c)
    /\ "SHIFT" \notin gone => \A o \in opens : ShiftSeen(o, downs)
    /\ "SHIFT" \notin gone /\ Shifts \cap gone = {} => (k.held <=> k.pressed \cap Shifts # {})

\* Opens come and go, and a node may go with the keys that were down on it: what was
\* waiting or down counts as missed.
LEMMA OpensChange ==
    ASSUME NEW opens, NEW downs, NEW k, NEW gone, Follows(opens, downs, k, gone),
           NEW fresh, TypedOpens(fresh), NEW changed \in [Devices -> SUBSET Codes], NEW lost,
           \A o \in fresh : \/ o \in opens /\ changed[o.id] = downs[o.id]
                            \/ o.queue = <<>> /\ (o.dead \/ ~o.shift),
           \A o \in opens : o \in fresh \/ KeyCodes(o.queue) \subseteq lost,
           gone \subseteq lost,
           \A c \in Codes \ lost, e \in Devices : c \in changed[e] <=> c \in downs[e]
    PROVE  Follows(fresh, changed, k, lost)
<1>1. \A o \in fresh : Truthful(o.queue, changed[o.id])
  BY TruthEmpty DEF Follows
<1>2. ASSUME NEW c \in Codes \ lost PROVE KeyExact(fresh, changed, k, c)
  <2>1. KeyExact(opens, downs, k, c)
    BY DEF Follows
  <2>2. KeyCodes(<<>>) = {}
    BY DEF KeyCodes
  <2>3. \A o \in fresh : c \in KeyCodes(o.queue) => o \in opens /\ changed[o.id] = downs[o.id]
    BY <2>2
  <2>4. \A o \in opens : c \in KeyCodes(o.queue) => o \in fresh
    BY <1>2
  <2>5. \A e \in Devices : c \in changed[e] <=> c \in downs[e]
    BY <1>2
  <2>6. ASSUME NEW o \in fresh, c \in KeyCodes(o.queue)
        PROVE  /\ IsPressed(k, c) <=> Was(o.queue, 1, c, changed[o.id])
               /\ \A p \in fresh : c \in KeyCodes(p.queue) => p = o
               /\ \A e \in Devices : c \in changed[e] => e = o.id
    BY <2>1, <2>3, <2>5, <2>6 DEF KeyExact
  <2>7. (\A o \in fresh : c \notin KeyCodes(o.queue)) =>
          (IsPressed(k, c) <=> \E e \in Devices : c \in changed[e])
    BY <2>1, <2>4, <2>5 DEF KeyExact
  <2>8. c \in Native => Once(k, c)
    BY <2>1 DEF KeyExact
  <2> QED
    BY <2>6, <2>7, <2>8 DEF KeyExact
<1>3. "SHIFT" \notin lost => \A o \in fresh : ShiftSeen(o, changed)
  BY DEF Follows, ShiftSeen
<1>4. "SHIFT" \notin lost /\ Shifts \cap lost = {} => (k.held <=> k.pressed \cap Shifts # {})
  BY DEF Follows
<1>5. WellFormed(k)
  BY DEF Follows
<1> QED
  BY <1>1, <1>2, <1>3, <1>4, <1>5 DEF Follows

\* A key changes and its record joins the queue of the one open of the node: what the
\* overrun of a full queue drops counts as missed.
LEMMA KeyChange ==
    ASSUME NEW opens, NEW downs, NEW k, NEW gone, Follows(opens, downs, k, gone),
           NEW o \in opens, ~o.dead, NEW r \in KeyRecords, NEW changed \in [Devices -> SUBSET Codes],
           \A e \in Devices \ {o.id} : changed[e] = downs[e],
           \A c : c # r.code => (c \in changed[o.id] <=> c \in downs[o.id]),
           r.state = "release" <=> r.code \in downs[o.id],
           r.state = "press" <=> r.code \in changed[o.id],
           NEW q, q = Append(o.queue, r) \/ q = <<Dropped, r>>,
           NEW u, DOMAIN u = OpenFields, u.queue = q,
           u.id = o.id, u.dead = o.dead, u.shift = o.shift,
           NEW lost, gone \subseteq lost,
           q = Append(o.queue, r) \/
             /\ KeyCodes(o.queue) \subseteq lost
             /\ KeyCodes(o.queue) \cap Shifts # {} => "SHIFT" \in lost,
           r.code \in lost \/ /\ \A p \in opens \ {o} : r.code \notin KeyCodes(p.queue)
                              /\ \A e \in Devices \ {o.id} : r.code \notin downs[e]
    PROVE  Follows((opens \ {o}) \cup {u}, changed, k, lost)
<1> DEFINE fresh == (opens \ {o}) \cup {u}
           d == o.id
<1>0. /\ TypedOpens(opens) /\ downs \in [Devices -> SUBSET Codes] /\ WellFormed(k)
      /\ d \in Devices /\ o.queue \in Seq(Records) /\ DOMAIN o = OpenFields
      /\ o.dead \in BOOLEAN /\ o.shift \in BOOLEAN /\ Truthful(o.queue, downs[d])
      /\ r.code \in Codes
  BY DEF Follows, TypedOpens, IsOpen, KeyRecords
<1>1. u.id = d /\ u.dead = o.dead /\ u.shift = o.shift /\ u.queue = q /\ DOMAIN u = OpenFields
  BY <1>0 DEF OpenFields
<1>2. q \in Seq(Records) /\ Truthful(q, changed[d])
  <2> DEFINE before == downs[d]
             after == changed[d]
  <2>1. /\ \A c : c # r.code => (c \in after <=> c \in before)
        /\ r.state = "release" <=> r.code \in before
        /\ r.state = "press" <=> r.code \in after
        /\ Truthful(o.queue, before)
    BY <1>0
  <2> HIDE DEF before, after
  <2>2. /\ Append(o.queue, r) \in Seq(Records) /\ Truthful(Append(o.queue, r), after)
        /\ <<Dropped, r>> \in Seq(Records) /\ Truthful(<<Dropped, r>>, after)
    BY <1>0, <2>1, TruthQueued
  <2> QED
    BY <2>2 DEF after
<1>3. \A p \in opens \ {o} : p.id # d /\ changed[p.id] = downs[p.id]
  BY <1>0 DEF TypedOpens, IsOpen
<1>4. \A p \in fresh : p = u \/ (p \in opens /\ p # o)
  OBVIOUS
<1>5. TypedOpens(fresh)
  <2>1. \A p \in fresh : /\ IsOpen(p) /\ p.dead \in BOOLEAN /\ p.shift \in BOOLEAN
                         /\ p.queue \in Seq(Records) /\ (p.dead => p.queue = <<>>)
    BY <1>0, <1>1, <1>2 DEF TypedOpens, IsOpen
  <2>2. \A p, v \in opens : p.id = v.id => p = v
    BY <1>0 DEF TypedOpens
  <2>3. \A p, v \in fresh : p.id = v.id => p = v
    <3> SUFFICES ASSUME NEW p \in fresh, NEW v \in fresh, p.id = v.id PROVE p = v
      OBVIOUS
    <3>1. \A w \in opens \ {o} : w.id # u.id
      BY <1>1, <1>3
    <3> HIDE DEF fresh, d
    <3>2. CASE p = u
      BY <1>4, <3>1, <3>2
    <3>3. CASE p # u
      BY <1>4, <2>2, <3>1, <3>3
    <3> QED
      BY <3>2, <3>3
  <2> HIDE DEF fresh
  <2> QED
    BY <2>1, <2>3 DEF TypedOpens
<1>6. \A p \in fresh : Truthful(p.queue, changed[p.id])
  <2>1. \A p \in opens \ {o} : Truthful(p.queue, changed[p.id])
    BY <1>3 DEF Follows
  <2> QED
    BY <1>1, <1>2, <2>1
<1>7. /\ q = Append(o.queue, r) => KeyCodes(q) = KeyCodes(o.queue) \cup {r.code}
      /\ q # Append(o.queue, r) => KeyCodes(q) = {r.code}
  BY <1>0, CodesQueued
<1>8. r.code \in KeyCodes(q)
  BY <1>7
<1>9. ASSUME NEW c \in Codes, q = Append(o.queue, r) \/ c \notin KeyCodes(o.queue)
      PROVE  Was(q, 1, c, changed[d]) <=> Was(o.queue, 1, c, downs[d])
  <2>1. CASE q = Append(o.queue, r)
    <3>1. 1 \in 1..Len(o.queue) + 1
      BY <1>0
    <3> DEFINE before == downs[d]
               after == changed[d]
    <3>2. /\ c # r.code => (c \in after <=> c \in before)
          /\ r.state = "release" <=> r.code \in before
      OBVIOUS
    <3> HIDE DEF before, after
    <3>3. Was(Append(o.queue, r), 1, c, after) <=> Was(o.queue, 1, c, before)
      BY <1>0, <3>1, <3>2, WasAppended
    <3> QED
      BY <2>1, <3>3 DEF before, after
  <2>2. CASE q = <<Dropped, r>> /\ c \notin KeyCodes(o.queue)
    <3>1. Was(q, 1, c, changed[d]) <=> c \in downs[d]
      BY <2>2, WasOverrun
    <3>2. \A i \in 1..Len(o.queue) : o.queue[i].code # c
      BY <1>0, <2>2, NoRecord
    <3>3. Was(o.queue, 1, c, downs[d]) <=> c \in downs[d]
      BY <1>0, <3>2, WasNow
    <3> QED
      BY <3>1, <3>3
  <2> QED
    BY <1>9, <2>1, <2>2
<1>10. ASSUME NEW c \in Codes \ lost PROVE KeyExact(fresh, changed, k, c)
  <2>1. KeyExact(opens, downs, k, c)
    BY DEF Follows
  <2>2. c \in KeyCodes(o.queue) => q = Append(o.queue, r) /\ c \in KeyCodes(q)
    BY <1>7
  <2>3. Was(q, 1, c, changed[d]) <=> Was(o.queue, 1, c, downs[d])
    BY <1>9, <2>2
  <2>4. c \in Native => Once(k, c)
    BY <2>1 DEF KeyExact
  <2>5. CASE c \in KeyCodes(q)
    <3>1. IsPressed(k, c) <=> Was(o.queue, 1, c, downs[d])
      <4>1. CASE c \in KeyCodes(o.queue)
        BY <2>1, <4>1 DEF KeyExact
      <4>2. CASE c \notin KeyCodes(o.queue)
        <5>1. c = r.code
          BY <1>7, <2>5, <4>2
        <5>2. \A p \in opens : c \notin KeyCodes(p.queue)
          BY <4>2, <5>1
        <5>3. IsPressed(k, c) <=> c \in downs[d]
          BY <1>0, <2>1, <5>1, <5>2 DEF KeyExact
        <5>4. Was(o.queue, 1, c, downs[d]) <=> c \in downs[d]
          BY <1>0, <4>2, NoRecord, WasNow
        <5> QED
          BY <5>3, <5>4
      <4> QED
        BY <4>1, <4>2
    <3>2. \A p \in opens \ {o} : c \notin KeyCodes(p.queue)
      <4>1. CASE c \in KeyCodes(o.queue)
        BY <2>1, <4>1 DEF KeyExact
      <4>2. CASE c \notin KeyCodes(o.queue)
        BY <1>7, <2>5, <4>2
      <4> QED
        BY <4>1, <4>2
    <3>3. \A e \in Devices : c \in changed[e] => e = d
      <4>1. CASE c \in KeyCodes(o.queue)
        BY <2>1, <4>1 DEF KeyExact
      <4>2. CASE c \notin KeyCodes(o.queue)
        BY <1>7, <2>5, <4>2
      <4> QED
        BY <4>1, <4>2
    <3>4. \A p \in fresh : c \in KeyCodes(p.queue) => p = u
      BY <3>2
    <3>5. u \in fresh /\ c \in KeyCodes(u.queue)
      BY <1>1, <2>5
    <3>6. IsPressed(k, c) <=> Was(u.queue, 1, c, changed[u.id])
      BY <1>1, <2>3, <3>1
    <3>7. \A e \in Devices : c \in changed[e] => e = u.id
      BY <1>1, <3>3
    <3> HIDE DEF fresh, d
    <3> QED
      BY <2>4, <3>4, <3>5, <3>6, <3>7 DEF KeyExact
  <2>6. CASE c \notin KeyCodes(q)
    <3>1. c # r.code /\ c \notin KeyCodes(o.queue)
      BY <1>8, <2>2, <2>6
    <3>2. \A e \in Devices : c \in changed[e] <=> c \in downs[e]
      BY <3>1
    <3>3. \A p \in fresh : c \in KeyCodes(p.queue) => p \in opens \ {o}
      BY <1>1, <2>6
    <3>4. \A p \in opens : c \in KeyCodes(p.queue) => p \in fresh
      BY <3>1
    <3> HIDE DEF fresh, d
    <3>5. ASSUME NEW p \in fresh, c \in KeyCodes(p.queue)
          PROVE  /\ IsPressed(k, c) <=> Was(p.queue, 1, c, changed[p.id])
                 /\ \A v \in fresh : c \in KeyCodes(v.queue) => v = p
                 /\ \A e \in Devices : c \in changed[e] => e = p.id
      BY <1>3, <2>1, <3>2, <3>3, <3>5 DEF KeyExact
    <3>6. (\A p \in fresh : c \notin KeyCodes(p.queue)) =>
            (IsPressed(k, c) <=> \E e \in Devices : c \in changed[e])
      BY <2>1, <3>2, <3>4 DEF KeyExact
    <3> QED
      BY <2>4, <3>5, <3>6 DEF KeyExact
  <2> QED
    BY <2>5, <2>6
<1>11. ASSUME "SHIFT" \notin lost PROVE \A p \in fresh : ShiftSeen(p, changed)
  <2>1. \A p \in opens : ShiftSeen(p, downs)
    BY <1>11 DEF Follows
  <2>2. \A p \in opens \ {o} : ShiftSeen(p, changed)
    BY <1>3, <2>1 DEF ShiftSeen
  <2>3. \A c \in Shifts : c \in Codes /\ (q = Append(o.queue, r) \/ c \notin KeyCodes(o.queue))
    BY <1>11, KeyboardConstants DEF Codes
  <2>4. \A c \in Shifts : Was(q, 1, c, changed[d]) <=> Was(o.queue, 1, c, downs[d])
    BY <1>9, <2>3
  <2>5. ShiftSeen(u, changed)
    BY <1>1, <2>1, <2>4 DEF ShiftSeen
  <2> QED
    BY <2>2, <2>5
<1>12. "SHIFT" \notin lost /\ Shifts \cap lost = {} => (k.held <=> k.pressed \cap Shifts # {})
  BY DEF Follows
<1> HIDE DEF fresh
<1>13. Follows(fresh, changed, k, lost)
  BY <1>0, <1>5, <1>6, <1>10, <1>11, <1>12 DEF Follows
<1> QED
  BY <1>13 DEF fresh

-----------------------------------------------------------------------------
(* A batch of records.                                                      *)

\* An applied record that reports its key as it is now, and one that found no slot.
Settles(d, q, j) ==
    /\ q[j].code \in Normalized \ PendingElsewhere(d)
    /\ \A i \in j + 1..Len(q) : q[i].code # q[j].code
    /\ (q[j].state = "press") = (q[j].code \in Down)
Refused(q, j, k) ==
    q[j].code \in Native /\ q[j].state = "press" /\ ~HasSlot(k, q[j].code)

StateFields == {"shift", "keyboard", "missed"}

\* DecodedRecord, case by case.
IsDecoded(d, q, lost, j, st, t) ==
    /\ q[j] = Dropped => t = st
    /\ q[j] # Dropped =>
         /\ DOMAIN t = StateFields /\ t.shift \in BOOLEAN
         /\ t.shift <=> IF q[j].code \in Shifts THEN q[j].state = "press" ELSE st.shift
         /\ j \in lost => t.keyboard = st.keyboard /\ t.missed = st.missed \cup {q[j].code}
         /\ j \notin lost =>
              /\ t.keyboard = Applied(st.keyboard, q[j].code, q[j].state, t.shift)
              /\ Settles(d, q, j) => t.missed = st.missed \ {q[j].code}
              /\ ~Settles(d, q, j) /\ Refused(q, j, st.keyboard) =>
                   t.missed = st.missed \cup {q[j].code}
              /\ ~Settles(d, q, j) /\ ~Refused(q, j, st.keyboard) => t.missed = st.missed

\* DeviceState::key does one of these.
LEMMA RecordDecoded ==
    ASSUME NEW d, NEW q \in Seq(Records), NEW lost, NEW j \in 1..Len(q),
           NEW st, DOMAIN st = StateFields, st.shift \in BOOLEAN,
           NEW t, t = DecodedRecord(d, q, lost, j, st)
    PROVE  IsDecoded(d, q, lost, j, st, t)
<1> DEFINE r == q[j]
           shift == CASE r.code \in Shifts /\ r.state = "press" -> TRUE
                      [] r.code \in Shifts /\ r.state = "release" -> FALSE
                      [] OTHER -> st.shift
           mis == CASE Settles(d, q, j) -> st.missed \ {r.code}
                    [] Refused(q, j, st.keyboard) -> st.missed \cup {r.code}
                    [] OTHER -> st.missed
<1>1. t = CASE r = Dropped -> st
            [] r # Dropped /\ j \in lost -> [st EXCEPT !.shift = shift, !.missed = @ \cup {r.code}]
            [] OTHER -> [shift |-> shift, keyboard |-> Applied(st.keyboard, r.code, r.state, shift),
                         missed |-> mis]
  BY DEF DecodedRecord, Settles, Refused
<1>2. r # Dropped => r.state \in {"press", "release"}
  BY RecordFacts
<1>3. r # Dropped => shift \in BOOLEAN /\ (shift <=> IF r.code \in Shifts THEN r.state = "press" ELSE st.shift)
  BY <1>2
<1>4. /\ Settles(d, q, j) /\ ~Refused(q, j, st.keyboard) => mis = st.missed \ {r.code}
      /\ ~Settles(d, q, j) /\ Refused(q, j, st.keyboard) => mis = st.missed \cup {r.code}
      /\ ~Settles(d, q, j) /\ ~Refused(q, j, st.keyboard) => mis = st.missed
  OBVIOUS
<1>5. Settles(d, q, j) => ~Refused(q, j, st.keyboard)
  BY KeyboardConstants DEF Settles, Refused
<1> HIDE DEF r, shift, mis
<1>6. CASE r = Dropped
  BY <1>1, <1>6 DEF r, IsDecoded
<1>7. CASE r # Dropped /\ j \in lost
  <2>1. t = [st EXCEPT !.shift = shift, !.missed = @ \cup {r.code}]
    BY <1>1, <1>7
  <2>2. DOMAIN t = StateFields /\ t.shift = shift /\ t.keyboard = st.keyboard /\ t.missed = st.missed \cup {r.code}
    BY <2>1 DEF StateFields
  <2> QED
    BY <1>3, <1>7, <2>2 DEF r, IsDecoded
<1>8. CASE r # Dropped /\ j \notin lost
  <2>1. t = [shift |-> shift, keyboard |-> Applied(st.keyboard, r.code, r.state, shift), missed |-> mis]
    BY <1>1, <1>8
  <2>2. /\ DOMAIN t = StateFields /\ t.shift = shift /\ t.missed = mis
        /\ t.keyboard = Applied(st.keyboard, r.code, r.state, shift)
    BY <2>1 DEF StateFields
  <2> QED
    BY <1>3, <1>4, <1>5, <1>8, <2>2 DEF r, IsDecoded
<1> QED
  BY <1>6, <1>7, <1>8

\* What holds of the decoding state after j records of the queue q of node d, on which the
\* keys of down are down.
Decoding(d, q, down, j, st) ==
    /\ DOMAIN st = StateFields /\ st.shift \in BOOLEAN /\ WellFormed(st.keyboard)
    /\ "SHIFT" \in st.missed <=> "SHIFT" \in missed
    /\ \A c \in Codes \ st.missed :
         /\ c \notin KeyCodes(q) => /\ c \notin missed
                                    /\ IsPressed(st.keyboard, c) <=> IsPressed(keyboard, c)
         /\ c \in KeyCodes(q) => /\ c \notin PendingElsewhere(d)
                                 /\ IsPressed(st.keyboard, c) <=> Was(q, j + 1, c, down)
                                 /\ c \in down <=> c \in Down
         /\ c \in Native => Once(st.keyboard, c)
    /\ "SHIFT" \notin missed /\ st.shift => \E c \in Shifts : Was(q, j + 1, c, down)
    /\ "SHIFT" \notin missed /\ Shifts \cap st.missed = {} =>
         (st.keyboard.held <=> st.keyboard.pressed \cap Shifts # {})

\* One record: applied or lost, it keeps what holds.
LEMMA DecodingStep ==
    ASSUME NEW d, NEW q \in Seq(Records), NEW down, NEW lost, NEW j \in 1..Len(q),
           Truthful(q, down),
           \A c \in Codes \ missed : c \notin KeyCodes(q) /\ c \in down => IsPressed(keyboard, c),
           NEW st, Decoding(d, q, down, j - 1, st),
           NEW t, t = DecodedRecord(d, q, lost, j, st)
    PROVE  Decoding(d, q, down, j, t)
<1> DEFINE r == q[j]
           c == r.code
           k == st.keyboard
           l == t.keyboard
<1>0. j \in Nat /\ j - 1 + 1 = j /\ r \in Records
  OBVIOUS
<1>1. /\ DOMAIN st = StateFields /\ st.shift \in BOOLEAN /\ WellFormed(k)
      /\ "SHIFT" \in st.missed <=> "SHIFT" \in missed
      /\ \A x \in Codes \ st.missed :
           /\ x \notin KeyCodes(q) => x \notin missed /\ (IsPressed(k, x) <=> IsPressed(keyboard, x))
           /\ x \in KeyCodes(q) => /\ x \notin PendingElsewhere(d)
                                   /\ IsPressed(k, x) <=> Was(q, j, x, down)
                                   /\ x \in down <=> x \in Down
           /\ x \in Native => Once(k, x)
      /\ "SHIFT" \notin missed /\ st.shift => \E x \in Shifts : Was(q, j, x, down)
      /\ "SHIFT" \notin missed /\ Shifts \cap st.missed = {} => (k.held <=> k.pressed \cap Shifts # {})
  BY <1>0 DEF Decoding
<1>2. \A x : Was(q, j, x, down) <=> IF c = x THEN r.state = "release" ELSE Was(q, j + 1, x, down)
  BY WasStep
<1>d. IsDecoded(d, q, lost, j, st, t)
  <2>1. DOMAIN st = StateFields /\ st.shift \in BOOLEAN
    BY <1>1
  <2> HIDE DEF r, c, k, l
  <2> QED
    BY <2>1, RecordDecoded, Zenon
<1>3. CASE r = Dropped
  <2>1. t = st
    BY <1>3, <1>d DEF IsDecoded
  <2>2. \A x \in Codes : Was(q, j, x, down) <=> Was(q, j + 1, x, down)
    BY <1>2, <1>3, RecordFacts
  <2>3. Shifts \subseteq Codes
    BY KeyboardConstants DEF Codes
  <2> QED
    BY <1>1, <2>1, <2>2, <2>3 DEF Decoding
<1>4. CASE r # Dropped
  <2>1. c \in Codes /\ r.state \in {"press", "release"} /\ c # "SHIFT" /\ c # Dropped.code
    BY <1>0, <1>4, RecordFacts
  <2>2. c \in KeyCodes(q)
    BY <2>1 DEF KeyCodes
  <2>3. /\ DOMAIN t = StateFields /\ t.shift \in BOOLEAN
        /\ t.shift <=> IF c \in Shifts THEN r.state = "press" ELSE st.shift
        /\ j \in lost => l = k /\ t.missed = st.missed \cup {c}
        /\ j \notin lost => /\ l = Applied(k, c, r.state, t.shift)
                            /\ Settles(d, q, j) => t.missed = st.missed \ {c}
                            /\ ~Settles(d, q, j) /\ Refused(q, j, k) => t.missed = st.missed \cup {c}
                            /\ ~Settles(d, q, j) /\ ~Refused(q, j, k) => t.missed = st.missed
    BY <1>4, <1>d DEF IsDecoded
  <2>4. Was(q, j + 1, c, down) <=> r.state = "press"
    BY <1>4 DEF Truthful
  <2>5. Was(q, j, c, down) <=> r.state = "release"
    BY <1>2
  <2>6. \A x \in Codes \ {c} : Was(q, j, x, down) <=> Was(q, j + 1, x, down)
    BY <1>2
  <2>7. \A x : x # c => (x \in t.missed <=> x \in st.missed)
    BY <2>3
  <2>8. "SHIFT" \in t.missed <=> "SHIFT" \in missed
    BY <1>1, <2>1, <2>7
  <2>9. Shifts \subseteq Normalized /\ Shifts \subseteq Codes /\ Normalized \cap Native = {}
    BY KeyboardConstants DEF Codes
  <2>10. ASSUME "SHIFT" \notin missed, t.shift PROVE \E x \in Shifts : Was(q, j + 1, x, down)
    <3>1. CASE c \in Shifts
      BY <2>3, <2>4, <2>10, <3>1
    <3>2. CASE c \notin Shifts
      BY <1>1, <2>3, <2>6, <2>9, <2>10, <3>2
    <3> QED
      BY <3>1, <3>2
  <2>11. CASE j \in lost
    <3>1. \A x \in Codes \ t.missed : x # c /\ x \notin st.missed
      BY <2>3, <2>11
    <3>2. ASSUME NEW x \in Codes \ t.missed
          PROVE  /\ x \notin KeyCodes(q) => x \notin missed /\ (IsPressed(l, x) <=> IsPressed(keyboard, x))
                 /\ x \in KeyCodes(q) => /\ x \notin PendingElsewhere(d)
                                         /\ IsPressed(l, x) <=> Was(q, j + 1, x, down)
                                         /\ x \in down <=> x \in Down
                 /\ x \in Native => Once(l, x)
      BY <1>1, <2>3, <2>6, <2>11, <3>1
    <3>3. "SHIFT" \notin missed /\ Shifts \cap t.missed = {} => (l.held <=> l.pressed \cap Shifts # {})
      BY <1>1, <2>3, <2>11
    <3> QED
      BY <1>1, <2>3, <2>8, <2>10, <2>11, <3>2, <3>3 DEF Decoding
  <2>12. CASE j \notin lost
    <3>1. /\ WellFormed(l)
          /\ \A x \in Codes \ {c} : IsPressed(l, x) <=> IsPressed(k, x)
          /\ \A x \in Native \ {c} : Once(k, x) => Once(l, x)
          /\ c \in Normalized => (IsPressed(l, c) <=> r.state = "press")
          /\ c \in Native /\ r.state = "press" /\ HasSlot(k, c) =>
               IsPressed(l, c) /\ (~IsPressed(k, c) => Once(l, c))
          /\ c \in Native /\ r.state = "release" /\ Once(k, c) => ~IsPressed(l, c) /\ Once(l, c)
          /\ r.state = "press" => (l.held <=> k.held \/ c \in Shifts \/ t.shift)
          /\ r.state = "release" /\ c \in Shifts => (l.held <=> l.pressed \cap Shifts # {})
          /\ r.state = "release" /\ c \notin Shifts => l.held = k.held
      <4> DEFINE sh == t.shift
                 state == r.state
                 m == l
                 x0 == c
      <4>1. m = Applied(k, x0, state, sh) /\ state \in {"press", "release"} /\ x0 \in Codes
        BY <2>1, <2>3, <2>12
      <4> HIDE DEF sh, state, m, x0, k
      <4>2. /\ WellFormed(m)
            /\ \A x \in Codes \ {x0} : IsPressed(m, x) <=> IsPressed(k, x)
            /\ \A x \in Native \ {x0} : Once(k, x) => Once(m, x)
            /\ x0 \in Normalized => (IsPressed(m, x0) <=> state = "press")
            /\ x0 \in Native /\ state = "press" /\ HasSlot(k, x0) =>
                 IsPressed(m, x0) /\ (~IsPressed(k, x0) => Once(m, x0))
            /\ x0 \in Native /\ state = "release" /\ Once(k, x0) => ~IsPressed(m, x0) /\ Once(m, x0)
            /\ state = "press" => (m.held <=> k.held \/ x0 \in Shifts \/ sh)
            /\ state = "release" /\ x0 \in Shifts => (m.held <=> m.pressed \cap Shifts # {})
            /\ state = "release" /\ x0 \notin Shifts => m.held = k.held
        BY <1>1, <4>1, AppliedEvent DEF k
      <4> QED
        BY <4>2 DEF sh, state, m, x0
    <3>2. ASSUME NEW x \in Codes \ t.missed
          PROVE  /\ x \notin KeyCodes(q) => x \notin missed /\ (IsPressed(l, x) <=> IsPressed(keyboard, x))
                 /\ x \in KeyCodes(q) => /\ x \notin PendingElsewhere(d)
                                         /\ IsPressed(l, x) <=> Was(q, j + 1, x, down)
                                         /\ x \in down <=> x \in Down
                 /\ x \in Native => Once(l, x)
      <4>1. CASE x # c
        <5>1. x \in Codes \ st.missed
          BY <2>7, <4>1
        <5>2. (IsPressed(l, x) <=> IsPressed(k, x)) /\ (x \in Native /\ Once(k, x) => Once(l, x))
          BY <3>1, <4>1
        <5>3. Was(q, j, x, down) <=> Was(q, j + 1, x, down)
          BY <2>6, <4>1
        <5> HIDE DEF k, l
        <5> QED
          BY <1>1, <5>1, <5>2, <5>3
      <4>2. CASE x = c /\ Settles(d, q, j)
        <5>1. c \in Normalized /\ c \notin Native /\ c \notin PendingElsewhere(d)
          BY <2>9, <4>2 DEF Settles
        <5>2. IsPressed(l, c) <=> Was(q, j + 1, c, down)
          BY <2>4, <3>1, <5>1
        <5>3. Later(q, j + 1, c) = {}
          BY <4>2 DEF Settles, Later
        <5>4. Was(q, j + 1, c, down) <=> c \in down
          BY <5>3 DEF Was
        <5>5. (r.state = "press") <=> c \in Down
          BY <4>2 DEF Settles
        <5> QED
          BY <2>2, <2>4, <4>2, <5>1, <5>2, <5>4, <5>5
      <4>3. CASE x = c /\ ~Settles(d, q, j)
        <5>1. ~Refused(q, j, k) /\ c \notin st.missed
          BY <2>3, <2>12, <4>3
        <5>2. /\ c \notin PendingElsewhere(d) /\ (IsPressed(k, c) <=> r.state = "release")
              /\ c \in down <=> c \in Down
              /\ c \in Native => Once(k, c)
          BY <1>1, <2>1, <2>2, <2>5, <5>1
        <5>3. (IsPressed(l, c) <=> r.state = "press") /\ (c \in Native => Once(l, c))
          <6>1. CASE c \in Normalized
            BY <2>9, <3>1, <6>1
          <6>2. CASE c \in Native
            <7>1. r.state = "press" => HasSlot(k, c)
              BY <5>1, <6>2 DEF Refused
            <7> QED
              BY <2>1, <3>1, <5>2, <6>2, <7>1
          <6> QED
            BY <2>1, <6>1, <6>2 DEF Codes
        <5> QED
          BY <2>2, <2>4, <4>3, <5>2, <5>3
      <4> QED
        BY <4>1, <4>2, <4>3
    <3>3. ASSUME "SHIFT" \notin missed, Shifts \cap t.missed = {}
          PROVE  l.held <=> l.pressed \cap Shifts # {}
      <4>0. \A x \in Shifts : /\ x \notin Native
                              /\ (IsPressed(l, x) <=> x \in l.pressed)
                              /\ (IsPressed(k, x) <=> x \in k.pressed)
        BY <2>9 DEF IsPressed
      <4>1. CASE c \in Shifts /\ r.state = "press"
        <5>1. l.held /\ c \in l.pressed
          BY <2>9, <3>1, <4>0, <4>1
        <5> QED
          BY <4>1, <5>1
      <4>2. CASE c \in Shifts /\ r.state = "release"
        BY <3>1, <4>2
      <4>3. CASE c \notin Shifts
        <5>1. Shifts \cap st.missed = {}
          BY <2>7, <3>3, <4>3
        <5>2. k.held <=> k.pressed \cap Shifts # {}
          BY <1>1, <3>3, <5>1
        <5>3. \A x \in Shifts : x \in l.pressed <=> x \in k.pressed
          BY <2>9, <3>1, <4>0, <4>3
        <5>4. l.pressed \cap Shifts # {} <=> k.pressed \cap Shifts # {}
          BY <5>3
        <5>5. CASE r.state = "release"
          BY <3>1, <4>3, <5>2, <5>4, <5>5
        <5>6. CASE r.state = "press"
          <6>1. l.held <=> k.held \/ st.shift
            BY <2>3, <3>1, <4>3, <5>6
          <6>2. ASSUME st.shift PROVE k.pressed \cap Shifts # {}
            <7>1. PICK x \in Shifts : Was(q, j, x, down)
              BY <1>1, <3>3, <6>2
            <7>2. x \in Codes \ st.missed
              BY <2>9, <5>1
            <7>3. CASE x \in KeyCodes(q)
              <8>1. IsPressed(k, x)
                BY <1>1, <7>1, <7>2, <7>3
              <8> QED
                BY <4>0, <8>1
            <7>4. CASE x \notin KeyCodes(q)
              <8>1. x \notin missed /\ (IsPressed(k, x) <=> IsPressed(keyboard, x))
                BY <1>1, <7>2, <7>4
              <8>2. x \in down
                BY <1>0, <7>1, <7>2, <7>4, NoRecord, WasNow
              <8>3. IsPressed(k, x)
                BY <7>2, <7>4, <8>1, <8>2
              <8> QED
                BY <4>0, <8>3
            <7> QED
              BY <7>3, <7>4
          <6> QED
            BY <5>2, <5>4, <6>1, <6>2
        <5> QED
          BY <2>1, <5>5, <5>6
      <4> QED
        BY <2>1, <4>1, <4>2, <4>3
    <3> HIDE DEF k
    <3> QED
      BY <2>3, <2>8, <2>10, <3>1, <3>2, <3>3 DEF Decoding
  <2> QED
    BY <2>11, <2>12
<1> QED
  BY <1>3, <1>4

\* The decoding states of the first n records, as Decoded runs through them.
Before == [shift |-> devices[index].shift, keyboard |-> keyboard, missed |-> missed]
Batch(d, q, lost, f, n) ==
    f = [j \in 0..n |-> IF j = 0 THEN Before ELSE DecodedRecord(d, q, lost, j, f[j - 1])]

\* Each state follows from the one before it.
LEMMA BatchExists ==
    ASSUME NEW d, NEW q, NEW lost, NEW n \in Nat
    PROVE  \E f : Batch(d, q, lost, f, n)
<1> DEFINE S == {m \in Nat : ~\E f : Batch(d, q, lost, f, m)}
<1> SUFFICES ASSUME S # {} PROVE FALSE
  OBVIOUS
<1>1. PICK m \in S : \A k \in S : m <= k
  BY LeastElement
<1>2. m # 0
  <2>1. Batch(d, q, lost, [j \in 0..0 |-> Before], 0)
    BY DEF Batch
  <2> QED
    BY <2>1
<1>3. m \in Nat /\ m - 1 \in Nat /\ m - 1 \notin S
  BY <1>1, <1>2
<1>4. PICK f : Batch(d, q, lost, f, m - 1)
  BY <1>3
<1> DEFINE step(j) == IF j = 0 THEN Before ELSE DecodedRecord(d, q, lost, j, f[j - 1])
           g == [j \in 0..m |-> step(j)]
<1>5. \A j \in 0..m - 1 : f[j] = step(j)
  BY <1>3, <1>4 DEF Batch
<1>6. \A j \in 0..m : j # 0 => j - 1 \in 0..m /\ j - 1 \in 0..m - 1
  BY <1>3
<1>7. \A j \in 0..m : j # 0 => g[j - 1] = f[j - 1]
  BY <1>5, <1>6
<1>8. Batch(d, q, lost, g, m)
  BY <1>7 DEF Batch
<1> QED
  BY <1>1, <1>8

\* A whole batch keeps what holds.
LEMMA DecodingBatch ==
    ASSUME NEW d, NEW q \in Seq(Records), NEW down, NEW lost, Truthful(q, down),
           \A c \in Codes \ missed : c \notin KeyCodes(q) /\ c \in down => IsPressed(keyboard, c),
           Decoding(d, q, down, 0, Before)
    PROVE  Decoding(d, q, down, Len(q), Decoded(d, q, lost))
<1> DEFINE n == Len(q)
           f == CHOOSE g : Batch(d, q, lost, g, n)
<1>1. n \in Nat
  OBVIOUS
<1>2. Batch(d, q, lost, f, n)
  BY <1>1, BatchExists
<1>3. Decoded(d, q, lost) = f[n]
  BY DEF Decoded, Batch, Before
<1> HIDE DEF f
<1>4. f[0] = Before /\ \A j \in 1..n : f[j] = DecodedRecord(d, q, lost, j, f[j - 1])
  <2>1. f = [j \in 0..n |-> IF j = 0 THEN Before ELSE DecodedRecord(d, q, lost, j, f[j - 1])]
    BY <1>2 DEF Batch
  <2>2. \A j \in 1..n : j \in 0..n /\ j # 0
    BY <1>1
  <2> HIDE DEF n
  <2> QED
    BY <1>1, <2>1, <2>2
<1> DEFINE S == {j \in 0..n : ~Decoding(d, q, down, j, f[j])}
<1>5. S = {}
  <2> SUFFICES ASSUME S # {} PROVE FALSE
    OBVIOUS
  <2>1. PICK j \in S : \A i \in S : j <= i
    <3>1. S \subseteq Nat
      BY <1>1
    <3> HIDE DEF S
    <3> QED
      BY <3>1, LeastElement
  <2>2. j # 0
    BY <1>4, <2>1
  <2>3. j \in 1..n /\ j - 1 \in 0..n /\ j - 1 \notin S
    BY <1>1, <2>1, <2>2
  <2>4. Decoding(d, q, down, j - 1, f[j - 1])
    BY <2>3
  <2>5. Decoding(d, q, down, j, f[j])
    BY <1>4, <2>3, <2>4, DecodingStep
  <2> QED
    BY <2>1, <2>5
<1> QED
  BY <1>1, <1>3, <1>5

\* The codes that a set of opens has records of.
LEMMA PendingCodes ==
    ASSUME NEW opens, \A o \in opens : o.queue \in Seq(Records)
    PROVE  \A c : c \in Pending(opens) <=> \E o \in opens : c \in KeyCodes(o.queue)
<1>1. ASSUME NEW o \in opens, NEW c
      PROVE  c \in KeyCodes(o.queue) <=>
               c # Dropped.code /\ \E r \in Range(o.queue) : r.code = c
  <2>1. DOMAIN o.queue = 1..Len(o.queue)
    OBVIOUS
  <2>2. Range(o.queue) = {o.queue[i] : i \in 1..Len(o.queue)}
    BY <2>1 DEF Range
  <2> QED
    BY <2>2 DEF KeyCodes
<1>2. ASSUME NEW c
      PROVE  c \in Pending(opens) <=>
               c # Dropped.code /\ \E o \in opens : \E r \in Range(o.queue) : r.code = c
  BY DEF Pending
<1> QED
  BY <1>1, <1>2

\* The keys that are down on each node.
Downs == [d \in Devices |-> node[d].down]

\* What the task finds when it starts to read the queue of an open.
LEMMA DecodingStarts ==
    ASSUME Follows(Range(Opens), Downs, keyboard, missed),
           NEW o \in Range(Opens), ~o.dead, Before.shift = o.shift
    PROVE  /\ Decoding(o.id, o.queue, Downs[o.id], 0, Before)
           /\ \A c \in Codes \ missed :
                c \notin KeyCodes(o.queue) /\ c \in Downs[o.id] => IsPressed(keyboard, c)
<1> DEFINE opens == Range(Opens)
           q == o.queue
           d == o.id
<1>1. /\ TypedOpens(opens) /\ Downs \in [Devices -> SUBSET Codes] /\ WellFormed(keyboard)
      /\ \A c \in Codes \ missed : KeyExact(opens, Downs, keyboard, c)
      /\ "SHIFT" \notin missed => ShiftSeen(o, Downs)
      /\ "SHIFT" \notin missed /\ Shifts \cap missed = {} =>
           (keyboard.held <=> keyboard.pressed \cap Shifts # {})
  BY DEF Follows
<1>2. /\ d \in Devices /\ q \in Seq(Records) /\ o.shift \in BOOLEAN
      /\ \A p \in opens : p.id = d => p = o
      /\ \A p \in opens : p.queue \in Seq(Records)
  BY <1>1 DEF TypedOpens, IsOpen
<1>3. \A c : c \in PendingElsewhere(d) => \E p \in opens : p.id # d /\ c \in KeyCodes(p.queue)
  <2> DEFINE others == {p \in opens : p.id # d}
  <2>1. \A p \in others : p.queue \in Seq(Records)
    BY <1>2
  <2>2. PendingElsewhere(d) = Pending(others)
    BY DEF PendingElsewhere
  <2> HIDE DEF others
  <2>3. \A c : c \in Pending(others) <=> \E p \in others : c \in KeyCodes(p.queue)
    BY <2>1, PendingCodes
  <2> QED
    BY <2>2, <2>3 DEF others
<1>4. \A c : c \in Down <=> \E e \in Devices : c \in Downs[e]
  BY DEF Down, Downs
<1>5. /\ DOMAIN Before = StateFields /\ Before.shift \in BOOLEAN
      /\ Before.keyboard = keyboard /\ Before.missed = missed
  BY <1>2 DEF Before, StateFields
<1> HIDE DEF opens, q, d
<1>6. ASSUME NEW c \in Codes \ missed, c \in KeyCodes(q)
      PROVE  /\ c \notin PendingElsewhere(d)
             /\ IsPressed(keyboard, c) <=> Was(q, 0 + 1, c, Downs[d])
             /\ c \in Downs[d] <=> c \in Down
  <2>1. /\ IsPressed(keyboard, c) <=> Was(q, 1, c, Downs[d])
        /\ \A p \in opens : c \in KeyCodes(p.queue) => p = o
        /\ \A e \in Devices : c \in Downs[e] => e = d
    BY <1>1, <1>6 DEF KeyExact, opens, q, d
  <2>2. c \notin PendingElsewhere(d)
    BY <1>3, <2>1 DEF d
  <2>3. c \in Downs[d] <=> c \in Down
    BY <1>2, <1>4, <2>1
  <2> QED
    BY <2>1, <2>2, <2>3
<1>7. \A c \in Codes \ missed : c \in Native => Once(keyboard, c)
  BY <1>1 DEF KeyExact
<1>8. "SHIFT" \notin missed /\ Before.shift => \E c \in Shifts : Was(q, 0 + 1, c, Downs[d])
  BY <1>1 DEF ShiftSeen, q, d
<1>9. Decoding(d, q, Downs[d], 0, Before)
  BY <1>1, <1>5, <1>6, <1>7, <1>8 DEF Decoding
<1>10. ASSUME NEW c \in Codes \ missed, c \notin KeyCodes(q), c \in Downs[d]
       PROVE  IsPressed(keyboard, c)
  <2>1. KeyExact(opens, Downs, keyboard, c)
    BY <1>1
  <2>2. \A p \in opens : c \notin KeyCodes(p.queue)
    <3> SUFFICES ASSUME NEW p \in opens, c \in KeyCodes(p.queue) PROVE FALSE
      OBVIOUS
    <3>1. d = p.id
      BY <1>2, <1>10, <2>1 DEF KeyExact
    <3>2. p = o
      BY <1>2, <3>1
    <3> QED
      BY <1>10, <3>2 DEF q
  <2> QED
    BY <1>2, <1>10, <2>1, <2>2 DEF KeyExact
<1> QED
  BY <1>9, <1>10 DEF q, d

\* The task has read the queue of an open: what the state then holds follows the keys.
LEMMA QueueRead ==
    ASSUME Follows(Range(Opens), Downs, keyboard, missed),
           NEW o \in Range(Opens), ~o.dead,
           NEW st, Decoding(o.id, o.queue, Downs[o.id], Len(o.queue), st),
           NEW u, DOMAIN u = OpenFields, u.queue = <<>>,
           u.id = o.id, u.dead = o.dead, u.shift = st.shift
    PROVE  Follows((Range(Opens) \ {o}) \cup {u}, Downs, st.keyboard, st.missed)
<1> DEFINE opens == Range(Opens)
           fresh == (opens \ {o}) \cup {u}
           q == o.queue
           d == o.id
           k == st.keyboard
<1>1. /\ TypedOpens(opens) /\ Downs \in [Devices -> SUBSET Codes]
      /\ \A p \in opens : Truthful(p.queue, Downs[p.id])
      /\ \A c \in Codes \ missed : KeyExact(opens, Downs, keyboard, c)
      /\ "SHIFT" \notin missed => \A p \in opens : ShiftSeen(p, Downs)
  BY DEF Follows
<1>2. /\ d \in Devices /\ q \in Seq(Records)
      /\ \A p \in opens : p.id = d => p = o
      /\ \A p \in opens : p.queue \in Seq(Records)
  BY <1>1 DEF TypedOpens, IsOpen
<1>3. \A c : c \notin PendingElsewhere(d) => \A p \in opens \ {o} : c \notin KeyCodes(p.queue)
  <2> DEFINE others == {p \in opens : p.id # d}
  <2>1. \A p \in others : p.queue \in Seq(Records)
    BY <1>2
  <2>2. PendingElsewhere(d) = Pending(others)
    BY DEF PendingElsewhere
  <2>3. \A p \in opens \ {o} : p \in others
    BY <1>2
  <2> HIDE DEF others
  <2>4. \A c : c \in Pending(others) <=> \E p \in others : c \in KeyCodes(p.queue)
    BY <2>1, PendingCodes
  <2> QED
    BY <2>2, <2>3, <2>4
<1>4. \A c : c \in Down <=> \E e \in Devices : c \in Downs[e]
  BY DEF Down, Downs
<1>5. /\ st.shift \in BOOLEAN /\ WellFormed(k) /\ ("SHIFT" \in st.missed <=> "SHIFT" \in missed)
      /\ \A c \in Codes \ st.missed :
           /\ c \notin KeyCodes(q) => c \notin missed /\ (IsPressed(k, c) <=> IsPressed(keyboard, c))
           /\ c \in KeyCodes(q) => /\ c \notin PendingElsewhere(d)
                                   /\ IsPressed(k, c) <=> Was(q, Len(q) + 1, c, Downs[d])
                                   /\ c \in Downs[d] <=> c \in Down
           /\ c \in Native => Once(k, c)
      /\ "SHIFT" \notin missed /\ st.shift => \E c \in Shifts : Was(q, Len(q) + 1, c, Downs[d])
      /\ "SHIFT" \notin missed /\ Shifts \cap st.missed = {} => (k.held <=> k.pressed \cap Shifts # {})
  BY DEF Decoding
<1>6. \A c : Was(q, Len(q) + 1, c, Downs[d]) <=> c \in Downs[d]
  BY <1>2, WasLast
<1>7. KeyCodes(<<>>) = {}
  BY DEF KeyCodes
<1>8. \A p \in fresh : p = u \/ (p \in opens /\ p # o)
  OBVIOUS
<1>9. TypedOpens(fresh)
  <2>1. \A p \in opens : /\ IsOpen(p) /\ p.dead \in BOOLEAN /\ p.shift \in BOOLEAN
                         /\ p.queue \in Seq(Records) /\ (p.dead => p.queue = <<>>)
    BY <1>1 DEF TypedOpens
  <2>2. /\ IsOpen(u) /\ u.dead \in BOOLEAN /\ u.shift \in BOOLEAN
        /\ u.queue \in Seq(Records) /\ (u.dead => u.queue = <<>>)
    BY <1>2, <1>5, <2>1, TruthEmpty DEF IsOpen
  <2>3. \A p, v \in fresh : p.id = v.id => p = v
    <3> SUFFICES ASSUME NEW p \in fresh, NEW v \in fresh, p.id = v.id PROVE p = v
      OBVIOUS
    <3>1. \A w \in opens \ {o} : w.id # u.id
      BY <1>2
    <3>2. \A w, x \in opens : w.id = x.id => w = x
      BY <1>1 DEF TypedOpens
    <3> HIDE DEF fresh, d, opens
    <3>3. CASE p = u
      BY <1>8, <3>1, <3>3
    <3>4. CASE p # u
      BY <1>8, <3>1, <3>2, <3>4
    <3> QED
      BY <3>3, <3>4
  <2> HIDE DEF fresh, opens
  <2>4. \A p \in fresh : /\ IsOpen(p) /\ p.dead \in BOOLEAN /\ p.shift \in BOOLEAN
                         /\ p.queue \in Seq(Records) /\ (p.dead => p.queue = <<>>)
    BY <1>8, <2>1, <2>2
  <2> QED
    BY <2>3, <2>4 DEF TypedOpens
<1> HIDE DEF k, q, d, opens
<1>10. \A p \in fresh : Truthful(p.queue, Downs[p.id])
  BY <1>1, <1>8, TruthEmpty
<1>11. ASSUME NEW c \in Codes \ st.missed PROVE KeyExact(fresh, Downs, k, c)
  <2>0. c \notin KeyCodes(u.queue) /\ (c \in Native => Once(k, c))
    BY <1>5, <1>7
  <2>1. CASE c \in KeyCodes(q)
    <3>1. \A p \in fresh : c \notin KeyCodes(p.queue)
      BY <1>3, <1>5, <1>8, <2>0, <2>1
    <3>2. IsPressed(k, c) <=> \E e \in Devices : c \in Downs[e]
      BY <1>4, <1>5, <1>6, <2>1
    <3> HIDE DEF fresh
    <3> QED
      BY <2>0, <3>1, <3>2 DEF KeyExact
  <2>2. CASE c \notin KeyCodes(q)
    <3>1. c \notin missed /\ (IsPressed(k, c) <=> IsPressed(keyboard, c))
      BY <1>5, <2>2
    <3>2. KeyExact(opens, Downs, keyboard, c)
      BY <1>1, <3>1
    <3>3. \A p \in fresh : c \in KeyCodes(p.queue) => p \in opens
      BY <1>8, <2>0
    <3>4. \A p \in opens : c \in KeyCodes(p.queue) => p \in fresh
      BY <2>2 DEF q
    <3> HIDE DEF fresh
    <3>5. ASSUME NEW p \in fresh, c \in KeyCodes(p.queue)
          PROVE  /\ IsPressed(k, c) <=> Was(p.queue, 1, c, Downs[p.id])
                 /\ \A v \in fresh : c \in KeyCodes(v.queue) => v = p
                 /\ \A e \in Devices : c \in Downs[e] => e = p.id
      BY <3>1, <3>2, <3>3, <3>5 DEF KeyExact
    <3>6. (\A p \in fresh : c \notin KeyCodes(p.queue)) =>
            (IsPressed(k, c) <=> \E e \in Devices : c \in Downs[e])
      BY <3>1, <3>2, <3>4 DEF KeyExact
    <3> QED
      BY <2>0, <3>5, <3>6 DEF KeyExact
  <2> QED
    BY <2>1, <2>2
<1>12. ASSUME "SHIFT" \notin st.missed PROVE \A p \in fresh : ShiftSeen(p, Downs)
  <2>1. \A c : Was(<<>>, 1, c, Downs[d]) <=> c \in Downs[d]
    <3>1. \A c : Later(<<>>, 1, c) = {}
      BY DEF Later
    <3> QED
      BY <3>1 DEF Was
  <2>2. ShiftSeen(u, Downs)
    BY <1>5, <1>6, <1>12, <2>1 DEF ShiftSeen, d
  <2> QED
    BY <1>1, <1>5, <1>8, <1>12, <2>2
<1>13. "SHIFT" \notin st.missed /\ Shifts \cap st.missed = {} => (k.held <=> k.pressed \cap Shifts # {})
  BY <1>5
<1> HIDE DEF fresh
<1>14. Follows(fresh, Downs, k, st.missed)
  BY <1>1, <1>5, <1>9, <1>10, <1>11, <1>12, <1>13 DEF Follows
<1> QED
  BY <1>14 DEF fresh, k, opens

-----------------------------------------------------------------------------
(* The opens before and after each step.                                    *)

\* What an unplug and a key make of one open.
KilledOpen(p, d) == IF p.id = d THEN [p EXCEPT !.dead = TRUE, !.queue = <<>>] ELSE p
QueuedOpen(p, d, r) ==
    IF p.id # d \/ p.dead THEN p
    ELSE [p EXCEPT !.queue = IF Len(@) < QueueSize THEN Append(@, r) ELSE <<Dropped, r>>]

\* The kernel changes the opens one by one.
LEMMA KernelRange ==
    ASSUME NEW s, NEW d, NEW r
    PROVE  /\ Range(Killed(s, d)) = {KilledOpen(p, d) : p \in Range(s)}
           /\ Range(Enqueued(s, d, r)) = {QueuedOpen(p, d, r) : p \in Range(s)}
<1>1. DOMAIN Killed(s, d) = DOMAIN s /\ \A i \in DOMAIN s : Killed(s, d)[i] = KilledOpen(s[i], d)
  BY DEF Killed, KilledOpen
<1>2. /\ DOMAIN Enqueued(s, d, r) = DOMAIN s
      /\ \A i \in DOMAIN s : Enqueued(s, d, r)[i] = QueuedOpen(s[i], d, r)
  BY DEF Enqueued, QueuedOpen
<1> QED
  BY <1>1, <1>2 DEF Range

\* The opens of two sequences.
LEMMA JoinedRange ==
    ASSUME NEW s, Distinct(s), NEW t, Distinct(t)
    PROVE  Range(s \o t) = Range(s) \cup Range(t)
<1> DEFINE S == Range(s) \cup Range(t)
           m == Len(s)
           n == Len(t)
           u == s \o t
<1>1. s \in Seq(Range(s)) /\ t \in Seq(Range(t))
  BY DEF Distinct
<1>2. s \in Seq(S) /\ t \in Seq(S)
  <2> HIDE DEF S
  <2>1. Range(s) \subseteq S /\ Range(t) \subseteq S
    BY DEF S
  <2> QED
    BY <1>1, <2>1, SeqMonotonic
<1> HIDE DEF S
<1>3. m \in Nat /\ n \in Nat /\ DOMAIN s = 1..m /\ DOMAIN t = 1..n
  BY <1>2
<1>4. DOMAIN u = 1..m + n
  BY <1>2
<1>5. /\ \A i \in 1..m : i \in 1..m + n /\ u[i] = s[i]
      /\ \A i \in 1..n : m + i \in 1..m + n /\ u[m + i] = t[i]
  BY <1>2
<1>6. \A i \in 1..m + n : i \in 1..m \/ \E j \in 1..n : i = m + j
  <2> SUFFICES ASSUME NEW i \in 1..m + n, i \notin 1..m
               PROVE  i - m \in 1..n /\ i = m + (i - m)
    OBVIOUS
  <2> QED
    BY <1>3
<1> HIDE DEF m, n, u
<1>7. Range(s) = {s[i] : i \in 1..m} /\ Range(t) = {t[i] : i \in 1..n} /\ Range(u) = {u[i] : i \in 1..m + n}
  BY <1>3, <1>4 DEF Range
<1>8. Range(u) = Range(s) \cup Range(t)
  <2>1. ASSUME NEW x \in Range(u) PROVE x \in Range(s) \cup Range(t)
    BY <1>5, <1>6, <1>7
  <2>2. ASSUME NEW x \in Range(s) \cup Range(t) PROVE x \in Range(u)
    BY <1>5, <1>7
  <2> QED
    BY <2>1, <2>2
<1> QED
  BY <1>8 DEF u

\* All opens.
OpenSet == Range(devices) \cup Range(inbox)

\* Each node has one open at most.
LEMMA UniqueOpens ==
    ASSUME NEW s, Distinct(s), NEW t, Distinct(t), Ids(s) \cap Ids(t) = {}
    PROVE  /\ \A o \in Range(s) \cup Range(t) : IsOpen(o)
           /\ \A o, p \in Range(s) \cup Range(t) : o.id = p.id => o = p
<1> DEFINE u == s \o t
<1>1. Distinct(u)
  BY JoinedOpens
<1>2. Range(u) = Range(s) \cup Range(t)
  BY JoinedRange
<1> HIDE DEF u
<1>3. \A o \in Range(u) : \E i \in DOMAIN u : o = u[i]
  BY DEF Range
<1>4. (\A i \in DOMAIN u : IsOpen(u[i])) /\ (\A i, j \in DOMAIN u : i # j => u[i].id # u[j].id)
  BY <1>1 DEF Distinct
<1> QED
  BY <1>2, <1>3, <1>4

\* The keyboard state follows the keys, in every state of the backend.
Following ==
    /\ Readers
    /\ node \in [Devices -> [plugged : BOOLEAN, down : SUBSET Codes]]
    /\ ~session => devices = <<>>
    /\ Follows(OpenSet, Downs, keyboard, missed)

\* An open just made.
New(o) == o.dead = FALSE /\ o.shift = FALSE /\ o.queue = <<>>

\* A step that leaves the keys, the keyboard state and the history alone, and only takes
\* away opens with nothing in their queue or adds new ones.
LEMMA QuietStep ==
    ASSUME Following, Readers', UNCHANGED <<node, keyboard, missed>>,
           \A o \in OpenSet' : o \in OpenSet \/ \E d \in Devices : o = Opened(d),
           \A o \in OpenSet : o \in OpenSet' \/ o.queue = <<>>
    PROVE  Follows(OpenSet, Downs, keyboard, missed)'
<1>1. PICK fresh : fresh = OpenSet'
  OBVIOUS
<1>2. Downs' = Downs /\ keyboard' = keyboard /\ missed' = missed
  BY DEF Downs
<1>3. /\ Follows(OpenSet, Downs, keyboard, missed) /\ TypedOpens(OpenSet)
      /\ Downs \in [Devices -> SUBSET Codes]
  BY DEF Following, Follows
<1>4. /\ \A o \in fresh : IsOpen(o)
      /\ \A o, p \in fresh : o.id = p.id => o = p
  BY <1>1, UniqueOpens DEF Readers, OpenSet
<1>5. \A d \in Devices : New(Opened(d))
  BY DEF Opened, New
<1>6. \A o \in fresh : o \in OpenSet \/ New(o)
  BY <1>1, <1>5
<1>7. TypedOpens(fresh)
  BY <1>3, <1>4, <1>6, TruthEmpty DEF TypedOpens, New
<1>8. \A o \in OpenSet : o \in fresh \/ KeyCodes(o.queue) \subseteq missed
  BY <1>1 DEF KeyCodes
<1>9. Follows(fresh, Downs, keyboard, missed)
  BY <1>3, <1>6, <1>7, <1>8, OpensChange DEF New
<1> QED
  BY <1>1, <1>2, <1>9

\* Records that wait, by node.
LEMMA PendingByNode ==
    ASSUME Following, NEW d
    PROVE  /\ Range(Opens) = OpenSet
           /\ \A c : c \in PendingOf(d) <=> \E o \in OpenSet : o.id = d /\ c \in KeyCodes(o.queue)
           /\ \A c : c \in PendingElsewhere(d) <=> \E o \in OpenSet : o.id # d /\ c \in KeyCodes(o.queue)
           /\ \A c : c \in Pending(Range(Opens)) <=> \E o \in OpenSet : c \in KeyCodes(o.queue)
<1>1. Range(Opens) = OpenSet
  BY JoinedRange DEF Opens, OpenSet, Following, Readers
<1>2. \A o \in OpenSet : o.queue \in Seq(Records)
  BY DEF Following, Follows, TypedOpens
<1> DEFINE own == {o \in OpenSet : o.id = d}
           others == {o \in OpenSet : o.id # d}
<1>3. PendingOf(d) = Pending(own) /\ PendingElsewhere(d) = Pending(others)
  BY <1>1 DEF PendingOf, PendingElsewhere
<1>4. \A c : c \in Pending(OpenSet) <=> \E o \in OpenSet : c \in KeyCodes(o.queue)
  BY <1>2, PendingCodes
<1>5. (\A o \in own : o.queue \in Seq(Records)) /\ (\A o \in others : o.queue \in Seq(Records))
  BY <1>2
<1> HIDE DEF own, others
<1>6. \A c : c \in Pending(own) <=> \E o \in own : c \in KeyCodes(o.queue)
  BY <1>5, PendingCodes
<1>7. \A c : c \in Pending(others) <=> \E o \in others : c \in KeyCodes(o.queue)
  BY <1>5, PendingCodes
<1> QED
  BY <1>1, <1>3, <1>4, <1>6, <1>7 DEF own, others

\* A node goes: its keys are up, its opens are dead and what they had to say is missed.
LEMMA UnplugFollows ==
    ASSUME Following, Readers', NEW d \in Devices, Unplug(d)
    PROVE  Following'
<1>1. /\ node' = [node EXCEPT ![d] = [plugged |-> FALSE, down |-> {}]]
      /\ devices' = Killed(devices, d) /\ inbox' = Killed(inbox, d)
      /\ missed' = missed \cup node[d].down \cup PendingOf(d)
      /\ UNCHANGED <<session, keyboard>>
  BY DEF Unplug
<1>2. PICK fresh, changed, lost : fresh = OpenSet' /\ changed = Downs' /\ lost = missed'
  OBVIOUS
<1>3. /\ Follows(OpenSet, Downs, keyboard, missed) /\ TypedOpens(OpenSet)
      /\ node \in [Devices -> [plugged : BOOLEAN, down : SUBSET Codes]]
      /\ Readers
  BY DEF Following, Follows
<1>4. node' \in [Devices -> [plugged : BOOLEAN, down : SUBSET Codes]]
  BY <1>1, <1>3
<1>5. /\ changed = [e \in Devices |-> node'[e].down] /\ Downs = [e \in Devices |-> node[e].down]
  BY <1>2 DEF Downs
<1>6. /\ changed \in [Devices -> SUBSET Codes]
      /\ changed[d] = {} /\ \A e \in Devices : e # d => changed[e] = Downs[e]
      /\ Downs[d] = node[d].down
  BY <1>1, <1>3, <1>5
<1>7. \A c \in Codes \ lost, e \in Devices : c \in changed[e] <=> c \in Downs[e]
  BY <1>1, <1>2, <1>6
<1>8. fresh = {KilledOpen(p, d) : p \in OpenSet}
  <2>1. /\ Range(devices') = {KilledOpen(p, d) : p \in Range(devices)}
        /\ Range(inbox') = {KilledOpen(p, d) : p \in Range(inbox)}
    BY <1>1, KernelRange
  <2> QED
    BY <1>2, <2>1 DEF OpenSet
<1>9. \A p \in OpenSet : /\ DOMAIN p = OpenFields /\ p.dead \in BOOLEAN /\ p.shift \in BOOLEAN
                         /\ p.id \in Devices
  BY <1>3 DEF TypedOpens, IsOpen
<1>10. ASSUME NEW p \in OpenSet
       PROVE  /\ p.id # d => KilledOpen(p, d) = p
              /\ p.id = d => /\ KilledOpen(p, d).id = d /\ KilledOpen(p, d).dead = TRUE
                             /\ KilledOpen(p, d).shift = p.shift /\ KilledOpen(p, d).queue = <<>>
  BY <1>9 DEF KilledOpen, OpenFields
<1>11. /\ \A o \in fresh : IsOpen(o)
       /\ \A o, p \in fresh : o.id = p.id => o = p
  BY <1>2, UniqueOpens DEF Readers, OpenSet
<1>12. \A o \in fresh : \/ o \in OpenSet /\ o.id # d
                        \/ o.queue = <<>> /\ o.dead = TRUE /\ o.shift \in BOOLEAN
  <2> SUFFICES ASSUME NEW o \in fresh
               PROVE  \/ o \in OpenSet /\ o.id # d
                      \/ o.queue = <<>> /\ o.dead = TRUE /\ o.shift \in BOOLEAN
    OBVIOUS
  <2>1. PICK p \in OpenSet : o = KilledOpen(p, d)
    BY <1>8
  <2>2. CASE p.id = d
    BY <1>9, <1>10, <2>1, <2>2
  <2>3. CASE p.id # d
    BY <1>10, <2>1, <2>3
  <2> QED
    BY <2>2, <2>3
<1>13. TypedOpens(fresh)
  BY <1>3, <1>11, <1>12, TruthEmpty DEF TypedOpens
<1>14. \A o \in OpenSet : o \in fresh \/ KeyCodes(o.queue) \subseteq lost
  <2> SUFFICES ASSUME NEW o \in OpenSet, o \notin fresh PROVE KeyCodes(o.queue) \subseteq lost
    OBVIOUS
  <2>1. o.id = d
    BY <1>8, <1>10
  <2> QED
    BY <1>1, <1>2, <2>1, PendingByNode
<1>15. \A o \in fresh : \/ o \in OpenSet /\ changed[o.id] = Downs[o.id]
                        \/ o.queue = <<>> /\ (o.dead \/ ~o.shift)
  BY <1>6, <1>9, <1>12
<1>16. missed \subseteq lost
  BY <1>1, <1>2
<1>17. Follows(fresh, changed, keyboard, lost)
  BY <1>3, <1>6, <1>7, <1>13, <1>14, <1>15, <1>16, OpensChange
<1>18. ~session' => devices' = <<>>
  BY <1>1, KernelOpens DEF Following, Readers
<1> QED
  BY <1>1, <1>2, <1>4, <1>17, <1>18 DEF Following

\* A key changes: on a node that is read its record is queued; otherwise it is missed.
LEMMA KeyFollows ==
    ASSUME Following, Readers', NEW d \in Devices, NEW code \in Codes,
           NEW state \in {"press", "release"}, Key(d, code, state)
    PROVE  Following'
<1> DEFINE overrun == \E o \in Range(Opens) : o.id = d /\ Len(o.queue) >= QueueSize
           shared == \/ code \in PendingElsewhere(d)
                     \/ \E e \in Devices \ {d} : code \in node[e].down
<1>0. PICK r : r = Record(code, state)
  OBVIOUS
<1>1. /\ (state = "press") <=> code \notin node[d].down
      /\ node' = [node EXCEPT ![d].down = CASE state = "press"   -> @ \cup {code}
                                            [] state = "release" -> @ \ {code}]
      /\ devices' = Enqueued(devices, d, r) /\ inbox' = Enqueued(inbox, d, r)
      /\ UNCHANGED <<session, keyboard>>
  BY <1>0 DEF Key
<1>2. missed' = missed \cup (IF overrun THEN PendingOf(d) ELSE {})
                   \cup (IF overrun /\ PendingOf(d) \cap Shifts # {} THEN {"SHIFT"} ELSE {})
                   \cup (IF d \notin Live(Opens) \/ shared THEN {code} ELSE {})
  BY DEF Key
<1>3. PICK fresh, changed, lost : fresh = OpenSet' /\ changed = Downs' /\ lost = missed'
  OBVIOUS
<1>4. /\ Follows(OpenSet, Downs, keyboard, missed) /\ TypedOpens(OpenSet)
      /\ node \in [Devices -> [plugged : BOOLEAN, down : SUBSET Codes]]
      /\ Readers
  BY DEF Following, Follows
<1>5. r.code = code /\ r.state = state /\ r \in KeyRecords
  BY <1>0 DEF Record, KeyRecords
<1>6. node' = [node EXCEPT ![d].down = IF state = "press" THEN @ \cup {code} ELSE @ \ {code}]
  BY <1>1
<1>7. /\ node' \in [Devices -> [plugged : BOOLEAN, down : SUBSET Codes]]
      /\ \A e \in Devices \ {d} : node'[e] = node[e]
      /\ node'[d].down = IF state = "press" THEN node[d].down \cup {code} ELSE node[d].down \ {code}
  BY <1>4, <1>6
<1>8. changed = [e \in Devices |-> node'[e].down] /\ Downs = [e \in Devices |-> node[e].down]
  BY <1>3 DEF Downs
<1>9. /\ changed \in [Devices -> SUBSET Codes]
      /\ \A e \in Devices : e # d => changed[e] = Downs[e]
      /\ \A e \in Devices : Downs[e] = node[e].down
      /\ \A c : c # code => (c \in changed[d] <=> c \in Downs[d])
      /\ state = "release" <=> code \in Downs[d]
      /\ state = "press" <=> code \in changed[d]
  BY <1>1, <1>7, <1>8
<1>10. fresh = {QueuedOpen(p, d, r) : p \in OpenSet}
  <2>1. /\ Range(devices') = {QueuedOpen(p, d, r) : p \in Range(devices)}
        /\ Range(inbox') = {QueuedOpen(p, d, r) : p \in Range(inbox)}
    BY <1>1, KernelRange
  <2> QED
    BY <1>3, <2>1 DEF OpenSet
<1>11. /\ \A p \in OpenSet : /\ DOMAIN p = OpenFields /\ p.dead \in BOOLEAN /\ p.shift \in BOOLEAN
                             /\ p.id \in Devices /\ p.queue \in Seq(Records) /\ (p.dead => p.queue = <<>>)
       /\ \A p, v \in OpenSet : p.id = v.id => p = v
  BY <1>4 DEF TypedOpens, IsOpen
<1>12. \A p \in OpenSet : p.id # d \/ p.dead => QueuedOpen(p, d, r) = p
  BY DEF QueuedOpen
<1>13. /\ Range(Opens) = OpenSet
       /\ \A c : c \in PendingOf(d) <=> \E o \in OpenSet : o.id = d /\ c \in KeyCodes(o.queue)
       /\ \A c : c \in PendingElsewhere(d) <=> \E o \in OpenSet : o.id # d /\ c \in KeyCodes(o.queue)
  BY PendingByNode
<1>14. missed \subseteq lost
  BY <1>2, <1>3
<1>15. (d \notin Live(Opens) \/ shared) => code \in lost
  BY <1>2, <1>3
<1>16. overrun => PendingOf(d) \subseteq lost /\ (PendingOf(d) \cap Shifts # {} => "SHIFT" \in lost)
  BY <1>2, <1>3
<1>17. d \in Live(Opens) <=> \E o \in OpenSet : o.id = d /\ ~o.dead
  BY <1>13 DEF Live
<1>18. ~session' => devices' = <<>>
  BY <1>1, KernelOpens DEF Following, Readers
<1>19. Follows(fresh, changed, keyboard, lost)
  <2>1. CASE \A o \in OpenSet : o.id = d => o.dead
    <3>1. fresh = OpenSet
      <4>1. \A p \in OpenSet : QueuedOpen(p, d, r) = p
        BY <1>12, <2>1
      <4> QED
        BY <1>10, <4>1
    <3>2. code \in lost
      BY <1>15, <1>17, <2>1
    <3>3. \A c \in Codes \ lost, e \in Devices : c \in changed[e] <=> c \in Downs[e]
      BY <1>9, <3>2
    <3>4. \A o \in fresh : \/ o \in OpenSet /\ changed[o.id] = Downs[o.id]
                           \/ o.queue = <<>> /\ (o.dead \/ ~o.shift)
      BY <1>9, <1>11, <2>1, <3>1
    <3> HIDE DEF overrun, shared
    <3> QED
      BY <1>4, <1>9, <1>14, <3>1, <3>3, <3>4, OpensChange
  <2>2. ASSUME NEW o \in OpenSet, o.id = d, ~o.dead
        PROVE  Follows(fresh, changed, keyboard, lost)
    <3>0. o.queue \in Seq(Records) /\ Len(o.queue) \in Nat /\ QueueSize \in Nat
      BY <1>11, LinuxConstants
    <3> DEFINE q == IF Len(o.queue) < QueueSize THEN Append(o.queue, r) ELSE <<Dropped, r>>
               u == [o EXCEPT !.queue = q]
    <3>1. QueuedOpen(o, d, r) = u
      BY <2>2 DEF QueuedOpen
    <3>2. /\ DOMAIN u = OpenFields /\ u.queue = q
          /\ u.id = o.id /\ u.dead = o.dead /\ u.shift = o.shift
      BY <1>11 DEF OpenFields
    <3>3. q = Append(o.queue, r) \/ q = <<Dropped, r>>
      OBVIOUS
    <3>4. q = Append(o.queue, r) \/ overrun
      BY <1>13, <2>2, <3>0
    <3>5. KeyCodes(o.queue) \subseteq PendingOf(d)
      BY <1>13, <2>2
    <3>6. q = Append(o.queue, r) \/
            /\ KeyCodes(o.queue) \subseteq lost
            /\ KeyCodes(o.queue) \cap Shifts # {} => "SHIFT" \in lost
      BY <1>16, <3>4, <3>5
    <3> HIDE DEF q, u
    <3>7. \A p \in OpenSet \ {o} : p.id # d /\ QueuedOpen(p, d, r) = p
      BY <1>11, <1>12, <2>2
    <3>8. fresh = (OpenSet \ {o}) \cup {u}
      BY <1>10, <3>1, <3>7
    <3>9. code \in lost \/ /\ \A p \in OpenSet \ {o} : code \notin KeyCodes(p.queue)
                           /\ \A e \in Devices \ {d} : code \notin Downs[e]
      BY <1>9, <1>13, <1>15, <3>7
    <3> HIDE DEF overrun, shared
    <3>10. Follows((OpenSet \ {o}) \cup {u}, changed, keyboard, lost)
      <4>1. /\ \A e \in Devices \ {o.id} : changed[e] = Downs[e]
            /\ \A c : c # r.code => (c \in changed[o.id] <=> c \in Downs[o.id])
            /\ r.state = "release" <=> r.code \in Downs[o.id]
            /\ r.state = "press" <=> r.code \in changed[o.id]
        BY <1>5, <1>9, <2>2
      <4>2. r.code \in lost \/ /\ \A p \in OpenSet \ {o} : r.code \notin KeyCodes(p.queue)
                               /\ \A e \in Devices \ {o.id} : r.code \notin Downs[e]
        BY <1>5, <2>2, <3>9
      <4> QED
        BY <1>4, <1>5, <1>9, <1>14, <2>2, <3>2, <3>3, <3>6, <4>1, <4>2, KeyChange
    <3> QED
      BY <3>8, <3>10
  <2> QED
    BY <2>1, <2>2
<1> QED
  BY <1>1, <1>3, <1>7, <1>18, <1>19 DEF Following

\* The task reads the queue of an open: each record is applied or lost.
LEMMA ReadFollows ==
    ASSUME Following, Readers', NEW lost, ReadBatch(lost)
    PROVE  Following'
<1>1. PICK st : st = Decoded(devices[index].id, devices[index].queue, lost)
  OBVIOUS
<1>2. /\ index <= Len(devices) /\ ~devices[index].dead
      /\ devices' = [devices EXCEPT ![index].queue = <<>>, ![index].shift = st.shift]
      /\ keyboard' = st.keyboard /\ missed' = st.missed
      /\ UNCHANGED <<node, session, inbox, index>>
  BY <1>1 DEF ReadBatch
<1>3. /\ Follows(OpenSet, Downs, keyboard, missed) /\ TypedOpens(OpenSet) /\ Readers
      /\ Range(Opens) = OpenSet
  BY PendingByNode DEF Following, Follows
<1>4. index \in DOMAIN devices
  BY <1>2, <1>3 DEF Readers, Distinct
<1> DEFINE o == devices[index]
           u == [o EXCEPT !.queue = <<>>, !.shift = st.shift]
<1>5. o \in Range(devices) /\ o \in OpenSet /\ Before.shift = o.shift
  BY <1>4 DEF Range, OpenSet, Before
<1>6. DOMAIN o = OpenFields /\ o.id \in Devices /\ o.queue \in Seq(Records)
  BY <1>3, <1>5 DEF TypedOpens, IsOpen
<1>7. devices' = [devices EXCEPT ![index] = u]
  BY <1>2
<1>8. /\ DOMAIN u = OpenFields /\ u.queue = <<>>
      /\ u.id = o.id /\ u.dead = o.dead /\ u.shift = st.shift
  BY <1>6 DEF OpenFields
<1>9. st = Decoded(o.id, o.queue, lost) /\ ~o.dead
  BY <1>1, <1>2
<1>10. \A i \in DOMAIN devices : i # index => devices[i] # o
  BY <1>3, <1>4 DEF Readers, Distinct
<1>11. o \notin Range(inbox)
  <2>1. o.id \in Ids(devices)
    BY <1>5 DEF Ids
  <2>2. \A p \in Range(inbox) : p.id \in Ids(inbox)
    BY DEF Ids
  <2> QED
    BY <1>3, <2>1, <2>2 DEF Readers
<1>12. Range(devices') = (Range(devices) \ {o}) \cup {u}
  <2>1. DOMAIN devices' = DOMAIN devices
    BY <1>7
  <2>2. \A i \in DOMAIN devices : devices'[i] = IF i = index THEN u ELSE devices[i]
    BY <1>7
  <2> HIDE DEF u
  <2>3. ASSUME NEW x \in Range(devices') PROVE x \in (Range(devices) \ {o}) \cup {u}
    BY <1>10, <2>1, <2>2 DEF Range
  <2>4. ASSUME NEW x \in (Range(devices) \ {o}) \cup {u} PROVE x \in Range(devices')
    BY <1>4, <2>1, <2>2 DEF Range
  <2> QED
    BY <2>3, <2>4
<1> HIDE DEF o, u
<1>13. OpenSet' = (OpenSet \ {o}) \cup {u}
  BY <1>2, <1>11, <1>12 DEF OpenSet
<1>14. /\ Decoding(o.id, o.queue, Downs[o.id], 0, Before)
       /\ \A c \in Codes \ missed :
            c \notin KeyCodes(o.queue) /\ c \in Downs[o.id] => IsPressed(keyboard, c)
  BY <1>3, <1>5, <1>9, DecodingStarts
<1>15. Truthful(o.queue, Downs[o.id])
  BY <1>3, <1>5 DEF Follows
<1>16. Decoding(o.id, o.queue, Downs[o.id], Len(o.queue), st)
  BY <1>6, <1>9, <1>14, <1>15, DecodingBatch
<1>17. Follows((OpenSet \ {o}) \cup {u}, Downs, st.keyboard, st.missed)
  BY <1>3, <1>5, <1>8, <1>9, <1>16, QueueRead
<1>18. Follows(OpenSet, Downs, keyboard, missed)'
  <2>1. Downs' = Downs
    BY <1>2 DEF Downs
  <2> QED
    BY <1>2, <1>13, <1>17, <2>1
<1>19. ~session' => devices' = <<>>
  BY <1>2, <1>4 DEF Following
<1> QED
  BY <1>2, <1>18, <1>19 DEF Following

\* Every step keeps it.
LEMMA FollowingStep ==
    ASSUME Following, [Next]_vars
    PROVE  Following'
<1>0. Readers' /\ Readers /\ Plugged \subseteq Devices
  BY ReadersStep DEF Following, Plugged
<1>a. node \in [Devices -> [plugged : BOOLEAN, down : SUBSET Codes]] /\ (~session => devices = <<>>)
  BY DEF Following
<1>b. ASSUME UNCHANGED <<node, keyboard, missed>>, ~session' => devices' = <<>>,
             \A o \in OpenSet' : o \in OpenSet \/ \E d \in Devices : o = Opened(d),
             \A o \in OpenSet : o \in OpenSet' \/ o.queue = <<>>
      PROVE  Following'
  BY <1>0, <1>a, <1>b, QuietStep DEF Following
<1>c. ASSUME NEW wanted \in SUBSET Devices, NEW order \in SetToAllKPermutations(wanted)
      PROVE  \A o \in Range(NewOpens(order)) : \E d \in Devices : o = Opened(d)
  <2>1. PICK S \in SUBSET wanted : order \in SetToSeqs(S)
    BY <1>c DEF SetToAllKPermutations
  <2>2. \A i \in DOMAIN order : order[i] \in Devices
    BY <2>1 DEF SetToSeqs
  <2> QED
    BY <2>2 DEF NewOpens, Range
<1>d. Range(<<>>) = {}
  BY DEF Range
<1>1. CASE UNCHANGED vars
  BY <1>1, <1>a, <1>b DEF vars, OpenSet
<1>2. ASSUME NEW d \in Devices, Plug(d)
      PROVE  Following'
  <2>1. /\ node' = [node EXCEPT ![d].plugged = TRUE]
        /\ UNCHANGED <<session, inbox, devices, keyboard, missed>>
    BY <1>2 DEF Plug
  <2>2. /\ node' \in [Devices -> [plugged : BOOLEAN, down : SUBSET Codes]]
        /\ \A e \in Devices : node'[e].down = node[e].down
    BY <1>a, <2>1
  <2>3. Downs' = Downs
    BY <2>2 DEF Downs
  <2> QED
    BY <1>0, <1>a, <2>1, <2>2, <2>3 DEF Following, OpenSet
<1>3. ASSUME NEW d \in Devices, Unplug(d)
      PROVE  Following'
  BY <1>0, <1>3, UnplugFollows
<1>4. ASSUME NEW d \in Devices, NEW code \in Codes, NEW state \in {"press", "release"},
             Key(d, code, state)
      PROVE  Following'
  BY <1>0, <1>4, KeyFollows
<1>5. ASSUME NEW order, Start(order)
      PROVE  Following'
  <2>1. /\ order \in SetToAllKPermutations(Plugged) /\ ~session /\ session' = TRUE
        /\ devices' = NewOpens(order) /\ UNCHANGED <<node, inbox, keyboard, missed>>
    BY <1>5 DEF Start
  <2>2. inbox = <<>> /\ devices = <<>>
    BY <1>0, <1>a, <2>1 DEF Readers
  <2>3. OpenSet = {} /\ OpenSet' = Range(NewOpens(order))
    BY <1>d, <2>1, <2>2 DEF OpenSet
  <2> QED
    BY <1>0, <1>b, <1>c, <2>1, <2>3
<1>6. CASE Stop
  <2>1. /\ devices' = <<>> /\ inbox' = <<>> /\ missed' = missed \cup Pending(Range(Opens))
        /\ UNCHANGED <<node, keyboard>>
    BY <1>6 DEF Stop
  <2>2. OpenSet' = {} /\ Downs' = Downs
    BY <1>d, <2>1 DEF OpenSet, Downs
  <2>3. /\ Follows(OpenSet, Downs, keyboard, missed) /\ Downs \in [Devices -> SUBSET Codes]
    BY DEF Following, Follows
  <2>4. PICK lost : lost = missed \cup Pending(Range(Opens))
    OBVIOUS
  <2>5. \A o \in OpenSet : KeyCodes(o.queue) \subseteq lost
    BY <2>4, PendingByNode
  <2>6. TypedOpens({})
    BY DEF TypedOpens
  <2>7. missed \subseteq lost
    BY <2>4
  <2>8. Follows({}, Downs, keyboard, lost)
    BY <2>3, <2>5, <2>6, <2>7, OpensChange
  <2> QED
    BY <1>0, <1>a, <2>1, <2>2, <2>4, <2>8 DEF Following
<1>7. CASE TimedOut \/ Returned \/ ReadEnds \/ DrainDone
  <2>1. UNCHANGED <<node, session, inbox, devices, keyboard, missed>>
    BY <1>7 DEF TimedOut, Returned, ReadEnds, DrainDone
  <2> QED
    BY <1>a, <1>b, <2>1 DEF OpenSet
<1>8. ASSUME NEW order, Rescan(order)
      PROVE  Following'
  <2>1. /\ order \in SetToAllKPermutations(Plugged \ Known)
        /\ inbox' = inbox \o NewOpens(order)
        /\ UNCHANGED <<node, session, devices, keyboard, missed>>
    BY <1>8 DEF Rescan, Scan
  <2>2. Plugged \ Known \in SUBSET Devices
    BY <1>0
  <2>3. Distinct(NewOpens(order))
    BY <2>1, <2>2, ScannedOpens
  <2>4. Range(inbox') = Range(inbox) \cup Range(NewOpens(order))
    BY <1>0, <2>1, <2>3, JoinedRange DEF Readers
  <2>5. OpenSet' = OpenSet \cup Range(NewOpens(order))
    BY <2>1, <2>4 DEF OpenSet
  <2>6. \A o \in Range(NewOpens(order)) : \E d \in Devices : o = Opened(d)
    BY <1>c, <2>1, <2>2
  <2> QED
    BY <1>a, <1>b, <2>1, <2>5, <2>6
<1>9. CASE Adopt
  <2>1. devices' = Opens /\ inbox' = <<>> /\ UNCHANGED <<node, session, keyboard, missed>> /\ pc = "adopt"
    BY <1>9 DEF Adopt
  <2>2. OpenSet' = OpenSet
    BY <1>d, <2>1, PendingByNode DEF OpenSet
  <2>3. session
    BY <1>0, <2>1 DEF Readers
  <2> QED
    BY <1>b, <2>1, <2>2, <2>3
<1>10. ASSUME NEW lost, ReadBatch(lost)
       PROVE  Following'
  BY <1>0, <1>10, ReadFollows
<1>11. CASE Retire
  <2>1. /\ pc = "drain" /\ index <= Len(devices)
        /\ devices' = SubSeq([devices EXCEPT ![index] = devices[Len(devices)]], 1, Len(devices) - 1)
        /\ missed' = missed \cup Pending({devices[index]})
        /\ UNCHANGED <<node, session, inbox, keyboard>>
    BY <1>11 DEF Retire
  <2>2. index \in DOMAIN devices
    BY <1>0, <2>1 DEF Readers, Distinct
  <2>3. Range(devices') \subseteq Range(devices) /\ Range(devices) \subseteq Range(devices') \cup {devices[index]}
    BY <1>0, <2>1, <2>2, RetiredOpens DEF Readers
  <2>4. session
    BY <1>0, <2>1 DEF Readers
  <2>5. /\ OpenSet' \subseteq OpenSet
        /\ \A o \in OpenSet : o \in OpenSet' \/ o = devices[index]
    BY <2>1, <2>3 DEF OpenSet
  <2>6. PICK lost : lost = missed \cup Pending({devices[index]})
    OBVIOUS
  <2>7. KeyCodes(devices[index].queue) \subseteq lost
    <3>1. devices[index] \in OpenSet
      BY <2>2 DEF OpenSet, Range
    <3>2. \A o \in {devices[index]} : o.queue \in Seq(Records)
      BY <3>1 DEF Following, Follows, TypedOpens
    <3> QED
      BY <2>6, <3>2, PendingCodes
  <2>8. /\ Follows(OpenSet, Downs, keyboard, missed) /\ Downs \in [Devices -> SUBSET Codes]
        /\ Downs' = Downs
    BY <2>1 DEF Following, Follows, Downs
  <2>9. PICK fresh : fresh = OpenSet'
    OBVIOUS
  <2>10. TypedOpens(fresh)
    BY <2>5, <2>8, <2>9 DEF Follows, TypedOpens
  <2>11. \A o \in OpenSet : o \in fresh \/ KeyCodes(o.queue) \subseteq lost
    BY <2>5, <2>7, <2>9
  <2>12. missed \subseteq lost
    BY <2>6
  <2>13. Follows(fresh, Downs, keyboard, lost)
    BY <2>5, <2>8, <2>9, <2>10, <2>11, <2>12, OpensChange
  <2> QED
    BY <1>0, <1>a, <2>1, <2>4, <2>6, <2>8, <2>9, <2>13 DEF Following
<1> QED
  BY <1>1, <1>2, <1>3, <1>4, <1>5, <1>6, <1>7, <1>8, <1>9, <1>10, <1>11
  DEF Next, InPoll

\* No open, no key down, nothing stored.
LEMMA FollowingInit == Init => Following
<1> SUFFICES ASSUME Init PROVE Following
  OBVIOUS
<1>1. PICK start \in Hashes : keyboard = NewKeyboard(start)
  BY DEF Init
<1>2. /\ node \in [Devices -> [plugged : BOOLEAN, down : {{}}]] /\ devices = <<>> /\ inbox = <<>>
      /\ missed = {} /\ Readers
  BY NoOpens DEF Init, Readers
<1>3. node \in [Devices -> [plugged : BOOLEAN, down : SUBSET Codes]] /\ \A d \in Devices : node[d].down = {}
  BY <1>2
<1>4. OpenSet = {}
  BY <1>2 DEF OpenSet, Range
<1>5. Downs \in [Devices -> SUBSET Codes] /\ \A e \in Devices : Downs[e] = {}
  BY <1>3 DEF Downs
<1>6. /\ DOMAIN keyboard = {"start", "pressed", "held", "native"}
      /\ keyboard.start = start /\ keyboard.pressed = {} /\ keyboard.held = FALSE
      /\ keyboard.native = [i \in Indices |-> Empty]
  BY <1>1 DEF NewKeyboard
<1>7. start \in [Native -> Indices] /\ Empty \notin Native
  BY LinuxConstants, KeyboardConstants
<1>8. WellFormed(keyboard) /\ \A c \in Native : Stored(keyboard, c) = {}
  <2>1. \A c \in Native, s \in Indices : keyboard.start[c] \in Indices
    BY <1>6, <1>7
  <2>2. \A c \in Native, s \in Indices : Probe(keyboard, c, s) \in Indices
    <3> SUFFICES ASSUME NEW c \in Native, NEW s \in Indices PROVE Probe(keyboard, c, s) \in Indices
      OBVIOUS
    <3>1. \A x \in Nat : x % Slots \in 0..Slots - 1
      BY KeyboardConstants
    <3>2. keyboard.start[c] + s \in Nat
      BY <2>1, KeyboardConstants DEF Indices
    <3> QED
      BY <3>1, <3>2 DEF Probe, Indices
  <2>3. \A c \in Native, i \in Indices : keyboard.native[i] # c
    BY <1>6, <1>7
  <2>4. keyboard.native \in [Indices -> Native \cup {Empty, Tombstone}]
    BY <1>6
  <2> QED
    BY <1>6, <1>7, <2>2, <2>3, <2>4 DEF WellFormed, Stored
<1>9. ASSUME NEW c \in Codes PROVE KeyExact(OpenSet, Downs, keyboard, c)
  <2>1. ~IsPressed(keyboard, c)
    BY <1>6, <1>8, PressedIsStored
  <2> QED
    BY <1>4, <1>5, <1>8, <2>1 DEF KeyExact, Once, Codes
<1>10. TypedOpens(OpenSet)
  BY <1>4 DEF TypedOpens
<1>11. Follows(OpenSet, Downs, keyboard, missed)
  BY <1>4, <1>5, <1>6, <1>8, <1>9, <1>10 DEF Follows
<1> QED
  BY <1>2, <1>3, <1>11 DEF Following

\* The invariant of the kernel's queues, the decoding of a batch and the keyboard state
\* (task.rs, state.rs).
THEOREM KeyboardFollows == Spec => []Following
<1>1. Following /\ [Next]_vars => Following'
  BY FollowingStep
<1> QED
  BY <1>1, FollowingInit, PTL DEF Spec

\* For any keyboards, any number of keys, slots and records in a queue and any hash: a key
\* of which nothing is on its way and nothing was missed is held in the keyboard state
\* exactly when it is down, and the shift flag agrees with the shifts.
THEOREM KeyboardStaysCurrent == Spec => []KeyboardIsCurrent
<1>1. Following => KeyboardIsCurrent
  <2> SUFFICES ASSUME Following PROVE KeyboardIsCurrent
    OBVIOUS
  <2> DEFINE known == Codes \ (missed \cup Pending(Range(Opens)))
  <2>1. \A c \in known : /\ c \in Codes \ missed
                         /\ \A o \in OpenSet : c \notin KeyCodes(o.queue)
    BY PendingByNode
  <2>2. \A c : c \in Down <=> \E e \in Devices : c \in Downs[e]
    BY DEF Down, Downs
  <2> HIDE DEF known
  <2>3. \A c \in known : IsPressed(keyboard, c) <=> c \in Down
    BY <2>1, <2>2 DEF Following, Follows, KeyExact
  <2>4. ASSUME Shifts \subseteq known, "SHIFT" \notin missed
        PROVE  keyboard.held <=> Shifts \cap Down # {}
    <3>1. Shifts \cap missed = {}
      BY <2>1, <2>4
    <3>2. keyboard.held <=> keyboard.pressed \cap Shifts # {}
      BY <2>4, <3>1 DEF Following, Follows
    <3>3. \A c \in Shifts : c \notin Native
      BY KeyboardConstants
    <3>4. \A c \in Shifts : c \in keyboard.pressed <=> c \in Down
      BY <2>3, <2>4, <3>3 DEF IsPressed
    <3> QED
      BY <3>2, <3>4
  <2> QED
    BY <2>3, <2>4 DEF KeyboardIsCurrent, known
<1> QED
  BY <1>1, KeyboardFollows, PTL

\* The native set answers for what its slots hold: a probe over tombstones and other codes
\* finds a code exactly when some slot has it, and of a code that missed no transition
\* there is one slot at most, so that native_remove leaves none behind.
NativeSetIsExact ==
    \A c \in Native :
        /\ NativeContains(keyboard, c) <=> \E i \in Indices : keyboard.native[i] = c
        /\ c \notin missed => \A i, j \in Indices :
             keyboard.native[i] = c /\ keyboard.native[j] = c => i = j

\* native_insert, native_remove and native_contains (state.rs) keep it, whatever was lost.
THEOREM NativeSetStaysExact == Spec => []NativeSetIsExact
<1>1. Following => NativeSetIsExact
  <2> SUFFICES ASSUME Following, NEW c \in Native
               PROVE  /\ NativeContains(keyboard, c) <=> \E i \in Indices : keyboard.native[i] = c
                      /\ c \notin missed => \A i, j \in Indices :
                           keyboard.native[i] = c /\ keyboard.native[j] = c => i = j
    BY DEF NativeSetIsExact
  <2>1. WellFormed(keyboard) /\ (c \notin missed => KeyExact(OpenSet, Downs, keyboard, c))
    BY DEF Following, Follows, Codes
  <2>2. NativeContains(keyboard, c) <=> Stored(keyboard, c) # {}
    BY <2>1, ContainsIsStored
  <2>3. c \notin missed => Once(keyboard, c)
    BY <2>1 DEF KeyExact
  <2> QED
    BY <2>2, <2>3 DEF Stored, Once
<1> QED
  BY <1>1, KeyboardFollows, PTL

\* "The set holds NATIVE_SLOTS codes" (state.rs): while no native code has missed a
\* transition and fewer than that are held, a press finds a slot, wherever the hashes
\* collide and however many tombstones there are.
NativeSetHolds ==
    Native \cap missed = {} /\ Cardinality({x \in Native : NativeContains(keyboard, x)}) < Slots
        => \A c \in Native : HasSlot(keyboard, c)

\* native_insert gives up only with every slot held by another code.
THEOREM NativeSetHasRoom == Spec => []NativeSetHolds
<1>1. Following => NativeSetHolds
  <2> SUFFICES ASSUME Following, Native \cap missed = {}, NEW c \in Native, ~HasSlot(keyboard, c)
               PROVE  ~(Cardinality({x \in Native : NativeContains(keyboard, x)}) < Slots)
    BY DEF NativeSetHolds
  <2> DEFINE held == {x \in Native : NativeContains(keyboard, x)}
             f == keyboard.native
  <2>1. WellFormed(keyboard) /\ \A x \in Native : Once(keyboard, x)
    <3>1. \A x \in Native : x \in Codes \ missed
      BY DEF Codes
    <3> QED
      BY <3>1 DEF Following, Follows, KeyExact
  <2>2. \A x \in Native : x \in held <=> \E i \in Indices : f[i] = x
    BY <2>1, ContainsIsStored DEF Stored
  <2>3. f \in [Indices -> held]
    <3>1. \A i \in Indices : f[i] \in Native
      <4> SUFFICES ASSUME NEW i \in Indices PROVE f[i] \in Native
        OBVIOUS
      <4>1. PICK s \in Indices : Probe(keyboard, c, s) = i
        BY <2>1, ProbeVisits
      <4>2. f[i] \notin {c, Empty, Tombstone}
        BY <4>1 DEF HasSlot, Stops
      <4> QED
        BY <2>1, <4>2 DEF WellFormed
    <3>2. \A i \in Indices : f[i] \in held
      BY <2>2, <3>1
    <3> HIDE DEF held
    <3> QED
      BY <2>1, <3>2 DEF WellFormed
  <2>4. \A i, j \in Indices : f[i] = f[j] => i = j
    <3> SUFFICES ASSUME NEW i \in Indices, NEW j \in Indices, f[i] = f[j] PROVE i = j
      OBVIOUS
    <3>1. f[i] \in Native /\ i \in Stored(keyboard, f[i]) /\ j \in Stored(keyboard, f[i])
      BY <2>3 DEF Stored
    <3> QED
      BY <2>1, <3>1 DEF Once
  <2>5. f \in Bijection(Indices, held)
    <3> HIDE DEF f
    <3>1. f \in Injection(Indices, held)
      BY <2>3, <2>4 DEF Injection, IsInjective
    <3>2. \A x \in held : \E i \in Indices : f[i] = x
      BY <2>2
    <3> HIDE DEF held
    <3> QED
      BY <2>3, <3>1, <3>2 DEF Bijection, Surjection
  <2>6. IsFiniteSet(Indices) /\ Cardinality(Indices) = Slots
    <3>1. 0 \in Int /\ Slots - 1 \in Int /\ Slots > 0 /\ Slots \in Nat
      BY KeyboardConstants
    <3> QED
      BY <3>1, FS_Interval DEF Indices
  <2>7. Cardinality(held) = Slots
    <3> HIDE DEF held
    <3> QED
      BY <2>5, <2>6, FS_Bijection DEF ExistsBijection
  <2> QED
    BY <2>7, KeyboardConstants
<1> QED
  BY <1>1, KeyboardFollows, PTL
=============================================================================
