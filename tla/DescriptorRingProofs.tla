------------------------ MODULE DescriptorRingProofs ------------------------
(***************************************************************************)
(* Proofs about the descriptor ring of the AMP peer and the accelerator,   *)
(* for any number of slots, index width, launches and behaviours of any    *)
(* length, and any number of host threads as long as one agent at a time   *)
(* runs the service loop: always so in remote mode, and in cooperative     *)
(* mode when one host thread uses the device.                              *)
(***************************************************************************)
EXTENDS DescriptorRing, Integers, TLAPS

\* One agent at a time consumes the ring.  Two hosts that share a cooperative
\* device may serve the same descriptor twice, and nothing below holds of them.
SoleConsumer == "cooperative" \in Modes => \A g, h \in CooperativeHosts : g = h

AgentPc ==
    {"out", "asleep", "wait", "nap wait", "reap", "scan"} \cup DispatchPc \cup ServicePc
AgentRecord ==
    [pc : AgentPc, launch : Launches \cup {0}, slot : SlotIds, attempts : 0..MaxAttempts,
     head : 0..IndexMod - 1, served : Launches \cup {0}, ok : BOOLEAN,
     scan : SUBSET Entries, back : {"out", "nap find", "nap wait", "unlock"}]
SlotRecord == [status : {"EMPTY", "PENDING", "DONE", "ERROR"}, launch : Launches \cup {0}]
JobRecord ==
    [ran : Nat, failed : BOOLEAN,
     status : {"queued", "submitted", "running", "complete", "error", "refused"}]
-----------------------------------------------------------------------------
(* The inductive invariant.  The predicates on an agent's record x say which *)
(* part of a call it is in.                                                 *)

InProgress == {"reap", "scan"} \cup ServicePc

\* dispatch, up to the publish point ...
Unpublished(x) ==
    \/ x.pc \in {"lock", "reserve", "find", "nap find", "write", "publish"}
    \/ x.pc \in InProgress /\ x.back = "nap find"

\* ... up to CL_RUNNING ...
Submitting(x) == Unpublished(x) \/ x.pc \in {"tail", "ring", "running"}

\* ... and while it holds the submit lock.
Holding(x) ==
    \/ Submitting(x) /\ x.pc # "lock"
    \/ x.pc \in {"push", "unlock"}
    \/ x.pc \in InProgress /\ x.back = "unlock"

\* The slot a publisher has filled and not yet put in flight.
Placed(x, s) ==
    \/ x.pc = "tail" /\ s = SlotOf(tail)
    \/ x.pc \in {"ring", "running", "push"} /\ s = x.slot

\* The service loop is at a descriptor; it has executed it.
Serving(x, s) == x.pc \in {"copy", "run", "post"} /\ s = SlotOf(x.head)
Posting(x, s) == x.pc = "post" /\ s = SlotOf(x.head)

\* Who runs what, and who holds which lock.
Roles ==
    /\ agent[Engine].pc \in {"asleep"} \cup ServicePc
    /\ Cooperative => agent[Engine].pc = "asleep"
    /\ \A h \in Hosts :
         /\ agent[h].pc # "asleep"
         /\ agent[h].pc \in ServicePc => Cooperative
         /\ Holding(agent[h]) => submit = h
         /\ agent[h].pc = "scan" => reaping = h /\ agent[h].scan \subseteq inflight

\* In cooperative mode only the threads that use the device are inside a call.
Users == Cooperative => \A h \in Hosts \ CooperativeHosts : agent[h].pc = "out"

\* A launch belongs to one submitter until it runs, and to no slot until it is
\* published.
Submitters ==
    \A h \in Hosts :
        /\ Submitting(agent[h]) =>
             /\ agent[h].launch \in Launches
             /\ jobs[agent[h].launch].status = "submitted"
             /\ \A g \in Hosts \ {h} :
                  Submitting(agent[g]) => agent[g].launch # agent[h].launch
        /\ Unpublished(agent[h]) =>
             /\ jobs[agent[h].launch].ran = 0 /\ ~jobs[agent[h].launch].failed
             /\ \A s \in SlotIds :
                  slots[s].status # "EMPTY" => slots[s].launch # agent[h].launch
        /\ agent[h].pc = "push" =>
             agent[h].launch \in Launches /\ jobs[agent[h].launch].status = "running"

\* The slot at tail while its payload is written, and the slot just published.
Publishers ==
    \A h \in Hosts :
        /\ agent[h].pc \in {"write", "publish"} => slots[SlotOf(tail)].status = "EMPTY"
        /\ agent[h].pc = "publish" => slots[SlotOf(tail)].launch = agent[h].launch
        /\ \A s \in SlotIds : Placed(agent[h], s) =>
             /\ slots[s].status # "EMPTY" /\ slots[s].launch = agent[h].launch
             /\ \A e \in inflight : e.slot # s

\* The service loop's slot stays PENDING under it until it posts the result.
Servers ==
    \A a \in Agents, s \in SlotIds : Serving(agent[a], s) =>
        /\ slots[s].status = "PENDING"
        /\ agent[a].pc \in {"run", "post"} => agent[a].served = slots[s].launch

\* What an occupied slot says of its launch.
Occupied ==
    \A s \in SlotIds : slots[s].status # "EMPTY" =>
        /\ slots[s].launch \in Launches
        /\ jobs[slots[s].launch].status \in {"submitted", "running"}
        /\ \A t \in SlotIds \ {s} : slots[t].status # "EMPTY" => slots[t].launch # slots[s].launch
        /\ slots[s].status = "DONE" =>
             jobs[slots[s].launch].ran = 1 /\ ~jobs[slots[s].launch].failed
        /\ slots[s].status = "ERROR" =>
             jobs[slots[s].launch].ran = 1 /\ jobs[slots[s].launch].failed
        /\ \A a \in Agents : Posting(agent[a], s) =>
             /\ jobs[slots[s].launch].ran = 1
             /\ jobs[slots[s].launch].failed = ~agent[a].ok
        /\ slots[s].status = "PENDING" /\ (\A a \in Agents : ~Posting(agent[a], s)) =>
             jobs[slots[s].launch].ran = 0 /\ ~jobs[slots[s].launch].failed

\* What the in-flight list says of slots and launches.
InFlight ==
    \A e \in inflight :
        /\ slots[e.slot].status # "EMPTY" /\ slots[e.slot].launch = e.launch
        /\ jobs[e.launch].status = "running"

\* A launch is executed at most once, and not before it was submitted.
Executions ==
    \A l \in Launches :
        /\ jobs[l].ran \in {0, 1}
        /\ jobs[l].status = "queued" => jobs[l].ran = 0 /\ ~jobs[l].failed

RingInv ==
    TypeOK /\ Roles /\ Submitters /\ Publishers /\ Servers /\ Occupied /\ InFlight
    /\ Executions /\ NoSlotLeaks

\* The indices, as positions that never wrap: the slots from position b up to the
\* publisher's are PENDING, and no other is.
Published == IF \E h \in Hosts : agent[h].pc = "tail" THEN 1 ELSE 0
Window(b, t) ==
    /\ tail = t % IndexMod
    /\ \A a \in Agents :
         /\ agent[a].pc \in {"copy", "run", "post", "advance"} => agent[a].head = head
         /\ agent[a].pc \in {"copy", "run", "post"} => b < t
    /\ IF \E a \in Agents : agent[a].pc = "advance"
       THEN b > 0 /\ head = (b - 1) % IndexMod ELSE head = b % IndexMod
    /\ b <= t /\ t + Published <= b + Slots
    /\ \A p \in b..t + Published - 1 : slots[SlotOf(p)].status = "PENDING"
    /\ \A p \in t + Published..b + Slots - 1 : slots[SlotOf(p)].status # "PENDING"

Ordered == \E b, t \in Nat : Window(b, t)
-----------------------------------------------------------------------------
(* Types.                                                                   *)

\* The constants, as the integers the arithmetic below is about.
LEMMA RingNumbers ==
    /\ Slots \in Nat /\ Slots > 0 /\ IndexMod \in Nat /\ IndexMod > 0
    /\ IndexMod % Slots = 0
    /\ 0 \in SlotIds /\ 0 \in 0..IndexMod - 1 /\ 0 \in 0..MaxAttempts
BY RingConstants DEF SlotIds

\* An index has a slot and a successor.
LEMMA IndexTypes ==
    ASSUME NEW x \in Nat
    PROVE  SlotOf(x) \in SlotIds /\ Succ(x) \in 0..IndexMod - 1
<1>1. \A m \in Nat : m > 0 => x % m \in 0..m - 1 /\ (x + 1) % m \in 0..m - 1
  OBVIOUS
<1> QED
  BY <1>1, RingNumbers DEF SlotOf, Succ, SlotIds

\* The indices an agent holds are indices.
LEMMA StateTypes ==
    ASSUME TypeOK
    PROVE  /\ agent \in [Agents -> AgentRecord] /\ slots \in [SlotIds -> SlotRecord]
           /\ jobs \in [Launches -> JobRecord]
           /\ tail \in Nat /\ head \in Nat /\ SlotOf(tail) \in SlotIds
           /\ SlotOf(head) \in SlotIds
           /\ \A a \in Agents : agent[a].head \in Nat /\ SlotOf(agent[a].head) \in SlotIds
           /\ Engine \in Agents /\ Engine \notin Hosts /\ Hosts \subseteq Agents
<1>1. /\ agent \in [Agents -> AgentRecord] /\ slots \in [SlotIds -> SlotRecord]
      /\ jobs \in [Launches -> JobRecord]
      /\ tail \in 0..IndexMod - 1 /\ head \in 0..IndexMod - 1
  BY DEF TypeOK, AgentRecord, AgentPc, SlotRecord, JobRecord
<1>2. \A a \in Agents : agent[a].head \in 0..IndexMod - 1
  BY <1>1 DEF AgentRecord
<1>3. \A x \in 0..IndexMod - 1 : x \in Nat
  BY RingNumbers
<1>4. tail \in Nat /\ head \in Nat /\ \A a \in Agents : agent[a].head \in Nat
  BY <1>1, <1>2, <1>3
<1> QED
  BY <1>1, <1>4, IndexTypes, RingConstants DEF Agents

\* An agent that enters or leaves a call.
LEMMA NewAgentTypes ==
    ASSUME NEW p \in AgentPc, NEW l \in Launches \cup {0}
    PROVE  /\ NewAgent(p) \in AgentRecord /\ NewAgent(p).pc = p
           /\ [NewAgent(p) EXCEPT !.launch = l] \in AgentRecord
           /\ [NewAgent(p) EXCEPT !.launch = l].pc = p
           /\ [NewAgent(p) EXCEPT !.launch = l].launch = l
<1> DEFINE z == 0
           e == {}
<1>1. /\ z \in Launches \cup {0} /\ z \in SlotIds /\ z \in 0..MaxAttempts
      /\ z \in 0..IndexMod - 1 /\ e \in SUBSET Entries
  BY RingNumbers
<1>2. NewAgent(p) = [pc |-> p, launch |-> z, slot |-> z, attempts |-> z, head |-> z,
                     served |-> z, ok |-> TRUE, scan |-> e, back |-> "out"]
  BY DEF NewAgent
<1> HIDE DEF z, e
<1>3. NewAgent(p) \in AgentRecord /\ NewAgent(p).pc = p
  BY <1>1, <1>2 DEF AgentRecord
<1> DEFINE r == [NewAgent(p) EXCEPT !.launch = l]
<1>4. r \in AgentRecord /\ r.pc = p /\ r.launch = l
  BY <1>3 DEF AgentRecord
<1> QED
  BY <1>3, <1>4

\* The agents that run the service loop are one.
LEMMA OneServer ==
    ASSUME SoleConsumer, Users, RingInv, NEW a \in Agents, NEW b \in Agents,
           agent[a].pc \in ServicePc, agent[b].pc \in ServicePc
    PROVE  a = b
<1>1. CASE Cooperative
  <2>1. a # Engine /\ b # Engine
    BY <1>1 DEF RingInv, Roles, ServicePc
  <2>2. a \in CooperativeHosts /\ b \in CooperativeHosts
    BY <1>1, <2>1 DEF Users, Agents, ServicePc
  <2> QED
    BY <1>1, <2>2 DEF SoleConsumer, RingInv, TypeOK, Cooperative
<1>2. CASE ~Cooperative
  BY <1>2 DEF RingInv, Roles, Agents
<1> QED
  BY <1>1, <1>2
-----------------------------------------------------------------------------
(* Steps that touch neither the slots nor the launches.                     *)

\* What such a step of one agent must respect to keep the invariant.
LEMMA QuietStep ==
    ASSUME RingInv, NEW a \in Agents, NEW r \in AgentRecord,
           agent' = [agent EXCEPT ![a] = r],
           UNCHANGED <<mode, tail, slots, inflight, jobs>>,
           head' \in 0..IndexMod - 1, bell' \in BOOLEAN, wake' \in [Hosts -> BOOLEAN],
           submit' \in Hosts \cup {NoHost}, reaping' \in Hosts \cup {NoHost},
           a = Engine => ~Cooperative /\ r.pc \in {"asleep"} \cup ServicePc,
           a \in Hosts =>
             /\ r.pc # "asleep" /\ (r.pc \in ServicePc => Cooperative)
             /\ Holding(r) => submit' = a
             /\ r.pc = "scan" => reaping' = a /\ r.scan \subseteq inflight
             /\ Submitting(r) =>
                  Unpublished(r) /\ Unpublished(agent[a]) /\ r.launch = agent[a].launch,
           \A g \in Hosts \ {a} :
             (submit = g => submit' = g) /\ (reaping = g => reaping' = g),
           {r.pc, agent[a].pc} \cap {"tail", "ring", "running", "push", "post"} = {},
           r.pc # "publish",
           r.pc = "write" => slots[SlotOf(tail)].status = "EMPTY",
           \A s \in SlotIds : Serving(r, s) =>
             /\ slots[s].status = "PENDING"
             /\ r.pc = "run" => r.served = slots[s].launch
    PROVE  RingInv'
<1> USE DEF RingInv
<1>1. /\ agent \in [Agents -> AgentRecord] /\ agent' \in [Agents -> AgentRecord]
      /\ agent'[a] = r /\ \A c \in Agents \ {a} : agent'[c] = agent[c]
      /\ Engine \in Agents /\ Engine \notin Hosts /\ Hosts \subseteq Agents
  BY StateTypes
<1>2. TypeOK'
  BY <1>1 DEF TypeOK, AgentRecord, AgentPc
<1>3. Roles'
  <2>1. /\ agent'[Engine].pc \in {"asleep"} \cup ServicePc
        /\ Cooperative => agent'[Engine].pc = "asleep"
    BY <1>1 DEF Roles
  <2>2. ASSUME NEW h \in Hosts
        PROVE  /\ agent'[h].pc # "asleep"
               /\ agent'[h].pc \in ServicePc => Cooperative
               /\ Holding(agent'[h]) => submit' = h
               /\ agent'[h].pc = "scan" => reaping' = h /\ agent'[h].scan \subseteq inflight
    <3>1. CASE h = a
      BY <1>1, <2>2, <3>1
    <3>2. CASE h # a
      BY <1>1, <2>2, <3>2 DEF Roles
    <3> QED
      BY <3>1, <3>2
  <2> QED
    BY <2>1, <2>2 DEF Roles, Cooperative
<1>4. Submitters'
  <2>1. \A h \in Hosts : Submitting(agent'[h]) =>
          Submitting(agent[h]) /\ agent'[h].launch = agent[h].launch
    BY <1>1 DEF Submitting
  <2>2. \A h \in Hosts : Unpublished(agent'[h]) => Unpublished(agent[h])
    BY <1>1 DEF Submitting
  <2>3. \A h \in Hosts : agent'[h].pc = "push" => agent'[h] = agent[h]
    BY <1>1
  <2> QED
    BY <2>1, <2>2, <2>3 DEF Submitters, Submitting
<1>5. Publishers' /\ NoSlotLeaks'
  <2>1. \A h \in Hosts : agent'[h] = agent[h] \/ h = a
    BY <1>1
  <2>2. \A h \in Hosts :
          /\ agent'[h].pc \in {"tail", "ring", "running", "push", "publish"} =>
               agent'[h] = agent[h]
          /\ agent[h].pc \in {"tail", "ring", "running", "push"} => agent'[h] = agent[h]
    BY <1>1, <2>1
  <2>3. Publishers'
    <3> SUFFICES ASSUME NEW h \in Hosts
                 PROVE  /\ agent'[h].pc \in {"write", "publish"} =>
                             slots[SlotOf(tail)].status = "EMPTY"
                        /\ agent'[h].pc = "publish" =>
                             slots[SlotOf(tail)].launch = agent'[h].launch
                        /\ \A s \in SlotIds : Placed(agent'[h], s) =>
                             /\ slots[s].status # "EMPTY" /\ slots[s].launch = agent'[h].launch
                             /\ \A e \in inflight : e.slot # s
      BY DEF Publishers, Placed
    <3>1. CASE agent'[h] = agent[h]
      BY <3>1 DEF Publishers
    <3>2. CASE agent'[h] # agent[h]
      BY <1>1, <2>1, <2>2, <3>2 DEF Placed
    <3> QED
      BY <3>1, <3>2
  <2>4. NoSlotLeaks'
    <3> SUFFICES ASSUME NEW s \in SlotIds, slots[s].status # "EMPTY"
                 PROVE  \/ \E e \in inflight : e.slot = s
                        \/ \E h \in Hosts :
                             \/ agent'[h].pc = "tail" /\ SlotOf(tail) = s
                             \/ agent'[h].pc \in {"ring", "running", "push"} /\ agent'[h].slot = s
      BY DEF NoSlotLeaks, SlotOf
    <3> QED
      BY <2>2 DEF NoSlotLeaks
  <2> QED
    BY <2>3, <2>4
<1>6. Servers'
  BY <1>1 DEF Servers, Serving
<1>7. Occupied'
  <2>1. \A c \in Agents, s \in SlotIds :
          /\ Posting(agent'[c], s) <=> Posting(agent[c], s)
          /\ Posting(agent[c], s) => agent'[c] = agent[c]
    BY <1>1 DEF Posting
  <2> QED
    BY <2>1 DEF Occupied, Posting
<1>8. InFlight' /\ Executions'
  BY DEF InFlight, Executions
<1> QED
  BY <1>2, <1>3, <1>4, <1>5, <1>6, <1>7, <1>8

\* An agent that only goes to another control point.
LEMMA GotoTypes ==
    ASSUME TypeOK, NEW a \in Agents, NEW p \in AgentPc
    PROVE  /\ [agent[a] EXCEPT !.pc = p] \in AgentRecord
           /\ [agent[a] EXCEPT !.pc = p].pc = p
           /\ [agent[a] EXCEPT !.pc = p].back = agent[a].back
           /\ [agent[a] EXCEPT !.pc = p].launch = agent[a].launch
           /\ [agent[a] EXCEPT !.pc = p].slot = agent[a].slot
           /\ [agent[a] EXCEPT !.pc = p].head = agent[a].head
           /\ [agent[a] EXCEPT !.pc = p].served = agent[a].served
           /\ [agent[a] EXCEPT !.pc = p].ok = agent[a].ok
           /\ Goto(a, p) => agent' = [agent EXCEPT ![a] = [agent[a] EXCEPT !.pc = p]]
BY StateTypes DEF AgentRecord, Goto

\* The control points.
LEMMA Pcs ==
    /\ AgentPc = {"out", "asleep", "wait", "nap wait", "reap", "scan", "lock", "reserve",
                  "find", "nap find", "unlock", "write", "publish", "tail", "ring", "running",
                  "push", "serve", "copy", "run", "post", "advance", "sev"}
    /\ ServicePc = {"serve", "copy", "run", "post", "advance", "sev"}
    /\ InProgress = {"reap", "scan", "serve", "copy", "run", "post", "advance", "sev"}
BY DEF AgentPc, DispatchPc, ServicePc, PublishPc, InProgress

\* dispatch takes the submit lock and looks for a slot.
LEMMA DispatchQuiet ==
    ASSUME RingInv, NEW h \in Hosts, LockSubmit(h) \/ Reserve(h) \/ FindSlot(h)
    PROVE  RingInv'
<1>1. /\ TypeOK /\ h \in Agents /\ h # Engine
  BY StateTypes DEF RingInv
<1>2. PICK p \in {"reserve", "find", "write"} :
        /\ Goto(h, p)
        /\ p = "write" => slots[SlotOf(tail)].status = "EMPTY"
        /\ agent[h].pc \in {"lock", "reserve", "find"}
        /\ submit' = h \/ (submit' = submit /\ agent[h].pc # "lock")
        /\ submit' = submit \/ submit = NoHost
        /\ UNCHANGED <<mode, head, tail, slots, bell, reaping, inflight, wake, jobs>>
  <2>1. CASE LockSubmit(h)
    <3>1. Goto(h, "reserve") /\ agent[h].pc = "lock"
      BY <2>1 DEF LockSubmit
    <3> QED
      BY <2>1, <3>1, Zenon DEF LockSubmit
  <2>2. CASE Reserve(h)
    BY <2>2, Zenon DEF Reserve
  <2>3. CASE FindSlot(h)
    BY <2>3, Zenon DEF FindSlot
  <2> QED
    BY <2>1, <2>2, <2>3
<1> DEFINE r == [agent[h] EXCEPT !.pc = p]
<1>3. p \in AgentPc
  BY Pcs
<1>4. /\ r \in AgentRecord /\ r.pc = p /\ r.launch = agent[h].launch
      /\ agent' = [agent EXCEPT ![h] = r]
  BY <1>1, <1>2, <1>3, GotoTypes
<1> HIDE DEF r
<1>5. Unpublished(agent[h]) /\ Unpublished(r)
  BY <1>2, <1>4 DEF Unpublished
<1>6. submit' = h
  BY <1>2, <1>5 DEF RingInv, Roles, Holding, Submitting
<1>7. \A g \in Hosts \ {h} : submit = g => submit' = g
  BY <1>2, <1>6, RingConstants
<1>8. \A s \in SlotIds : ~Serving(r, s)
  BY <1>4 DEF Serving
<1>9. /\ {r.pc, agent[h].pc} \cap {"tail", "ring", "running", "push", "post"} = {}
      /\ r.pc \notin {"publish", "asleep", "scan"} /\ r.pc \notin ServicePc
  BY <1>2, <1>4, Pcs
<1>10. /\ head' \in 0..IndexMod - 1 /\ bell' \in BOOLEAN /\ wake' \in [Hosts -> BOOLEAN]
       /\ submit' \in Hosts \cup {NoHost} /\ reaping' \in Hosts \cup {NoHost}
  BY <1>1, <1>2, <1>6 DEF TypeOK
<1> QED
  BY <1>1, <1>2, <1>4, <1>5, <1>6, <1>7, <1>8, <1>9, <1>10, QuietStep

\* A step inside a call that takes or releases no lock.
LEMMA CallQuiet ==
    ASSUME RingInv, NEW h \in Hosts, RingFull(h) \/ WaitPolls(h) \/ WaitForEvent(h)
    PROVE  RingInv'
<1>1. TypeOK /\ h \in Agents /\ h # Engine /\ agent[h] \in AgentRecord /\ MaxAttempts \in Nat
  BY StateTypes, RingConstants DEF RingInv
<1>2. /\ UNCHANGED <<mode, head, tail, slots, bell, submit, reaping, inflight, jobs>>
      /\ wake' \in [Hosts -> BOOLEAN]
  BY <1>1 DEF RingFull, WaitPolls, WaitForEvent, TypeOK
<1>3. ProgressEntry \in {"serve", "reap"} /\ (ProgressEntry = "serve" => Cooperative)
  BY DEF ProgressEntry
<1>4. PICK r \in AgentRecord :
        /\ agent' = [agent EXCEPT ![h] = r] /\ r.launch = agent[h].launch
        /\ \/ /\ agent[h].pc = "find" /\ r.pc \in {"serve", "reap"}
              /\ r.back = "nap find" /\ (r.pc = "serve" => Cooperative)
           \/ /\ agent[h].pc = "wait" /\ r.pc \in {"serve", "reap"}
              /\ r.back = "nap wait" /\ (r.pc = "serve" => Cooperative)
           \/ agent[h].pc = "nap wait" /\ r.pc = "wait"
           \/ agent[h].pc = "nap find" /\ r.pc = "find"
  <2>1. CASE RingFull(h)
    <3> DEFINE n == agent[h].attempts + 1
               q == ProgressEntry
               r == [agent[h] EXCEPT !.attempts = n, !.pc = q, !.back = "nap find"]
    <3>0. agent[h].attempts \in 0..MaxAttempts /\ agent[h].attempts < MaxAttempts
      BY <1>1, <2>1 DEF RingFull, AgentRecord
    <3>1. n \in 0..MaxAttempts /\ q \in AgentPc
      <4>1. \A k \in 0..MaxAttempts : k < MaxAttempts => k + 1 \in 0..MaxAttempts
        BY <1>1
      <4>2. n \in 0..MaxAttempts
        BY <3>0, <4>1
      <4> HIDE DEF n
      <4> QED
        BY <4>2, <1>3, Pcs
    <3>2. agent' = [agent EXCEPT ![h] = r] /\ agent[h].pc = "find"
      BY <2>1 DEF RingFull
    <3> HIDE DEF n, q
    <3>3. r \in AgentRecord /\ r.launch = agent[h].launch /\ r.pc = q /\ r.back = "nap find"
      BY <1>1, <3>1 DEF AgentRecord
    <3> QED
      BY <1>3, <3>2, <3>3 DEF q
  <2>2. CASE WaitPolls(h)
    <3> DEFINE q == ProgressEntry
               r == [agent[h] EXCEPT !.pc = q, !.back = "nap wait"]
    <3>1. q \in AgentPc
      BY <1>3, Pcs
    <3>2. agent' = [agent EXCEPT ![h] = r] /\ agent[h].pc = "wait"
      BY <2>2 DEF WaitPolls
    <3> HIDE DEF q
    <3>3. r \in AgentRecord /\ r.launch = agent[h].launch /\ r.pc = q /\ r.back = "nap wait"
      BY <1>1, <3>1 DEF AgentRecord
    <3> QED
      BY <1>3, <3>2, <3>3 DEF q
  <2>3. CASE WaitForEvent(h)
    <3> DEFINE q == IF agent[h].pc = "nap wait" THEN "wait" ELSE "find"
               r == [agent[h] EXCEPT !.pc = q]
    <3>1. q \in AgentPc /\ agent[h].pc \in {"nap wait", "nap find"} /\ Goto(h, q)
      BY <2>3, Pcs DEF WaitForEvent
    <3>2. \/ agent[h].pc = "nap wait" /\ q = "wait"
          \/ agent[h].pc = "nap find" /\ q = "find"
      <4>1. CASE agent[h].pc = "nap wait"
        BY <4>1
      <4>2. CASE agent[h].pc = "nap find"
        BY <4>2
      <4> QED
        BY <3>1, <4>1, <4>2
    <3> HIDE DEF q
    <3>3. r \in AgentRecord /\ r.launch = agent[h].launch /\ r.pc = q
          /\ agent' = [agent EXCEPT ![h] = r]
      BY <1>1, <3>1, GotoTypes
    <3> QED
      BY <3>2, <3>3
  <2> QED
    BY <2>1, <2>2, <2>3
<1>5. /\ Submitting(r) => Unpublished(r) /\ Unpublished(agent[h])
      /\ Holding(r) => Holding(agent[h])
  BY <1>4, Pcs DEF Submitting, Unpublished, Holding
<1>6. Holding(r) => submit' = h
  BY <1>2, <1>5 DEF RingInv, Roles
<1>7. /\ {r.pc, agent[h].pc} \cap {"tail", "ring", "running", "push", "post"} = {}
      /\ r.pc \notin {"publish", "asleep", "scan", "write", "copy", "run", "post"}
      /\ r.pc \in ServicePc => Cooperative
  BY <1>4, Pcs
<1>8. \A s \in SlotIds : ~Serving(r, s)
  BY <1>7 DEF Serving
<1>9. /\ head' \in 0..IndexMod - 1 /\ bell' \in BOOLEAN /\ wake' \in [Hosts -> BOOLEAN]
      /\ submit' \in Hosts \cup {NoHost} /\ reaping' \in Hosts \cup {NoHost}
  BY <1>1, <1>2 DEF TypeOK
<1> QED
  BY <1>1, <1>2, <1>4, <1>5, <1>6, <1>7, <1>8, <1>9, QuietStep

\* A call that starts to wait, or returns.
LEMMA BoundaryQuiet ==
    ASSUME RingInv, NEW h \in Hosts,
           \/ UnlockSubmit(h) \/ WaitReturns(h)
           \/ \E l \in Launches \cup {0} : BeginWait(h, l)
    PROVE  RingInv'
<1>1. TypeOK /\ h \in Agents /\ h # Engine /\ agent[h] \in AgentRecord
  BY StateTypes DEF RingInv
<1>2. PICK r \in AgentRecord : agent' = [agent EXCEPT ![h] = r] /\ r.pc \in {"out", "wait"}
  <2>1. "out" \in AgentPc /\ "wait" \in AgentPc /\ 0 \in Launches \cup {0}
    BY Pcs
  <2>2. CASE UnlockSubmit(h) \/ WaitReturns(h)
    <3> DEFINE r == NewAgent("out")
    <3>1. r \in AgentRecord /\ r.pc = "out"
      BY <2>1, NewAgentTypes
    <3>2. agent' = [agent EXCEPT ![h] = r]
      BY <2>2 DEF UnlockSubmit, WaitReturns
    <3> QED
      BY <3>1, <3>2
  <2>3. CASE \E l \in Launches \cup {0} : BeginWait(h, l)
    <3>1. PICK l \in Launches \cup {0} : BeginWait(h, l)
      BY <2>3
    <3> DEFINE r == [NewAgent("wait") EXCEPT !.launch = l]
    <3>2. r \in AgentRecord /\ r.pc = "wait"
      BY <2>1, NewAgentTypes
    <3>3. agent' = [agent EXCEPT ![h] = r]
      BY <3>1 DEF BeginWait
    <3> QED
      BY <3>2, <3>3
  <2> QED
    BY <2>2, <2>3
<1>3. /\ agent[h].pc \in {"unlock", "wait", "out"}
      /\ UNCHANGED <<mode, head, tail, slots, bell, reaping, inflight, wake, jobs>>
      /\ submit' = submit \/ (agent[h].pc = "unlock" /\ submit' = NoHost)
  BY DEF UnlockSubmit, WaitReturns, BeginWait
<1>4. agent[h].pc = "unlock" => submit = h
  BY DEF RingInv, Roles, Holding
<1>5. \A g \in Hosts \ {h} : submit = g => submit' = g
  BY <1>3, <1>4
<1>6. /\ ~Holding(r) /\ ~Submitting(r)
      /\ {r.pc, agent[h].pc} \cap {"tail", "ring", "running", "push", "post"} = {}
      /\ r.pc \notin {"publish", "asleep", "scan", "write", "copy", "run", "post"}
      /\ r.pc \notin ServicePc
  BY <1>2, <1>3, Pcs DEF Holding, Submitting, Unpublished
<1>7. \A s \in SlotIds : ~Serving(r, s)
  BY <1>6 DEF Serving
<1>8. /\ head' \in 0..IndexMod - 1 /\ bell' \in BOOLEAN /\ wake' \in [Hosts -> BOOLEAN]
      /\ submit' \in Hosts \cup {NoHost} /\ reaping' \in Hosts \cup {NoHost}
  BY <1>1, <1>3 DEF TypeOK
<1> QED
  BY <1>1, <1>2, <1>3, <1>5, <1>6, <1>7, <1>8, QuietStep

\* progress takes and releases the inflight lock.
LEMMA ReapQuiet ==
    ASSUME RingInv, NEW h \in Hosts, LockInflight(h) \/ UnlockInflight(h)
    PROVE  RingInv'
<1>1. TypeOK /\ h \in Agents /\ h # Engine /\ agent[h] \in AgentRecord
  BY StateTypes DEF RingInv
<1>2. CASE LockInflight(h)
  <2> DEFINE i == inflight
             r == [agent[h] EXCEPT !.pc = "scan", !.scan = i]
  <2>1. /\ agent' = [agent EXCEPT ![h] = r] /\ agent[h].pc = "reap"
        /\ reaping = NoHost /\ reaping' = h
        /\ UNCHANGED <<mode, head, tail, slots, bell, submit, inflight, wake, jobs>>
        /\ i \in SUBSET Entries /\ "scan" \in AgentPc
    BY <1>1, <1>2, Pcs DEF LockInflight, TypeOK
  <2>2. i = inflight
    OBVIOUS
  <2> HIDE DEF i
  <2>3. /\ r \in AgentRecord /\ r.pc = "scan" /\ r.scan = i /\ r.back = agent[h].back
        /\ r.launch = agent[h].launch
    BY <1>1, <2>1 DEF AgentRecord
  <2> HIDE DEF r
  <2>4. /\ Submitting(r) => Unpublished(r) /\ Unpublished(agent[h])
        /\ Holding(r) => Holding(agent[h])
    BY <2>1, <2>3, Pcs DEF Submitting, Unpublished, Holding
  <2>5. Holding(r) => submit' = h
    BY <2>1, <2>4 DEF RingInv, Roles
  <2>6. \A s \in SlotIds : ~Serving(r, s)
    BY <2>3 DEF Serving
  <2>7. /\ {r.pc, agent[h].pc} \cap {"tail", "ring", "running", "push", "post"} = {}
        /\ r.pc \notin {"publish", "asleep", "write"} /\ r.pc \notin ServicePc
    BY <2>1, <2>3, Pcs
  <2>8. /\ head' \in 0..IndexMod - 1 /\ bell' \in BOOLEAN /\ wake' \in [Hosts -> BOOLEAN]
        /\ submit' \in Hosts \cup {NoHost} /\ reaping' \in Hosts \cup {NoHost}
    BY <1>1, <2>1 DEF TypeOK
  <2>9. \A g \in Hosts \ {h} :
          (submit = g => submit' = g) /\ (reaping = g => reaping' = g)
    BY <2>1, RingConstants
  <2> QED
    BY <1>1, <2>1, <2>2, <2>3, <2>4, <2>5, <2>6, <2>7, <2>8, <2>9, QuietStep
<1>3. CASE UnlockInflight(h)
  <2> DEFINE q == agent[h].back
             r == [agent[h] EXCEPT !.pc = q]
  <2>1. /\ Goto(h, q) /\ agent[h].pc = "scan" /\ reaping' = NoHost
        /\ UNCHANGED <<mode, head, tail, slots, bell, submit, inflight, wake, jobs>>
    BY <1>3 DEF UnlockInflight
  <2>2. q \in {"out", "nap find", "nap wait", "unlock"} /\ q \in AgentPc
    BY <1>1, Pcs DEF AgentRecord
  <2>3. /\ r \in AgentRecord /\ r.pc = q /\ r.launch = agent[h].launch
        /\ agent' = [agent EXCEPT ![h] = r]
    BY <1>1, <2>1, <2>2, GotoTypes
  <2>4. q = agent[h].back
    OBVIOUS
  <2> HIDE DEF q, r
  <2>5. /\ Submitting(r) => Unpublished(r) /\ Unpublished(agent[h])
        /\ Holding(r) => Holding(agent[h])
    BY <2>1, <2>2, <2>3, <2>4, Pcs DEF Submitting, Unpublished, Holding
  <2>6. Holding(r) => submit' = h
    BY <2>1, <2>5 DEF RingInv, Roles
  <2>7. reaping = h
    BY <2>1 DEF RingInv, Roles
  <2>8. \A s \in SlotIds : ~Serving(r, s)
    BY <2>2, <2>3 DEF Serving
  <2>9. /\ {r.pc, agent[h].pc} \cap {"tail", "ring", "running", "push", "post"} = {}
        /\ r.pc \notin {"publish", "asleep", "scan", "write"} /\ r.pc \notin ServicePc
    BY <2>1, <2>2, <2>3, Pcs
  <2>10. /\ head' \in 0..IndexMod - 1 /\ bell' \in BOOLEAN /\ wake' \in [Hosts -> BOOLEAN]
         /\ submit' \in Hosts \cup {NoHost} /\ reaping' \in Hosts \cup {NoHost}
    BY <1>1, <2>1 DEF TypeOK
  <2>11. \A g \in Hosts \ {h} :
          (submit = g => submit' = g) /\ (reaping = g => reaping' = g)
    BY <2>1, <2>7
  <2> QED
    BY <1>1, <2>1, <2>3, <2>5, <2>6, <2>8, <2>9, <2>10, <2>11, QuietStep
<1> QED
  BY <1>2, <1>3

\* The service loop looks for a descriptor, copies it, moves head past it, and tells
\* the hosts; the doorbell starts it.
LEMMA ServiceQuiet ==
    ASSUME RingInv, NEW a \in Agents,
           \/ ServeNext(a) \/ ServeDone(a) \/ CopyPayload(a) \/ AdvanceHead(a) \/ SendEvent(a)
           \/ a = Engine /\ AckDoorbell
    PROVE  RingInv'
<1>1. TypeOK /\ agent[a] \in AgentRecord /\ (a \in Hosts \/ a = Engine) /\ Engine \notin Hosts
  BY StateTypes, RingConstants DEF RingInv, Agents
<1>2. /\ UNCHANGED <<mode, tail, slots, submit, reaping, inflight, jobs>>
      /\ head' \in 0..IndexMod - 1 /\ bell' \in BOOLEAN /\ wake' \in [Hosts -> BOOLEAN]
      /\ submit' \in Hosts \cup {NoHost} /\ reaping' \in Hosts \cup {NoHost}
  <2>1. Succ(agent[a].head) \in 0..IndexMod - 1
    BY <1>1, StateTypes, IndexTypes
  <2>2. /\ head \in 0..IndexMod - 1 /\ bell \in BOOLEAN /\ wake \in [Hosts -> BOOLEAN]
        /\ submit \in Hosts \cup {NoHost} /\ reaping \in Hosts \cup {NoHost}
    BY <1>1 DEF TypeOK
  <2>3. CASE ServeNext(a) \/ ServeDone(a) \/ CopyPayload(a)
    BY <2>2, <2>3 DEF ServeNext, ServeDone, CopyPayload
  <2>4. CASE AdvanceHead(a)
    BY <2>1, <2>2, <2>4 DEF AdvanceHead
  <2>5. CASE SendEvent(a)
    BY <2>2, <2>5 DEF SendEvent
  <2>6. CASE a = Engine /\ AckDoorbell
    BY <2>2, <2>6 DEF AckDoorbell
  <2> QED
    BY <2>3, <2>4, <2>5, <2>6
<1>3. PICK r \in AgentRecord :
        /\ agent' = [agent EXCEPT ![a] = r]
        /\ r.launch = agent[a].launch /\ r.back = agent[a].back
        /\ r.pc \in {"copy", "asleep", "reap", "run", "sev", "serve"}
        /\ agent[a].pc \in {"serve", "copy", "advance", "sev"}
             \/ (a = Engine /\ agent[a].pc = "asleep" /\ ~Cooperative)
        /\ r.pc = "asleep" => a = Engine
        /\ r.pc = "reap" => a # Engine
        /\ r.pc = "copy" => slots[SlotOf(r.head)].status = "PENDING"
        /\ r.pc = "run" => agent[a].pc = "copy" /\ r.head = agent[a].head
                             /\ r.served = slots[SlotOf(r.head)].launch
  <2>1. CASE ServeNext(a)
    <3> DEFINE i == head
               r == [agent[a] EXCEPT !.pc = "copy", !.head = i]
    <3>1. agent' = [agent EXCEPT ![a] = r] /\ agent[a].pc = "serve"
          /\ slots[SlotOf(i)].status = "PENDING"
      BY <2>1 DEF ServeNext, Available
    <3>2. i \in 0..IndexMod - 1 /\ "copy" \in AgentPc
      BY <1>1, Pcs DEF TypeOK
    <3> HIDE DEF i
    <3>3. r \in AgentRecord /\ r.pc = "copy" /\ r.head = i /\ r.launch = agent[a].launch
          /\ r.back = agent[a].back
      BY <1>1, <3>2 DEF AgentRecord
    <3> HIDE DEF r
    <3> QED
      BY <3>1, <3>3
  <2>2. CASE ServeDone(a)
    <3> DEFINE q == IF a = Engine THEN "asleep" ELSE "reap"
               r == [agent[a] EXCEPT !.pc = q]
    <3>1. q \in AgentPc /\ Goto(a, q) /\ agent[a].pc = "serve"
      BY <2>2, Pcs DEF ServeDone
    <3>2. \/ q = "asleep" /\ a = Engine
          \/ q = "reap" /\ a # Engine
      OBVIOUS
    <3> HIDE DEF q
    <3>3. r \in AgentRecord /\ r.pc = q /\ r.launch = agent[a].launch
          /\ r.back = agent[a].back /\ agent' = [agent EXCEPT ![a] = r]
      BY <1>1, <3>1, GotoTypes
    <3> HIDE DEF r
    <3> QED
      BY <3>1, <3>2, <3>3
  <2>3. CASE CopyPayload(a)
    <3> DEFINE l == slots[SlotOf(agent[a].head)].launch
               r == [agent[a] EXCEPT !.pc = "run", !.served = l]
    <3>1. agent' = [agent EXCEPT ![a] = r] /\ agent[a].pc = "copy"
      BY <2>3 DEF CopyPayload
    <3>2. l \in Launches \cup {0} /\ "run" \in AgentPc
      BY <1>1, StateTypes, Pcs DEF SlotRecord
    <3>3. l = slots[SlotOf(agent[a].head)].launch
      OBVIOUS
    <3> HIDE DEF l
    <3>4. r \in AgentRecord /\ r.pc = "run" /\ r.head = agent[a].head /\ r.served = l
          /\ r.launch = agent[a].launch /\ r.back = agent[a].back
      BY <1>1, <3>2 DEF AgentRecord
    <3> HIDE DEF r
    <3> QED
      BY <3>1, <3>3, <3>4
  <2>4. CASE AdvanceHead(a) \/ SendEvent(a) \/ (a = Engine /\ AckDoorbell)
    <3>1. PICK q \in {"sev", "serve"} :
            /\ Goto(a, q)
            /\ agent[a].pc \in {"advance", "sev"}
                 \/ (a = Engine /\ agent[a].pc = "asleep" /\ ~Cooperative)
      <4>1. CASE AdvanceHead(a)
        BY <4>1, Zenon DEF AdvanceHead
      <4>2. CASE SendEvent(a)
        BY <4>2, Zenon DEF SendEvent
      <4>3. CASE a = Engine /\ AckDoorbell
        BY <4>3, Zenon DEF AckDoorbell
      <4> QED
        BY <2>4, <4>1, <4>2, <4>3
    <3> DEFINE r == [agent[a] EXCEPT !.pc = q]
    <3>2. q \in AgentPc
      BY Pcs
    <3>3. r \in AgentRecord /\ r.pc = q /\ r.launch = agent[a].launch
          /\ r.back = agent[a].back /\ agent' = [agent EXCEPT ![a] = r]
      BY <1>1, <3>1, <3>2, GotoTypes
    <3> HIDE DEF r
    <3> QED
      BY <3>1, <3>3
  <2> QED
    BY <2>1, <2>2, <2>3, <2>4
<1>4. a = Engine => ~Cooperative /\ r.pc \in {"asleep"} \cup ServicePc
  BY <1>3, Pcs DEF RingInv, Roles
<1>5. a \in Hosts => r.pc # "asleep" /\ (r.pc \in ServicePc => Cooperative)
  BY <1>1, <1>3, Pcs DEF RingInv, Roles
<1>6. a \in Hosts =>
        /\ Submitting(r) => Unpublished(r) /\ Unpublished(agent[a])
        /\ Holding(r) => Holding(agent[a])
  BY <1>1, <1>3, Pcs DEF Submitting, Unpublished, Holding
<1>7. a \in Hosts => (Holding(r) => submit' = a)
  BY <1>2, <1>6 DEF RingInv, Roles
<1>8. /\ {r.pc, agent[a].pc} \cap {"tail", "ring", "running", "push", "post"} = {}
      /\ r.pc \notin {"publish", "scan", "write"}
  BY <1>3
<1>9. \A s \in SlotIds : Serving(r, s) =>
        /\ slots[s].status = "PENDING"
        /\ r.pc = "run" => r.served = slots[s].launch
  BY <1>3 DEF Serving, RingInv, Servers
<1> QED
  BY <1>1, <1>2, <1>3, <1>4, <1>5, <1>6, <1>7, <1>8, <1>9, QuietStep
-----------------------------------------------------------------------------
(* Steps that change a launch.                                              *)

\* The other agents stay where they are.
LEMMA AgentStep ==
    ASSUME TypeOK, NEW a \in Agents, NEW r \in AgentRecord, agent' = [agent EXCEPT ![a] = r]
    PROVE  /\ agent' \in [Agents -> AgentRecord] /\ agent'[a] = r
           /\ \A c \in Agents \ {a} : agent'[c] = agent[c]
BY StateTypes

\* One launch's event status changes.
LEMMA StatusStep ==
    ASSUME TypeOK, NEW l \in Launches,
           NEW st \in {"queued", "submitted", "running", "complete", "error", "refused"},
           jobs' = [jobs EXCEPT ![l].status = st]
    PROVE  /\ jobs' \in [Launches -> JobRecord]
           /\ jobs'[l].status = st
           /\ \A k \in Launches : k # l => jobs'[k] = jobs[k]
           /\ \A k \in Launches : jobs'[k].ran = jobs[k].ran /\ jobs'[k].failed = jobs[k].failed
<1> DEFINE j == [jobs[l] EXCEPT !.status = st]
<1>1. jobs \in [Launches -> JobRecord] /\ jobs[l] \in JobRecord
  BY StateTypes
<1>2. jobs' = [jobs EXCEPT ![l] = j]
  OBVIOUS
<1>3. j \in JobRecord /\ j.status = st /\ j.ran = jobs[l].ran /\ j.failed = jobs[l].failed
  BY <1>1 DEF JobRecord
<1> HIDE DEF j
<1> QED
  BY <1>1, <1>2, <1>3

\* Locks and service loops after a step of one agent.
LEMMA RolesStep ==
    ASSUME RingInv, NEW a \in Agents, NEW r \in AgentRecord, mode' = mode,
           agent' = [agent EXCEPT ![a] = r],
           a = Engine => ~Cooperative /\ r.pc \in {"asleep"} \cup ServicePc,
           a \in Hosts =>
             /\ r.pc # "asleep" /\ (r.pc \in ServicePc => Cooperative)
             /\ Holding(r) => submit' = a
             /\ r.pc = "scan" => reaping' = a /\ r.scan \subseteq inflight',
           \A g \in Hosts \ {a} :
             /\ submit = g => submit' = g
             /\ reaping = g => reaping' = g /\ inflight \subseteq inflight'
    PROVE  Roles'
<1>1. /\ agent'[a] = r /\ \A c \in Agents \ {a} : agent'[c] = agent[c]
      /\ Engine \in Agents /\ Engine \notin Hosts /\ Hosts \subseteq Agents
  BY AgentStep, StateTypes DEF RingInv
<1>2. /\ agent'[Engine].pc \in {"asleep"} \cup ServicePc
      /\ Cooperative => agent'[Engine].pc = "asleep"
  BY <1>1 DEF RingInv, Roles
<1>3. ASSUME NEW h \in Hosts
      PROVE  /\ agent'[h].pc # "asleep"
             /\ agent'[h].pc \in ServicePc => Cooperative
             /\ Holding(agent'[h]) => submit' = h
             /\ agent'[h].pc = "scan" => reaping' = h /\ agent'[h].scan \subseteq inflight'
  <2>1. CASE h = a
    BY <1>1, <1>3, <2>1
  <2>2. CASE h # a
    BY <1>1, <1>3, <2>2 DEF RingInv, Roles
  <2> QED
    BY <2>1, <2>2
<1> QED
  BY <1>2, <1>3 DEF Roles, Cooperative

\* The submit lock keeps the other hosts out of a publish.
LEMMA SolePublisher ==
    ASSUME RingInv, NEW g \in Hosts, NEW h \in Hosts, g # h, Holding(agent[h])
    PROVE  /\ ~Holding(agent[g])
           /\ agent[g].pc \notin {"write", "publish", "tail", "ring", "running", "push"}
BY DEF RingInv, Roles, Holding, Submitting, Unpublished

\* dispatch is entered: the event becomes CL_SUBMITTED.
LEMMA SubmitStep ==
    ASSUME RingInv, NEW h \in Hosts, NEW l \in Launches, Submit(h, l)
    PROVE  RingInv'
<1> DEFINE r == [NewAgent("lock") EXCEPT !.launch = l]
<1>1. /\ TypeOK /\ h \in Agents /\ h # Engine /\ Hosts \subseteq Agents
      /\ jobs \in [Launches -> JobRecord]
  BY StateTypes DEF RingInv
<1>2. /\ r \in AgentRecord /\ r.pc = "lock" /\ r.launch = l
  <2>1. "lock" \in AgentPc
    BY Pcs
  <2> QED
    BY <2>1, NewAgentTypes
<1>3. /\ agent' = [agent EXCEPT ![h] = r] /\ agent[h].pc = "out" /\ jobs[l].status = "queued"
      /\ jobs' = [jobs EXCEPT ![l].status = "submitted"]
      /\ UNCHANGED <<mode, head, tail, slots, bell, submit, reaping, inflight, wake>>
  BY DEF Submit
<1> HIDE DEF r
<1>4. /\ agent' \in [Agents -> AgentRecord] /\ agent'[h] = r
      /\ \A c \in Agents \ {h} : agent'[c] = agent[c]
  BY <1>1, <1>2, <1>3, AgentStep
<1>5. /\ jobs' \in [Launches -> JobRecord]
      /\ jobs'[l].status = "submitted"
      /\ \A k \in Launches : k # l => jobs'[k] = jobs[k]
      /\ \A k \in Launches : jobs'[k].ran = jobs[k].ran /\ jobs'[k].failed = jobs[k].failed
  BY <1>1, <1>3, StatusStep
<1>6. TypeOK'
  BY <1>1, <1>3, <1>4, <1>5 DEF TypeOK, AgentRecord, AgentPc, JobRecord
<1>7. Submitting(r) /\ Unpublished(r) /\ ~Holding(r)
  BY <1>2, Pcs DEF Submitting, Unpublished, Holding
<1>8. Roles'
  BY <1>1, <1>2, <1>3, <1>7, RolesStep, Pcs
<1>9. \A s \in SlotIds : slots[s].status # "EMPTY" =>
         slots[s].launch \in Launches /\ slots[s].launch # l
  BY <1>3 DEF RingInv, Occupied
<1>10. jobs[l].ran = 0 /\ ~jobs[l].failed
  BY <1>3 DEF RingInv, Executions
<1>11. Submitters'
  <2> SUFFICES ASSUME NEW g \in Hosts
               PROVE  /\ Submitting(agent'[g]) =>
                           /\ agent'[g].launch \in Launches
                           /\ jobs'[agent'[g].launch].status = "submitted"
                           /\ \A k \in Hosts \ {g} :
                                Submitting(agent'[k]) => agent'[k].launch # agent'[g].launch
                      /\ Unpublished(agent'[g]) =>
                           /\ jobs'[agent'[g].launch].ran = 0 /\ ~jobs'[agent'[g].launch].failed
                           /\ \A s \in SlotIds :
                                slots[s].status # "EMPTY" => slots[s].launch # agent'[g].launch
                      /\ agent'[g].pc = "push" =>
                           /\ agent'[g].launch \in Launches
                           /\ jobs'[agent'[g].launch].status = "running"
    BY <1>3 DEF Submitters
  <2>1. \A k \in Hosts \ {h} : Submitting(agent[k]) =>
           agent[k].launch \in Launches /\ agent[k].launch # l
    BY <1>3 DEF RingInv, Submitters
  <2>2. CASE g = h
    BY <1>1, <1>2, <1>4, <1>5, <1>9, <1>10, <2>1, <2>2
  <2>3. CASE g # h
    <3>1. agent'[g] = agent[g]
      BY <1>1, <1>4, <2>3
    <3>2. agent[g].pc = "push" => agent[g].launch # l
      BY <1>3 DEF RingInv, Submitters
    <3> QED
      BY <1>1, <1>2, <1>4, <1>5, <2>1, <2>3, <3>1, <3>2 DEF RingInv, Submitters, Submitting
  <2> QED
    BY <2>2, <2>3
<1>12. Publishers' /\ NoSlotLeaks'
  BY <1>1, <1>2, <1>3, <1>4 DEF RingInv, Publishers, Placed, NoSlotLeaks
<1>13. Servers'
  BY <1>1, <1>2, <1>3, <1>4 DEF RingInv, Servers, Serving
<1>14. Occupied'
  <2>1. \A c \in Agents, s \in SlotIds :
          Posting(agent'[c], s) => Posting(agent[c], s) /\ agent'[c] = agent[c]
    BY <1>1, <1>2, <1>4 DEF Posting
  <2>2. \A c \in Agents, s \in SlotIds : Posting(agent[c], s) => Posting(agent'[c], s)
    BY <1>1, <1>3, <1>4 DEF Posting
  <2> QED
    BY <1>3, <1>5, <1>9, <2>1, <2>2 DEF RingInv, Occupied, Posting
<1>15. InFlight' /\ Executions'
  <2>1. \A e \in inflight : e.launch \in Launches
    BY <1>1 DEF TypeOK, Entries
  <2> QED
    BY <1>1, <1>3, <1>5, <1>10, <2>1 DEF RingInv, InFlight, Executions
<1> QED
  BY <1>6, <1>8, <1>11, <1>12, <1>13, <1>14, <1>15 DEF RingInv

\* dispatch fails before the publish point: the launch is refused.
LEMMA RefuseStep ==
    ASSUME RingInv, NEW h \in Hosts,
           Unsupported(h) \/ ReserveFails(h) \/ OutOfResources(h)
    PROVE  RingInv'
<1> DEFINE r == NewAgent("out")
           l == agent[h].launch
<1>1. /\ TypeOK /\ h \in Agents /\ h # Engine /\ Hosts \subseteq Agents
      /\ jobs \in [Launches -> JobRecord]
  BY StateTypes DEF RingInv
<1>2. r \in AgentRecord /\ r.pc = "out"
  <2>1. "out" \in AgentPc /\ 0 \in Launches \cup {0}
    BY Pcs
  <2> QED
    BY <2>1, NewAgentTypes
<1>3. /\ agent' = [agent EXCEPT ![h] = r] /\ agent[h].pc \in {"lock", "reserve", "find"}
      /\ jobs' = [jobs EXCEPT ![l].status = "refused"]
      /\ UNCHANGED <<mode, head, tail, slots, bell, reaping, inflight, wake>>
      /\ submit' = submit \/ (submit' = NoHost /\ agent[h].pc # "lock")
  BY DEF Unsupported, ReserveFails, OutOfResources, GiveUp
<1>4. l = agent[h].launch
  OBVIOUS
<1> HIDE DEF r, l
<1>5. Submitting(agent[h]) /\ Unpublished(agent[h]) /\ (agent[h].pc # "lock" => submit = h)
  BY <1>3 DEF RingInv, Roles, Submitting, Unpublished, Holding
<1>6. /\ l \in Launches /\ jobs[l].status = "submitted"
      /\ \A g \in Hosts \ {h} : Submitting(agent[g]) => agent[g].launch # l
      /\ \A s \in SlotIds : slots[s].status # "EMPTY" => slots[s].launch # l
  BY <1>4, <1>5 DEF RingInv, Submitters
<1>7. /\ agent' \in [Agents -> AgentRecord] /\ agent'[h] = r
      /\ \A c \in Agents \ {h} : agent'[c] = agent[c]
  BY <1>1, <1>2, <1>3, AgentStep
<1>8. /\ jobs' \in [Launches -> JobRecord]
      /\ jobs'[l].status = "refused"
      /\ \A k \in Launches : k # l => jobs'[k] = jobs[k]
      /\ \A k \in Launches : jobs'[k].ran = jobs[k].ran /\ jobs'[k].failed = jobs[k].failed
  BY <1>1, <1>3, <1>6, StatusStep
<1>9. TypeOK'
  BY <1>1, <1>3, <1>7, <1>8 DEF TypeOK, AgentRecord, AgentPc, JobRecord
<1>10. ~Submitting(r) /\ ~Unpublished(r) /\ ~Holding(r)
  BY <1>2, Pcs DEF Submitting, Unpublished, Holding
<1>11. Roles'
  BY <1>1, <1>2, <1>3, <1>5, <1>10, RolesStep, Pcs
<1>12. Submitters'
  <2>1. \A g \in Hosts \ {h} : agent[g].pc = "push" => agent[g].launch # l
    BY <1>6 DEF RingInv, Submitters
  <2>2. \A g \in Hosts \ {h} : Unpublished(agent[g]) => Submitting(agent[g])
    BY DEF Submitting
  <2> QED
    BY <1>1, <1>2, <1>3, <1>6, <1>7, <1>8, <1>10, <2>1, <2>2 DEF RingInv, Submitters
<1>13. Publishers' /\ NoSlotLeaks'
  BY <1>1, <1>2, <1>3, <1>7 DEF RingInv, Publishers, Placed, NoSlotLeaks
<1>14. Servers'
  BY <1>1, <1>2, <1>3, <1>7 DEF RingInv, Servers, Serving
<1>15. Occupied'
  <2>1. \A c \in Agents, s \in SlotIds :
          /\ Posting(agent'[c], s) => Posting(agent[c], s) /\ agent'[c] = agent[c]
          /\ Posting(agent[c], s) => Posting(agent'[c], s)
    BY <1>1, <1>2, <1>3, <1>7 DEF Posting
  <2> QED
    BY <1>3, <1>6, <1>8, <2>1 DEF RingInv, Occupied, Posting
<1>16. InFlight' /\ Executions'
  <2>1. \A e \in inflight : e.launch \in Launches
    BY <1>1 DEF TypeOK, Entries
  <2> QED
    BY <1>1, <1>3, <1>6, <1>8, <2>1 DEF RingInv, InFlight, Executions
<1> QED
  BY <1>9, <1>11, <1>12, <1>13, <1>14, <1>15, <1>16 DEF RingInv

\* The publisher's event becomes CL_RUNNING.
LEMMA SetRunningStep ==
    ASSUME RingInv, NEW h \in Hosts, SetRunning(h)
    PROVE  RingInv'
<1> DEFINE r == [agent[h] EXCEPT !.pc = "push"]
           l == agent[h].launch
<1>1. /\ TypeOK /\ h \in Agents /\ h # Engine /\ Hosts \subseteq Agents
      /\ jobs \in [Launches -> JobRecord]
  BY StateTypes DEF RingInv
<1>2. /\ r \in AgentRecord /\ r.pc = "push" /\ r.launch = l /\ r.slot = agent[h].slot
      /\ Goto(h, "push") => agent' = [agent EXCEPT ![h] = r]
  <2>1. "push" \in AgentPc
    BY Pcs
  <2> QED
    BY <1>1, <2>1, GotoTypes
<1>3. /\ agent' = [agent EXCEPT ![h] = r] /\ agent[h].pc = "running"
      /\ jobs' = [jobs EXCEPT ![l].status = "running"]
      /\ UNCHANGED <<mode, head, tail, slots, bell, submit, reaping, inflight, wake>>
  BY <1>2 DEF SetRunning
<1>4. l = agent[h].launch
  OBVIOUS
<1> HIDE DEF r, l
<1>5. Submitting(agent[h]) /\ Holding(agent[h]) /\ submit = h
  BY <1>3 DEF RingInv, Roles, Submitting, Holding
<1>6. /\ l \in Launches /\ jobs[l].status = "submitted"
      /\ \A g \in Hosts \ {h} : Submitting(agent[g]) => agent[g].launch # l
  BY <1>4, <1>5 DEF RingInv, Submitters
<1>7. /\ agent' \in [Agents -> AgentRecord] /\ agent'[h] = r
      /\ \A c \in Agents \ {h} : agent'[c] = agent[c]
  BY <1>1, <1>2, <1>3, AgentStep
<1>8. /\ jobs' \in [Launches -> JobRecord]
      /\ jobs'[l].status = "running"
      /\ \A k \in Launches : k # l => jobs'[k] = jobs[k]
      /\ \A k \in Launches : jobs'[k].ran = jobs[k].ran /\ jobs'[k].failed = jobs[k].failed
  BY <1>1, <1>3, <1>6, StatusStep
<1>9. TypeOK'
  BY <1>1, <1>3, <1>7, <1>8 DEF TypeOK, AgentRecord, AgentPc, JobRecord
<1>10. ~Submitting(r) /\ ~Unpublished(r)
  BY <1>2, Pcs DEF Submitting, Unpublished
<1>11. Roles'
  BY <1>1, <1>2, <1>3, <1>5, RolesStep, Pcs
<1>12. Submitters'
  <2>1. \A g \in Hosts \ {h} : agent[g].pc # "push"
    BY <1>5, SolePublisher
  <2>2. \A g \in Hosts \ {h} : Unpublished(agent[g]) => Submitting(agent[g])
    BY DEF Submitting
  <2> QED
    BY <1>1, <1>2, <1>3, <1>6, <1>7, <1>8, <1>10, <2>1, <2>2 DEF RingInv, Submitters
<1>13. \A g \in Hosts, s \in SlotIds :
         /\ Placed(agent'[g], s) <=> Placed(agent[g], s)
         /\ agent'[g].launch = agent[g].launch
         /\ agent'[g].pc \in {"write", "publish"} => agent'[g] = agent[g]
  BY <1>1, <1>2, <1>3, <1>4, <1>7 DEF Placed
<1>14. Publishers' /\ NoSlotLeaks'
  <2>1. Publishers'
    <3> SUFFICES ASSUME NEW g \in Hosts
                 PROVE  /\ agent'[g].pc \in {"write", "publish"} =>
                             slots[SlotOf(tail)].status = "EMPTY"
                        /\ agent'[g].pc = "publish" =>
                             slots[SlotOf(tail)].launch = agent'[g].launch
                        /\ \A s \in SlotIds : Placed(agent'[g], s) =>
                             /\ slots[s].status # "EMPTY" /\ slots[s].launch = agent'[g].launch
                             /\ \A e \in inflight : e.slot # s
      BY <1>3 DEF Publishers, Placed
    <3> QED
      BY <1>13, StateTypes DEF RingInv, Publishers
  <2>2. NoSlotLeaks'
    <3> SUFFICES ASSUME NEW s \in SlotIds, slots[s].status # "EMPTY"
                 PROVE  \/ \E e \in inflight : e.slot = s
                        \/ \E g \in Hosts : Placed(agent'[g], s)
      BY <1>3 DEF NoSlotLeaks, Placed, SlotOf
    <3> QED
      BY <1>13 DEF RingInv, NoSlotLeaks, Placed
  <2> QED
    BY <2>1, <2>2
<1>15. Servers'
  BY <1>1, <1>2, <1>3, <1>7 DEF RingInv, Servers, Serving
<1>16. Occupied'
  <2>1. \A c \in Agents, s \in SlotIds :
          /\ Posting(agent'[c], s) => Posting(agent[c], s) /\ agent'[c] = agent[c]
          /\ Posting(agent[c], s) => Posting(agent'[c], s)
    BY <1>1, <1>2, <1>3, <1>7 DEF Posting
  <2>2. \A s \in SlotIds : slots[s].status # "EMPTY" =>
          /\ slots[s].launch \in Launches
          /\ jobs'[slots[s].launch].status \in {"submitted", "running"}
    BY <1>6, <1>8 DEF RingInv, Occupied
  <2> QED
    BY <1>3, <1>8, <2>1, <2>2 DEF RingInv, Occupied, Posting
<1>17. InFlight' /\ Executions'
  <2>1. \A e \in inflight : e.launch \in Launches
    BY <1>1 DEF TypeOK, Entries
  <2> QED
    BY <1>1, <1>3, <1>6, <1>8, <2>1 DEF RingInv, InFlight, Executions
<1> QED
  BY <1>9, <1>11, <1>12, <1>14, <1>15, <1>16, <1>17 DEF RingInv
-----------------------------------------------------------------------------
(* The publish.                                                             *)

\* A publisher that goes on holds the submit lock, and is the only one.
LEMMA PublisherStep ==
    ASSUME RingInv, NEW h \in Hosts,
           agent[h].pc \in {"write", "publish", "tail", "ring", "push"}
    PROVE  /\ TypeOK /\ h \in Agents /\ h # Engine /\ Hosts \subseteq Agents
           /\ Holding(agent[h]) /\ submit = h
           /\ agent[h].pc # "push" => Submitting(agent[h])
           /\ agent[h].pc \in {"write", "publish"} => Unpublished(agent[h])
           /\ agent[h].launch \in Launches
           /\ \A g \in Hosts \ {h} :
                /\ ~Holding(agent[g])
                /\ agent[g].pc \notin {"write", "publish", "tail", "ring", "running", "push"}
<1>1. TypeOK /\ h \in Agents /\ h # Engine /\ Hosts \subseteq Agents
  BY StateTypes DEF RingInv
<1>2. /\ Holding(agent[h]) /\ (agent[h].pc # "push" => Submitting(agent[h]))
      /\ agent[h].pc \in {"write", "publish"} => Unpublished(agent[h])
  BY DEF Holding, Submitting, Unpublished
<1>3. submit = h /\ agent[h].launch \in Launches
  BY <1>2 DEF RingInv, Roles, Submitters
<1> QED
  BY <1>1, <1>2, <1>3, SolePublisher

\* The payload is written into the free slot at tail.
LEMMA WritePayloadStep ==
    ASSUME RingInv, NEW h \in Hosts, WritePayload(h)
    PROVE  RingInv'
<1> DEFINE r == [agent[h] EXCEPT !.pc = "publish"]
           l == agent[h].launch
           x == SlotOf(tail)
<1>1. /\ agent[h].pc = "write" /\ Goto(h, "publish")
      /\ slots' = [slots EXCEPT ![x].launch = l]
      /\ UNCHANGED <<mode, head, tail, bell, submit, reaping, inflight, wake, jobs>>
  BY DEF WritePayload
<1>2. /\ TypeOK /\ h \in Agents /\ h # Engine /\ Hosts \subseteq Agents
      /\ Holding(agent[h]) /\ submit = h /\ Unpublished(agent[h]) /\ l \in Launches
      /\ \A g \in Hosts \ {h} :
           agent[g].pc \notin {"write", "publish", "tail", "ring", "running", "push"}
  BY <1>1, PublisherStep
<1>3. x \in SlotIds /\ slots \in [SlotIds -> SlotRecord] /\ slots[x].status = "EMPTY"
  BY <1>1, <1>2, StateTypes DEF RingInv, Publishers
<1>4. /\ r \in AgentRecord /\ r.pc = "publish" /\ r.launch = l /\ r.back = agent[h].back
      /\ agent' = [agent EXCEPT ![h] = r]
  <2>1. "publish" \in AgentPc
    BY Pcs
  <2> QED
    BY <1>1, <1>2, <2>1, GotoTypes
<1>5. x = SlotOf(tail) /\ l = agent[h].launch
  OBVIOUS
<1> HIDE DEF r, l, x
<1>6. /\ agent' \in [Agents -> AgentRecord] /\ agent'[h] = r
      /\ \A c \in Agents \ {h} : agent'[c] = agent[c]
  BY <1>2, <1>4, AgentStep
<1>7. /\ slots' \in [SlotIds -> SlotRecord] /\ slots'[x].launch = l
      /\ \A s \in SlotIds : slots'[s].status = slots[s].status
      /\ \A s \in SlotIds : slots[s].status # "EMPTY" => slots'[s] = slots[s]
  <2> DEFINE q == [slots[x] EXCEPT !.launch = l]
  <2>1. q \in SlotRecord /\ q.launch = l /\ q.status = slots[x].status
    BY <1>2, <1>3 DEF SlotRecord
  <2>2. slots' = [slots EXCEPT ![x] = q]
    BY <1>1
  <2> HIDE DEF q
  <2> QED
    BY <1>3, <2>1, <2>2
<1>8. TypeOK'
  BY <1>1, <1>2, <1>6, <1>7 DEF TypeOK, AgentRecord, AgentPc, SlotRecord
<1>9. Unpublished(r) /\ Submitting(r)
  BY <1>4 DEF Submitting, Unpublished
<1>10. Roles'
  BY <1>1, <1>2, <1>4, RolesStep, Pcs
<1>11. \A g \in Hosts :
         /\ agent'[g].launch = agent[g].launch
         /\ Submitting(agent'[g]) => Submitting(agent[g])
         /\ Unpublished(agent'[g]) => Unpublished(agent[g])
         /\ agent'[g].pc = "push" => agent[g].pc = "push"
  BY <1>2, <1>4, <1>5, <1>6 DEF Submitting
<1>12. Submitters'
  <2>1. \A s \in SlotIds : slots'[s].status # "EMPTY" =>
          slots[s].status # "EMPTY" /\ slots'[s].launch = slots[s].launch
    BY <1>7
  <2> QED
    BY <1>1, <1>11, <2>1 DEF RingInv, Submitters
<1>13. Publishers'
  <2> SUFFICES ASSUME NEW g \in Hosts
               PROVE  /\ agent'[g].pc \in {"write", "publish"} => slots'[x].status = "EMPTY"
                      /\ agent'[g].pc = "publish" => slots'[x].launch = agent'[g].launch
                      /\ \A s \in SlotIds : ~Placed(agent'[g], s)
    BY <1>1, <1>5 DEF Publishers, Placed
  <2> QED
    BY <1>2, <1>3, <1>4, <1>6, <1>7 DEF Placed
<1>14. Servers'
  BY <1>2, <1>4, <1>6, <1>7 DEF RingInv, Servers, Serving
<1>15. Occupied'
  <2>1. \A c \in Agents, s \in SlotIds :
          /\ Posting(agent'[c], s) => Posting(agent[c], s) /\ agent'[c] = agent[c]
          /\ Posting(agent[c], s) => Posting(agent'[c], s)
    BY <1>1, <1>2, <1>4, <1>6 DEF Posting
  <2>2. \A s \in SlotIds : slots'[s].status # "EMPTY" =>
          slots[s].status # "EMPTY" /\ slots'[s] = slots[s]
    BY <1>7
  <2> SUFFICES ASSUME NEW s \in SlotIds, slots'[s].status # "EMPTY"
               PROVE  /\ slots'[s].launch \in Launches
                      /\ jobs[slots'[s].launch].status \in {"submitted", "running"}
                      /\ \A t \in SlotIds \ {s} : slots'[t].status # "EMPTY" =>
                           slots'[t].launch # slots'[s].launch
                      /\ slots'[s].status = "DONE" =>
                           jobs[slots'[s].launch].ran = 1 /\ ~jobs[slots'[s].launch].failed
                      /\ slots'[s].status = "ERROR" =>
                           jobs[slots'[s].launch].ran = 1 /\ jobs[slots'[s].launch].failed
                      /\ \A a \in Agents : Posting(agent'[a], s) =>
                           /\ jobs[slots'[s].launch].ran = 1
                           /\ jobs[slots'[s].launch].failed = ~agent'[a].ok
                      /\ slots'[s].status = "PENDING" /\ (\A a \in Agents : ~Posting(agent'[a], s))
                           => jobs[slots'[s].launch].ran = 0 /\ ~jobs[slots'[s].launch].failed
    BY <1>1 DEF Occupied, Posting
  <2> QED
    BY <2>1, <2>2 DEF RingInv, Occupied
<1>16. InFlight' /\ Executions'
  <2>1. \A e \in inflight : e.slot \in SlotIds
    BY <1>2 DEF TypeOK, Entries
  <2> QED
    BY <1>1, <1>7, <2>1 DEF RingInv, InFlight, Executions
<1>17. NoSlotLeaks'
  <2> SUFFICES ASSUME NEW s \in SlotIds, slots[s].status # "EMPTY"
               PROVE  \E e \in inflight : e.slot = s
    BY <1>1, <1>7 DEF NoSlotLeaks
  <2> QED
    BY <1>1, <1>2 DEF RingInv, NoSlotLeaks
<1> QED
  BY <1>8, <1>10, <1>12, <1>13, <1>14, <1>15, <1>16, <1>17 DEF RingInv

\* The publish point: the slot at tail becomes PENDING.
LEMMA PublishStep ==
    ASSUME RingInv, NEW h \in Hosts, Publish(h)
    PROVE  RingInv'
<1> DEFINE r == [agent[h] EXCEPT !.pc = "tail"]
           l == agent[h].launch
           x == SlotOf(tail)
<1>1. /\ agent[h].pc = "publish" /\ Goto(h, "tail")
      /\ slots' = [slots EXCEPT ![x].status = "PENDING"]
      /\ UNCHANGED <<mode, head, tail, bell, submit, reaping, inflight, wake, jobs>>
  BY DEF Publish
<1>2. /\ TypeOK /\ h \in Agents /\ h # Engine /\ Hosts \subseteq Agents
      /\ Submitting(agent[h]) /\ submit = h /\ Unpublished(agent[h]) /\ l \in Launches
      /\ \A g \in Hosts \ {h} :
           agent[g].pc \notin {"write", "publish", "tail", "ring", "running", "push"}
  BY <1>1, PublisherStep
<1>3. /\ x \in SlotIds /\ slots \in [SlotIds -> SlotRecord] /\ slots[x].status = "EMPTY"
      /\ slots[x].launch = l
  BY <1>1, <1>2, StateTypes DEF RingInv, Publishers
<1>4. /\ jobs[l].status = "submitted" /\ jobs[l].ran = 0 /\ ~jobs[l].failed
      /\ \A s \in SlotIds : slots[s].status # "EMPTY" => slots[s].launch # l
      /\ \A g \in Hosts \ {h} : Submitting(agent[g]) => agent[g].launch # l
  BY <1>2 DEF RingInv, Submitters
<1>5. /\ r \in AgentRecord /\ r.pc = "tail" /\ r.launch = l
      /\ agent' = [agent EXCEPT ![h] = r]
  <2>1. "tail" \in AgentPc
    BY Pcs
  <2> QED
    BY <1>1, <1>2, <2>1, GotoTypes
<1>6. x = SlotOf(tail) /\ l = agent[h].launch
  OBVIOUS
<1> HIDE DEF r, l, x
<1>7. /\ agent' \in [Agents -> AgentRecord] /\ agent'[h] = r
      /\ \A c \in Agents \ {h} : agent'[c] = agent[c]
  BY <1>2, <1>5, AgentStep
<1>8. /\ slots' \in [SlotIds -> SlotRecord] /\ slots'[x].launch = l
      /\ slots'[x].status = "PENDING"
      /\ \A s \in SlotIds : s # x => slots'[s] = slots[s]
  <2> DEFINE q == [slots[x] EXCEPT !.status = "PENDING"]
  <2>1. q \in SlotRecord /\ q.launch = l /\ q.status = "PENDING"
    BY <1>2, <1>3 DEF SlotRecord
  <2>2. slots' = [slots EXCEPT ![x] = q]
    BY <1>1
  <2> HIDE DEF q
  <2> QED
    BY <1>3, <2>1, <2>2
<1>9. TypeOK'
  BY <1>1, <1>2, <1>7, <1>8 DEF TypeOK, AgentRecord, AgentPc, SlotRecord
<1>10. ~Unpublished(r)
  BY <1>5, Pcs DEF Unpublished
<1>11. Roles'
  BY <1>1, <1>2, <1>5, RolesStep, Pcs
<1>12. \A g \in Hosts :
         /\ agent'[g].launch = agent[g].launch
         /\ Submitting(agent'[g]) => Submitting(agent[g])
         /\ Unpublished(agent'[g]) => Unpublished(agent[g]) /\ g # h
         /\ agent'[g].pc = "push" => agent[g].pc = "push"
  BY <1>2, <1>5, <1>6, <1>7, <1>10 DEF Submitting
<1>13. Submitters'
  <2>1. \A g \in Hosts, s \in SlotIds :
          Unpublished(agent'[g]) /\ slots'[s].status # "EMPTY" =>
            slots'[s].launch # agent[g].launch
    BY <1>4, <1>8, <1>12 DEF RingInv, Submitters, Submitting
  <2> QED
    BY <1>1, <1>12, <2>1 DEF RingInv, Submitters
<1>14. Publishers'
  <2>1. \A e \in inflight : e.slot # x
    BY <1>3 DEF RingInv, InFlight
  <2> SUFFICES ASSUME NEW g \in Hosts
               PROVE  /\ agent'[g].pc \notin {"write", "publish"}
                      /\ \A s \in SlotIds : Placed(agent'[g], s) => g = h /\ s = x
    BY <1>1, <1>5, <1>7, <1>8, <2>1 DEF Publishers, Placed
  <2> QED
    BY <1>2, <1>5, <1>6, <1>7 DEF Placed
<1>15. \A c \in Agents, s \in SlotIds :
         Serving(agent'[c], s) => Serving(agent[c], s) /\ agent'[c] = agent[c] /\ s # x
  <2>1. \A c \in Agents, s \in SlotIds :
         Serving(agent'[c], s) => Serving(agent[c], s) /\ agent'[c] = agent[c]
    BY <1>2, <1>5, <1>7 DEF Serving
  <2> QED
    BY <1>3, <2>1 DEF RingInv, Servers
<1>16. Servers'
  BY <1>8, <1>15 DEF RingInv, Servers, Serving
<1>17. Occupied'
  <2>1. \A c \in Agents, s \in SlotIds :
          /\ Posting(agent'[c], s) => Posting(agent[c], s) /\ agent'[c] = agent[c] /\ s # x
          /\ Posting(agent[c], s) => Posting(agent'[c], s)
    BY <1>1, <1>2, <1>5, <1>7, <1>15 DEF Posting, Serving
  <2> SUFFICES ASSUME NEW s \in SlotIds, slots'[s].status # "EMPTY"
               PROVE  /\ slots'[s].launch \in Launches
                      /\ jobs[slots'[s].launch].status \in {"submitted", "running"}
                      /\ \A t \in SlotIds \ {s} : slots'[t].status # "EMPTY" =>
                           slots'[t].launch # slots'[s].launch
                      /\ slots'[s].status = "DONE" =>
                           jobs[slots'[s].launch].ran = 1 /\ ~jobs[slots'[s].launch].failed
                      /\ slots'[s].status = "ERROR" =>
                           jobs[slots'[s].launch].ran = 1 /\ jobs[slots'[s].launch].failed
                      /\ \A a \in Agents : Posting(agent'[a], s) =>
                           /\ jobs[slots'[s].launch].ran = 1
                           /\ jobs[slots'[s].launch].failed = ~agent'[a].ok
                      /\ slots'[s].status = "PENDING" /\ (\A a \in Agents : ~Posting(agent'[a], s))
                           => jobs[slots'[s].launch].ran = 0 /\ ~jobs[slots'[s].launch].failed
    BY <1>1 DEF Occupied, Posting
  <2>2. CASE s = x
    BY <1>2, <1>4, <1>8, <2>1, <2>2
  <2>3. CASE s # x
    <3>1. slots'[s] = slots[s] /\ slots[s].status # "EMPTY"
      BY <1>8, <2>3
    <3>2. \A t \in SlotIds \ {s} : slots'[t].status # "EMPTY" =>
                           slots'[t].launch # slots'[s].launch
      BY <1>4, <1>8, <3>1 DEF RingInv, Occupied
    <3> QED
      BY <2>1, <3>1, <3>2 DEF RingInv, Occupied
  <2> QED
    BY <2>2, <2>3
<1>18. InFlight' /\ Executions'
  <2>1. \A e \in inflight : e.slot \in SlotIds /\ e.slot # x
    BY <1>2, <1>3 DEF RingInv, InFlight, TypeOK, Entries
  <2> QED
    BY <1>1, <1>8, <2>1 DEF RingInv, InFlight, Executions
<1>19. NoSlotLeaks'
  <2> SUFFICES ASSUME NEW s \in SlotIds, slots'[s].status # "EMPTY"
               PROVE  \/ \E e \in inflight : e.slot = s
                      \/ agent'[h].pc = "tail" /\ SlotOf(tail) = s
    BY <1>1 DEF NoSlotLeaks, SlotOf
  <2> QED
    BY <1>1, <1>2, <1>5, <1>6, <1>7, <1>8 DEF RingInv, NoSlotLeaks
<1> QED
  BY <1>9, <1>11, <1>13, <1>14, <1>16, <1>17, <1>18, <1>19 DEF RingInv

\* The publisher moves tail past its slot and rings the doorbell.
LEMMA AnnounceStep ==
    ASSUME RingInv, NEW h \in Hosts, AdvanceTail(h) \/ RingDoorbell(h)
    PROVE  RingInv'
<1>1. agent[h].pc \in {"tail", "ring"}
  BY DEF AdvanceTail, RingDoorbell
<1>2. /\ TypeOK /\ h \in Agents /\ h # Engine /\ Hosts \subseteq Agents
      /\ Submitting(agent[h]) /\ submit = h
      /\ \A g \in Hosts \ {h} :
           agent[g].pc \notin {"write", "publish", "tail", "ring", "running", "push"}
  BY <1>1, PublisherStep
<1>3. /\ UNCHANGED <<mode, head, slots, submit, reaping, inflight, jobs>>
      /\ tail' \in 0..IndexMod - 1 /\ bell' \in BOOLEAN /\ wake' \in [Hosts -> BOOLEAN]
  <2>1. Succ(tail) \in 0..IndexMod - 1
    BY <1>2, StateTypes, IndexTypes
  <2> QED
    BY <1>2, <2>1 DEF AdvanceTail, RingDoorbell, TypeOK
<1>4. PICK r \in AgentRecord :
        /\ agent' = [agent EXCEPT ![h] = r] /\ r.launch = agent[h].launch
        /\ r.pc \in {"ring", "running"} /\ Placed(agent[h], r.slot)
  <2>1. CASE AdvanceTail(h)
    <3> DEFINE x == SlotOf(tail)
               r == [agent[h] EXCEPT !.pc = "ring", !.slot = x]
    <3>1. x \in SlotIds /\ "ring" \in AgentPc /\ agent[h] \in AgentRecord
      BY <1>2, StateTypes, Pcs
    <3>2. agent' = [agent EXCEPT ![h] = r] /\ agent[h].pc = "tail" /\ x = SlotOf(tail)
      BY <2>1 DEF AdvanceTail
    <3> HIDE DEF x
    <3>3. r \in AgentRecord /\ r.launch = agent[h].launch /\ r.pc = "ring" /\ r.slot = x
      BY <3>1 DEF AgentRecord
    <3> HIDE DEF r
    <3> QED
      BY <3>2, <3>3 DEF Placed
  <2>2. CASE RingDoorbell(h)
    <3> DEFINE r == [agent[h] EXCEPT !.pc = "running"]
    <3>1. "running" \in AgentPc /\ Goto(h, "running") /\ agent[h].pc = "ring"
      BY <2>2, Pcs DEF RingDoorbell
    <3>2. /\ r \in AgentRecord /\ r.launch = agent[h].launch /\ r.pc = "running"
          /\ r.slot = agent[h].slot /\ agent' = [agent EXCEPT ![h] = r]
      BY <1>2, <3>1, GotoTypes
    <3> HIDE DEF r
    <3> QED
      BY <3>1, <3>2 DEF Placed
  <2> QED
    BY <2>1, <2>2
<1>5. /\ agent' \in [Agents -> AgentRecord] /\ agent'[h] = r
      /\ \A c \in Agents \ {h} : agent'[c] = agent[c]
  BY <1>2, <1>4, AgentStep
<1>6. r.slot \in SlotIds /\ \A s \in SlotIds : Placed(agent[h], s) => s = r.slot
  BY <1>1, <1>4 DEF Placed, AgentRecord
<1>7. TypeOK'
  BY <1>2, <1>3, <1>5 DEF TypeOK, AgentRecord, AgentPc
<1>8. ~Unpublished(r)
  BY <1>4, Pcs DEF Unpublished
<1>9. Roles'
  BY <1>2, <1>3, <1>4, RolesStep, Pcs
<1>10. Submitters'
  <2>1. \A g \in Hosts :
          /\ agent'[g].launch = agent[g].launch
          /\ Submitting(agent'[g]) => Submitting(agent[g])
          /\ Unpublished(agent'[g]) => Unpublished(agent[g])
          /\ agent'[g].pc = "push" => agent[g].pc = "push"
    BY <1>2, <1>4, <1>5, <1>8
  <2> QED
    BY <1>3, <2>1 DEF RingInv, Submitters
<1>11. Publishers'
  <2>1. /\ slots[r.slot].status # "EMPTY" /\ slots[r.slot].launch = r.launch
        /\ \A e \in inflight : e.slot # r.slot
    BY <1>4, <1>6 DEF RingInv, Publishers
  <2> SUFFICES ASSUME NEW g \in Hosts
               PROVE  /\ agent'[g].pc \notin {"write", "publish", "tail"}
                      /\ agent'[g].pc \in {"ring", "running", "push"} => g = h
    BY <1>3, <1>5, <2>1 DEF Publishers, Placed
  <2> QED
    BY <1>2, <1>4, <1>5
<1>12. NoSlotLeaks'
  <2> SUFFICES ASSUME NEW s \in SlotIds, slots[s].status # "EMPTY"
               PROVE  \/ \E e \in inflight : e.slot = s
                      \/ agent'[h].pc \in {"ring", "running", "push"} /\ agent'[h].slot = s
    BY <1>3 DEF NoSlotLeaks
  <2>1. (\E e \in inflight : e.slot = s) \/ Placed(agent[h], s)
    BY <1>2 DEF RingInv, NoSlotLeaks, Placed
  <2> QED
    BY <1>4, <1>5, <1>6, <2>1
<1>13. Servers'
  BY <1>2, <1>3, <1>4, <1>5 DEF RingInv, Servers, Serving
<1>14. Occupied'
  <2>1. \A c \in Agents, s \in SlotIds :
          /\ Posting(agent'[c], s) => Posting(agent[c], s) /\ agent'[c] = agent[c]
          /\ Posting(agent[c], s) => Posting(agent'[c], s)
    BY <1>1, <1>2, <1>4, <1>5 DEF Posting
  <2> QED
    BY <1>3, <2>1 DEF RingInv, Occupied, Posting
<1>15. InFlight' /\ Executions'
  BY <1>3 DEF RingInv, InFlight, Executions
<1> QED
  BY <1>7, <1>9, <1>10, <1>11, <1>12, <1>13, <1>14, <1>15 DEF RingInv

\* The launch joins the in-flight list.
LEMMA PushInflightStep ==
    ASSUME RingInv, NEW h \in Hosts, PushInflight(h)
    PROVE  RingInv'
<1> DEFINE q == ProgressEntry
           r == [agent[h] EXCEPT !.pc = q, !.back = "unlock"]
           x == [slot |-> agent[h].slot, launch |-> agent[h].launch]
<1>1. /\ agent[h].pc = "push" /\ reaping = NoHost /\ inflight' = inflight \cup {x}
      /\ agent' = [agent EXCEPT ![h] = r]
      /\ UNCHANGED <<mode, head, tail, slots, bell, submit, reaping, wake, jobs>>
  BY DEF PushInflight
<1>2. /\ TypeOK /\ h \in Agents /\ h # Engine /\ Hosts \subseteq Agents
      /\ submit = h /\ agent[h].launch \in Launches /\ agent[h] \in AgentRecord
      /\ \A g \in Hosts \ {h} :
           agent[g].pc \notin {"write", "publish", "tail", "ring", "running", "push"}
  BY <1>1, PublisherStep, StateTypes
<1>3. q \in {"serve", "reap"} /\ q \in AgentPc /\ (q = "serve" => Cooperative)
  BY Pcs DEF ProgressEntry
<1> HIDE DEF q
<1>4. r \in AgentRecord /\ r.pc = q /\ r.launch = agent[h].launch /\ r.back = "unlock"
  BY <1>2, <1>3 DEF AgentRecord
<1>5. x \in Entries /\ x.slot = agent[h].slot /\ x.launch = agent[h].launch
  <2>1. agent[h].slot \in SlotIds
    BY <1>2 DEF AgentRecord
  <2> QED
    BY <1>2, <2>1 DEF Entries
<1> HIDE DEF r, x
<1>6. /\ agent' \in [Agents -> AgentRecord] /\ agent'[h] = r
      /\ \A c \in Agents \ {h} : agent'[c] = agent[c]
  BY <1>1, <1>2, <1>4, AgentStep
<1>7. TypeOK'
  BY <1>1, <1>2, <1>5, <1>6 DEF TypeOK, AgentRecord, AgentPc
<1>8. ~Unpublished(r) /\ ~Submitting(r)
  BY <1>3, <1>4, Pcs DEF Unpublished, Submitting
<1>9. Roles'
  <2>1. r.pc \in ServicePc => Cooperative
    BY <1>3, <1>4, Pcs
  <2>2. r.pc \notin {"asleep", "scan"}
    BY <1>3, <1>4
  <2>3. \A g \in Hosts \ {h} :
             /\ submit = g => submit' = g
             /\ reaping = g => reaping' = g /\ inflight \subseteq inflight'
    BY <1>1
  <2> QED
    BY <1>1, <1>2, <1>4, <2>1, <2>2, <2>3, RolesStep
<1>10. Submitters'
  <2>1. \A g \in Hosts :
          /\ agent'[g].launch = agent[g].launch
          /\ Submitting(agent'[g]) => Submitting(agent[g])
          /\ Unpublished(agent'[g]) => Unpublished(agent[g])
          /\ agent'[g].pc = "push" => agent[g].pc = "push"
    BY <1>2, <1>3, <1>4, <1>6, <1>8
  <2> QED
    BY <1>1, <2>1 DEF RingInv, Submitters
<1>11. Publishers'
  <2> SUFFICES ASSUME NEW g \in Hosts
               PROVE  agent'[g].pc \notin {"write", "publish", "tail", "ring", "running", "push"}
    BY DEF Publishers, Placed
  <2> QED
    BY <1>2, <1>3, <1>4, <1>6
<1>12. /\ slots[x.slot].status # "EMPTY" /\ slots[x.slot].launch = x.launch
       /\ jobs[x.launch].status = "running" /\ Placed(agent[h], x.slot)
  <2>1. Placed(agent[h], x.slot) /\ x.slot \in SlotIds
    BY <1>1, <1>5 DEF Placed, Entries
  <2> QED
    BY <1>1, <1>5, <2>1 DEF RingInv, Publishers, Submitters
<1>13. NoSlotLeaks'
  <2> SUFFICES ASSUME NEW s \in SlotIds, slots[s].status # "EMPTY"
               PROVE  \E e \in inflight' : e.slot = s
    BY <1>1 DEF NoSlotLeaks
  <2>1. (\E e \in inflight : e.slot = s) \/ agent[h].slot = s
    BY <1>1, <1>2 DEF RingInv, NoSlotLeaks
  <2> QED
    BY <1>1, <1>5, <2>1
<1>14. Servers'
  BY <1>1, <1>2, <1>3, <1>4, <1>6 DEF RingInv, Servers, Serving
<1>15. Occupied'
  <2>1. \A c \in Agents, s \in SlotIds :
          /\ Posting(agent'[c], s) => Posting(agent[c], s) /\ agent'[c] = agent[c]
          /\ Posting(agent[c], s) => Posting(agent'[c], s)
    BY <1>1, <1>2, <1>3, <1>4, <1>6 DEF Posting
  <2> QED
    BY <1>1, <2>1 DEF RingInv, Occupied, Posting
<1>16. InFlight' /\ Executions'
  BY <1>1, <1>12 DEF RingInv, InFlight, Executions
<1> QED
  BY <1>7, <1>9, <1>10, <1>11, <1>13, <1>14, <1>15, <1>16 DEF RingInv
-----------------------------------------------------------------------------
(* The reap.                                                                *)

\* An in-flight entry owns its slot and its launch.
LEMMA EntryOwns ==
    ASSUME RingInv, NEW e \in inflight
    PROVE  /\ e.slot \in SlotIds /\ e.launch \in Launches
           /\ slots[e.slot].status # "EMPTY" /\ slots[e.slot].launch = e.launch
           /\ jobs[e.launch].status = "running"
           /\ \A f \in inflight \ {e} : f.slot # e.slot /\ f.launch # e.launch
           /\ \A s \in SlotIds \ {e.slot} : slots[s].status # "EMPTY" =>
                slots[s].launch # e.launch
           /\ \A g \in Hosts :
                /\ ~Placed(agent[g], e.slot)
                /\ Submitting(agent[g]) \/ agent[g].pc = "push" =>
                     agent[g].launch # e.launch
<1>1. TypeOK /\ \A f \in inflight : f \in Entries /\ f.slot \in SlotIds /\ f.launch \in Launches
  BY DEF RingInv, TypeOK, Entries
<1>2. \A f \in inflight : /\ slots[f.slot].status # "EMPTY" /\ slots[f.slot].launch = f.launch
                          /\ jobs[f.launch].status = "running"
  BY DEF RingInv, InFlight
<1>3. \A s \in SlotIds \ {e.slot} : slots[s].status # "EMPTY" => slots[s].launch # e.launch
  BY <1>1, <1>2 DEF RingInv, Occupied
<1>4. \A f \in inflight \ {e} : f.slot # e.slot /\ f.launch # e.launch
  <2> SUFFICES ASSUME NEW f \in inflight, f # e
               PROVE  f.slot # e.slot /\ f.launch # e.launch
    OBVIOUS
  <2>1. f.slot = e.slot => f.launch = e.launch
    BY <1>2
  <2>2. f.slot = e.slot /\ f.launch = e.launch => f = e
    BY <1>1 DEF Entries
  <2>3. f.slot # e.slot
    BY <2>1, <2>2
  <2> QED
    BY <1>1, <1>2, <1>3, <2>3
<1>5. ASSUME NEW g \in Hosts
      PROVE  /\ ~Placed(agent[g], e.slot)
             /\ Submitting(agent[g]) \/ agent[g].pc = "push" => agent[g].launch # e.launch
  <2>1. ~Placed(agent[g], e.slot)
    BY <1>1 DEF RingInv, Publishers
  <2>2. Submitting(agent[g]) => agent[g].launch # e.launch
    BY <1>2 DEF RingInv, Submitters
  <2>3. agent[g].pc = "push" => agent[g].launch # e.launch
    <3> SUFFICES ASSUME agent[g].pc = "push"
                 PROVE  agent[g].launch # e.launch
      OBVIOUS
    <3>1. agent[g].slot \in SlotIds
      BY <1>1, StateTypes DEF AgentRecord
    <3>2. Placed(agent[g], agent[g].slot)
      BY DEF Placed
    <3>3. /\ slots[agent[g].slot].status # "EMPTY"
          /\ slots[agent[g].slot].launch = agent[g].launch
          /\ agent[g].slot # e.slot
      BY <2>1, <3>1, <3>2 DEF RingInv, Publishers
    <3> QED
      BY <1>3, <3>1, <3>3
  <2> QED
    BY <2>1, <2>2, <2>3
<1> QED
  BY <1>1, <1>2, <1>3, <1>4, <1>5

\* progress looks at an in-flight entry, and frees its slot if it is finished.
LEMMA ReapStep ==
    ASSUME RingInv, NEW h \in Hosts, NEW e \in agent[h].scan, ReapEntry(h, e)
    PROVE  RingInv'
<1> DEFINE w == agent[h].scan \ {e}
           r == [agent[h] EXCEPT !.scan = w]
<1>1. /\ TypeOK /\ h \in Agents /\ h # Engine /\ Hosts \subseteq Agents
      /\ agent[h] \in AgentRecord /\ slots \in [SlotIds -> SlotRecord]
      /\ jobs \in [Launches -> JobRecord]
  BY StateTypes DEF RingInv
<1>2. /\ agent[h].pc = "scan" /\ agent' = [agent EXCEPT ![h] = r]
      /\ UNCHANGED <<mode, head, tail, bell, submit, reaping, wake>>
  BY DEF ReapEntry
<1>3. reaping = h /\ agent[h].scan \subseteq inflight /\ e \in inflight
  BY <1>2 DEF RingInv, Roles
<1>4. w \in SUBSET Entries /\ w = agent[h].scan \ {e}
  BY <1>1 DEF AgentRecord
<1> HIDE DEF w
<1>5. /\ r \in AgentRecord /\ r.pc = "scan" /\ r.scan = w /\ r.launch = agent[h].launch
      /\ r.back = agent[h].back
  BY <1>1, <1>2, <1>4 DEF AgentRecord
<1> HIDE DEF r
<1>6. /\ agent' \in [Agents -> AgentRecord] /\ agent'[h] = r
      /\ \A c \in Agents \ {h} : agent'[c] = agent[c]
  BY <1>1, <1>2, <1>5, AgentStep
<1>7. \A g \in Hosts \ {h} : reaping # g
  BY <1>3
<1>8. /\ Submitting(r) => Submitting(agent[h])
      /\ Unpublished(r) => Unpublished(agent[h])
      /\ Holding(r) => Holding(agent[h])
  BY <1>2, <1>5 DEF Submitting, Unpublished, Holding
<1>9. Holding(r) => submit' = h
  BY <1>2, <1>8 DEF RingInv, Roles
<1>10. \A g \in Hosts :
         /\ agent'[g].launch = agent[g].launch /\ agent'[g].pc = agent[g].pc
         /\ Submitting(agent'[g]) => Submitting(agent[g])
         /\ Unpublished(agent'[g]) => Unpublished(agent[g])
         /\ agent[g].pc # "scan" => agent'[g] = agent[g]
  BY <1>1, <1>2, <1>5, <1>6, <1>8
<1>11. \A c \in Agents, s \in SlotIds :
         /\ Serving(agent'[c], s) => Serving(agent[c], s) /\ agent'[c] = agent[c]
         /\ Posting(agent'[c], s) => Posting(agent[c], s) /\ agent'[c] = agent[c]
         /\ Posting(agent[c], s) => Posting(agent'[c], s)
  BY <1>1, <1>2, <1>5, <1>6 DEF Serving, Posting
<1>12. CASE ~Finished(e.slot)
  <2>1. UNCHANGED <<jobs, slots, inflight>>
    BY <1>12 DEF ReapEntry
  <2>2. /\ {r.pc, agent[h].pc} \cap {"tail", "ring", "running", "push", "post"} = {}
        /\ r.pc \notin {"asleep", "publish", "write"}
        /\ r.pc \notin ServicePc /\ r.scan \subseteq inflight
    BY <1>2, <1>3, <1>4, <1>5, Pcs
  <2>3. /\ head' \in 0..IndexMod - 1 /\ bell' \in BOOLEAN /\ wake' \in [Hosts -> BOOLEAN]
        /\ submit' \in Hosts \cup {NoHost} /\ reaping' \in Hosts \cup {NoHost}
    BY <1>1, <1>2 DEF TypeOK
  <2>4. Submitting(r) => Unpublished(r) /\ Unpublished(agent[h])
    BY <1>2, <1>5, <1>8 DEF Submitting, Unpublished
  <2>5. \A s \in SlotIds : ~Serving(r, s)
    BY <1>5 DEF Serving
  <2> QED
    BY <1>1, <1>2, <1>3, <1>5, <1>9, <2>1, <2>2, <2>3, <2>4, <2>5, QuietStep
<1>13. CASE Finished(e.slot)
  <2> DEFINE st == IF slots[e.slot].status = "DONE" THEN "complete" ELSE "error"
             x == e.slot
             l == e.launch
  <2>1. /\ jobs' = [jobs EXCEPT ![l].status = st]
        /\ slots' = [slots EXCEPT ![x].status = "EMPTY"]
        /\ inflight' = inflight \ {e} /\ x = e.slot /\ l = e.launch
    BY <1>13 DEF ReapEntry
  <2>2. st \in {"complete", "error"}
    OBVIOUS
  <2> HIDE DEF st, x, l
  <2>3. /\ x \in SlotIds /\ l \in Launches /\ slots[x].status \in {"DONE", "ERROR"}
        /\ slots[x].launch = l /\ jobs[l].status = "running"
        /\ \A f \in inflight' : f.slot # x /\ f.launch # l
        /\ \A s \in SlotIds \ {x} : slots[s].status # "EMPTY" => slots[s].launch # l
        /\ \A g \in Hosts :
             /\ ~Placed(agent[g], x)
             /\ Submitting(agent[g]) \/ agent[g].pc = "push" => agent[g].launch # l
    <3>1. slots[x].status \in {"DONE", "ERROR"}
      BY <1>13, <2>1 DEF Finished
    <3> QED
      BY <1>3, <2>1, <3>1, EntryOwns
  <2>4. /\ jobs' \in [Launches -> JobRecord]
        /\ jobs'[l].status = st
        /\ \A k \in Launches : k # l => jobs'[k] = jobs[k]
        /\ \A k \in Launches : jobs'[k].ran = jobs[k].ran /\ jobs'[k].failed = jobs[k].failed
    <3>1. st \in {"queued", "submitted", "running", "complete", "error", "refused"}
      BY <2>2
    <3> QED
      BY <1>1, <2>1, <2>3, <3>1, StatusStep
  <2>5. /\ slots' \in [SlotIds -> SlotRecord] /\ slots'[x].status = "EMPTY"
        /\ slots'[x].launch = slots[x].launch
        /\ \A s \in SlotIds : s # x => slots'[s] = slots[s]
    <3> DEFINE q == [slots[x] EXCEPT !.status = "EMPTY"]
    <3>1. q \in SlotRecord /\ q.launch = slots[x].launch /\ q.status = "EMPTY"
      BY <1>1, <2>3 DEF SlotRecord
    <3>2. slots' = [slots EXCEPT ![x] = q]
      BY <2>1
    <3> HIDE DEF q
    <3> QED
      BY <1>1, <2>3, <3>1, <3>2
  <2>6. TypeOK'
    <3>1. inflight' \subseteq Entries
      BY <1>1, <2>1 DEF TypeOK
    <3> QED
      BY <1>1, <1>2, <1>6, <2>4, <2>5, <3>1
      DEF TypeOK, AgentRecord, AgentPc, SlotRecord, JobRecord
  <2>7. Roles'
    <3>1. r.pc # "asleep" /\ r.pc \notin ServicePc /\ r.scan \subseteq inflight'
      BY <1>3, <1>4, <1>5, <2>1, Pcs
    <3> QED
      BY <1>1, <1>2, <1>3, <1>5, <1>7, <1>9, <3>1, RolesStep
  <2>8. \A s \in SlotIds : slots'[s].status # "EMPTY" =>
          s # x /\ slots[s].status # "EMPTY" /\ slots'[s] = slots[s] /\ slots[s].launch # l
    BY <2>3, <2>5
  <2>9. Submitters'
    <3>1. \A g \in Hosts, s \in SlotIds :
            Unpublished(agent[g]) /\ slots'[s].status # "EMPTY" =>
              slots'[s].launch # agent[g].launch
      BY <2>8 DEF RingInv, Submitters
    <3>2. \A g \in Hosts :
            Submitting(agent[g]) \/ agent[g].pc = "push" =>
              agent[g].launch \in Launches /\ jobs'[agent[g].launch] = jobs[agent[g].launch]
      BY <2>3, <2>4 DEF RingInv, Submitters
    <3>3. \A g \in Hosts : Unpublished(agent[g]) => Submitting(agent[g])
      BY DEF Submitting
    <3> QED
      BY <1>10, <3>1, <3>2, <3>3 DEF RingInv, Submitters
  <2>10. Publishers'
    <3> SUFFICES ASSUME NEW g \in Hosts
                 PROVE  /\ agent'[g].pc \in {"write", "publish"} =>
                             slots'[SlotOf(tail)].status = "EMPTY"
                        /\ agent'[g].pc = "publish" =>
                             slots'[SlotOf(tail)].launch = agent'[g].launch
                        /\ \A s \in SlotIds : Placed(agent'[g], s) =>
                             /\ slots'[s].status # "EMPTY" /\ slots'[s].launch = agent'[g].launch
                             /\ \A f \in inflight' : f.slot # s
      BY <1>2 DEF Publishers, Placed
    <3>1. \A s \in SlotIds : slots'[s].launch = slots[s].launch
      BY <2>5
    <3>2. \A s \in SlotIds : slots[s].status = "EMPTY" => slots'[s].status = "EMPTY"
      BY <2>5
    <3>3. SlotOf(tail) \in SlotIds
      BY <1>1, StateTypes
    <3>4. \A s \in SlotIds : Placed(agent'[g], s) => Placed(agent[g], s) /\ s # x
      BY <1>10, <2>3 DEF Placed
    <3> QED
      BY <1>10, <2>1, <2>5, <3>1, <3>2, <3>3, <3>4 DEF RingInv, Publishers
  <2>11. Servers'
    <3>1. \A c \in Agents, s \in SlotIds : Serving(agent[c], s) => s # x
      BY <2>3 DEF RingInv, Servers
    <3> QED
      BY <1>11, <2>5, <3>1 DEF RingInv, Servers, Serving
  <2>12. Occupied'
    <3> SUFFICES ASSUME NEW s \in SlotIds, slots'[s].status # "EMPTY"
                 PROVE  /\ slots'[s].launch \in Launches
                        /\ jobs'[slots'[s].launch].status \in {"submitted", "running"}
                        /\ \A t \in SlotIds \ {s} : slots'[t].status # "EMPTY" =>
                             slots'[t].launch # slots'[s].launch
                        /\ slots'[s].status = "DONE" =>
                             jobs'[slots'[s].launch].ran = 1 /\ ~jobs'[slots'[s].launch].failed
                        /\ slots'[s].status = "ERROR" =>
                             jobs'[slots'[s].launch].ran = 1 /\ jobs'[slots'[s].launch].failed
                        /\ \A a \in Agents : Posting(agent'[a], s) =>
                             /\ jobs'[slots'[s].launch].ran = 1
                             /\ jobs'[slots'[s].launch].failed = ~agent'[a].ok
                        /\ slots'[s].status = "PENDING"
                             /\ (\A a \in Agents : ~Posting(agent'[a], s)) =>
                             jobs'[slots'[s].launch].ran = 0 /\ ~jobs'[slots'[s].launch].failed
      BY DEF Occupied, Posting
    <3>1. /\ slots[s].status # "EMPTY" /\ slots'[s] = slots[s]
          /\ slots[s].launch \in Launches
          /\ jobs'[slots[s].launch] = jobs[slots[s].launch]
      BY <2>4, <2>8 DEF RingInv, Occupied
    <3>2. \A t \in SlotIds \ {s} : slots'[t].status # "EMPTY" =>
            slots'[t].launch # slots'[s].launch
      BY <2>8, <3>1 DEF RingInv, Occupied
    <3> QED
      BY <1>11, <3>1, <3>2 DEF RingInv, Occupied
  <2>13. InFlight' /\ Executions'
    <3>1. \A f \in inflight' : f \in inflight /\ f.slot \in SlotIds /\ f.launch \in Launches
      BY <2>1, EntryOwns
    <3> QED
      BY <2>2, <2>3, <2>4, <2>5, <3>1 DEF RingInv, InFlight, Executions
  <2>14. NoSlotLeaks'
    <3> SUFFICES ASSUME NEW s \in SlotIds, slots'[s].status # "EMPTY"
                 PROVE  \/ \E f \in inflight' : f.slot = s
                        \/ \E g \in Hosts :
                             \/ agent'[g].pc = "tail" /\ SlotOf(tail) = s
                             \/ agent'[g].pc \in {"ring", "running", "push"} /\ agent'[g].slot = s
      BY <1>2 DEF NoSlotLeaks, SlotOf
    <3>1. s # x /\ slots[s].status # "EMPTY"
      BY <2>8
    <3>2. CASE \E f \in inflight : f.slot = s
      BY <2>1, <3>1, <3>2
    <3>3. CASE ~ \E f \in inflight : f.slot = s
      BY <1>10, <3>1, <3>3 DEF RingInv, NoSlotLeaks
    <3> QED
      BY <3>2, <3>3
  <2> QED
    BY <2>6, <2>7, <2>9, <2>10, <2>11, <2>12, <2>13, <2>14 DEF RingInv
<1> QED
  BY <1>12, <1>13
-----------------------------------------------------------------------------
(* The execution.                                                           *)

\* A service step of one agent: its call, and the other service loops.
LEMMA ServerStep ==
    ASSUME SoleConsumer, Users, RingInv, NEW a \in Agents, agent[a].pc \in {"run", "post"}
    PROVE  /\ TypeOK /\ Hosts \subseteq Agents /\ Engine \notin Hosts
           /\ agent[a] \in AgentRecord /\ SlotOf(agent[a].head) \in SlotIds
           /\ slots \in [SlotIds -> SlotRecord] /\ jobs \in [Launches -> JobRecord]
           /\ slots[SlotOf(agent[a].head)].status = "PENDING"
           /\ agent[a].served = slots[SlotOf(agent[a].head)].launch
           /\ agent[a].served \in Launches
           /\ a = Engine => ~Cooperative
           /\ a \in Hosts => Cooperative
           /\ \A c \in Agents \ {a} : agent[c].pc \notin ServicePc
<1>1. /\ TypeOK /\ Hosts \subseteq Agents /\ Engine \notin Hosts
      /\ agent[a] \in AgentRecord /\ SlotOf(agent[a].head) \in SlotIds
      /\ slots \in [SlotIds -> SlotRecord] /\ jobs \in [Launches -> JobRecord]
  BY StateTypes DEF RingInv
<1>2. agent[a].pc \in ServicePc
  BY Pcs
<1>3. /\ a = Engine => ~Cooperative
      /\ a \in Hosts => Cooperative
  BY <1>2 DEF RingInv, Roles
<1>4. Serving(agent[a], SlotOf(agent[a].head))
  BY DEF Serving
<1>5. /\ slots[SlotOf(agent[a].head)].status = "PENDING"
      /\ agent[a].served = slots[SlotOf(agent[a].head)].launch
  BY <1>1, <1>4 DEF RingInv, Servers
<1>6. agent[a].served \in Launches
  BY <1>1, <1>5 DEF RingInv, Occupied
<1>7. \A c \in Agents \ {a} : agent[c].pc \notin ServicePc
  BY <1>2, OneServer
<1> QED
  BY <1>1, <1>3, <1>5, <1>6, <1>7

\* One launch is executed.
LEMMA RunJob ==
    ASSUME TypeOK, NEW l \in Launches, NEW ok \in BOOLEAN,
           jobs' = [jobs EXCEPT ![l] = Executed(@, ok)]
    PROVE  /\ jobs' \in [Launches -> JobRecord]
           /\ jobs'[l].ran = jobs[l].ran + 1
           /\ jobs'[l].failed = (jobs[l].failed \/ ~ok)
           /\ \A k \in Launches : k # l => jobs'[k] = jobs[k]
           /\ \A k \in Launches : jobs'[k].status = jobs[k].status
<1> DEFINE n == jobs[l].ran + 1
           f == jobs[l].failed \/ ~ok
           j == [jobs[l] EXCEPT !.ran = n, !.failed = f]
<1>1. jobs \in [Launches -> JobRecord] /\ jobs[l] \in JobRecord
  BY StateTypes
<1>2. n \in Nat /\ f \in BOOLEAN
  BY <1>1 DEF JobRecord
<1>3. jobs' = [jobs EXCEPT ![l] = j]
  BY DEF Executed
<1>4. n = jobs[l].ran + 1 /\ f = (jobs[l].failed \/ ~ok)
  OBVIOUS
<1> HIDE DEF n, f
<1>5. j \in JobRecord /\ j.ran = n /\ j.failed = f /\ j.status = jobs[l].status
  BY <1>1, <1>2 DEF JobRecord
<1> HIDE DEF j
<1>6. /\ jobs' \in [Launches -> JobRecord] /\ jobs'[l] = j
      /\ \A k \in Launches : k # l => jobs'[k] = jobs[k]
  BY <1>1, <1>3, <1>5
<1>7. \A k \in Launches : jobs'[k].status = jobs[k].status
  BY <1>5, <1>6
<1>8. jobs'[l].ran = jobs[l].ran + 1
  BY <1>4, <1>5, <1>6
<1>9. jobs'[l].failed = (jobs[l].failed \/ ~ok)
  BY <1>4, <1>5, <1>6, Zenon
<1> QED
  BY <1>6, <1>7, <1>8, <1>9

\* The service loop executes the launch it copied.
LEMMA RunLaunchStep ==
    ASSUME SoleConsumer, Users, RingInv, NEW a \in Agents, NEW ok \in BOOLEAN, RunLaunch(a, ok)
    PROVE  RingInv'
<1> DEFINE r == [agent[a] EXCEPT !.pc = "post", !.ok = ok]
           l == agent[a].served
           x == SlotOf(agent[a].head)
<1>1. /\ agent[a].pc = "run" /\ agent' = [agent EXCEPT ![a] = r]
      /\ jobs' = [jobs EXCEPT ![l] = Executed(@, ok)]
      /\ UNCHANGED <<mode, head, tail, slots, bell, submit, reaping, inflight, wake>>
  BY DEF RunLaunch
<1>2. /\ TypeOK /\ Hosts \subseteq Agents /\ Engine \notin Hosts
      /\ agent[a] \in AgentRecord /\ x \in SlotIds
      /\ slots \in [SlotIds -> SlotRecord] /\ jobs \in [Launches -> JobRecord]
      /\ slots[x].status = "PENDING" /\ l = slots[x].launch /\ l \in Launches
      /\ a = Engine => ~Cooperative
      /\ a \in Hosts => Cooperative
      /\ \A c \in Agents \ {a} : agent[c].pc \notin ServicePc
  BY <1>1, ServerStep
<1>3. /\ r \in AgentRecord /\ r.pc = "post" /\ r.ok = ok /\ r.launch = agent[a].launch
      /\ r.back = agent[a].back /\ r.head = agent[a].head /\ r.served = l
  <2>1. "post" \in AgentPc
    BY Pcs
  <2> QED
    BY <1>2, <2>1, Zenon DEF AgentRecord
<1>4. x = SlotOf(agent[a].head)
  OBVIOUS
<1> HIDE DEF r, l, x
<1>5. /\ agent' \in [Agents -> AgentRecord] /\ agent'[a] = r
      /\ \A c \in Agents \ {a} : agent'[c] = agent[c]
  BY <1>1, <1>2, <1>3, AgentStep
<1>6. /\ jobs' \in [Launches -> JobRecord]
      /\ jobs'[l].ran = jobs[l].ran + 1
      /\ jobs'[l].failed = (jobs[l].failed \/ ~ok)
      /\ \A k \in Launches : k # l => jobs'[k] = jobs[k]
      /\ \A k \in Launches : jobs'[k].status = jobs[k].status
  BY <1>1, <1>2, RunJob
<1>7. jobs[l].ran = 0 /\ ~jobs[l].failed /\ jobs[l].status # "queued"
  <2>1. \A c \in Agents : ~Posting(agent[c], x)
    BY <1>1, <1>2, Pcs DEF Posting
  <2> QED
    BY <1>2, <2>1 DEF RingInv, Occupied
<1>8. jobs'[l].ran = 1 /\ jobs'[l].failed = ~ok
  <2>1. jobs'[l].ran = 1
    BY <1>6, <1>7
  <2>2. jobs'[l].failed = ~ok
    BY <1>6, <1>7, Zenon
  <2> QED
    BY <2>1, <2>2
<1>9. TypeOK'
  BY <1>1, <1>2, <1>5, <1>6 DEF TypeOK, AgentRecord, AgentPc, JobRecord
<1>10. /\ a \in Hosts /\ Submitting(r) => Unpublished(r) /\ Unpublished(agent[a])
       /\ a \in Hosts /\ Holding(r) => Holding(agent[a])
  BY <1>1, <1>3, Pcs DEF Submitting, Unpublished, Holding
<1>11. Roles'
  <2>1. a \in Hosts => (Holding(r) => submit' = a)
    BY <1>1, <1>10 DEF RingInv, Roles
  <2>2. r.pc \in ServicePc /\ r.pc \notin {"asleep", "scan"}
    BY <1>3, Pcs
  <2> QED
    BY <1>1, <1>2, <1>3, <2>1, <2>2, RolesStep
<1>12. \A g \in Hosts :
         /\ agent'[g].launch = agent[g].launch
         /\ Submitting(agent'[g]) => Submitting(agent[g])
         /\ Unpublished(agent'[g]) => Unpublished(agent[g])
         /\ agent'[g].pc \in {"write", "publish", "tail", "ring", "running", "push"} =>
              agent'[g] = agent[g]
         /\ agent[g].pc \in {"write", "publish", "tail", "ring", "running", "push"} =>
              agent'[g] = agent[g]
  <2> SUFFICES ASSUME NEW g \in Hosts
               PROVE  /\ agent'[g].launch = agent[g].launch
                      /\ Submitting(agent'[g]) => Submitting(agent[g])
                      /\ Unpublished(agent'[g]) => Unpublished(agent[g])
                      /\ agent'[g].pc \in {"write", "publish", "tail", "ring", "running", "push"}
                           => agent'[g] = agent[g]
                      /\ agent[g].pc \in {"write", "publish", "tail", "ring", "running", "push"}
                           => agent'[g] = agent[g]
    OBVIOUS
  <2>1. CASE g = a
    BY <1>1, <1>3, <1>5, <1>10, <2>1 DEF Submitting
  <2>2. CASE g # a
    BY <1>2, <1>5, <2>2
  <2> QED
    BY <2>1, <2>2
<1>13. Submitters'
  <2>1. \A g \in Hosts : Unpublished(agent[g]) =>
          agent[g].launch # l /\ agent[g].launch \in Launches
    BY <1>2 DEF RingInv, Submitters, Submitting
  <2> QED
    BY <1>1, <1>6, <1>12, <2>1 DEF RingInv, Submitters
<1>14. Publishers'
  <2> SUFFICES ASSUME NEW g \in Hosts
               PROVE  /\ agent'[g].pc \in {"write", "publish"} =>
                           slots[SlotOf(tail)].status = "EMPTY"
                      /\ agent'[g].pc = "publish" =>
                           slots[SlotOf(tail)].launch = agent'[g].launch
                      /\ \A s \in SlotIds : Placed(agent'[g], s) =>
                           /\ slots[s].status # "EMPTY" /\ slots[s].launch = agent'[g].launch
                           /\ \A e \in inflight : e.slot # s
    BY <1>1 DEF Publishers, Placed
  <2> QED
    BY <1>12 DEF RingInv, Publishers, Placed
<1>15. NoSlotLeaks'
  <2> SUFFICES ASSUME NEW s \in SlotIds, slots[s].status # "EMPTY"
               PROVE  \/ \E e \in inflight : e.slot = s
                      \/ \E g \in Hosts :
                           \/ agent'[g].pc = "tail" /\ SlotOf(tail) = s
                           \/ agent'[g].pc \in {"ring", "running", "push"} /\ agent'[g].slot = s
    BY <1>1 DEF NoSlotLeaks, SlotOf
  <2> QED
    BY <1>12 DEF RingInv, NoSlotLeaks
<1>16. \A c \in Agents, s \in SlotIds :
         /\ Serving(agent'[c], s) => c = a /\ s = x
         /\ Posting(agent'[c], s) => c = a /\ s = x
         /\ ~Posting(agent[c], s)
  BY <1>1, <1>2, <1>3, <1>4, <1>5, Pcs DEF Serving, Posting
<1>17. Servers'
  BY <1>1, <1>2, <1>3, <1>5, <1>16 DEF Servers, Serving
<1>18. Occupied'
  <2> SUFFICES ASSUME NEW s \in SlotIds, slots[s].status # "EMPTY"
               PROVE  /\ slots[s].launch \in Launches
                      /\ jobs'[slots[s].launch].status \in {"submitted", "running"}
                      /\ \A t \in SlotIds \ {s} : slots[t].status # "EMPTY" =>
                           slots[t].launch # slots[s].launch
                      /\ slots[s].status = "DONE" =>
                           jobs'[slots[s].launch].ran = 1 /\ ~jobs'[slots[s].launch].failed
                      /\ slots[s].status = "ERROR" =>
                           jobs'[slots[s].launch].ran = 1 /\ jobs'[slots[s].launch].failed
                      /\ \A c \in Agents : Posting(agent'[c], s) =>
                           /\ jobs'[slots[s].launch].ran = 1
                           /\ jobs'[slots[s].launch].failed = ~agent'[c].ok
                      /\ slots[s].status = "PENDING"
                           /\ (\A c \in Agents : ~Posting(agent'[c], s)) =>
                           jobs'[slots[s].launch].ran = 0 /\ ~jobs'[slots[s].launch].failed
    BY <1>1 DEF Occupied, Posting
  <2>1. /\ slots[s].launch \in Launches
        /\ jobs'[slots[s].launch].status \in {"submitted", "running"}
        /\ \A t \in SlotIds \ {s} : slots[t].status # "EMPTY" =>
             slots[t].launch # slots[s].launch
    BY <1>6 DEF RingInv, Occupied
  <2>2. CASE s = x
    <3>1. slots[s].launch = l /\ slots[s].status = "PENDING"
      BY <1>2, <2>2
    <3>2. Posting(agent'[a], s)
      BY <1>3, <1>4, <1>5, <2>2 DEF Posting
    <3>3. \A c \in Agents : Posting(agent'[c], s) => agent'[c].ok = ok
      BY <1>3, <1>5, <1>16, Zenon
    <3>4. \A c \in Agents : Posting(agent'[c], s) =>
            /\ jobs'[slots[s].launch].ran = 1
            /\ jobs'[slots[s].launch].failed = ~agent'[c].ok
      BY <1>8, <3>1, <3>3, Zenon
    <3> QED
      BY <2>1, <3>1, <3>2, <3>4
  <2>3. CASE s # x
    <3>1. slots[s].launch # l
      BY <1>2, <2>3 DEF RingInv, Occupied
    <3>2. jobs'[slots[s].launch] = jobs[slots[s].launch]
      BY <1>6, <2>1, <3>1
    <3>3. /\ slots[s].status = "DONE" =>
               jobs[slots[s].launch].ran = 1 /\ ~jobs[slots[s].launch].failed
          /\ slots[s].status = "ERROR" =>
               jobs[slots[s].launch].ran = 1 /\ jobs[slots[s].launch].failed
          /\ slots[s].status = "PENDING" =>
               jobs[slots[s].launch].ran = 0 /\ ~jobs[slots[s].launch].failed
      BY <1>16 DEF RingInv, Occupied
    <3> QED
      BY <1>16, <2>1, <2>3, <3>2, <3>3
  <2> QED
    BY <2>2, <2>3
<1>19. InFlight'
  <2>1. \A e \in inflight : e.launch \in Launches
    BY EntryOwns
  <2> QED
    BY <1>1, <1>6, <2>1 DEF RingInv, InFlight
<1>20. Executions'
  <2> SUFFICES ASSUME NEW k \in Launches
               PROVE  /\ jobs'[k].ran \in {0, 1}
                      /\ jobs'[k].status = "queued" => jobs'[k].ran = 0 /\ ~jobs'[k].failed
    BY DEF Executions
  <2>1. CASE k = l
    BY <1>6, <1>7, <1>8, <2>1
  <2>2. CASE k # l
    BY <1>6, <2>2 DEF RingInv, Executions
  <2> QED
    BY <2>1, <2>2
<1> QED
  BY <1>9, <1>11, <1>13, <1>14, <1>15, <1>17, <1>18, <1>19, <1>20 DEF RingInv

\* The service loop posts the result of the launch it executed.
LEMMA PostResultStep ==
    ASSUME SoleConsumer, Users, RingInv, NEW a \in Agents, PostResult(a)
    PROVE  RingInv'
<1> DEFINE r == [agent[a] EXCEPT !.pc = "advance"]
           st == IF agent[a].ok THEN "DONE" ELSE "ERROR"
           l == agent[a].served
           x == SlotOf(agent[a].head)
<1>1. /\ agent[a].pc = "post" /\ Goto(a, "advance")
      /\ slots' = [slots EXCEPT ![x].status = st]
      /\ UNCHANGED <<mode, head, tail, bell, submit, reaping, inflight, wake, jobs>>
  BY DEF PostResult
<1>2. /\ TypeOK /\ Hosts \subseteq Agents /\ Engine \notin Hosts
      /\ agent[a] \in AgentRecord /\ x \in SlotIds
      /\ slots \in [SlotIds -> SlotRecord] /\ jobs \in [Launches -> JobRecord]
      /\ slots[x].status = "PENDING" /\ l = slots[x].launch /\ l \in Launches
      /\ a = Engine => ~Cooperative
      /\ a \in Hosts => Cooperative
      /\ \A c \in Agents \ {a} : agent[c].pc \notin ServicePc
  BY <1>1, ServerStep
<1>3. /\ r \in AgentRecord /\ r.pc = "advance" /\ r.launch = agent[a].launch
      /\ r.back = agent[a].back /\ agent' = [agent EXCEPT ![a] = r]
  <2>1. "advance" \in AgentPc
    BY Pcs
  <2> QED
    BY <1>1, <1>2, <2>1, GotoTypes
<1>4. x = SlotOf(agent[a].head)
  OBVIOUS
<1>5. \/ st = "DONE" /\ agent[a].ok
      \/ st = "ERROR" /\ ~agent[a].ok
  BY Zenon
<1> HIDE DEF r, st, l, x
<1>6. /\ jobs[l].ran = 1
      /\ st = "DONE" => ~jobs[l].failed
      /\ st = "ERROR" => jobs[l].failed
  <2>1. Posting(agent[a], x)
    BY <1>1, <1>4 DEF Posting
  <2>2. jobs[l].ran = 1 /\ jobs[l].failed = ~agent[a].ok
    BY <1>2, <2>1, Zenon DEF RingInv, Occupied
  <2> QED
    BY <1>5, <2>2, Zenon
<1>7. /\ agent' \in [Agents -> AgentRecord] /\ agent'[a] = r
      /\ \A c \in Agents \ {a} : agent'[c] = agent[c]
  BY <1>2, <1>3, AgentStep
<1>8. /\ slots' \in [SlotIds -> SlotRecord] /\ slots'[x].launch = l /\ slots'[x].status = st
      /\ \A s \in SlotIds : s # x => slots'[s] = slots[s]
  <2> DEFINE q == [slots[x] EXCEPT !.status = st]
  <2>1. q \in SlotRecord /\ q.launch = l /\ q.status = st
    BY <1>2, <1>5 DEF SlotRecord
  <2>2. slots' = [slots EXCEPT ![x] = q]
    BY <1>1
  <2> HIDE DEF q
  <2> QED
    BY <1>2, <2>1, <2>2
<1>9. TypeOK'
  BY <1>1, <1>2, <1>7, <1>8 DEF TypeOK, AgentRecord, AgentPc, SlotRecord
<1>10. /\ a \in Hosts /\ Submitting(r) => Unpublished(r) /\ Unpublished(agent[a])
       /\ a \in Hosts /\ Holding(r) => Holding(agent[a])
  BY <1>1, <1>3, Pcs DEF Submitting, Unpublished, Holding
<1>11. Roles'
  <2>1. a \in Hosts => (Holding(r) => submit' = a)
    BY <1>1, <1>10 DEF RingInv, Roles
  <2>2. r.pc \in ServicePc /\ r.pc \notin {"asleep", "scan"}
    BY <1>3, Pcs
  <2> QED
    BY <1>1, <1>2, <1>3, <2>1, <2>2, RolesStep
<1>12. \A g \in Hosts :
         /\ agent'[g].launch = agent[g].launch
         /\ Submitting(agent'[g]) => Submitting(agent[g])
         /\ Unpublished(agent'[g]) => Unpublished(agent[g])
         /\ agent'[g].pc \in {"write", "publish", "tail", "ring", "running", "push"} =>
              agent'[g] = agent[g]
         /\ agent[g].pc \in {"write", "publish", "tail", "ring", "running", "push"} =>
              agent'[g] = agent[g]
  <2> SUFFICES ASSUME NEW g \in Hosts
               PROVE  /\ agent'[g].launch = agent[g].launch
                      /\ Submitting(agent'[g]) => Submitting(agent[g])
                      /\ Unpublished(agent'[g]) => Unpublished(agent[g])
                      /\ agent'[g].pc \in {"write", "publish", "tail", "ring", "running", "push"}
                           => agent'[g] = agent[g]
                      /\ agent[g].pc \in {"write", "publish", "tail", "ring", "running", "push"}
                           => agent'[g] = agent[g]
    OBVIOUS
  <2>1. CASE g = a
    BY <1>1, <1>3, <1>7, <1>10, <2>1 DEF Submitting
  <2>2. CASE g # a
    BY <1>2, <1>7, <2>2
  <2> QED
    BY <2>1, <2>2
<1>13. \A s \in SlotIds :
         /\ slots'[s].launch = slots[s].launch
         /\ slots'[s].status = "EMPTY" <=> slots[s].status = "EMPTY"
  BY <1>2, <1>5, <1>8
<1>14. Submitters'
  BY <1>1, <1>12, <1>13 DEF RingInv, Submitters
<1>15. Publishers'
  <2> SUFFICES ASSUME NEW g \in Hosts
               PROVE  /\ agent'[g].pc \in {"write", "publish"} =>
                           slots'[SlotOf(tail)].status = "EMPTY"
                      /\ agent'[g].pc = "publish" =>
                           slots'[SlotOf(tail)].launch = agent'[g].launch
                      /\ \A s \in SlotIds : Placed(agent'[g], s) =>
                           /\ slots'[s].status # "EMPTY" /\ slots'[s].launch = agent'[g].launch
                           /\ \A e \in inflight : e.slot # s
    BY <1>1 DEF Publishers, Placed
  <2>1. SlotOf(tail) \in SlotIds
    BY <1>2, StateTypes
  <2> QED
    BY <1>12, <1>13, <2>1 DEF RingInv, Publishers, Placed
<1>16. NoSlotLeaks'
  <2> SUFFICES ASSUME NEW s \in SlotIds, slots[s].status # "EMPTY"
               PROVE  \/ \E e \in inflight : e.slot = s
                      \/ \E g \in Hosts :
                           \/ agent'[g].pc = "tail" /\ SlotOf(tail) = s
                           \/ agent'[g].pc \in {"ring", "running", "push"} /\ agent'[g].slot = s
    BY <1>1, <1>13 DEF NoSlotLeaks, SlotOf
  <2> QED
    BY <1>12 DEF RingInv, NoSlotLeaks
<1>17. \A c \in Agents, s \in SlotIds : ~Serving(agent'[c], s) /\ ~Posting(agent'[c], s)
  BY <1>2, <1>3, <1>7, Pcs DEF Serving, Posting
<1>18. Servers'
  BY <1>17 DEF Servers, Serving
<1>19. Occupied'
  <2> SUFFICES ASSUME NEW s \in SlotIds, slots'[s].status # "EMPTY"
               PROVE  /\ slots'[s].launch \in Launches
                      /\ jobs[slots'[s].launch].status \in {"submitted", "running"}
                      /\ \A t \in SlotIds \ {s} : slots'[t].status # "EMPTY" =>
                           slots'[t].launch # slots'[s].launch
                      /\ slots'[s].status = "DONE" =>
                           jobs[slots'[s].launch].ran = 1 /\ ~jobs[slots'[s].launch].failed
                      /\ slots'[s].status = "ERROR" =>
                           jobs[slots'[s].launch].ran = 1 /\ jobs[slots'[s].launch].failed
                      /\ slots'[s].status = "PENDING" =>
                           jobs[slots'[s].launch].ran = 0 /\ ~jobs[slots'[s].launch].failed
    BY <1>1, <1>17 DEF Occupied, Posting
  <2>1. /\ slots'[s].launch \in Launches
        /\ jobs[slots'[s].launch].status \in {"submitted", "running"}
        /\ \A t \in SlotIds \ {s} : slots'[t].status # "EMPTY" =>
             slots'[t].launch # slots'[s].launch
    BY <1>13 DEF RingInv, Occupied
  <2>2. CASE s = x
    BY <1>5, <1>6, <1>8, <2>1, <2>2
  <2>3. CASE s # x
    <3>1. slots'[s] = slots[s] /\ \A c \in Agents : ~Posting(agent[c], s)
      BY <1>2, <1>4, <1>8, <2>3, Pcs DEF Posting
    <3> QED
      BY <2>1, <3>1 DEF RingInv, Occupied
  <2> QED
    BY <2>2, <2>3
<1>20. InFlight' /\ Executions'
  <2>1. \A e \in inflight : e.slot \in SlotIds
    BY EntryOwns
  <2> QED
    BY <1>1, <1>13, <2>1 DEF RingInv, InFlight, Executions
<1> QED
  BY <1>9, <1>11, <1>14, <1>15, <1>16, <1>18, <1>19, <1>20 DEF RingInv
-----------------------------------------------------------------------------
(* The ring's invariant.                                                    *)

\* The invariant holds of a new device.
LEMMA InitRing == Init => RingInv
<1> SUFFICES ASSUME Init
             PROVE  RingInv
  OBVIOUS
<1>1. /\ mode \in Modes /\ head = 0 /\ tail = 0 /\ ~bell /\ bell \in BOOLEAN
      /\ submit = NoHost /\ reaping = NoHost /\ inflight = {}
      /\ wake \in [Hosts -> BOOLEAN]
  BY DEF Init
<1>2. /\ slots \in [SlotIds -> SlotRecord]
      /\ \A s \in SlotIds : slots[s].status = "EMPTY"
  <2> DEFINE z == 0
             q == [status |-> "EMPTY", launch |-> z]
  <2>1. slots = [s \in SlotIds |-> q] /\ z \in Launches \cup {0}
    BY DEF Init
  <2> HIDE DEF z
  <2>2. q \in SlotRecord /\ q.status = "EMPTY"
    BY <2>1 DEF SlotRecord
  <2> HIDE DEF q
  <2> QED
    BY <2>1, <2>2
<1>3. /\ jobs \in [Launches -> JobRecord]
      /\ \A l \in Launches : jobs[l].status = "queued" /\ jobs[l].ran = 0 /\ ~jobs[l].failed
  <2> DEFINE z == 0
             q == [status |-> "queued", ran |-> z, failed |-> FALSE]
  <2>1. jobs = [l \in Launches |-> q] /\ z \in Nat /\ z = 0
    BY DEF Init
  <2> HIDE DEF z
  <2>2. q \in JobRecord /\ q.status = "queued" /\ q.ran = z /\ ~q.failed
    BY <2>1 DEF JobRecord
  <2> HIDE DEF q
  <2> QED
    BY <2>1, <2>2
<1>4. /\ agent \in [Agents -> AgentRecord] /\ agent[Engine].pc = "asleep"
      /\ \A h \in Hosts : agent[h].pc = "out"
  <2>1. /\ "asleep" \in AgentPc /\ "out" \in AgentPc /\ 0 \in Launches \cup {0}
        /\ Engine \in Agents /\ Engine \notin Hosts /\ Hosts \subseteq Agents
    BY Pcs, RingConstants DEF Agents
  <2>2. \A p \in {"asleep", "out"} : NewAgent(p) \in AgentRecord /\ NewAgent(p).pc = p
    BY <2>1, NewAgentTypes
  <2>3. agent = [a \in Agents |-> NewAgent(IF a = Engine THEN "asleep" ELSE "out")]
    BY DEF Init
  <2>4. \A a \in Agents : agent[a] = NewAgent(IF a = Engine THEN "asleep" ELSE "out")
    BY <2>3
  <2>5. agent[Engine] = NewAgent("asleep") /\ \A h \in Hosts : agent[h] = NewAgent("out")
    BY <2>1, <2>4
  <2>6. \A a \in Agents : agent[a] \in AgentRecord
    BY <2>2, <2>5 DEF Agents
  <2>7. agent \in [Agents -> AgentRecord]
    BY <2>3, <2>6, Zenon
  <2> QED
    BY <2>2, <2>5, <2>7
<1>5. TypeOK
  BY <1>1, <1>2, <1>3, <1>4, RingNumbers
  DEF TypeOK, AgentRecord, AgentPc, SlotRecord, JobRecord
<1>6. \A a \in Agents : agent[a].pc \in {"asleep", "out"}
  BY <1>4 DEF Agents
<1>7. Roles
  BY <1>4, Pcs DEF Roles, Holding, Submitting, Unpublished
<1>8. Submitters
  BY <1>4, Pcs DEF Submitters, Submitting, Unpublished
<1>9. Publishers /\ Servers
  BY <1>4, <1>6 DEF Publishers, Placed, Servers, Serving
<1>10. Occupied /\ InFlight /\ Executions /\ NoSlotLeaks
  BY <1>1, <1>2, <1>3 DEF Occupied, InFlight, Executions, NoSlotLeaks
<1> QED
  BY <1>5, <1>7, <1>8, <1>9, <1>10 DEF RingInv

\* Every step keeps the invariant.
LEMMA NextRing ==
    ASSUME SoleConsumer, Users, RingInv, [Next]_vars
    PROVE  RingInv'
<1>1. Hosts \subseteq Agents /\ Engine \in Agents
  BY DEF Agents
<1>2. CASE \E h \in Hosts, l \in Launches : Submit(h, l)
  BY <1>2, SubmitStep
<1>3. CASE \E h \in Hosts, l \in Launches \cup {0} : BeginWait(h, l)
  BY <1>3, BoundaryQuiet
<1>4. ASSUME NEW h \in Hosts, Unsupported(h) \/ Dispatch(h)
      PROVE  RingInv'
  BY <1>4, RefuseStep, DispatchQuiet, CallQuiet, WritePayloadStep, PublishStep,
     AnnounceStep, SetRunningStep, PushInflightStep, BoundaryQuiet DEF Dispatch
<1>5. ASSUME NEW a \in Agents, Service(a)
      PROVE  RingInv'
  BY <1>5, ServiceQuiet, RunLaunchStep, PostResultStep DEF Service
<1>6. ASSUME NEW h \in Hosts, Progress(h) \/ Wait(h)
      PROVE  RingInv'
  BY <1>1, <1>5, <1>6, ReapQuiet, ReapStep, BoundaryQuiet, CallQuiet DEF Progress, Wait
<1>7. CASE AckDoorbell \/ Service(Engine)
  BY <1>1, <1>5, <1>7, ServiceQuiet
<1>8. CASE UNCHANGED vars
  <2>1. TypeOK' /\ Roles'
    BY <1>8 DEF vars, RingInv, TypeOK, Roles, Cooperative
  <2>2. Submitters' /\ InFlight' /\ Executions'
    BY <1>8 DEF vars, RingInv, Submitters, InFlight, Executions
  <2>3. Publishers'
    BY <1>8 DEF vars, RingInv, Publishers, Placed
  <2>4. Servers'
    BY <1>8 DEF vars, RingInv, Servers, Serving
  <2>5. Occupied'
    BY <1>8 DEF vars, RingInv, Occupied, Posting
  <2>6. NoSlotLeaks'
    BY <1>8 DEF vars, RingInv, NoSlotLeaks
  <2> QED
    BY <2>1, <2>2, <2>3, <2>4, <2>5, <2>6 DEF RingInv
<1> QED
  BY <1>2, <1>3, <1>4, <1>6, <1>7, <1>8 DEF Next

\* Every step keeps the other threads out: a call is entered through Submit or BeginWait.
LEMMA NextUsers ==
    ASSUME TypeOK, Users, [Next]_vars
    PROVE  Users'
<1>1. /\ mode' = mode /\ DOMAIN agent = Agents
      /\ Hosts \subseteq Agents /\ Engine \in Agents /\ Engine \notin Hosts
  BY RingConstants DEF Next, vars, TypeOK, Agents, Submit, BeginWait, Unsupported, Dispatch,
     Progress, Wait, Service, LockSubmit, ReserveFails, Reserve, FindSlot, RingFull,
     OutOfResources, GiveUp, WritePayload, Publish, AdvanceTail, RingDoorbell, SetRunning,
     PushInflight, UnlockSubmit, WaitReturns, WaitPolls, WaitForEvent, LockInflight,
     ReapEntry, UnlockInflight, AckDoorbell, ServeNext, ServeDone, CopyPayload, RunLaunch,
     PostResult, AdvanceHead, SendEvent
<1>2. CASE UNCHANGED vars
  BY <1>2 DEF vars, Users, Cooperative
<1>3. SUFFICES ASSUME Cooperative, Next,
                      NEW h \in Hosts \ CooperativeHosts
               PROVE  agent'[h] = agent[h]
  BY <1>1, <1>2 DEF Users, Cooperative
<1>4. agent[h].pc = "out" /\ ~ MayUse(h)
  BY <1>3 DEF Users, MayUse
<1>5. ASSUME NEW g \in Hosts, NEW l \in Launches \cup {0}, Submit(g, l) \/ BeginWait(g, l)
      PROVE  agent'[h] = agent[h]
  <2>1. g # h
    BY <1>4, <1>5 DEF Submit, BeginWait
  <2> QED
    BY <1>1, <1>5, <2>1 DEF Submit, BeginWait
<1>6. ASSUME NEW a \in Agents, Service(a)
      PROVE  agent'[h] = agent[h]
  <2>1. a # h
    BY <1>4, <1>6 DEF Service, ServeNext, ServeDone, CopyPayload, RunLaunch, PostResult,
       AdvanceHead, SendEvent
  <2> QED
    BY <1>1, <1>6, <2>1 DEF Service, ServeNext, ServeDone, CopyPayload, RunLaunch, PostResult,
       AdvanceHead, SendEvent, Goto
<1>7. ASSUME NEW g \in Hosts, Unsupported(g) \/ Dispatch(g)
      PROVE  agent'[h] = agent[h]
  <2>1. g # h
    BY <1>4, <1>7 DEF Unsupported, Dispatch, LockSubmit, ReserveFails, Reserve, FindSlot,
       RingFull, OutOfResources, WritePayload, Publish, AdvanceTail, RingDoorbell, SetRunning,
       PushInflight, UnlockSubmit
  <2> QED
    BY <1>1, <1>7, <2>1 DEF Unsupported, Dispatch, LockSubmit, ReserveFails, Reserve, FindSlot,
       RingFull, OutOfResources, GiveUp, WritePayload, Publish, AdvanceTail, RingDoorbell,
       SetRunning, PushInflight, UnlockSubmit, Goto
<1>8. ASSUME NEW g \in Hosts, Progress(g) \/ Wait(g)
      PROVE  agent'[h] = agent[h]
  <2>1. CASE Service(g)
    BY <1>1, <1>6, <2>1
  <2>2. CASE LockInflight(g) \/ UnlockInflight(g) \/ (\E e \in agent[g].scan : ReapEntry(g, e))
    <3>1. g # h
      BY <1>4, <2>2 DEF LockInflight, UnlockInflight, ReapEntry
    <3> QED
      BY <1>1, <2>2, <3>1 DEF LockInflight, UnlockInflight, ReapEntry, Goto
  <2>3. CASE Wait(g)
    <3>1. g # h
      BY <1>4, <2>3 DEF Wait, WaitReturns, WaitPolls, WaitForEvent
    <3> QED
      BY <1>1, <2>3, <3>1 DEF Wait, WaitReturns, WaitPolls, WaitForEvent, Goto
  <2> QED
    BY <1>8, <2>1, <2>2, <2>3 DEF Progress
<1>9. CASE AckDoorbell
  BY <1>1, <1>3, <1>9 DEF AckDoorbell
<1> QED
  BY <1>1, <1>3, <1>5, <1>6, <1>7, <1>8, <1>9 DEF Next

\* The invariant the results below rest on: which launch owns which slot, who holds
\* which lock, and how often a launch has been executed.
THEOREM RingInvariant == SoleConsumer => (Spec => [](Users /\ RingInv))
<1> SUFFICES ASSUME SoleConsumer
             PROVE  Spec => [](Users /\ RingInv)
  OBVIOUS
<1>1. Users /\ RingInv /\ [Next]_vars => Users' /\ RingInv'
  BY NextRing, NextUsers DEF RingInv
<1>2. Init => Users
  BY RingConstants DEF Init, Users, Agents, NewAgent
<1> QED
  BY <1>1, <1>2, InitRing, PTL DEF Spec

\* The ring's variables hold what the code's types allow: indices and slots in range,
\* and every in-flight entry names a slot and a launch.
THEOREM RingTypes == SoleConsumer => (Spec => []TypeOK)
<1>1. RingInv => TypeOK
  BY DEF RingInv
<1> QED
  BY <1>1, RingInvariant, PTL

\* The unsafe Sync for AmpSlot and AccelSlot: the payload a service loop copies is
\* PENDING, the one a host writes is EMPTY, so they are different slots.
THEOREM PayloadsAreNotShared == SoleConsumer => (Spec => []PayloadImmutable)
<1>1. RingInv => PayloadImmutable
  <2> SUFFICES ASSUME RingInv, NEW h \in Hosts, NEW a \in Agents,
                      agent[h].pc = "write", agent[a].pc = "copy"
               PROVE  SlotOf(tail) # SlotOf(agent[a].head)
    BY DEF PayloadImmutable
  <2>1. SlotOf(agent[a].head) \in SlotIds
    BY StateTypes DEF RingInv
  <2> QED
    BY <2>1 DEF RingInv, Publishers, Servers, Serving
<1> QED
  BY <1>1, RingInvariant, PTL

\* The ring is never wedged: a slot that is not EMPTY is in flight, or its publisher
\* is about to put it there.
THEOREM SlotsAreReaped == SoleConsumer => (Spec => []NoSlotLeaks)
<1>1. RingInv => NoSlotLeaks
  BY DEF RingInv
<1> QED
  BY <1>1, RingInvariant, PTL
-----------------------------------------------------------------------------
(* Division, for the indices that wrap.                                     *)

\* Quotient and remainder.
LEMMA DivMod ==
    ASSUME NEW x \in Int, NEW s \in Int, s > 0
    PROVE  /\ x = s * (x \div s) + (x % s)
           /\ x \div s \in Int /\ x % s \in Int /\ 0 <= x % s /\ x % s < s
OBVIOUS

\* They are unique.
LEMMA DivModUnique ==
    ASSUME NEW s \in Int, s > 0, NEW a \in Int, NEW b \in Int, NEW r \in Int, NEW t \in Int,
           0 <= r, r < s, 0 <= t, t < s, s * a + r = s * b + t
    PROVE  a = b /\ r = t
<1>1. s * (a - b) = t - r
  OBVIOUS
<1>2. CASE a > b
  <2>1. s * (a - b) >= s
    BY <1>2
  <2> QED
    BY <1>1, <2>1
<1>3. CASE a < b
  <2>1. s * (b - a) >= s
    BY <1>3
  <2>2. s * (b - a) = r - t
    BY <1>1
  <2> QED
    BY <2>1, <2>2
<1>4. CASE a = b
  BY <1>1, <1>4
<1> QED
  BY <1>2, <1>3, <1>4

\* The remainder, from any division.
LEMMA Residue ==
    ASSUME NEW x \in Int, NEW s \in Int, s > 0, NEW a \in Int, NEW r \in Int,
           0 <= r, r < s, x = s * a + r
    PROVE  x % s = r
<1> DEFINE b == x \div s
           t == x % s
<1>1. x = s * b + t /\ b \in Int /\ t \in Int /\ 0 <= t /\ t < s
  BY DivMod
<1> HIDE DEF b, t
<1>2. t = r
  BY <1>1, DivModUnique
<1> QED
  BY <1>2 DEF t

\* One turn further.
LEMMA ResidueTurn ==
    ASSUME NEW x \in Int, NEW s \in Int, s > 0
    PROVE  (x + s) % s = x % s
<1> DEFINE b == x \div s
           t == x % s
<1>1. x = s * b + t /\ b \in Int /\ t \in Int /\ 0 <= t /\ t < s
  BY DivMod
<1> HIDE DEF b, t
<1>2. x + s = s * (b + 1) + t
  BY <1>1
<1>3. (x + s) % s = t
  BY <1>1, <1>2, Residue
<1> QED
  BY <1>3 DEF t

\* Numbers less than a turn apart.
LEMMA ResiduesDiffer ==
    ASSUME NEW p \in Int, NEW q \in Int, NEW s \in Int, s > 0, p < q, q < p + s
    PROVE  p % s # q % s
<1> DEFINE a == p \div s
           r == p % s
           b == q \div s
           t == q % s
<1>1. p = s * a + r /\ a \in Int /\ r \in Int /\ 0 <= r /\ r < s
  BY DivMod
<1>2. q = s * b + t /\ b \in Int /\ t \in Int /\ 0 <= t /\ t < s
  BY DivMod
<1> HIDE DEF a, b, r, t
<1>3. ASSUME r = t
      PROVE  FALSE
  <2>1. q - p = s * (b - a)
    BY <1>1, <1>2, <1>3
  <2>2. CASE b - a <= 0
    <3>1. s * (b - a) <= 0
      BY <2>2, <1>1, <1>2
    <3> QED
      BY <2>1, <3>1
  <2>3. CASE b - a >= 1
    <3>1. s * (b - a) >= s
      BY <2>3, <1>1, <1>2
    <3> QED
      BY <2>1, <3>1
  <2> QED
    BY <1>1, <1>2, <2>2, <2>3
<1> QED
  BY <1>3 DEF r, t

\* The successor of a remainder.
LEMMA ResidueSucc ==
    ASSUME NEW x \in Int, NEW s \in Int, s > 0
    PROVE  ((x % s) + 1) % s = (x + 1) % s
<1> DEFINE b == x \div s
           t == x % s
<1>1. x = s * b + t /\ b \in Int /\ t \in Int /\ 0 <= t /\ t < s
  BY DivMod
<1> HIDE DEF b, t
<1>2. CASE t + 1 < s
  <2>1. x + 1 = s * b + (t + 1) /\ t + 1 = s * 0 + (t + 1)
    BY <1>1
  <2>2. (x + 1) % s = t + 1
    BY <1>1, <1>2, <2>1, Residue
  <2>3. (t + 1) % s = t + 1
    BY <1>1, <1>2, <2>1, Residue
  <2> QED
    BY <2>2, <2>3 DEF t
<1>3. CASE t + 1 = s
  <2>1. x + 1 = s * (b + 1) + 0 /\ t + 1 = s * 1 + 0
    BY <1>1, <1>3
  <2>2. (x + 1) % s = 0
    BY <1>1, <2>1, Residue
  <2>3. (t + 1) % s = 0
    BY <1>1, <2>1, Residue
  <2> QED
    BY <2>2, <2>3 DEF t
<1> QED
  BY <1>1, <1>2, <1>3

\* The remainder modulo a multiple of s tells the remainder modulo s.
LEMMA ResidueOfResidue ==
    ASSUME NEW x \in Int, NEW m \in Int, m > 0, NEW s \in Int, s > 0, m % s = 0
    PROVE  (x % m) % s = x % s
<1> DEFINE b == x \div m
           t == x % m
           k == m \div s
           c == t \div s
           r == t % s
<1>1. x = m * b + t /\ b \in Int /\ t \in Int
  BY DivMod
<1>2. m = s * k /\ k \in Int
  BY DivMod
<1>3. t = s * c + r /\ c \in Int /\ r \in Int /\ 0 <= r /\ r < s
  BY <1>1, DivMod
<1> HIDE DEF b, t, k, c, r
<1>4. x = s * (k * b + c) + r
  <2>1. m * b = s * (k * b)
    BY <1>1, <1>2
  <2>2. s * (k * b + c) = s * (k * b) + s * c
    BY <1>1, <1>2, <1>3
  <2> QED
    BY <1>1, <1>3, <2>1, <2>2
<1>5. k * b + c \in Int
  BY <1>1, <1>2, <1>3
<1>6. x % s = r
  BY <1>3, <1>4, <1>5, Residue
<1> QED
  BY <1>6 DEF r, t

\* What a wrapping index says of the position it stands for.
LEMMA Positions ==
    ASSUME NEW p \in Nat
    PROVE  /\ SlotOf(p) \in SlotIds
           /\ SlotOf(p % IndexMod) = SlotOf(p)
           /\ Succ(p % IndexMod) = (p + 1) % IndexMod
           /\ SlotOf(p + Slots) = SlotOf(p)
           /\ \A q \in Nat : p < q /\ q < p + Slots => SlotOf(p) # SlotOf(q)
<1>1. p \in Int /\ Slots \in Int /\ IndexMod \in Int
  BY RingNumbers
<1>2. SlotOf(p % IndexMod) = SlotOf(p)
  BY <1>1, RingNumbers, ResidueOfResidue DEF SlotOf
<1>3. Succ(p % IndexMod) = (p + 1) % IndexMod
  BY <1>1, RingNumbers, ResidueSucc DEF Succ
<1>4. SlotOf(p + Slots) = SlotOf(p)
  BY <1>1, RingNumbers, ResidueTurn DEF SlotOf
<1>5. ASSUME NEW q \in Nat, p < q, q < p + Slots
      PROVE  SlotOf(p) # SlotOf(q)
  <2>1. q \in Int
    OBVIOUS
  <2> QED
    BY <1>1, <1>5, <2>1, RingNumbers, ResiduesDiffer DEF SlotOf
<1> QED
  BY <1>2, <1>3, <1>4, <1>5, IndexTypes
-----------------------------------------------------------------------------
(* The order of the ring.                                                   *)

\* A step that moves neither index and neither publishes nor posts.
LEMMA WindowFrame ==
    ASSUME NEW b \in Nat, NEW t \in Nat, Window(b, t), head' = head, tail' = tail,
           \A h \in Hosts : agent'[h].pc = "tail" <=> agent[h].pc = "tail",
           \A a \in Agents :
             /\ agent'[a].pc = "advance" <=> agent[a].pc = "advance"
             /\ agent'[a].pc \in {"copy", "run", "post", "advance"} => agent'[a].head = head
             /\ agent'[a].pc \in {"copy", "run", "post"} => b < t,
           \A s \in SlotIds : slots'[s].status = "PENDING" <=> slots[s].status = "PENDING"
    PROVE  Window(b, t)'
<1>1. Published' = Published /\ Published \in {0, 1}
  BY DEF Published
<1>2. (\E a \in Agents : agent'[a].pc = "advance") <=> (\E a \in Agents : agent[a].pc = "advance")
  OBVIOUS
<1>3. /\ \A p \in b..t + Published - 1 : slots'[SlotOf(p)].status = "PENDING"
      /\ \A p \in t + Published..b + Slots - 1 : slots'[SlotOf(p)].status # "PENDING"
  <2>1. \A p \in Nat : SlotOf(p) \in SlotIds
    BY IndexTypes
  <2>2. \A p \in b..t + Published - 1 : p \in Nat
    BY <1>1
  <2>3. \A p \in t + Published..b + Slots - 1 : p \in Nat
    BY <1>1, RingNumbers
  <2> QED
    BY <2>1, <2>2, <2>3 DEF Window
<1> HIDE DEF Published
<1>4. /\ tail' = t % IndexMod
      /\ b <= t /\ t + Published <= b + Slots
      /\ IF \E a \in Agents : agent'[a].pc = "advance"
         THEN b > 0 /\ head = (b - 1) % IndexMod ELSE head = b % IndexMod
  BY <1>2 DEF Window
<1> QED
  BY <1>1, <1>3, <1>4 DEF Window, SlotOf

\* Where the indices stand when no service loop is between its result and its index.
LEMMA WindowFacts ==
    ASSUME RingInv, NEW b \in Nat, NEW t \in Nat, Window(b, t)
    PROVE  /\ SlotOf(tail) = SlotOf(t)
           /\ (\A a \in Agents : agent[a].pc # "advance") =>
                head = b % IndexMod /\ SlotOf(head) = SlotOf(b)
           /\ b <= t /\ t <= b + Slots
           /\ b < t => slots[SlotOf(b)].status = "PENDING"
           /\ slots[SlotOf(t)].status # "PENDING" => t < b + Slots
<1>1. Published \in {0, 1}
  BY DEF Published
<1>2. /\ tail = t % IndexMod /\ b <= t /\ t + Published <= b + Slots
      /\ (\A a \in Agents : agent[a].pc # "advance") => head = b % IndexMod
  BY DEF Window
<1>3. SlotOf(tail) = SlotOf(t) /\ SlotOf(b % IndexMod) = SlotOf(b)
  BY <1>2, Positions
<1>4. b < t => slots[SlotOf(b)].status = "PENDING"
  <2>1. b < t => b \in b..t + Published - 1
    BY <1>1
  <2> QED
    BY <2>1 DEF Window
<1>5. t = b + Slots => SlotOf(t) = SlotOf(b) /\ b < t
  BY Positions, RingNumbers
<1> QED
  BY <1>1, <1>2, <1>3, <1>4, <1>5, RingNumbers

\* The publish point extends the window by the slot at tail.
LEMMA PublishWindow ==
    ASSUME RingInv, Ordered, NEW h \in Hosts, Publish(h)
    PROVE  Ordered'
<1> DEFINE x == SlotOf(tail)
<1>1. PICK b \in Nat, t \in Nat : Window(b, t)
  BY DEF Ordered
<1>2. /\ agent[h].pc = "publish" /\ Goto(h, "tail") /\ UNCHANGED <<head, tail>>
      /\ slots' = [slots EXCEPT ![x].status = "PENDING"]
  BY DEF Publish
<1>3. /\ TypeOK /\ Hosts \subseteq Agents /\ h \in Agents
      /\ \A g \in Hosts \ {h} :
           agent[g].pc \notin {"write", "publish", "tail", "ring", "running", "push"}
  BY <1>2, PublisherStep
<1>4. /\ x \in SlotIds /\ slots \in [SlotIds -> SlotRecord] /\ slots[x].status = "EMPTY"
      /\ agent \in [Agents -> AgentRecord]
  BY <1>2, <1>3, StateTypes DEF RingInv, Publishers
<1>5. x = SlotOf(t) /\ b <= t /\ t < b + Slots
  BY <1>1, <1>4, WindowFacts
<1>6. /\ agent'[h].pc = "tail"
      /\ \A a \in Agents \ {h} : agent'[a] = agent[a]
      /\ slots'[x].status = "PENDING"
      /\ \A s \in SlotIds \ {x} : slots'[s] = slots[s]
  BY <1>2, <1>3, <1>4 DEF Goto, AgentRecord, SlotRecord
<1> HIDE DEF x
<1>7. Published = 0 /\ Published' = 1
  BY <1>2, <1>3, <1>6 DEF Published
<1>8. /\ \A p \in b..t : slots'[SlotOf(p)].status = "PENDING"
      /\ \A p \in t + 1..b + Slots - 1 : slots'[SlotOf(p)].status # "PENDING"
  <2>1. ASSUME NEW p \in b..t
        PROVE  slots'[SlotOf(p)].status = "PENDING"
    <3>1. CASE p = t
      BY <1>5, <1>6, <3>1
    <3>2. CASE p # t
      <4>1. p \in b..t + Published - 1 /\ p \in Nat
        BY <1>7, <3>2
      <4>2. slots[SlotOf(p)].status = "PENDING" /\ SlotOf(p) \in SlotIds
        BY <1>1, <4>1, IndexTypes DEF Window
      <4> QED
        BY <1>6, <4>2
    <3> QED
      BY <3>1, <3>2
  <2>2. ASSUME NEW p \in t + 1..b + Slots - 1
        PROVE  slots'[SlotOf(p)].status # "PENDING"
    <3>1. p \in t + Published..b + Slots - 1 /\ p \in Nat /\ t < p /\ p < t + Slots
      BY <1>5, <1>7, RingNumbers
    <3>2. SlotOf(p) # x /\ SlotOf(p) \in SlotIds
      BY <1>5, <3>1, Positions
    <3>3. slots[SlotOf(p)].status # "PENDING"
      BY <1>1, <3>1 DEF Window
    <3> QED
      BY <1>6, <3>2, <3>3
  <2> QED
    BY <2>1, <2>2
<1>9. Window(b, t)'
  <2>1. \A a \in Agents : agent'[a].pc \in {"copy", "run", "post", "advance"} =>
          agent'[a] = agent[a]
    BY <1>6
  <2>2. (\E a \in Agents : agent'[a].pc = "advance") <=> (\E a \in Agents : agent[a].pc = "advance")
    BY <1>2, <1>3, <1>6
  <2>3. /\ \A p \in b..t + Published' - 1 : slots'[SlotOf(p)].status = "PENDING"
        /\ \A p \in t + Published'..b + Slots - 1 : slots'[SlotOf(p)].status # "PENDING"
        /\ t + Published' <= b + Slots
    BY <1>5, <1>7, <1>8, RingNumbers
  <2>4. IF \E a \in Agents : agent'[a].pc = "advance"
        THEN b > 0 /\ head' = (b - 1) % IndexMod ELSE head' = b % IndexMod
    BY <1>1, <1>2, <2>2 DEF Window
  <2> QED
    BY <1>1, <1>2, <1>5, <2>1, <2>3, <2>4 DEF Window, SlotOf
<1> QED
  BY <1>9 DEF Ordered

\* tail catches up with the publish.
LEMMA TailWindow ==
    ASSUME RingInv, Ordered, NEW h \in Hosts, AdvanceTail(h)
    PROVE  Ordered'
<1>1. PICK b \in Nat, t \in Nat : Window(b, t)
  BY DEF Ordered
<1>2. /\ agent[h].pc = "tail" /\ tail' = Succ(tail) /\ UNCHANGED <<head, slots>>
      /\ agent' = [agent EXCEPT ![h].pc = "ring", ![h].slot = SlotOf(tail)]
  BY DEF AdvanceTail
<1>3. /\ TypeOK /\ Hosts \subseteq Agents /\ h \in Agents
      /\ agent \in [Agents -> AgentRecord]
      /\ \A g \in Hosts \ {h} :
           agent[g].pc \notin {"write", "publish", "tail", "ring", "running", "push"}
  BY <1>2, PublisherStep, StateTypes
<1>4. /\ agent'[h].pc = "ring"
      /\ \A a \in Agents \ {h} : agent'[a] = agent[a]
  BY <1>2, <1>3 DEF AgentRecord
<1>5. Published = 1 /\ Published' = 0
  BY <1>2, <1>3, <1>4 DEF Published
<1>6. tail' = (t + 1) % IndexMod /\ b <= t /\ t + 1 <= b + Slots
  BY <1>1, <1>2, <1>5, Positions DEF Window
<1>7. \A p \in b..(t + 1) + Published' - 1 : slots'[SlotOf(p)].status = "PENDING"
  <2>1. \A p \in b..(t + 1) + Published' - 1 : p \in b..t + Published - 1
    BY <1>5
  <2> QED
    BY <1>1, <1>2, <2>1 DEF Window
<1>8. \A p \in (t + 1) + Published'..b + Slots - 1 : slots'[SlotOf(p)].status # "PENDING"
  <2>1. \A p \in (t + 1) + Published'..b + Slots - 1 : p \in t + Published..b + Slots - 1
    BY <1>5
  <2> QED
    BY <1>1, <1>2, <2>1 DEF Window
<1>9. Window(b, t + 1)'
  <2>1. \A a \in Agents : agent'[a].pc \in {"copy", "run", "post", "advance"} =>
          agent'[a] = agent[a]
    BY <1>4
  <2>2. (\E a \in Agents : agent'[a].pc = "advance") <=> (\E a \in Agents : agent[a].pc = "advance")
    BY <1>2, <1>3, <1>4
  <2>3. IF \E a \in Agents : agent'[a].pc = "advance"
        THEN b > 0 /\ head' = (b - 1) % IndexMod ELSE head' = b % IndexMod
    BY <1>1, <1>2, <2>2 DEF Window
  <2>4. (t + 1) + Published' <= b + Slots /\ b <= t + 1
    BY <1>5, <1>6
  <2>5. \A a \in Agents :
         /\ agent'[a].pc \in {"copy", "run", "post", "advance"} => agent'[a].head = head'
         /\ agent'[a].pc \in {"copy", "run", "post"} => b < t + 1
    <3>1. b < t + 1
      BY <1>6
    <3>2. \A a \in Agents :
            agent[a].pc \in {"copy", "run", "post", "advance"} => agent[a].head = head
      BY <1>1 DEF Window
    <3> QED
      BY <1>2, <2>1, <3>1, <3>2
  <2> QED
    BY <1>6, <1>7, <1>8, <2>3, <2>4, <2>5 DEF Window, SlotOf
<1> QED
  BY <1>9 DEF Ordered

\* The result takes the slot at head out of the window.
LEMMA PostWindow ==
    ASSUME SoleConsumer, Users, RingInv, Ordered, NEW a \in Agents, PostResult(a)
    PROVE  Ordered'
<1> DEFINE x == SlotOf(agent[a].head)
           st == IF agent[a].ok THEN "DONE" ELSE "ERROR"
<1>1. PICK b \in Nat, t \in Nat : Window(b, t)
  BY DEF Ordered
<1>2. /\ agent[a].pc = "post" /\ Goto(a, "advance") /\ UNCHANGED <<head, tail>>
      /\ slots' = [slots EXCEPT ![x].status = st]
  BY DEF PostResult
<1>3. /\ TypeOK /\ Hosts \subseteq Agents /\ x \in SlotIds
      /\ slots \in [SlotIds -> SlotRecord] /\ agent \in [Agents -> AgentRecord]
      /\ \A c \in Agents \ {a} : agent[c].pc \notin ServicePc
  BY <1>2, ServerStep, StateTypes
<1>4. st # "PENDING"
  OBVIOUS
<1> HIDE DEF st
<1>5. /\ agent'[a].pc = "advance" /\ agent'[a].head = agent[a].head
      /\ \A c \in Agents \ {a} : agent'[c] = agent[c]
      /\ slots'[x].status # "PENDING"
      /\ \A s \in SlotIds \ {x} : slots'[s] = slots[s]
  BY <1>2, <1>3, <1>4 DEF Goto, AgentRecord, SlotRecord
<1>6. \A c \in Agents : agent[c].pc # "advance"
  BY <1>2, <1>3, Pcs
<1>7. /\ agent[a].head = head /\ head = b % IndexMod /\ b < t /\ x = SlotOf(b)
      /\ tail = t % IndexMod /\ t + Published <= b + Slots
  BY <1>1, <1>2, <1>6, WindowFacts DEF Window
<1> HIDE DEF x
<1>8. Published' = Published /\ Published \in {0, 1}
  <2>1. \A g \in Hosts : agent'[g].pc = "tail" <=> agent[g].pc = "tail"
    BY <1>2, <1>3, <1>5
  <2> QED
    BY <2>1 DEF Published
<1>9. ASSUME NEW p \in b + 1..t + Published - 1
      PROVE  slots'[SlotOf(p)].status = "PENDING"
  <2>1. p \in b..t + Published - 1 /\ p \in Nat /\ b < p /\ p < b + Slots
    BY <1>7, <1>8, RingNumbers
  <2>2. SlotOf(p) # x /\ SlotOf(p) \in SlotIds
    BY <1>7, <2>1, Positions
  <2>3. slots[SlotOf(p)].status = "PENDING"
    BY <1>1, <2>1 DEF Window
  <2> QED
    BY <1>5, <2>2, <2>3
<1>10. ASSUME NEW p \in t + Published..(b + 1) + Slots - 1
       PROVE  slots'[SlotOf(p)].status # "PENDING"
  <2>1. CASE p = b + Slots
    BY <1>5, <1>7, <2>1, Positions
  <2>2. CASE p # b + Slots
    <3>1. p \in t + Published..b + Slots - 1 /\ p \in Nat /\ b < p /\ p < b + Slots
      BY <1>7, <1>8, <2>2, RingNumbers
    <3>2. SlotOf(p) # x /\ SlotOf(p) \in SlotIds
      BY <1>7, <3>1, Positions
    <3>3. slots[SlotOf(p)].status # "PENDING"
      BY <1>1, <3>1 DEF Window
    <3> QED
      BY <1>5, <3>2, <3>3
  <2> QED
    BY <2>1, <2>2
<1>11. Window(b + 1, t)'
  <2>1. \A c \in Agents :
          /\ agent'[c].pc \in {"copy", "run", "post", "advance"} => agent'[c].head = head'
          /\ agent'[c].pc \notin {"copy", "run", "post"}
    <3>1. \A c \in Agents \ {a} :
            agent'[c].pc \notin {"copy", "run", "post", "advance"}
      BY <1>3, <1>5, Pcs
    <3>2. agent'[a].pc = "advance" /\ agent'[a].head = head'
      BY <1>2, <1>5, <1>7
    <3> QED
      BY <3>1, <3>2
  <2>2. (b + 1) > 0 /\ (b + 1) - 1 = b /\ b + 1 <= t /\ t + Published <= (b + 1) + Slots
    BY <1>7, <1>8, RingNumbers
  <2>3. IF \E c \in Agents : agent'[c].pc = "advance"
        THEN (b + 1) > 0 /\ head' = ((b + 1) - 1) % IndexMod ELSE head' = (b + 1) % IndexMod
    BY <1>2, <1>5, <1>7, <2>2
  <2> QED
    BY <1>2, <1>7, <1>8, <1>9, <1>10, <2>1, <2>2, <2>3 DEF Window, SlotOf
<1>12. b + 1 \in Nat
  OBVIOUS
<1> QED
  BY <1>11, <1>12 DEF Ordered

\* head catches up with the result.
LEMMA HeadWindow ==
    ASSUME SoleConsumer, Users, RingInv, Ordered, NEW a \in Agents, AdvanceHead(a)
    PROVE  Ordered'
<1>1. PICK b \in Nat, t \in Nat : Window(b, t)
  BY DEF Ordered
<1>2. /\ agent[a].pc = "advance" /\ Goto(a, "sev") /\ UNCHANGED <<tail, slots>>
      /\ head' = Succ(agent[a].head)
  BY DEF AdvanceHead
<1>3. /\ TypeOK /\ Hosts \subseteq Agents /\ agent \in [Agents -> AgentRecord]
  BY StateTypes DEF RingInv
<1>4. \A c \in Agents \ {a} : agent[c].pc \notin ServicePc
  BY <1>2, OneServer, Pcs
<1>5. /\ agent'[a].pc = "sev"
      /\ \A c \in Agents \ {a} : agent'[c] = agent[c]
  BY <1>2, <1>3 DEF Goto, AgentRecord
<1>6. head = (b - 1) % IndexMod /\ b > 0 /\ agent[a].head = head
  BY <1>1, <1>2 DEF Window
<1>7. head' = b % IndexMod
  <2>1. b - 1 \in Nat /\ (b - 1) + 1 = b
    BY <1>6
  <2> QED
    BY <1>2, <1>6, <2>1, Positions
<1>8. Published' = Published /\ Published \in {0, 1}
  <2>1. \A g \in Hosts : agent'[g].pc = "tail" <=> agent[g].pc = "tail"
    BY <1>2, <1>3, <1>5
  <2> QED
    BY <2>1 DEF Published
<1>9. \A c \in Agents : agent'[c].pc \notin {"copy", "run", "post", "advance"}
  BY <1>4, <1>5, Pcs
<1>10. Window(b, t)'
  <2>1. /\ tail = t % IndexMod /\ b <= t /\ t + Published <= b + Slots
        /\ \A p \in b..t + Published - 1 : slots[SlotOf(p)].status = "PENDING"
        /\ \A p \in t + Published..b + Slots - 1 : slots[SlotOf(p)].status # "PENDING"
    BY <1>1 DEF Window
  <2> QED
    BY <1>2, <1>7, <1>8, <1>9, <2>1 DEF Window, SlotOf
<1> QED
  BY <1>10 DEF Ordered

\* The service loop finds a descriptor, copies it and executes it.
LEMMA ServeWindow ==
    ASSUME SoleConsumer, Users, RingInv, Ordered, NEW a \in Agents,
           ServeNext(a) \/ CopyPayload(a) \/ \E ok \in BOOLEAN : RunLaunch(a, ok)
    PROVE  Ordered'
<1>1. PICK b \in Nat, t \in Nat : Window(b, t)
  BY DEF Ordered
<1>2. TypeOK /\ Hosts \subseteq Agents /\ agent \in [Agents -> AgentRecord]
  BY StateTypes DEF RingInv
<1>3. UNCHANGED <<head, tail, slots>>
  BY DEF ServeNext, CopyPayload, RunLaunch
<1>4. /\ agent'[a].pc \in {"copy", "run", "post"} /\ agent[a].pc \in {"serve", "copy", "run"}
      /\ \A c \in Agents \ {a} : agent'[c] = agent[c]
      /\ agent[a].pc = "serve" => agent'[a].head = head /\ head # tail
      /\ agent[a].pc # "serve" => agent'[a].head = agent[a].head
  <2>1. CASE ServeNext(a)
    BY <1>2, <2>1 DEF ServeNext, Available, AgentRecord
  <2>2. CASE CopyPayload(a)
    BY <1>2, <2>2 DEF CopyPayload, AgentRecord
  <2>3. ASSUME NEW ok \in BOOLEAN, RunLaunch(a, ok)
        PROVE  /\ agent'[a].pc = "post" /\ agent[a].pc = "run"
               /\ \A c \in Agents \ {a} : agent'[c] = agent[c]
               /\ agent'[a].head = agent[a].head
    <3> DEFINE r == [agent[a] EXCEPT !.pc = "post", !.ok = ok]
    <3>1. agent' = [agent EXCEPT ![a] = r] /\ agent[a].pc = "run"
      BY <2>3 DEF RunLaunch
    <3>2. r \in AgentRecord /\ r.pc = "post" /\ r.head = agent[a].head
      <4>1. "post" \in AgentPc
        BY Pcs
      <4> QED
        BY <1>2, <4>1, Zenon DEF AgentRecord
    <3> HIDE DEF r
    <3> QED
      BY <1>2, <3>1, <3>2, AgentStep
  <2> QED
    BY <2>1, <2>2, <2>3
<1>5. b < t /\ agent'[a].head = head
  <2>1. CASE agent[a].pc = "serve"
    <3>1. \A c \in Agents : agent[c].pc # "advance"
      BY <2>1, OneServer, Pcs
    <3> QED
      BY <1>1, <1>4, <2>1, <3>1 DEF Window
  <2>2. CASE agent[a].pc # "serve"
    BY <1>1, <1>4, <2>2 DEF Window
  <2> QED
    BY <2>1, <2>2
<1>6. Window(b, t)'
  <2>1. \A h \in Hosts : agent'[h].pc = "tail" <=> agent[h].pc = "tail"
    BY <1>2, <1>4
  <2>2. \A c \in Agents :
          /\ agent'[c].pc = "advance" <=> agent[c].pc = "advance"
          /\ agent'[c].pc \in {"copy", "run", "post", "advance"} => agent'[c].head = head
          /\ agent'[c].pc \in {"copy", "run", "post"} => b < t
    <3>1. \A c \in Agents :
            agent[c].pc \in {"copy", "run", "post", "advance"} => agent[c].head = head
      BY <1>1 DEF Window
    <3> QED
      BY <1>4, <1>5, <3>1
  <2> QED
    BY <1>1, <1>3, <2>1, <2>2, WindowFrame
<1> QED
  BY <1>6 DEF Ordered

\* The other steps move no index, and neither publish nor post.
LEMMA OtherSteps ==
    ASSUME RingInv, NEW h \in Hosts,
           \/ \E l \in Launches : Submit(h, l)
           \/ \E l \in Launches \cup {0} : BeginWait(h, l)
           \/ Unsupported(h) \/ LockSubmit(h) \/ ReserveFails(h) \/ Reserve(h)
           \/ FindSlot(h) \/ RingFull(h) \/ OutOfResources(h) \/ WritePayload(h)
           \/ RingDoorbell(h) \/ SetRunning(h) \/ PushInflight(h) \/ UnlockSubmit(h)
           \/ WaitReturns(h) \/ WaitPolls(h) \/ WaitForEvent(h)
           \/ LockInflight(h) \/ UnlockInflight(h)
           \/ \E e \in agent[h].scan : ReapEntry(h, e)
    PROVE  /\ UNCHANGED <<mode, head, tail>>
           /\ \A c \in Agents \ {h} : agent'[c] = agent[c]
           /\ agent'[h].pc \notin ServicePc \ {"serve"} /\ agent'[h].pc # "tail"
           /\ agent[h].pc \notin ServicePc /\ agent[h].pc # "tail"
           /\ \A s \in SlotIds : slots'[s].status = "PENDING" <=> slots[s].status = "PENDING"
<1>1. /\ TypeOK /\ Hosts \subseteq Agents /\ h \in Agents
      /\ agent \in [Agents -> AgentRecord] /\ slots \in [SlotIds -> SlotRecord]
      /\ SlotOf(tail) \in SlotIds
  BY StateTypes DEF RingInv
<1>2. /\ \A p \in AgentPc : NewAgent(p).pc = p
      /\ \A p \in AgentPc, l \in Launches \cup {0} : [NewAgent(p) EXCEPT !.launch = l].pc = p
  BY NewAgentTypes
<1>3. agent[h].back \in {"out", "nap find", "nap wait", "unlock"}
  BY <1>1 DEF AgentRecord
<1>4. ProgressEntry \in {"serve", "reap"}
  BY DEF ProgressEntry
<1>5. CASE \/ \E l \in Launches : Submit(h, l)
           \/ \E l \in Launches \cup {0} : BeginWait(h, l)
           \/ Unsupported(h) \/ ReserveFails(h) \/ OutOfResources(h)
           \/ UnlockSubmit(h) \/ WaitReturns(h)
  <2>1. PICK r : /\ agent' = [agent EXCEPT ![h] = r]
                 /\ r.pc \in {"lock", "wait", "out"}
                 /\ agent[h].pc \in {"out", "lock", "reserve", "find", "unlock", "wait"}
    <3>1. "lock" \in AgentPc /\ "wait" \in AgentPc /\ "out" \in AgentPc
      BY Pcs
    <3>2. CASE \E l \in Launches : Submit(h, l)
      BY <1>2, <3>1, <3>2 DEF Submit
    <3>3. CASE \E l \in Launches \cup {0} : BeginWait(h, l)
      BY <1>2, <3>1, <3>3 DEF BeginWait
    <3>4. CASE \/ Unsupported(h) \/ ReserveFails(h) \/ OutOfResources(h)
               \/ UnlockSubmit(h) \/ WaitReturns(h)
      BY <1>2, <3>1, <3>4
      DEF Unsupported, ReserveFails, OutOfResources, GiveUp, UnlockSubmit, WaitReturns
    <3> QED
      BY <1>5, <3>2, <3>3, <3>4
  <2>2. UNCHANGED <<mode, head, tail, slots>>
    BY <1>5 DEF Submit, BeginWait, Unsupported, ReserveFails, OutOfResources, GiveUp,
                UnlockSubmit, WaitReturns
  <2> QED
    BY <1>1, <2>1, <2>2, Pcs
<1>6. CASE \/ LockSubmit(h) \/ Reserve(h) \/ FindSlot(h) \/ RingDoorbell(h) \/ SetRunning(h)
           \/ WaitForEvent(h) \/ UnlockInflight(h)
  <2>1. PICK p : /\ agent' = [agent EXCEPT ![h].pc = p]
                 /\ p \in {"reserve", "find", "write", "running", "push", "wait", "out",
                           "nap find", "nap wait", "unlock"}
                 /\ agent[h].pc \in {"lock", "reserve", "find", "ring", "running", "nap wait",
                                     "nap find", "scan"}
    BY <1>3, <1>6
    DEF LockSubmit, Reserve, FindSlot, RingDoorbell, SetRunning, WaitForEvent,
        UnlockInflight, Goto
  <2>2. UNCHANGED <<mode, head, tail, slots>>
    BY <1>6 DEF LockSubmit, Reserve, FindSlot, RingDoorbell, SetRunning, WaitForEvent,
        UnlockInflight
  <2>3. agent'[h].pc = p /\ \A c \in Agents \ {h} : agent'[c] = agent[c]
    BY <1>1, <2>1 DEF AgentRecord
  <2>4. /\ p \notin ServicePc /\ p # "tail"
        /\ agent[h].pc \notin ServicePc /\ agent[h].pc # "tail"
    BY <2>1, Pcs
  <2> QED
    BY <2>2, <2>3, <2>4
<1>7. CASE RingFull(h) \/ WaitPolls(h) \/ PushInflight(h) \/ LockInflight(h)
  <2>1. /\ agent'[h].pc \in {"serve", "reap", "scan"}
        /\ agent[h].pc \in {"find", "wait", "push", "reap"}
        /\ \A c \in Agents \ {h} : agent'[c] = agent[c]
    BY <1>1, <1>4, <1>7
    DEF RingFull, WaitPolls, PushInflight, LockInflight, AgentRecord
  <2>2. UNCHANGED <<mode, head, tail, slots>>
    BY <1>7 DEF RingFull, WaitPolls, PushInflight, LockInflight
  <2> QED
    BY <2>1, <2>2, Pcs
<1>8. CASE WritePayload(h)
  <2>1. /\ agent'[h].pc = "publish" /\ agent[h].pc = "write"
        /\ \A c \in Agents \ {h} : agent'[c] = agent[c]
        /\ UNCHANGED <<mode, head, tail>>
    BY <1>1, <1>8 DEF WritePayload, Goto, AgentRecord
  <2>2. \A s \in SlotIds : slots'[s].status = slots[s].status
    BY <1>1, <1>8 DEF WritePayload, SlotRecord
  <2> QED
    BY <2>1, <2>2, Pcs
<1>9. CASE \E e \in agent[h].scan : ReapEntry(h, e)
  <2>1. PICK e \in agent[h].scan : ReapEntry(h, e)
    BY <1>9
  <2>2. /\ agent'[h].pc = "scan" /\ agent[h].pc = "scan"
        /\ \A c \in Agents \ {h} : agent'[c] = agent[c]
        /\ UNCHANGED <<mode, head, tail>>
    <3> DEFINE w == agent[h].scan \ {e}
    <3>1. /\ agent' = [agent EXCEPT ![h].scan = w] /\ agent[h].pc = "scan"
          /\ UNCHANGED <<mode, head, tail>>
      BY <2>1 DEF ReapEntry
    <3> HIDE DEF w
    <3> QED
      BY <1>1, <3>1 DEF AgentRecord
  <2>3. e.slot \in SlotIds
    BY <2>2, EntryOwns DEF RingInv, Roles
  <2>4. \A s \in SlotIds : slots'[s].status = "PENDING" <=> slots[s].status = "PENDING"
    <3>1. CASE ~Finished(e.slot)
      BY <2>1, <3>1 DEF ReapEntry
    <3>2. CASE Finished(e.slot)
      <4>1. slots' = [slots EXCEPT ![e.slot].status = "EMPTY"]
            /\ slots[e.slot].status \in {"DONE", "ERROR"}
        BY <2>1, <3>2 DEF ReapEntry, Finished
      <4>2. slots'[e.slot].status = "EMPTY" /\ \A s \in SlotIds \ {e.slot} : slots'[s] = slots[s]
        BY <1>1, <2>3, <4>1 DEF SlotRecord
      <4> QED
        BY <4>1, <4>2
    <3> QED
      BY <3>1, <3>2
  <2> QED
    BY <2>2, <2>4, Pcs
<1> QED
  BY <1>5, <1>6, <1>7, <1>8, <1>9

\* The service loop finds nothing more, tells the hosts, or is started.
LEMMA IdleService ==
    ASSUME RingInv, NEW a \in Agents,
           ServeDone(a) \/ SendEvent(a) \/ (a = Engine /\ AckDoorbell)
    PROVE  /\ UNCHANGED <<mode, head, tail, slots>>
           /\ \A c \in Agents \ {a} : agent'[c] = agent[c]
           /\ agent'[a].pc \in {"asleep", "reap", "serve"}
           /\ agent[a].pc \in {"asleep", "serve", "sev"}
<1>1. agent \in [Agents -> AgentRecord]
  BY StateTypes DEF RingInv
<1>2. PICK p : /\ agent' = [agent EXCEPT ![a].pc = p]
               /\ p \in {"asleep", "reap", "serve"}
               /\ agent[a].pc \in {"asleep", "serve", "sev"}
  BY DEF ServeDone, SendEvent, AckDoorbell, Goto
<1>3. UNCHANGED <<mode, head, tail, slots>>
  BY DEF ServeDone, SendEvent, AckDoorbell
<1>4. agent'[a].pc = p /\ \A c \in Agents \ {a} : agent'[c] = agent[c]
  BY <1>1, <1>2 DEF AgentRecord
<1> QED
  BY <1>2, <1>3, <1>4

\* The window holds of a new device.
LEMMA InitWindow == Init => Ordered
<1> SUFFICES ASSUME Init
             PROVE  Window(0, 0)
  BY DEF Ordered
<1>1. /\ head = 0 /\ tail = 0 /\ \A s \in SlotIds : slots[s].status = "EMPTY"
  BY DEF Init
<1>2. \A a \in Agents : agent[a].pc \in {"asleep", "out"}
  <2>1. \A p : NewAgent(p).pc = p
    BY DEF NewAgent
  <2> QED
    BY <2>1 DEF Init
<1>3. Published = 0
  BY <1>2 DEF Published, Agents
<1>4. 0 % IndexMod = 0
  <2>1. 0 = IndexMod * 0 + 0 /\ IndexMod \in Int
    BY RingNumbers
  <2> QED
    BY <2>1, RingNumbers, Residue
<1>5. \A p \in 0..Slots - 1 : SlotOf(p) \in SlotIds
  BY IndexTypes, RingNumbers
<1>6. /\ \A p \in 0..0 + Published - 1 : slots[SlotOf(p)].status = "PENDING"
      /\ \A p \in 0 + Published..0 + Slots - 1 : slots[SlotOf(p)].status # "PENDING"
      /\ 0 + Published <= 0 + Slots
  BY <1>1, <1>3, <1>5, RingNumbers
<1>7. IF \E a \in Agents : agent[a].pc = "advance"
      THEN 0 > 0 /\ head = (0 - 1) % IndexMod ELSE head = 0 % IndexMod
  BY <1>1, <1>2, <1>4
<1> QED
  BY <1>1, <1>2, <1>4, <1>6, <1>7 DEF Window

\* A step that leaves every publisher and server where it is keeps the window.
LEMMA OtherWindow ==
    ASSUME RingInv, Ordered, NEW c \in Agents, UNCHANGED <<head, tail>>,
           \A d \in Agents \ {c} : agent'[d] = agent[d],
           {agent'[c].pc, agent[c].pc} \cap {"tail", "copy", "run", "post", "advance"} = {},
           \A s \in SlotIds : slots'[s].status = "PENDING" <=> slots[s].status = "PENDING"
    PROVE  Ordered'
<1>1. PICK b \in Nat, t \in Nat : Window(b, t)
  BY DEF Ordered
<1>2. \A h \in Hosts : agent'[h].pc = "tail" <=> agent[h].pc = "tail"
  BY DEF Agents
<1>3. \A d \in Agents :
        /\ agent'[d].pc = "advance" <=> agent[d].pc = "advance"
        /\ agent'[d].pc \in {"copy", "run", "post", "advance"} => agent'[d].head = head
        /\ agent'[d].pc \in {"copy", "run", "post"} => b < t
  BY <1>1 DEF Window
<1>4. Window(b, t)'
  BY <1>1, <1>2, <1>3, WindowFrame
<1> QED
  BY <1>4 DEF Ordered

\* Every step keeps the window.
LEMMA NextWindow ==
    ASSUME SoleConsumer, Users, RingInv, Ordered, [Next]_vars
    PROVE  Ordered'
<1>1. Hosts \subseteq Agents /\ Engine \in Agents
  BY DEF Agents
<1>2. ASSUME NEW h \in Hosts,
             \/ \E l \in Launches : Submit(h, l)
             \/ \E l \in Launches \cup {0} : BeginWait(h, l)
             \/ Unsupported(h) \/ LockSubmit(h) \/ ReserveFails(h) \/ Reserve(h)
             \/ FindSlot(h) \/ RingFull(h) \/ OutOfResources(h) \/ WritePayload(h)
             \/ RingDoorbell(h) \/ SetRunning(h) \/ PushInflight(h) \/ UnlockSubmit(h)
             \/ WaitReturns(h) \/ WaitPolls(h) \/ WaitForEvent(h)
             \/ LockInflight(h) \/ UnlockInflight(h)
             \/ \E e \in agent[h].scan : ReapEntry(h, e)
      PROVE  Ordered'
  <2>1. /\ UNCHANGED <<mode, head, tail>> /\ h \in Agents
        /\ \A c \in Agents \ {h} : agent'[c] = agent[c]
        /\ agent'[h].pc \notin ServicePc \ {"serve"} /\ agent'[h].pc # "tail"
        /\ agent[h].pc \notin ServicePc /\ agent[h].pc # "tail"
        /\ \A s \in SlotIds : slots'[s].status = "PENDING" <=> slots[s].status = "PENDING"
    BY <1>1, <1>2, OtherSteps
  <2>2. {agent'[h].pc, agent[h].pc} \cap {"tail", "copy", "run", "post", "advance"} = {}
    BY <2>1, Pcs
  <2> QED
    BY <2>1, <2>2, OtherWindow
<1>3. ASSUME NEW a \in Agents, Service(a) \/ (a = Engine /\ AckDoorbell)
      PROVE  Ordered'
  <2>1. CASE ServeDone(a) \/ SendEvent(a) \/ (a = Engine /\ AckDoorbell)
    <3>1. /\ UNCHANGED <<mode, head, tail, slots>>
          /\ \A c \in Agents \ {a} : agent'[c] = agent[c]
          /\ agent'[a].pc \in {"asleep", "reap", "serve"}
          /\ agent[a].pc \in {"asleep", "serve", "sev"}
      BY <2>1, IdleService
    <3>2. {agent'[a].pc, agent[a].pc} \cap {"tail", "copy", "run", "post", "advance"} = {}
      BY <3>1
    <3> QED
      BY <3>1, <3>2, OtherWindow
  <2> QED
    BY <1>3, <2>1, ServeWindow, PostWindow, HeadWindow DEF Service
<1>4. ASSUME NEW h \in Hosts, Unsupported(h) \/ Dispatch(h) \/ Progress(h) \/ Wait(h)
      PROVE  Ordered'
  <2>1. CASE Publish(h) \/ AdvanceTail(h)
    BY <2>1, PublishWindow, TailWindow
  <2>2. CASE Service(h)
    BY <1>1, <1>3, <2>2
  <2>3. CASE ~Publish(h) /\ ~AdvanceTail(h) /\ ~Service(h)
    BY <1>2, <1>4, <2>3 DEF Dispatch, Progress, Wait
  <2> QED
    BY <2>1, <2>2, <2>3
<1>5. CASE UNCHANGED vars
  BY <1>5 DEF vars, Ordered, Window, Published, SlotOf
<1> QED
  BY <1>1, <1>2, <1>3, <1>4, <1>5 DEF Next

\* The doorbell is not lost in any step: the engine goes to sleep with head = tail
\* only, and tail moves only under a host that is about to ring.
LEMMA NextDoorbell ==
    ASSUME SoleConsumer, Users, RingInv, Ordered, NoLostDoorbell, [Next]_vars
    PROVE  NoLostDoorbell'
<1> SUFFICES ASSUME ~Cooperative', agent'[Engine].pc = "asleep", ~bell'
             PROVE  head' = tail' \/ \E h \in Hosts : agent'[h].pc = "ring"
  BY DEF NoLostDoorbell
<1>1. /\ TypeOK /\ Hosts \subseteq Agents /\ Engine \in Agents /\ Engine \notin Hosts
      /\ agent \in [Agents -> AgentRecord]
  BY StateTypes DEF RingInv
<1>2. ASSUME NEW h \in Hosts,
             \/ \E l \in Launches : Submit(h, l)
             \/ \E l \in Launches \cup {0} : BeginWait(h, l)
             \/ Unsupported(h) \/ LockSubmit(h) \/ ReserveFails(h) \/ Reserve(h)
             \/ FindSlot(h) \/ RingFull(h) \/ OutOfResources(h) \/ WritePayload(h)
             \/ SetRunning(h) \/ PushInflight(h) \/ UnlockSubmit(h)
             \/ WaitReturns(h) \/ WaitPolls(h) \/ WaitForEvent(h)
             \/ LockInflight(h) \/ UnlockInflight(h)
             \/ \E e \in agent[h].scan : ReapEntry(h, e)
      PROVE  head' = tail' \/ \E g \in Hosts : agent'[g].pc = "ring"
  <2>1. /\ UNCHANGED <<mode, head, tail>> /\ h \in Agents /\ h # Engine
        /\ \A c \in Agents \ {h} : agent'[c] = agent[c]
    BY <1>1, <1>2, OtherSteps
  <2>2. bell' = bell /\ agent[h].pc # "ring"
    BY <1>2 DEF Submit, BeginWait, Unsupported, LockSubmit, ReserveFails, Reserve, FindSlot,
         RingFull, OutOfResources, GiveUp, WritePayload, SetRunning, PushInflight,
         UnlockSubmit, WaitReturns, WaitPolls, WaitForEvent, LockInflight, UnlockInflight,
         ReapEntry
  <2> QED
    BY <1>1, <2>1, <2>2 DEF NoLostDoorbell, Cooperative
<1>3. ASSUME NEW h \in Hosts, RingDoorbell(h)
      PROVE  FALSE
  BY <1>3 DEF RingDoorbell
<1>4. ASSUME NEW h \in Hosts, AdvanceTail(h)
      PROVE  agent'[h].pc = "ring"
  BY <1>1, <1>4 DEF AdvanceTail, AgentRecord
<1>5. ASSUME NEW h \in Hosts, Publish(h)
      PROVE  head' = tail' \/ \E g \in Hosts : agent'[g].pc = "ring"
  <2>1. /\ UNCHANGED <<mode, head, tail, bell>> /\ h # Engine /\ agent[h].pc # "ring"
        /\ \A c \in Agents \ {h} : agent'[c] = agent[c]
    BY <1>1, <1>5 DEF Publish, Goto, AgentRecord
  <2> QED
    BY <1>1, <2>1 DEF NoLostDoorbell, Cooperative
<1>6. ASSUME NEW h \in Hosts, Service(h)
      PROVE  FALSE
  <2>1. agent[h].pc \in ServicePc /\ mode' = mode
    BY <1>6, Pcs DEF Service, ServeNext, ServeDone, CopyPayload, RunLaunch, PostResult,
         AdvanceHead, SendEvent
  <2> QED
    BY <2>1 DEF RingInv, Roles, Cooperative
<1>7. ASSUME AckDoorbell \/ Service(Engine)
      PROVE  head' = tail'
  <2>1. CASE ServeDone(Engine)
    <3>1. /\ agent[Engine].pc = "serve" /\ ~Available /\ UNCHANGED <<head, tail>>
      BY <2>1 DEF ServeDone
    <3>2. PICK b \in Nat, t \in Nat : Window(b, t)
      BY DEF Ordered
    <3>3. \A c \in Agents : agent[c].pc # "advance"
      BY <1>1, <3>1, OneServer, Pcs
    <3>4. /\ head = b % IndexMod /\ SlotOf(head) = SlotOf(b) /\ tail = t % IndexMod
          /\ b <= t /\ (b < t => slots[SlotOf(b)].status = "PENDING")
      BY <3>2, <3>3, WindowFacts DEF Window
    <3> QED
      BY <3>1, <3>4 DEF Available
  <2>2. CASE ~ServeDone(Engine)
    <3>1. agent'[Engine].pc \in {"copy", "run", "post", "advance", "sev", "serve"}
      <4>1. CASE ServeNext(Engine) \/ CopyPayload(Engine)
        BY <1>1, <4>1 DEF ServeNext, CopyPayload, AgentRecord
      <4>2. CASE PostResult(Engine) \/ AdvanceHead(Engine) \/ SendEvent(Engine) \/ AckDoorbell
        <5>1. PICK p \in {"advance", "sev", "serve"} : agent' = [agent EXCEPT ![Engine].pc = p]
          BY <4>2 DEF PostResult, AdvanceHead, SendEvent, AckDoorbell, Goto
        <5> QED
          BY <1>1, <5>1 DEF AgentRecord
      <4>3. ASSUME NEW ok \in BOOLEAN, RunLaunch(Engine, ok)
            PROVE  agent'[Engine].pc = "post"
        BY <1>1, <4>3 DEF RunLaunch, AgentRecord
      <4> QED
        BY <1>7, <2>2, <4>1, <4>2, <4>3 DEF Service
    <3> QED
      BY <3>1
  <2> QED
    BY <2>1, <2>2
<1>8. CASE UNCHANGED vars
  BY <1>8 DEF vars, NoLostDoorbell, Cooperative
<1>9. ASSUME NEW h \in Hosts, Unsupported(h) \/ Dispatch(h) \/ Progress(h) \/ Wait(h)
      PROVE  head' = tail' \/ \E g \in Hosts : agent'[g].pc = "ring"
  <2>1. CASE Service(h) \/ RingDoorbell(h) \/ AdvanceTail(h) \/ Publish(h)
    BY <1>3, <1>4, <1>5, <1>6, <2>1
  <2>2. CASE ~(Service(h) \/ RingDoorbell(h) \/ AdvanceTail(h) \/ Publish(h))
    BY <1>2, <1>9, <2>2 DEF Dispatch, Progress, Wait
  <2> QED
    BY <2>1, <2>2
<1> QED
  BY <1>2, <1>7, <1>8, <1>9 DEF Next

\* The published descriptors are the ones between head and tail, in order, whatever
\* number of times the 32-bit indices wrap.
THEOREM RingIsOrdered == SoleConsumer => (Spec => []Ordered)
<1> SUFFICES ASSUME SoleConsumer
             PROVE  Spec => []Ordered
  OBVIOUS
<1>1. Users /\ RingInv /\ Ordered /\ [Next]_vars => Ordered'
  BY NextWindow
<1>2. Spec => [](Users /\ RingInv)
  BY RingInvariant
<1> QED
  BY <1>1, <1>2, InitWindow, PTL DEF Spec

\* The doorbell and the engine's sleep: the engine never sleeps, with no doorbell
\* pending, over a published descriptor.
THEOREM DoorbellIsNotLost == SoleConsumer => (Spec => []NoLostDoorbell)
<1> SUFFICES ASSUME SoleConsumer
             PROVE  Spec => []NoLostDoorbell
  OBVIOUS
<1>1. Init => NoLostDoorbell
  BY DEF Init, NoLostDoorbell
<1>2. Users /\ RingInv /\ Ordered /\ NoLostDoorbell /\ [Next]_vars => NoLostDoorbell'
  BY NextDoorbell
<1>3. Spec => [](Users /\ RingInv)
  BY RingInvariant
<1>4. Spec => []Ordered
  BY RingIsOrdered
<1> QED
  BY <1>1, <1>2, <1>3, <1>4, PTL DEF Spec
-----------------------------------------------------------------------------
(* The ring implements the contract of every back end.                      *)

\* dispatch is entered, fails, or sets CL_RUNNING.
LEMMA StatusContract ==
    ASSUME RingInv, NEW h \in Hosts,
           \/ \E l \in Launches : Submit(h, l)
           \/ Unsupported(h) \/ ReserveFails(h) \/ OutOfResources(h) \/ SetRunning(h)
    PROVE  Contract!Next
<1>1. TypeOK /\ jobs \in [Launches -> JobRecord]
  BY StateTypes DEF RingInv
<1>2. CASE \E l \in Launches : Submit(h, l)
  <2>1. PICK l \in Launches : Submit(h, l)
    BY <1>2
  <2>2. jobs[l].status = "queued" /\ jobs' = [jobs EXCEPT ![l].status = "submitted"]
    BY <2>1 DEF Submit
  <2>3. /\ jobs'[l].status = "submitted"
        /\ \A k \in Launches : k # l => jobs'[k] = jobs[k]
        /\ \A k \in Launches : jobs'[k].ran = jobs[k].ran /\ jobs'[k].failed = jobs[k].failed
    BY <1>1, <2>2, StatusStep
  <2>4. Contract!Submit(l, 1)
    <3>1. [k \in Launches |-> jobs[k].status][l] = "queued"
      BY <2>2
    <3>2. [k \in Launches |-> jobs'[k].status] =
            [[k \in Launches |-> jobs[k].status] EXCEPT ![l] = "submitted"]
      BY <2>3
    <3>3. [k \in Launches |-> IF jobs'[k].status = "queued" THEN 0 ELSE 1] =
            [[k \in Launches |-> IF jobs[k].status = "queued" THEN 0 ELSE 1] EXCEPT ![l] = 1]
      BY <2>2, <2>3
    <3>4. /\ [k \in Launches |-> jobs'[k].ran] = [k \in Launches |-> jobs[k].ran]
          /\ [k \in Launches |-> jobs'[k].failed] = [k \in Launches |-> jobs[k].failed]
      BY <2>3
    <3> QED
      BY <3>1, <3>2, <3>3, <3>4 DEF Contract!Submit
  <2> QED
    BY <2>4 DEF Contract!Next
<1>3. CASE Unsupported(h) \/ ReserveFails(h) \/ OutOfResources(h)
  <2>1. /\ agent[h].pc \in {"lock", "reserve", "find"}
        /\ jobs' = [jobs EXCEPT ![agent[h].launch].status = "refused"]
    BY <1>3 DEF Unsupported, ReserveFails, OutOfResources, GiveUp
  <2>2. Submitting(agent[h]) /\ Unpublished(agent[h])
    BY <2>1 DEF Submitting, Unpublished
  <2>3. PICK m \in Launches :
          m = agent[h].launch /\ jobs[m].status = "submitted" /\ jobs[m].ran = 0
    BY <2>2 DEF RingInv, Submitters
  <2>4. /\ jobs'[m].status = "refused"
        /\ \A k \in Launches : k # m => jobs'[k] = jobs[k]
        /\ \A k \in Launches : jobs'[k].ran = jobs[k].ran /\ jobs'[k].failed = jobs[k].failed
    BY <1>1, <2>1, <2>3, StatusStep
  <2>5. Contract!Refuse(m)
    BY <2>3, <2>4 DEF Contract!Refuse
  <2> QED
    BY <2>5 DEF Contract!Next
<1>4. CASE SetRunning(h)
  <2>1. /\ agent[h].pc = "running"
        /\ jobs' = [jobs EXCEPT ![agent[h].launch].status = "running"]
    BY <1>4 DEF SetRunning
  <2>2. Submitting(agent[h])
    BY <2>1 DEF Submitting
  <2>3. PICK m \in Launches : m = agent[h].launch /\ jobs[m].status = "submitted"
    BY <2>2 DEF RingInv, Submitters
  <2>4. /\ jobs'[m].status = "running"
        /\ \A k \in Launches : k # m => jobs'[k] = jobs[k]
        /\ \A k \in Launches : jobs'[k].ran = jobs[k].ran /\ jobs'[k].failed = jobs[k].failed
    BY <1>1, <2>1, <2>3, StatusStep
  <2>5. Contract!Start(m)
    BY <2>3, <2>4 DEF Contract!Start
  <2> QED
    BY <2>5 DEF Contract!Next
<1> QED
  BY <1>2, <1>3, <1>4

\* A finished launch retires with the outcome of its execution.
LEMMA ReapContract ==
    ASSUME RingInv, NEW h \in Hosts, NEW e \in agent[h].scan, ReapEntry(h, e)
    PROVE  Contract!Next \/ jobs' = jobs
<1>1. TypeOK /\ jobs \in [Launches -> JobRecord]
  BY StateTypes DEF RingInv
<1>2. CASE ~Finished(e.slot)
  BY <1>2 DEF ReapEntry
<1>3. CASE Finished(e.slot)
  <2> DEFINE st == IF slots[e.slot].status = "DONE" THEN "complete" ELSE "error"
             l == e.launch
             x == e.slot
  <2>1. /\ e \in inflight /\ slots[x].status \in {"DONE", "ERROR"}
        /\ jobs' = [jobs EXCEPT ![l].status = st]
    BY <1>3 DEF ReapEntry, Finished, RingInv, Roles
  <2>2. /\ x \in SlotIds /\ l \in Launches /\ slots[x].status # "EMPTY" /\ slots[x].launch = l
        /\ jobs[l].status = "running"
    BY <2>1, EntryOwns
  <2>3. /\ st = IF jobs[l].failed THEN "error" ELSE "complete"
        /\ jobs[l].ran = 1
    <3>1. CASE slots[x].status = "DONE"
      BY <2>2, <3>1 DEF RingInv, Occupied
    <3>2. CASE slots[x].status = "ERROR"
      BY <2>2, <3>2 DEF RingInv, Occupied
    <3> QED
      BY <2>1, <3>1, <3>2
  <2>4. st \in {"queued", "submitted", "running", "complete", "error", "refused"}
    OBVIOUS
  <2> HIDE DEF l, st, x
  <2>5. /\ jobs'[l].status = st
        /\ \A k \in Launches : k # l => jobs'[k] = jobs[k]
        /\ \A k \in Launches : jobs'[k].ran = jobs[k].ran /\ jobs'[k].failed = jobs[k].failed
    BY <1>1, <2>1, <2>2, <2>4, StatusStep
  <2>6. Contract!Retire(l)
    <3>1. jobs'[l].status # "queued"
      BY <2>3, <2>5
    <3> QED
      BY <2>2, <2>3, <2>5, <3>1 DEF Contract!Retire
  <2> QED
    BY <2>2, <2>6 DEF Contract!Next
<1> QED
  BY <1>2, <1>3

\* A launch is executed once, after it was submitted and before it retires.
LEMMA RunContract ==
    ASSUME SoleConsumer, Users, RingInv, NEW a \in Agents, NEW ok \in BOOLEAN, RunLaunch(a, ok)
    PROVE  Contract!Next
<1> DEFINE l == agent[a].served
           x == SlotOf(agent[a].head)
<1>1. agent[a].pc = "run" /\ jobs' = [jobs EXCEPT ![l] = Executed(@, ok)]
  BY DEF RunLaunch
<1>2. /\ TypeOK /\ x \in SlotIds /\ slots[x].status = "PENDING" /\ l = slots[x].launch
      /\ l \in Launches /\ jobs \in [Launches -> JobRecord]
      /\ \A c \in Agents \ {a} : agent[c].pc \notin ServicePc
  BY <1>1, ServerStep
<1>3. \A c \in Agents : ~Posting(agent[c], x)
  BY <1>1, <1>2, Pcs DEF Posting
<1>4. jobs[l].ran = 0 /\ jobs[l].status \in {"submitted", "running"}
  BY <1>2, <1>3 DEF RingInv, Occupied
<1> HIDE DEF l, x
<1>5. /\ jobs'[l].ran = jobs[l].ran + 1
      /\ jobs'[l].failed = (jobs[l].failed \/ ~ok)
      /\ \A k \in Launches : k # l => jobs'[k] = jobs[k]
      /\ \A k \in Launches : jobs'[k].status = jobs[k].status
  BY <1>1, <1>2, RunJob
<1>6. \A k \in Launches : jobs[k].ran \in {0, 1} /\ (jobs[k].status = "queued" => jobs[k].ran = 0)
  BY DEF RingInv, Executions
<1>7. Contract!Execute(l, ok)
  <2>1. /\ [k \in Launches |-> jobs[k].status][l] \in {"submitted", "running"}
        /\ [k \in Launches |-> jobs[k].ran][l] <
             [k \in Launches |-> IF jobs[k].status = "queued" THEN 0 ELSE 1][l]
        /\ \A k \in Launches \ {l} : [i \in Launches |-> jobs[i].ran][k] \in
             {0, [i \in Launches |-> IF jobs[i].status = "queued" THEN 0 ELSE 1][k]}
    BY <1>2, <1>4, <1>6
  <2>2. [k \in Launches |-> jobs'[k].ran] =
          [[k \in Launches |-> jobs[k].ran] EXCEPT ![l] = @ + 1]
    BY <1>2, <1>5
  <2>3. [k \in Launches |-> jobs'[k].failed] =
          [[k \in Launches |-> jobs[k].failed] EXCEPT ![l] = @ \/ ~ok]
    BY <1>2, <1>5, Zenon
  <2>4. /\ [k \in Launches |-> jobs'[k].status] = [k \in Launches |-> jobs[k].status]
        /\ [k \in Launches |-> IF jobs'[k].status = "queued" THEN 0 ELSE 1] =
             [k \in Launches |-> IF jobs[k].status = "queued" THEN 0 ELSE 1]
    BY <1>5
  <2> QED
    BY <2>1, <2>2, <2>3, <2>4 DEF Contract!Execute
<1> QED
  BY <1>2, <1>7 DEF Contract!Next

\* Every step of the ring is a step of the contract, or leaves it alone.
LEMMA NextContract ==
    ASSUME SoleConsumer, Users, RingInv, [Next]_vars
    PROVE  [Contract!Next]_(Contract!contract)
<1>1. jobs' = jobs => UNCHANGED Contract!contract
  BY DEF Contract!contract
<1>2. Hosts \subseteq Agents /\ Engine \in Agents
  BY DEF Agents
<1>3. ASSUME NEW a \in Agents, Service(a)
      PROVE  Contract!Next \/ jobs' = jobs
  BY <1>3, RunContract
  DEF Service, ServeNext, ServeDone, CopyPayload, PostResult, AdvanceHead, SendEvent
<1>4. ASSUME NEW h \in Hosts, Unsupported(h) \/ Dispatch(h)
      PROVE  Contract!Next \/ jobs' = jobs
  BY <1>4, StatusContract
  DEF Dispatch, LockSubmit, Reserve, FindSlot, RingFull, WritePayload, Publish, AdvanceTail,
      RingDoorbell, PushInflight, UnlockSubmit
<1>5. ASSUME NEW h \in Hosts, Progress(h) \/ Wait(h)
      PROVE  Contract!Next \/ jobs' = jobs
  BY <1>2, <1>3, <1>5, ReapContract
  DEF Progress, Wait, LockInflight, UnlockInflight, WaitReturns, WaitPolls, WaitForEvent
<1>6. CASE \E h \in Hosts, l \in Launches : Submit(h, l)
  BY <1>6, StatusContract
<1>7. CASE \E h \in Hosts, l \in Launches \cup {0} : BeginWait(h, l)
  BY <1>1, <1>7 DEF BeginWait
<1>8. CASE AckDoorbell
  BY <1>1, <1>8 DEF AckDoorbell
<1>9. CASE UNCHANGED vars
  BY <1>1, <1>9 DEF vars
<1> QED
  BY <1>1, <1>2, <1>3, <1>4, <1>5, <1>6, <1>7, <1>8, <1>9 DEF Next

\* The ring devices implement the contract of every back end: a launch is executed
\* exactly once between its submission and its retirement, retires with the outcome of
\* that execution, and is not executed when it is refused.
THEOREM RingKeepsContract == SoleConsumer => (Spec => KeepsContract)
<1> SUFFICES ASSUME SoleConsumer
             PROVE  Spec => KeepsContract
  OBVIOUS
<1>1. Init => Contract!Init
  BY DEF Init, Contract!Init
<1>2. Users /\ RingInv /\ [Next]_vars => [Contract!Next]_(Contract!contract)
  BY NextContract
<1>3. Spec => [](Users /\ RingInv)
  BY RingInvariant
<1> QED
  BY <1>1, <1>2, <1>3, PTL DEF Spec, KeepsContract, Contract!Spec
=============================================================================
