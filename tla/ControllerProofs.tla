-------------------------- MODULE ControllerProofs --------------------------
(***************************************************************************)
(* Proofs about Controller, for every number of resources and workers and  *)
(* every bound.                                                            *)
(***************************************************************************)
EXTENDS ControllerProperties, KubernetesProofs

(***************************************************************************)
(* Types.                                                                  *)
(***************************************************************************)

\* Every state of the controller the program starts in is well typed.
THEOREM TypeInit == Init => TypeOK
<1>1. Init => KubernetesTypeOK BY ClusterTypes DEF Init
<1>2. ASSUME Init PROVE WorkerTypeOK
  <2>0. EmptyQueue \in Queue BY DEF Queue, EmptyQueue
  <2>1. workqueue \in Queue BY <1>2, <2>0 DEF Init, Cluster
  <2>2. worker = [w \in Worker |-> Idle] BY <1>2 DEF Init, Cluster
  <2>3. Idle \in [pc : WorkerPC, key : Key \union {NoKey}, copy : ObjectOrNone, verdict : Message]
    BY DEF Idle, ObjectOrNone, WorkerPC, Message
  <2> QED BY <2>1, <2>2, <2>3 DEF WorkerTypeOK, Idle
<1>3. ASSUME Init PROVE OtherTypeOK
  <2>1. services \in [Key -> [spec : Nat, state : {"partial", "whole"}]] BY <1>3 DEF Init, Cluster
  <2>2. 0 \in 0..(HoursPerDay - 1) BY ControllerAssumption
  <2>3. changes \in Nat /\ faults \in Nat /\ restarts \in Nat BY <1>3, ControllerAssumption DEF Init, Cluster
  <2>4. looked \in [Key -> Nat] /\ masked \subseteq Key /\ hour = 0 BY <1>3 DEF Init, Cluster
  <2> QED BY <2>1, <2>2, <2>3, <2>4 DEF OtherTypeOK
<1>4. Init => FlagsTypeOK
  BY DEF Init, FlagsTypeOK, Cluster
<1> QED BY <1>1, <1>2, <1>3, <1>4 DEF TypeOK

LEMMA ChangeTypes == ASSUME TypeOK, NEW k \in Key, Change(k) PROVE TypeOK'
<1> USE DEF TypeOK
<1>1. KubernetesTypeOK /\ Edit(k) /\ UNCHANGED cache BY DEF Change
<1>2. PICK obj \in ObjectOrNone : Store(k, obj) BY <1>1, EditStores
<1>3. KubernetesTypeOK' BY <1>1, <1>2, StoreTypes
<1>4. WorkerTypeOK' BY DEF Change, WorkerTypeOK, Edit
<1>5. OtherTypeOK'
  <2>0. changes > 0 /\ changes' = changes - 1 BY DEF Change, Edit
  <2>1. changes' \in Nat BY <2>0 DEF OtherTypeOK
  <2>2. UNCHANGED <<services, clock, history, faults, restarts>> BY DEF Change, Edit
  <2> QED BY <2>1, <2>2 DEF OtherTypeOK, clock, history
<1>6. FlagsTypeOK' BY DEF Change, FlagsTypeOK, clock, Edit
<1> QED BY <1>3, <1>4, <1>5, <1>6

LEMMA DriftTypes == ASSUME TypeOK, NEW k \in Key, Drift(k) PROVE TypeOK'
<1>1. KubernetesTypeOK' BY DEF TypeOK, Drift, KubernetesTypeOK, k8s
<1>2. WorkerTypeOK' BY DEF TypeOK, Drift, WorkerTypeOK
<1>3. FlagsTypeOK' BY DEF TypeOK, Drift, FlagsTypeOK, clock
<1>4. OtherTypeOK' BY DEF TypeOK, Drift, Fault, OtherTypeOK, clock, history
<1> QED BY <1>1, <1>2, <1>3, <1>4 DEF TypeOK

LEMMA TickTypes == ASSUME TypeOK, Tick PROVE TypeOK'
<1>1. hour' \in 0..(HoursPerDay - 1)
  <2>1. hour \in Nat /\ HoursPerDay \in Nat /\ HoursPerDay > 0
    BY ControllerAssumption DEF TypeOK, OtherTypeOK
  <2>2. (hour + 1) % HoursPerDay \in 0..(HoursPerDay - 1) BY <2>1
  <2> QED BY <2>2 DEF TypeOK, OtherTypeOK, Tick
<1>2. KubernetesTypeOK' BY DEF TypeOK, Tick, KubernetesTypeOK, k8s
<1>3. WorkerTypeOK' BY DEF TypeOK, Tick, WorkerTypeOK
<1>4. FlagsTypeOK' BY DEF TypeOK, Tick, FlagsTypeOK
<1>5. OtherTypeOK' BY <1>1 DEF TypeOK, Tick, OtherTypeOK, history, bounds
<1> QED BY <1>2, <1>3, <1>4, <1>5 DEF TypeOK

LEMMA HandleTypes ==
    ASSUME TypeOK, NEW k \in Key, NEW old, NEW new, Handle(k, old, new)
    PROVE  workqueue' \in Queue /\ (masked \subseteq Key)'
<1>1. workqueue \in Queue /\ masked \subseteq Key /\ Add(workqueue, k) \in Queue
  BY QueueTypes DEF TypeOK, WorkerTypeOK, OtherTypeOK
<1> QED BY <1>1 DEF Handle

LEMMA DeliverTypes == ASSUME TypeOK, NEW k \in Key, Deliver(k) PROVE TypeOK'
<1>1. workqueue' \in Queue /\ (masked \subseteq Key)'
  BY HandleTypes DEF Deliver, TypeOK, WorkerTypeOK, OtherTypeOK, See
<1>2. KubernetesTypeOK' BY SeeTypes DEF Deliver, TypeOK
<1>3. WorkerTypeOK' BY <1>1 DEF Deliver, TypeOK, WorkerTypeOK, See
<1>4. FlagsTypeOK' BY DEF Deliver, TypeOK, FlagsTypeOK, clock, See
<1>5. OtherTypeOK' BY <1>1 DEF Deliver, TypeOK, OtherTypeOK, clock, bounds, See
<1> QED BY <1>2, <1>3, <1>4, <1>5 DEF TypeOK

LEMMA ResyncTypes == ASSUME TypeOK, NEW k \in Key, Resync(k) PROVE TypeOK'
<1>1. workqueue' \in Queue /\ (masked \subseteq Key)'
  BY HandleTypes DEF Resync
<1>2. KubernetesTypeOK' BY DEF Resync, TypeOK, KubernetesTypeOK, k8s
<1>3. WorkerTypeOK' BY <1>1 DEF Resync, TypeOK, WorkerTypeOK
<1>4. FlagsTypeOK' BY DEF Resync, TypeOK, FlagsTypeOK, clock
<1>5. OtherTypeOK' BY <1>1 DEF Resync, TypeOK, OtherTypeOK, clock, bounds
<1> QED BY <1>2, <1>3, <1>4, <1>5 DEF TypeOK

LEMMA RelistTypes == ASSUME TypeOK, Relist PROVE TypeOK'
<1>2. KubernetesTypeOK' BY ListTypes DEF Relist, TypeOK
<1>3. WorkerTypeOK' BY DEF Relist, TypeOK, WorkerTypeOK, List
<1>4. FlagsTypeOK' BY DEF Relist, TypeOK, FlagsTypeOK, clock, List
<1>5. OtherTypeOK' BY DEF Relist, Fault, TypeOK, OtherTypeOK, clock, history, List
<1> QED BY <1>2, <1>3, <1>4, <1>5 DEF TypeOK

(* A worker's step changes that worker's record alone.                     *)

WorkerRecord == [pc : WorkerPC, key : Key \union {NoKey}, copy : ObjectOrNone, verdict : Message]
RecordOK(r) ==
    /\ r \in WorkerRecord
    /\ (r.pc = "idle") <=> (r.key = NoKey)
    /\ r.pc \in {"seed", "seeding", "status"} => r.copy # NoObject

LEMMA WorkerTypes ==
    ASSUME WorkerTypeOK, NEW w \in Worker, NEW r, RecordOK(r),
           worker' = [worker EXCEPT ![w] = r], workqueue' \in Queue
    PROVE  WorkerTypeOK'
<1>1. worker' \in [Worker -> WorkerRecord] BY DEF WorkerTypeOK, RecordOK, WorkerRecord
<1>2. \A v \in Worker : worker'[v] = IF v = w THEN r ELSE worker[v] BY DEF WorkerTypeOK
<1> QED BY <1>1, <1>2 DEF WorkerTypeOK, RecordOK, WorkerRecord

LEMMA WorkerFacts ==
    ASSUME TypeOK, NEW w \in Worker
    PROVE  RecordOK(worker[w]) /\ (worker[w].pc # "idle" => worker[w].key \in Key)
BY DEF TypeOK, WorkerTypeOK, RecordOK, WorkerRecord

LEMMA nextItemTypes ==
    ASSUME TypeOK, NEW w \in Worker, processNextWorkItem(w) PROVE TypeOK'
<1> DEFINE r == [Idle EXCEPT !.pc = "lookup", !.key = Head(workqueue.order)]
<1>1. Head(workqueue.order) \in Key /\ workqueue' \in Queue
  BY GetTypes DEF processNextWorkItem, TypeOK, WorkerTypeOK
<1>2. RecordOK(r)
  BY <1>1, ControllerAssumption
     DEF RecordOK, WorkerRecord, Idle, WorkerPC, ObjectOrNone, Message
<1>3. worker' = [worker EXCEPT ![w] = r] BY DEF processNextWorkItem
<1>4. WorkerTypeOK'
  <2> HIDE DEF r
  <2> QED BY <1>1, <1>2, <1>3, WorkerTypes DEF TypeOK
<1>5. KubernetesTypeOK' BY DEF processNextWorkItem, TypeOK, KubernetesTypeOK, k8s
<1>6. FlagsTypeOK' BY DEF processNextWorkItem, TypeOK, FlagsTypeOK, clock
<1>7. OtherTypeOK' BY DEF processNextWorkItem, TypeOK, OtherTypeOK, clock, history, bounds
<1> QED BY <1>4, <1>5, <1>6, <1>7 DEF TypeOK

LEMMA GotoTypes ==
    ASSUME TypeOK, NEW w \in Worker, worker[w].pc # "idle",
           NEW pc \in WorkerPC \ {"idle", "seed"}, pc \in {"seeding", "status"} => worker[w].copy # NoObject,
           Goto(w, pc), UNCHANGED workqueue
    PROVE  WorkerTypeOK'
<1> DEFINE r == [worker[w] EXCEPT !.pc = pc]
<1>1. RecordOK(worker[w]) BY WorkerFacts
<1>2. RecordOK(r) BY <1>1 DEF RecordOK, WorkerRecord
<1>3. worker' = [worker EXCEPT ![w] = r] BY DEF Goto
<1> HIDE DEF r
<1> QED BY <1>2, <1>3, WorkerTypes DEF TypeOK, WorkerTypeOK

LEMMA syncHandlerTypes ==
    ASSUME TypeOK, NEW w \in Worker, syncHandler(w) PROVE TypeOK'
<1> DEFINE k == worker[w].key
           o == cache[k]
           r == [worker[w] EXCEPT !.pc = "seed", !.copy = o]
<1>1. k \in Key /\ worker[w].pc = "lookup" /\ RecordOK(worker[w])
  BY WorkerFacts DEF syncHandler
<1>2. o \in ObjectOrNone /\ (o # NoObject => o.spec \in Nat)
  BY <1>1 DEF TypeOK, KubernetesTypeOK, ObjectOrNone, RestStrategy
<1>3. KubernetesTypeOK' BY DEF syncHandler, TypeOK, KubernetesTypeOK, k8s
<1>4. FlagsTypeOK' BY DEF syncHandler, TypeOK, FlagsTypeOK, clock
<1>5. UNCHANGED <<workqueue, services, hour, masked>> BY DEF syncHandler, clock
<1>6. CASE o = NoObject /\ Goto(w, "done") /\ UNCHANGED <<bounds, looked>>
  <2>1. WorkerTypeOK' BY <1>1, <1>5, <1>6, GotoTypes DEF WorkerPC
  <2>2. OtherTypeOK' BY <1>5, <1>6 DEF TypeOK, OtherTypeOK, bounds
  <2> QED BY <1>3, <1>4, <2>1, <2>2 DEF TypeOK
<1>7. CASE /\ o # NoObject /\ looked' = [looked EXCEPT ![k] = o.spec]
           /\ worker' = [worker EXCEPT ![w].pc = "seed", ![w].copy = o] /\ UNCHANGED bounds
  <2>1. worker' = [worker EXCEPT ![w] = r] BY <1>7 DEF TypeOK, WorkerTypeOK
  <2>2. RecordOK(r) BY <1>1, <1>2, <1>7 DEF RecordOK, WorkerRecord, WorkerPC
  <2>3. WorkerTypeOK'
    <3> HIDE DEF r
    <3> QED BY <1>5, <2>1, <2>2, WorkerTypes DEF TypeOK, WorkerTypeOK
  <2>4. OtherTypeOK' BY <1>1, <1>2, <1>5, <1>7 DEF TypeOK, OtherTypeOK, bounds
  <2> QED BY <1>3, <1>4, <2>3, <2>4 DEF TypeOK
<1>8. CASE o # NoObject /\ looked' = [looked EXCEPT ![k] = o.spec] /\ Goto(w, "done") /\ Fault
  <2>1. WorkerTypeOK' BY <1>1, <1>5, <1>8, GotoTypes DEF WorkerPC
  <2>2. OtherTypeOK' BY <1>1, <1>2, <1>5, <1>8 DEF TypeOK, OtherTypeOK, Fault
  <2> QED BY <1>3, <1>4, <2>1, <2>2 DEF TypeOK
<1> QED BY <1>6, <1>7, <1>8 DEF syncHandler

LEMMA BeginSeedTypes ==
    ASSUME TypeOK, NEW w \in Worker, BeginSeed(w) PROVE TypeOK'
<1> DEFINE k == worker[w].key
           s == worker[w].copy.spec
<1>1. k \in Key /\ worker[w].pc = "seed" /\ RecordOK(worker[w]) /\ s \in Nat
  BY WorkerFacts DEF BeginSeed, RecordOK, WorkerRecord, ObjectOrNone, RestStrategy
<1>2. services' \in [Key -> [spec : Nat, state : {"partial", "whole"}]]
  <2>1. services' = [services EXCEPT ![k] = IF @.spec = s THEN @
                                           ELSE [spec |-> s, state |-> "partial"]]
    BY DEF BeginSeed
  <2> HIDE DEF k, s
  <2> QED BY <1>1, <2>1 DEF TypeOK, OtherTypeOK
<1>3. WorkerTypeOK' BY <1>1, GotoTypes DEF BeginSeed, WorkerPC, RecordOK
<1>4. KubernetesTypeOK' BY DEF BeginSeed, TypeOK, KubernetesTypeOK, k8s
<1>5. FlagsTypeOK' BY DEF BeginSeed, TypeOK, FlagsTypeOK, clock
<1>6. OtherTypeOK' BY <1>2 DEF BeginSeed, TypeOK, OtherTypeOK, clock, history, bounds
<1> QED BY <1>3, <1>4, <1>5, <1>6 DEF TypeOK

LEMMA EndSeedTypes ==
    ASSUME TypeOK, NEW w \in Worker, EndSeed(w) PROVE TypeOK'
<1> DEFINE k == worker[w].key
           r(v) == [worker[w] EXCEPT !.pc = "status", !.verdict = v]
<1>1. k \in Key /\ worker[w].pc = "seeding" /\ RecordOK(worker[w])
  BY WorkerFacts DEF EndSeed
<1>2. PICK v \in {"ok", "failed"} : worker' = [worker EXCEPT ![w] = r(v)]
  BY DEF EndSeed, TypeOK, WorkerTypeOK
<1>3. RecordOK(r(v)) BY <1>1, <1>2 DEF RecordOK, WorkerRecord, WorkerPC, Message
<1>4. WorkerTypeOK'
  <2> HIDE DEF r
  <2> QED BY <1>2, <1>3, WorkerTypes DEF EndSeed, TypeOK, WorkerTypeOK
<1>5. services' \in [Key -> [spec : Nat, state : {"partial", "whole"}]]
  BY <1>1 DEF EndSeed, TypeOK, OtherTypeOK
<1>6. KubernetesTypeOK' BY DEF EndSeed, TypeOK, KubernetesTypeOK, k8s
<1>7. FlagsTypeOK' BY DEF EndSeed, TypeOK, FlagsTypeOK, clock
<1>8. changes' \in Nat /\ faults' \in Nat /\ restarts' \in Nat
  BY DEF EndSeed, Fault, TypeOK, OtherTypeOK, bounds
<1>9. OtherTypeOK' BY <1>5, <1>8 DEF EndSeed, TypeOK, OtherTypeOK, clock, history
<1> QED BY <1>4, <1>6, <1>7, <1>9 DEF TypeOK

LEMMA updateStatusTypes ==
    ASSUME TypeOK, NEW w \in Worker, updateStatus(w) PROVE TypeOK'
<1> DEFINE k == worker[w].key
           v == worker[w].verdict
           n == [server[k] EXCEPT !.status = v, !.resourceVersion = revision + 1]
<1>1. k \in Key /\ worker[w].pc = "status" /\ v \in Message
  BY WorkerFacts DEF updateStatus, RecordOK, WorkerRecord
<1>2. KubernetesTypeOK'
  <2>1. CASE UNCHANGED <<k8s, watch>>
    BY <2>1 DEF updateStatus, TypeOK, KubernetesTypeOK, k8s
  <2>2. CASE Fresh(k, worker[w].copy) /\ Store(k, n)
    <3>1. n \in ObjectOrNone BY <1>1, <2>2, StatusOf DEF TypeOK, ObjectOrNone
    <3> HIDE DEF n, k
    <3> QED BY <1>1, <2>2, <3>1, StoreTypes DEF updateStatus, TypeOK
  <2> QED BY <2>1, <2>2 DEF updateStatus
<1>3. WorkerTypeOK' BY <1>1, GotoTypes, WorkerFacts DEF updateStatus, WorkerPC
<1>4. FlagsTypeOK' BY DEF updateStatus, TypeOK, FlagsTypeOK, clock
<1>5. OtherTypeOK' BY DEF updateStatus, TypeOK, OtherTypeOK, clock, history, bounds
<1> QED BY <1>2, <1>3, <1>4, <1>5 DEF TypeOK

LEMMA ForgetTypes ==
    ASSUME TypeOK, NEW w \in Worker, Forget(w) PROVE TypeOK'
<1>1. worker[w].key \in Key BY WorkerFacts DEF Forget
<1>2. workqueue' \in Queue BY <1>1, QueueTypes DEF Forget, TypeOK, WorkerTypeOK
<1>3. RecordOK(Idle) BY DEF RecordOK, WorkerRecord, Idle, WorkerPC, ObjectOrNone, Message
<1>4. WorkerTypeOK' BY <1>2, <1>3, WorkerTypes DEF Forget, TypeOK
<1>5. KubernetesTypeOK' BY DEF Forget, TypeOK, KubernetesTypeOK, k8s
<1>6. FlagsTypeOK' BY DEF Forget, TypeOK, FlagsTypeOK, clock
<1>7. OtherTypeOK' BY DEF Forget, TypeOK, OtherTypeOK, clock, history, bounds
<1> QED BY <1>4, <1>5, <1>6, <1>7 DEF TypeOK

LEMMA StopTypes == ASSUME TypeOK, Stop PROVE TypeOK'
<1>1. workqueue' \in Queue
  BY DEF Stop, TypeOK, WorkerTypeOK, ShutDown, Queue
<1>2. KubernetesTypeOK' BY DEF Stop, TypeOK, KubernetesTypeOK, k8s
<1>3. WorkerTypeOK' BY <1>1 DEF Stop, TypeOK, WorkerTypeOK
<1>4. FlagsTypeOK' BY DEF Stop, TypeOK, FlagsTypeOK, clock
<1>5. OtherTypeOK' BY DEF Stop, TypeOK, OtherTypeOK, clock, history
<1> QED BY <1>2, <1>3, <1>4, <1>5 DEF TypeOK

LEMMA BootTypes == ASSUME TypeOK, Boot, restarts' \in Nat PROVE TypeOK'
<1>1. KubernetesTypeOK' BY ListTypes DEF Boot, TypeOK
<1>2. EmptyQueue \in Queue BY DEF Queue, EmptyQueue
<1>3. RecordOK(Idle) BY DEF RecordOK, WorkerRecord, Idle, WorkerPC, ObjectOrNone, Message
<1>4. worker' = [w \in Worker |-> Idle] BY DEF Boot, List
<1>5. WorkerTypeOK' BY <1>2, <1>3, <1>4 DEF Boot, WorkerTypeOK, RecordOK, WorkerRecord, List
<1>6. FlagsTypeOK' BY DEF Boot, TypeOK, FlagsTypeOK, clock, List
<1>7. OtherTypeOK' BY DEF Boot, TypeOK, OtherTypeOK, clock, List
<1> QED BY <1>1, <1>5, <1>6, <1>7 DEF TypeOK

LEMMA StutterTypes == ASSUME TypeOK, UNCHANGED vars PROVE TypeOK'
<1>1. KubernetesTypeOK' BY DEF TypeOK, KubernetesTypeOK, vars, k8s
<1>2. WorkerTypeOK' BY DEF TypeOK, WorkerTypeOK, vars
<1>3. FlagsTypeOK' BY DEF TypeOK, FlagsTypeOK, vars, clock
<1>4. OtherTypeOK' BY DEF TypeOK, OtherTypeOK, vars, clock, history, bounds
<1> QED BY <1>1, <1>2, <1>3, <1>4 DEF TypeOK

\* Every step of the controller keeps its state well typed.
THEOREM TypeNext == TypeOK /\ [Next]_vars => TypeOK'
<1> SUFFICES ASSUME TypeOK, [Next]_vars PROVE TypeOK' OBVIOUS
<1>1. ASSUME NEW k \in Key, Change(k) PROVE TypeOK' BY <1>1, ChangeTypes
<1>2. ASSUME NEW k \in Key, Drift(k) PROVE TypeOK' BY <1>2, DriftTypes
<1>3. ASSUME NEW k \in Key, Deliver(k) PROVE TypeOK' BY <1>3, DeliverTypes
<1>4. ASSUME NEW k \in Key, Resync(k) PROVE TypeOK' BY <1>4, ResyncTypes
<1>5. ASSUME NEW w \in Worker, WorkerStep(w) PROVE TypeOK'
  BY <1>5, nextItemTypes, syncHandlerTypes, BeginSeedTypes, EndSeedTypes,
     updateStatusTypes, ForgetTypes DEF WorkerStep
<1>6. CASE Tick BY <1>6, TickTypes
<1>7. CASE Relist BY <1>7, RelistTypes
<1>8. CASE Stop BY <1>8, StopTypes
<1>9. CASE Crash
  <2>1. restarts' \in Nat BY <1>9 DEF Crash, TypeOK, OtherTypeOK
  <2> QED BY <1>9, <2>1, BootTypes DEF Crash
<1>10. CASE Restart
  <2>1. restarts' \in Nat BY <1>10 DEF Restart, TypeOK, OtherTypeOK
  <2> QED BY <1>10, <2>1, BootTypes DEF Restart
<1>11. CASE UNCHANGED vars BY <1>11, StutterTypes
<1> QED BY <1>1, <1>2, <1>3, <1>4, <1>5, <1>6, <1>7, <1>8, <1>9, <1>10, <1>11 DEF Next

\* The controller's state is well typed in every reachable state.
THEOREM TypeCorrect == Spec => []TypeOK
BY TypeInit, TypeNext, PTL DEF Spec

(***************************************************************************)
(* One worker per key.                                                     *)
(***************************************************************************)

\* A worker that stays busy keeps its key.
LEMMA QueueSame ==
    ASSUME QueueInv, WellOrdered(workqueue'), workqueue'.processing = workqueue.processing,
           \A w \in Worker : Busy(w)' => Busy(w) /\ worker'[w].key = worker[w].key
    PROVE  QueueInv'
BY DEF QueueInv, BusyIsProcessing, OneWorkerPerKey

LEMMA GotoFacts ==
    ASSUME TypeOK, NEW w \in Worker, NEW pc, Goto(w, pc)
    PROVE  /\ worker'[w].pc = pc /\ worker'[w].key = worker[w].key
           /\ worker'[w].copy = worker[w].copy
           /\ \A v \in Worker \ {w} : worker'[v] = worker[v]
BY DEF Goto, TypeOK, WorkerTypeOK

LEMMA QueueNext == ASSUME TypeOK, QueueInv, [Next]_vars PROVE QueueInv'
<1> USE DEF Busy
<1>1. workqueue \in Queue /\ WellOrdered(workqueue) BY DEF TypeOK, WorkerTypeOK, QueueInv
<1>2. ASSUME UNCHANGED worker, WellOrdered(workqueue'),
             workqueue'.processing = workqueue.processing
      PROVE  QueueInv'
  BY <1>2, QueueSame
<1>3. ASSUME NEW k \in Key, NEW old, NEW new, Handle(k, old, new), UNCHANGED worker
      PROVE  QueueInv'
  BY <1>1, <1>2, <1>3, AddWellOrdered DEF Handle
<1>4. ASSUME NEW w \in Worker, processNextWorkItem(w) PROVE QueueInv'
  <2> DEFINE k == Head(workqueue.order)
  <2>1. /\ WellOrdered(workqueue') /\ workqueue'.processing = workqueue.processing \union {k}
        /\ k \notin workqueue.processing
    BY <1>1, <1>4, GetWellOrdered DEF processNextWorkItem
  <2>2. /\ worker'[w].key = k
        /\ \A v \in Worker \ {w} : worker'[v] = worker[v]
    BY <1>4 DEF processNextWorkItem, Idle, TypeOK, WorkerTypeOK
  <2>3. \A v \in Worker : worker[v].pc # "idle" => worker[v].key # k
    BY <2>1 DEF QueueInv, BusyIsProcessing
  <2> HIDE DEF k
  <2> QED BY <2>1, <2>2, <2>3 DEF QueueInv, BusyIsProcessing, OneWorkerPerKey
<1>5. ASSUME NEW w \in Worker, Forget(w) PROVE QueueInv'
  <2> DEFINE k == worker[w].key
  <2>1. k \in workqueue.processing
    BY <1>5 DEF Forget, QueueInv, BusyIsProcessing
  <2>2. WellOrdered(workqueue') /\ workqueue'.processing = workqueue.processing \ {k}
    BY <1>1, <1>5, <2>1, DoneWellOrdered DEF Forget
  <2>3. /\ worker'[w].pc = "idle"
        /\ \A v \in Worker \ {w} : worker'[v] = worker[v]
    BY <1>5 DEF Forget, Idle, TypeOK, WorkerTypeOK
  <2>4. \A v \in Worker \ {w} : worker[v].pc # "idle" => worker[v].key # k
    BY <1>5 DEF Forget, QueueInv, OneWorkerPerKey
  <2> HIDE DEF k
  <2> QED BY <2>2, <2>3, <2>4 DEF QueueInv, BusyIsProcessing, OneWorkerPerKey
<1>6. ASSUME NEW w \in Worker, worker[w].pc # "idle", UNCHANGED workqueue,
             worker'[w].key = worker[w].key,
             \A v \in Worker \ {w} : worker'[v] = worker[v]
      PROVE  QueueInv'
  BY <1>1, <1>6, QueueSame
<1>7. ASSUME NEW w \in Worker, syncHandler(w) \/ BeginSeed(w) \/ EndSeed(w) \/ updateStatus(w)
      PROVE  QueueInv'
  <2>1. worker[w].pc # "idle" /\ UNCHANGED workqueue
    BY <1>7 DEF syncHandler, BeginSeed, EndSeed, updateStatus
  <2>2. worker'[w].key = worker[w].key /\ \A v \in Worker \ {w} : worker'[v] = worker[v]
    BY <1>7 DEF syncHandler, BeginSeed, EndSeed, updateStatus, Goto, TypeOK, WorkerTypeOK
  <2> QED BY <1>6, <2>1, <2>2
<1>8. CASE Stop
  BY <1>1, <1>2, <1>8, ShutDownWellOrdered DEF Stop
<1>9. CASE Boot
  <2>1. \A w \in Worker : worker'[w].pc = "idle" BY <1>9 DEF Boot, Idle, List
  <2> QED BY <1>9, <2>1, EmptyWellOrdered DEF Boot, QueueInv, BusyIsProcessing, OneWorkerPerKey, List
<1>10. ASSUME NEW k \in Key, Deliver(k) \/ Resync(k) PROVE QueueInv'
  BY <1>1, <1>2, <1>3, <1>10 DEF Deliver, Resync, See
<1>11. ASSUME NEW k \in Key, Change(k) \/ Drift(k) PROVE QueueInv'
  BY <1>1, <1>2, <1>11 DEF Change, Drift, Edit
<1>12. CASE Tick \/ Relist \/ UNCHANGED vars
  BY <1>1, <1>2, <1>12 DEF Tick, Relist, vars, List
<1> QED BY <1>4, <1>5, <1>7, <1>8, <1>9, <1>10, <1>11, <1>12
        DEF Next, WorkerStep, Crash, Restart

LEMMA QueueInit == Init => QueueInv
<1> SUFFICES ASSUME Init PROVE QueueInv OBVIOUS
<1>1. workqueue = EmptyQueue /\ worker = [w \in Worker |-> Idle] BY DEF Init, Cluster
<1>2. \A w \in Worker : ~Busy(w) BY <1>1 DEF Busy, Idle
<1> QED BY <1>1, <1>2, EmptyWellOrdered DEF QueueInv, BusyIsProcessing, OneWorkerPerKey

\* No two workers of the controller ever have the same resource.
THEOREM NeverTwoWorkers == Spec => []OneWorkerPerKey
<1>1. Spec => []QueueInv
  BY TypeCorrect, QueueInit, QueueNext, PTL DEF Spec
<1>2. QueueInv => OneWorkerPerKey BY DEF QueueInv
<1> QED BY <1>1, <1>2, PTL

(***************************************************************************)
(* What a step can do to what is known of one resource.                    *)
(***************************************************************************)

LEMMA updateStatusStores ==
    ASSUME TypeOK, NEW w \in Worker, updateStatus(w)
    PROVE  \/ UNCHANGED <<server, revision, watch>>
           \/ \E obj \in RestStrategy :
                /\ Store(worker[w].key, obj)
                /\ Fresh(worker[w].key, worker[w].copy)
                /\ obj.resourceVersion = revision + 1
                /\ obj.spec = server[worker[w].key].spec
                /\ obj.status = worker[w].verdict
<1> DEFINE k == worker[w].key
           v == worker[w].verdict
           n == [server[k] EXCEPT !.status = v, !.resourceVersion = revision + 1]
<1>1. CASE UNCHANGED <<k8s, watch>> BY <1>1 DEF k8s
<1>2. CASE Fresh(k, worker[w].copy) /\ Store(k, n)
  <2>1. k \in Key /\ v \in Message
    BY WorkerFacts DEF updateStatus, RecordOK, WorkerRecord
  <2>2. n \in RestStrategy /\ n.resourceVersion = revision + 1 /\ n.spec = server[k].spec /\ n.status = v
    BY <1>2, <2>1, StatusOf DEF TypeOK
  <2> HIDE DEF n
  <2> QED BY <1>2, <2>2
<1> QED BY <1>1, <1>2 DEF updateStatus

LEMMA StepKnown ==
    ASSUME TypeOK, [Next]_vars, NEW k \in Key
    PROVE  Known(k)
<1> USE DEF TypeOK
<1>1. ASSUME NEW j \in Key, Change(j) PROVE Known(k) BY <1>1, EditKnown DEF Change
<1>2. ASSUME NEW j \in Key, Deliver(j) PROVE Known(k) BY <1>2, SeeKnown DEF Deliver
<1>3. ASSUME NEW j \in Key, Drift(j) \/ Resync(j) PROVE Known(k)
  BY <1>3, SameKnown DEF Drift, Resync, k8s
<1>4. CASE Relist \/ Boot BY <1>4, ListKnown DEF Relist, Boot
<1>5. CASE Tick \/ Stop \/ UNCHANGED vars BY <1>5, SameKnown DEF Tick, Stop, vars, k8s
<1>6. ASSUME NEW w \in Worker, updateStatus(w) PROVE Known(k)
  <2>1. CASE UNCHANGED <<server, revision, watch>> BY <1>6, <2>1, SameKnown DEF updateStatus
  <2>2. CASE \E obj \in RestStrategy :
               /\ Store(worker[w].key, obj)
               /\ Fresh(worker[w].key, worker[w].copy)
               /\ obj.resourceVersion = revision + 1
               /\ obj.spec = server[worker[w].key].spec
    <3>1. worker[w].key \in Key BY <1>6, WorkerFacts DEF updateStatus
    <3> QED BY <1>6, <2>2, <3>1, StoreKnown DEF updateStatus, Fresh, ObjectOrNone
  <2> QED BY <1>6, <2>1, <2>2, updateStatusStores
<1>7. ASSUME NEW w \in Worker, WorkerStep(w), ~updateStatus(w) PROVE Known(k)
  BY <1>7, SameKnown
     DEF WorkerStep, processNextWorkItem, syncHandler, BeginSeed, EndSeed, Forget, k8s
<1> QED BY <1>1, <1>2, <1>3, <1>4, <1>5, <1>6, <1>7 DEF Next, Crash, Restart

\* Copies are taken from the informer's store only.
LEMMA CopiesNext ==
    ASSUME TypeOK, [Next]_vars, NEW k \in Key
    PROVE  Copies(k)' \subseteq (Copies(k) \union {cache[k]}) \ {NoObject}
<1>1. ASSUME NEW w \in Worker, \A v \in Worker \ {w} : worker'[v] = worker[v],
             \/ worker'[w].key = worker[w].key /\ worker'[w].copy \in {worker[w].copy, cache[worker[w].key]}
             \/ worker'[w].copy = NoObject
      PROVE  Copies(k)' \subseteq (Copies(k) \union {cache[k]}) \ {NoObject}
  BY <1>1 DEF Copies
<1>2. ASSUME UNCHANGED worker PROVE Copies(k)' \subseteq (Copies(k) \union {cache[k]}) \ {NoObject}
  BY <1>2 DEF Copies
<1>3. ASSUME NEW w \in Worker, processNextWorkItem(w) \/ Forget(w)
      PROVE  Copies(k)' \subseteq (Copies(k) \union {cache[k]}) \ {NoObject}
  <2>1. CASE processNextWorkItem(w)
    <3>1. worker'[w].copy = NoObject /\ \A v \in Worker \ {w} : worker'[v] = worker[v]
      BY <2>1 DEF processNextWorkItem, Idle, TypeOK, WorkerTypeOK
    <3> QED BY <1>1, <3>1
  <2>2. CASE Forget(w)
    <3>1. worker'[w].copy = NoObject /\ \A v \in Worker \ {w} : worker'[v] = worker[v]
      BY <2>2 DEF Forget, Idle, TypeOK, WorkerTypeOK
    <3> QED BY <1>1, <3>1
  <2> QED BY <1>3, <2>1, <2>2
<1>4. ASSUME NEW w \in Worker, BeginSeed(w) \/ updateStatus(w)
      PROVE  Copies(k)' \subseteq (Copies(k) \union {cache[k]}) \ {NoObject}
  <2>1. PICK pc \in WorkerPC : Goto(w, pc) BY <1>4 DEF BeginSeed, updateStatus, WorkerPC
  <2> QED BY <1>1, <2>1, GotoFacts
<1>5. ASSUME NEW w \in Worker, EndSeed(w)
      PROVE  Copies(k)' \subseteq (Copies(k) \union {cache[k]}) \ {NoObject}
  <2>1. /\ worker'[w].key = worker[w].key /\ worker'[w].copy = worker[w].copy
        /\ \A v \in Worker \ {w} : worker'[v] = worker[v]
    BY <1>5 DEF EndSeed, TypeOK, WorkerTypeOK
  <2> QED BY <1>1, <2>1
<1>6. ASSUME NEW w \in Worker, syncHandler(w)
      PROVE  Copies(k)' \subseteq (Copies(k) \union {cache[k]}) \ {NoObject}
  <2> DEFINE o == cache[worker[w].key]
  <2>1. CASE Goto(w, "done") BY <1>1, <2>1, GotoFacts
  <2>2. CASE worker' = [worker EXCEPT ![w].pc = "seed", ![w].copy = o]
    <3>1. /\ worker'[w].key = worker[w].key /\ worker'[w].copy = o
          /\ \A v \in Worker \ {w} : worker'[v] = worker[v]
      BY <2>2 DEF TypeOK, WorkerTypeOK
    <3> QED BY <1>1, <3>1
  <2> QED BY <1>6, <2>1, <2>2 DEF syncHandler
<1>7. CASE Boot
  <2>1. \A w \in Worker : worker'[w].copy = NoObject BY <1>7 DEF Boot, Idle
  <2> QED BY <2>1 DEF Copies
<1>8. ASSUME NEW j \in Key, Change(j) \/ Drift(j) \/ Deliver(j) \/ Resync(j)
      PROVE  Copies(k)' \subseteq (Copies(k) \union {cache[k]}) \ {NoObject}
  BY <1>2, <1>8 DEF Change, Drift, Deliver, Resync
<1>9. CASE Tick \/ Relist \/ Stop \/ UNCHANGED vars
  BY <1>2, <1>9 DEF Tick, Relist, Stop, vars
<1> QED BY <1>3, <1>4, <1>5, <1>6, <1>7, <1>8, <1>9 DEF Next, WorkerStep, Crash, Restart

\* The spec seeded last changes only to that of a worker that begins.
KeepsServices(k) == services'[k].spec = services[k].spec
Seeds(k) == \E w \in Worker : /\ worker[w].pc = "seed" /\ worker[w].key = k
                              /\ services'[k].spec = worker[w].copy.spec

LEMMA ServicesNext ==
    ASSUME TypeOK, [Next]_vars, NEW k \in Key
    PROVE  KeepsServices(k) \/ Seeds(k)
<1>1. ASSUME UNCHANGED services PROVE KeepsServices(k) BY <1>1 DEF KeepsServices
<1>2. ASSUME NEW w \in Worker, BeginSeed(w) PROVE KeepsServices(k) \/ Seeds(k)
  BY <1>2 DEF BeginSeed, KeepsServices, Seeds, TypeOK, OtherTypeOK
<1>3. ASSUME NEW w \in Worker, EndSeed(w) PROVE KeepsServices(k)
  BY <1>3 DEF EndSeed, KeepsServices, TypeOK, OtherTypeOK
<1>4. ASSUME NEW j \in Key, Drift(j) PROVE KeepsServices(k)
  BY <1>4 DEF Drift, KeepsServices, TypeOK, OtherTypeOK
<1>5. ASSUME NEW j \in Key, Change(j) \/ Deliver(j) \/ Resync(j) PROVE KeepsServices(k)
  BY <1>1, <1>5 DEF Change, Deliver, Resync
<1>6. ASSUME NEW w \in Worker, processNextWorkItem(w) \/ syncHandler(w) \/ updateStatus(w) \/ Forget(w)
      PROVE  KeepsServices(k)
  BY <1>1, <1>6 DEF processNextWorkItem, syncHandler, updateStatus, Forget
<1>7. CASE Tick \/ Relist \/ Stop \/ Boot \/ UNCHANGED vars
  BY <1>1, <1>7 DEF Tick, Relist, Stop, Boot, vars
<1> QED BY <1>2, <1>3, <1>4, <1>5, <1>6, <1>7 DEF Next, WorkerStep, Crash, Restart

\* What the workers have are states of the resource.
LEMMA CopiesTypes ==
    ASSUME TypeOK, NEW k \in Key
    PROVE  /\ Copies(k) \in SUBSET RestStrategy /\ services[k].spec \in Nat
           /\ \A w \in Worker : worker[w].key = k /\ worker[w].copy # NoObject
                                => worker[w].copy \in Copies(k)
<1>1. \A w \in Worker : worker[w].copy \in ObjectOrNone BY DEF TypeOK, WorkerTypeOK
<1>2. Copies(k) \subseteq RestStrategy BY <1>1 DEF Copies, ObjectOrNone
<1> QED BY <1>2 DEF Copies, TypeOK, OtherTypeOK
=============================================================================
