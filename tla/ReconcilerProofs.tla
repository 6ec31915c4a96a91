-------------------------- MODULE ReconcilerProofs --------------------------
(***************************************************************************)
(* Proofs about Reconciler, for every number of resources and every bound. *)
(***************************************************************************)
EXTENDS ReconcilerProperties, KubernetesProofs, SumProofs

(***************************************************************************)
(* Types.                                                                  *)
(***************************************************************************)

WorkerRecord == [pc : WorkerPC, key : Key \union {NoKey}, copy : ObjectOrNone, verdict : Message]
RecordOK(r) ==
    /\ r \in WorkerRecord
    /\ (r.pc = "idle") <=> (r.key = NoKey)
    /\ r.pc = "seeding" => r.copy # NoObject

LEMMA IdleOK == RecordOK(Idle)
BY DEF RecordOK, WorkerRecord, Idle, WorkerPC, ObjectOrNone, Message

LEMMA InitTypes == Init => TypeOK
<1>1. Init => KubernetesTypeOK BY ClusterTypes DEF Init
<1>2. ASSUME Init PROVE WorkerTypeOK
  <2>1. EmptyQueue \in Queue BY DEF Queue, EmptyQueue
  <2>2. workqueue = EmptyQueue /\ delayed = {} /\ worker = Idle BY <1>2 DEF Init
  <2> QED BY <2>1, <2>2, IdleOK DEF WorkerTypeOK, RecordOK, WorkerRecord
<1>3. ASSUME Init PROVE OtherTypeOK
  <2>1. services = [k \in Key |-> [spec |-> 0, state |-> "partial"]] /\ synced = [k \in Key |-> 0]
    BY <1>3 DEF Init
  <2>2. resyncPeriod \in Nat /\ changes \in Nat /\ faults \in Nat /\ restarts \in Nat
    BY <1>3, ReconcilerAssumption DEF Init
  <2> QED BY <2>1, <2>2 DEF OtherTypeOK
<1> QED BY <1>1, <1>2, <1>3 DEF TypeOK

LEMMA WorkerFacts ==
    ASSUME TypeOK
    PROVE  /\ RecordOK(worker) /\ workqueue \in Queue
           /\ worker.pc # "idle" => worker.key \in Key /\ worker.key # NoKey
           /\ worker.copy # NoObject => worker.copy \in RestStrategy /\ worker.copy.spec \in Nat
BY DEF TypeOK, WorkerTypeOK, RecordOK, WorkerRecord, ObjectOrNone, RestStrategy

LEMMA OutsideTypes ==
    ASSUME TypeOK, NEW k \in Key, Change(k) \/ Drift(k) \/ Deliver(k) \/ Resync(k) \/ Elapse(k)
    PROVE  TypeOK'
<1>0. KubernetesTypeOK /\ workqueue \in Queue /\ Add(workqueue, k) \in Queue
  BY QueueTypes DEF TypeOK, WorkerTypeOK
<1>1. CASE Change(k)
  <2>1. PICK obj \in ObjectOrNone : Store(k, obj) BY <1>0, <1>1, EditStores DEF Change
  <2>2. KubernetesTypeOK' BY <1>0, <1>1, <2>1, StoreTypes DEF Change
  <2>3. WorkerTypeOK' BY <1>1 DEF Change, TypeOK, WorkerTypeOK, queue
  <2>4. OtherTypeOK'
    <3>1. changes' \in Nat /\ UNCHANGED <<services, resyncPeriod, synced, faults, restarts>>
      BY <1>1 DEF Change, Stir, TypeOK, OtherTypeOK
    <3> QED BY <3>1 DEF TypeOK, OtherTypeOK
  <2> QED BY <2>2, <2>3, <2>4 DEF TypeOK
<1>2. CASE Drift(k)
  <2>1. KubernetesTypeOK' BY <1>0, <1>2 DEF Drift, KubernetesTypeOK, k8s
  <2>2. WorkerTypeOK' BY <1>2 DEF Drift, TypeOK, WorkerTypeOK, queue
  <2>3. OtherTypeOK' BY <1>2 DEF Drift, Fault, TypeOK, OtherTypeOK
  <2> QED BY <2>1, <2>2, <2>3 DEF TypeOK
<1>3. CASE Deliver(k)
  <2>1. KubernetesTypeOK' BY <1>0, <1>3, SeeTypes DEF Deliver
  <2>2. workqueue' \in Queue /\ UNCHANGED <<delayed, worker>> BY <1>0, <1>3 DEF Deliver
  <2>3. WorkerTypeOK' BY <2>2 DEF TypeOK, WorkerTypeOK
  <2>4. OtherTypeOK' BY <1>3 DEF Deliver, TypeOK, OtherTypeOK, bounds
  <2> QED BY <2>1, <2>3, <2>4 DEF TypeOK
<1>4. CASE Resync(k)
  <2>1. KubernetesTypeOK' BY <1>0, <1>4 DEF Resync, KubernetesTypeOK, k8s
  <2>2. WorkerTypeOK' BY <1>0, <1>4 DEF Resync, TypeOK, WorkerTypeOK
  <2>3. OtherTypeOK' BY <1>4 DEF Resync, Stir, TypeOK, OtherTypeOK
  <2> QED BY <2>1, <2>2, <2>3 DEF TypeOK
<1>5. CASE Elapse(k)
  <2>1. KubernetesTypeOK' BY <1>0, <1>5 DEF Elapse, KubernetesTypeOK, k8s
  <2>2. WorkerTypeOK' BY <1>0, <1>5 DEF Elapse, TypeOK, WorkerTypeOK
  <2>3. OtherTypeOK' BY <1>5 DEF Elapse, TypeOK, OtherTypeOK, bounds
  <2> QED BY <2>1, <2>2, <2>3 DEF TypeOK
<1> QED BY <1>1, <1>2, <1>3, <1>4, <1>5

LEMMA WatchTypes == ASSUME TypeOK, Relist \/ Crash PROVE TypeOK'
<1>1. KubernetesTypeOK' BY ListTypes DEF Relist, Crash, TypeOK
<1>2. WorkerTypeOK'
  <2>1. EmptyQueue \in Queue BY DEF Queue, EmptyQueue
  <2>2. CASE Relist BY <2>2 DEF Relist, TypeOK, WorkerTypeOK, queue
  <2>3. CASE Crash
    <3>1. workqueue' = EmptyQueue /\ delayed' = {} /\ worker' = Idle BY <2>3 DEF Crash
    <3> QED BY <2>1, <3>1, IdleOK DEF WorkerTypeOK, RecordOK, WorkerRecord
  <2> QED BY <2>2, <2>3
<1>3. OtherTypeOK'
  <2>1. CASE Relist BY <2>1 DEF Relist, Fault, TypeOK, OtherTypeOK
  <2>2. CASE Crash BY <2>2 DEF Crash, TypeOK, OtherTypeOK
  <2> QED BY <2>1, <2>2
<1> QED BY <1>1, <1>2, <1>3 DEF TypeOK

LEMMA WorkerTypes ==
    ASSUME NEW r, RecordOK(r), worker' = r, workqueue' \in Queue, delayed' \subseteq Key
    PROVE  WorkerTypeOK'
BY DEF WorkerTypeOK, RecordOK, WorkerRecord

LEMMA WorkerStepTypes == ASSUME TypeOK, WorkerStep PROVE TypeOK'
<1> DEFINE k == worker.key
<1>0. /\ KubernetesTypeOK /\ OtherTypeOK /\ RecordOK(worker)
      /\ workqueue \in Queue /\ delayed \subseteq Key
      /\ worker.pc # "idle" => k \in Key
  BY WorkerFacts DEF TypeOK, WorkerTypeOK
<1>1. CASE processNextWorkItem
  <2> DEFINE r == [Idle EXCEPT !.pc = "get", !.key = Head(workqueue.order)]
  <2>1. Head(workqueue.order) \in Key /\ workqueue' \in Queue
    BY <1>0, <1>1, GetTypes DEF processNextWorkItem
  <2>2. RecordOK(r)
    BY <2>1, ReconcilerAssumption
       DEF RecordOK, WorkerRecord, Idle, WorkerPC, ObjectOrNone, Message
  <2>3. worker' = r /\ UNCHANGED delayed BY <1>1 DEF processNextWorkItem
  <2>4. WorkerTypeOK'
    <3> HIDE DEF r
    <3> QED BY <1>0, <2>1, <2>2, <2>3, WorkerTypes
  <2>5. KubernetesTypeOK' BY <1>0, <1>1 DEF processNextWorkItem, KubernetesTypeOK, k8s
  <2>6. OtherTypeOK' BY <1>0, <1>1 DEF processNextWorkItem, OtherTypeOK, bounds
  <2> QED BY <2>4, <2>5, <2>6 DEF TypeOK
<1>2. CASE ReadSpec
  <2> DEFINE r == [worker EXCEPT !.pc = "seed", !.copy = cache[k]]
  <2>1. k \in Key /\ cache[k] \in ObjectOrNone BY <1>0, <1>2 DEF ReadSpec, KubernetesTypeOK
  <2>2. RecordOK(r) BY <1>0, <1>2, <2>1 DEF ReadSpec, RecordOK, WorkerRecord, WorkerPC
  <2>3. worker' = r /\ UNCHANGED queue BY <1>2 DEF ReadSpec
  <2>4. WorkerTypeOK'
    <3> HIDE DEF r
    <3> QED BY <1>0, <2>2, <2>3, WorkerTypes DEF queue
  <2>5. KubernetesTypeOK' BY <1>0, <1>2 DEF ReadSpec, KubernetesTypeOK, k8s
  <2>6. OtherTypeOK' BY <1>0, <1>2 DEF ReadSpec, OtherTypeOK, bounds
  <2> QED BY <2>4, <2>5, <2>6 DEF TypeOK
<1>3. CASE BeginSeed
  <2>1. UNCHANGED <<queue, bounds, resyncPeriod, synced>> /\ KubernetesTypeOK'
    BY <1>0, <1>3 DEF BeginSeed, KubernetesTypeOK, k8s
  <2>2. CASE /\ worker.copy # NoObject /\ Goto("seeding")
             /\ services' = [services EXCEPT ![k] = IF @.spec = worker.copy.spec THEN @
                                ELSE [spec |-> worker.copy.spec, state |-> "partial"]]
    <3> DEFINE r == [worker EXCEPT !.pc = "seeding"]
               s == worker.copy.spec
    <3>1. RecordOK(r) BY <1>0, <1>3, <2>2 DEF BeginSeed, RecordOK, WorkerRecord, WorkerPC
    <3>2. worker' = r BY <2>2 DEF Goto
    <3>3. WorkerTypeOK'
      <4> HIDE DEF r
      <4> QED BY <1>0, <2>1, <3>1, <3>2, WorkerTypes DEF queue
    <3>4. s \in Nat /\ k \in Key BY <1>3, <2>2, WorkerFacts DEF BeginSeed
    <3>5. services' = [services EXCEPT ![k] = IF @.spec = s THEN @
                                ELSE [spec |-> s, state |-> "partial"]]
      BY <2>2
    <3> HIDE DEF s, k
    <3>6. OtherTypeOK' BY <1>0, <2>1, <3>4, <3>5 DEF OtherTypeOK, bounds
    <3> QED BY <2>1, <3>3, <3>6 DEF TypeOK
  <2>3. CASE worker' = [worker EXCEPT !.pc = "status", !.verdict = "ok"] /\ UNCHANGED services
    <3> DEFINE r == [worker EXCEPT !.pc = "status", !.verdict = "ok"]
    <3>1. RecordOK(r) BY <1>0, <1>3 DEF BeginSeed, RecordOK, WorkerRecord, WorkerPC, Message
    <3>2. WorkerTypeOK'
      <4>1. worker' = r BY <2>3
      <4> HIDE DEF r
      <4> QED BY <1>0, <2>1, <3>1, <4>1, WorkerTypes DEF queue
    <3>3. OtherTypeOK' BY <1>0, <2>1, <2>3 DEF OtherTypeOK, bounds
    <3> QED BY <2>1, <3>2, <3>3 DEF TypeOK
  <2> QED BY <1>3, <2>2, <2>3 DEF BeginSeed
<1>4. CASE EndSeed
  <2> DEFINE r(v) == [worker EXCEPT !.pc = "status", !.verdict = v]
  <2>1. UNCHANGED <<queue, resyncPeriod>> /\ KubernetesTypeOK'
    BY <1>0, <1>4 DEF EndSeed, KubernetesTypeOK, k8s
  <2>2. PICK v \in {"ok", "failed"} : worker' = r(v) BY <1>4 DEF EndSeed
  <2>3. RecordOK(r(v)) BY <1>0, <1>4 DEF EndSeed, RecordOK, WorkerRecord, WorkerPC, Message
  <2>4. WorkerTypeOK'
    <3> HIDE DEF r
    <3> QED BY <1>0, <2>1, <2>2, <2>3, WorkerTypes DEF queue
  <2>5. worker.copy.spec \in Nat /\ k \in Key BY <1>0, <1>4, WorkerFacts DEF EndSeed, RecordOK
  <2>6. services' \in [Key -> [spec : Nat, state : {"partial", "whole"}]]
    BY <1>0, <1>4, <2>5 DEF EndSeed, OtherTypeOK
  <2>7. synced' \in [Key -> Nat] BY <1>0, <1>4, <2>5 DEF EndSeed, OtherTypeOK
  <2>8. changes' \in Nat /\ faults' \in Nat /\ restarts' \in Nat
    BY <1>0, <1>4 DEF EndSeed, Fault, OtherTypeOK, bounds
  <2>9. OtherTypeOK' BY <1>0, <2>1, <2>6, <2>7, <2>8 DEF OtherTypeOK
  <2> QED BY <2>1, <2>4, <2>9 DEF TypeOK
<1>5. CASE updateStatus
  <2> DEFINE r == [worker EXCEPT !.pc = "done"]
             n == [server[k] EXCEPT !.status = worker.verdict, !.resourceVersion = revision + 1]
  <2>1. RecordOK(r) BY <1>0, <1>5 DEF updateStatus, RecordOK, WorkerRecord, WorkerPC
  <2>2. worker' = r /\ UNCHANGED <<queue, cache>> BY <1>5 DEF updateStatus, Goto
  <2>3. WorkerTypeOK'
    <3> HIDE DEF r
    <3> QED BY <1>0, <2>1, <2>2, WorkerTypes DEF queue
  <2>4. KubernetesTypeOK'
    <3>1. CASE UNCHANGED <<k8s, watch>> BY <1>0, <2>2, <3>1 DEF KubernetesTypeOK, k8s
    <3>2. CASE Fresh(k, worker.copy) /\ Store(k, n)
      <4>1. k \in Key /\ worker.verdict \in Message
        BY <1>0, <1>5 DEF updateStatus, RecordOK, WorkerRecord
      <4>2. n \in ObjectOrNone BY <1>0, <3>2, <4>1, StatusOf DEF ObjectOrNone
      <4> HIDE DEF n, k
      <4> QED BY <1>0, <2>2, <3>2, <4>1, <4>2, StoreTypes
    <3> QED BY <1>5, <3>1, <3>2 DEF updateStatus
  <2>5. OtherTypeOK' BY <1>0, <1>5 DEF updateStatus, OtherTypeOK, bounds
  <2> QED BY <2>3, <2>4, <2>5 DEF TypeOK
<1>6. CASE Return
  <2>1. k \in Key /\ workqueue' \in Queue BY <1>0, <1>6, QueueTypes DEF Return
  <2>2. worker' = Idle /\ delayed' \subseteq Key BY <1>0, <1>6, <2>1 DEF Return
  <2>3. WorkerTypeOK' BY <2>1, <2>2, IdleOK, WorkerTypes
  <2>4. KubernetesTypeOK' BY <1>0, <1>6 DEF Return, KubernetesTypeOK, k8s
  <2>5. OtherTypeOK' BY <1>0, <1>6 DEF Return, OtherTypeOK, bounds
  <2> QED BY <2>3, <2>4, <2>5 DEF TypeOK
<1> QED BY <1>1, <1>2, <1>3, <1>4, <1>5, <1>6 DEF WorkerStep

\* Every step of the controller keeps its state well typed.
LEMMA TypeNext == TypeOK /\ [Next]_vars => TypeOK'
<1> SUFFICES ASSUME TypeOK, [Next]_vars PROVE TypeOK' OBVIOUS
<1>1. CASE UNCHANGED vars
  <2>1. KubernetesTypeOK' BY <1>1 DEF TypeOK, KubernetesTypeOK, vars, k8s
  <2>2. WorkerTypeOK' BY <1>1 DEF TypeOK, WorkerTypeOK, vars, queue
  <2>3. OtherTypeOK' BY <1>1 DEF TypeOK, OtherTypeOK, vars, bounds
  <2> QED BY <2>1, <2>2, <2>3 DEF TypeOK
<1> QED BY <1>1, OutsideTypes, WatchTypes, WorkerStepTypes DEF Next

\* The state of the Kubebuilder controller is well typed in every reachable state.
THEOREM TypeCorrect == Spec => []TypeOK
BY InitTypes, TypeNext, PTL DEF Spec

(***************************************************************************)
(* No resource drops out of the loop.                                      *)
(***************************************************************************)

LEMMA RunNext == ASSUME TypeOK, RunInv, [Next]_vars PROVE RunInv'
<1>1. CASE UNCHANGED <<worker, synced>> BY <1>1 DEF RunInv
<1>2. CASE worker'.pc \notin {"status", "done"} BY <1>2 DEF RunInv
<1>3. CASE worker'.copy = NoObject BY <1>3 DEF RunInv
<1>4. CASE EndSeed
  <2>1. worker.key \in Key /\ worker.pc = "seeding" BY <1>4, WorkerFacts DEF EndSeed
  <2>2. worker'.key = worker.key /\ worker'.copy = worker.copy
    BY <1>4, WorkerFacts DEF EndSeed, RecordOK, WorkerRecord
  <2>3. \/ worker'.verdict = "ok" /\ synced' = [synced EXCEPT ![worker.key] = worker.copy.spec]
        \/ worker'.verdict = "failed"
    BY <1>4, WorkerFacts DEF EndSeed, RecordOK, WorkerRecord
  <2>4. synced'[worker.key] = worker.copy.spec \/ worker'.verdict = "failed"
    BY <2>1, <2>3 DEF TypeOK, OtherTypeOK
  <2> QED BY <2>2, <2>3, <2>4 DEF RunInv
<1>5. CASE updateStatus
  <2>1. /\ worker.pc = "status" /\ worker'.key = worker.key /\ worker'.copy = worker.copy
        /\ worker'.verdict = worker.verdict /\ UNCHANGED synced
    BY <1>5, WorkerFacts DEF updateStatus, Goto, RecordOK, WorkerRecord
  <2> QED BY <2>1 DEF RunInv
<1>6. ASSUME processNextWorkItem \/ ReadSpec \/ Return \/ Crash
      PROVE  worker'.pc \notin {"status", "done"}
  <2>1. CASE processNextWorkItem BY <2>1 DEF processNextWorkItem, Idle
  <2>2. CASE ReadSpec BY <2>2, WorkerFacts DEF ReadSpec, RecordOK, WorkerRecord
  <2>3. CASE Return \/ Crash
    <3>1. worker' = Idle BY <2>3 DEF Return, Crash
    <3>2. Idle.pc = "idle" BY DEF Idle
    <3> QED BY <3>1, <3>2
  <2> QED BY <1>6, <2>1, <2>2, <2>3
<1>7. ASSUME BeginSeed PROVE worker'.pc = "seeding" \/ worker'.copy = NoObject
  BY <1>7, WorkerFacts DEF BeginSeed, Goto, RecordOK, WorkerRecord
<1>8. ASSUME NEW k \in Key, Change(k) \/ Drift(k) \/ Deliver(k) \/ Resync(k) \/ Elapse(k)
      PROVE  UNCHANGED <<worker, synced>>
  BY <1>8 DEF Change, Drift, Deliver, Resync, Elapse
<1>9. ASSUME Relist \/ UNCHANGED vars PROVE UNCHANGED <<worker, synced>>
  BY <1>9 DEF Relist, vars
<1> QED BY <1>1, <1>2, <1>3, <1>4, <1>5, <1>6, <1>7, <1>8, <1>9 DEF Next, WorkerStep

LEMMA RunCorrect == Spec => []RunInv
<1>1. Init => RunInv
  <2>1. Init => worker = Idle BY DEF Init
  <2>2. Idle.pc = "idle" BY DEF Idle
  <2> QED BY <2>1, <2>2 DEF RunInv
<1> QED BY <1>1, TypeCorrect, RunNext, PTL DEF Spec

LEMMA AddDirty ==
    ASSUME NEW q \in Queue, ~q.down, NEW k \in Key
    PROVE  ~Add(q, k).down /\ Add(q, k).dirty = q.dirty \union {k}
BY DEF Add, Queue

\* A step that leaves the worker, the informer and the outcomes alone.
LEMMA KeptFrame ==
    ASSUME NEW k \in Key, Kept(k), Waiting(k) => Waiting(k)',
           UNCHANGED <<worker, resyncPeriod>>, cache'[k] = cache[k], synced'[k] = synced[k]
    PROVE  Kept(k)'
BY DEF Kept, HasRead

\* A step of a worker that is busy with this key and stays so, or with another.
LEMMA KeptBusy ==
    ASSUME NEW k \in Key, Kept(k), UNCHANGED <<cache, queue, resyncPeriod>>,
           worker'.key = worker.key,
           worker.key = k => /\ worker.pc # "get"
                             /\ worker'.copy = worker.copy,
           worker.key # k => synced'[k] = synced[k]
    PROVE  Kept(k)'
BY DEF Kept, HasRead, Waiting, queue

LEMMA KeptNext == ASSUME TypeOK, RunInv, KeptInv, [Next]_vars PROVE KeptInv'
<1>0. workqueue \in Queue /\ ~workqueue.down /\ \A k \in Key : Kept(k)
  BY WorkerFacts DEF KeptInv
<1>1. ASSUME NEW j \in Key, Change(j) \/ Drift(j) PROVE KeptInv'
  <2>1. UNCHANGED <<cache, queue, worker, resyncPeriod, synced>> BY <1>1 DEF Change, Drift
  <2> QED BY <1>0, <2>1, KeptFrame DEF KeptInv, Waiting, queue
<1>2. ASSUME NEW j \in Key, Deliver(j) PROVE KeptInv'
  <2>1. /\ UNCHANGED <<delayed, worker, resyncPeriod, synced>>
        /\ \A k \in Key : k # j => cache'[k] = cache[k]
        /\ cache'[j] = Head(watch[j])
    BY <1>2 DEF Deliver, See, TypeOK, KubernetesTypeOK
  <2>2. /\ ~workqueue'.down /\ workqueue.dirty \subseteq workqueue'.dirty
        /\ cache'[j] # NoObject => j \in workqueue'.dirty
    BY <1>0, <1>2, <2>1, AddDirty DEF Deliver, Enqueues
  <2>3. ASSUME NEW k \in Key PROVE Kept(k)'
    <3>1. CASE k = j BY <2>2, <3>1 DEF Kept, Waiting
    <3>2. CASE k # j BY <1>0, <2>1, <2>2, <3>2, KeptFrame DEF Waiting
    <3> QED BY <3>1, <3>2
  <2> QED BY <2>2, <2>3 DEF KeptInv
<1>3. ASSUME NEW j \in Key, Resync(j) \/ Elapse(j) PROVE KeptInv'
  <2>1. /\ UNCHANGED <<cache, worker, resyncPeriod, synced>>
        /\ workqueue' = Add(workqueue, j) /\ delayed \ {j} \subseteq delayed'
    BY <1>3 DEF Resync, Elapse
  <2>2. ~workqueue'.down /\ workqueue'.dirty = workqueue.dirty \union {j}
    BY <1>0, <2>1, AddDirty
  <2> QED BY <1>0, <2>1, <2>2, KeptFrame DEF KeptInv, Waiting
<1>4. CASE Relist \/ UNCHANGED vars
  <2>1. UNCHANGED <<cache, queue, worker, resyncPeriod, synced>> BY <1>4 DEF Relist, vars
  <2> QED BY <1>0, <2>1, KeptFrame DEF KeptInv, Waiting, queue
<1>5. CASE Crash
  <2>1. ~workqueue'.down /\ \A k \in Key : cache'[k] = NoObject
    BY <1>5 DEF Crash, EmptyQueue
  <2> QED BY <2>1 DEF KeptInv, Kept
<1>6. CASE processNextWorkItem
  <2> DEFINE j == Head(workqueue.order)
  <2>1. /\ worker.key = NoKey /\ worker'.key = j /\ worker'.pc = "get"
        /\ workqueue'.dirty = workqueue.dirty \ {j} /\ ~workqueue'.down
        /\ UNCHANGED <<cache, delayed, resyncPeriod, synced>>
    BY <1>0, <1>6 DEF processNextWorkItem, Get, Queue, Idle, TypeOK, WorkerTypeOK
  <2>2. \A k \in Key : k # NoKey BY ReconcilerAssumption
  <2> HIDE DEF j
  <2>3. ASSUME NEW k \in Key PROVE Kept(k)'
    <3>1. CASE k = j BY <2>1, <3>1 DEF Kept
    <3>2. CASE k # j BY <1>0, <2>1, <2>2, <3>2 DEF Kept, Waiting
    <3> QED BY <3>1, <3>2
  <2> QED BY <2>1, <2>3 DEF KeptInv
<1>7. CASE ReadSpec
  <2>1. /\ worker'.key = worker.key /\ worker'.copy = cache[worker.key]
        /\ UNCHANGED <<cache, workqueue, delayed, resyncPeriod, synced>>
    BY <1>7, WorkerFacts DEF ReadSpec, RecordOK, WorkerRecord, queue
  <2>2. ASSUME NEW k \in Key PROVE Kept(k)'
    <3>1. CASE k = worker.key BY <2>1, <3>1 DEF Kept, HasRead
    <3>2. CASE k # worker.key BY <1>0, <2>1, <3>2 DEF Kept, HasRead, Waiting
    <3> QED BY <3>1, <3>2
  <2> QED BY <1>0, <2>1, <2>2 DEF KeptInv
<1>8. CASE BeginSeed \/ EndSeed \/ updateStatus
  <2>1. /\ worker.pc # "get" /\ worker'.key = worker.key /\ worker'.copy = worker.copy
        /\ UNCHANGED <<cache, queue, resyncPeriod>>
    <3>1. CASE BeginSeed BY <3>1, WorkerFacts DEF BeginSeed, Goto, RecordOK, WorkerRecord
    <3>2. CASE EndSeed BY <3>2, WorkerFacts DEF EndSeed, RecordOK, WorkerRecord
    <3>3. CASE updateStatus BY <3>3, WorkerFacts DEF updateStatus, Goto, RecordOK, WorkerRecord
    <3> QED BY <1>8, <3>1, <3>2, <3>3
  <2>2. ASSUME NEW k \in Key, k # worker.key PROVE synced'[k] = synced[k]
    BY <1>8, <2>2 DEF BeginSeed, EndSeed, updateStatus, TypeOK, OtherTypeOK
  <2> QED BY <1>0, <2>1, <2>2, KeptBusy DEF KeptInv, queue
<1>9. CASE Return
  <2> DEFINE j == worker.key
  <2>1. /\ worker.pc = "done" /\ j \in Key /\ worker'.key = NoKey
        /\ UNCHANGED <<cache, resyncPeriod, synced>>
        /\ delayed' = IF Requeues(worker.verdict) THEN delayed \union {j} ELSE delayed
    BY <1>9, WorkerFacts DEF Return, Idle
  <2>2. workqueue'.dirty = workqueue.dirty /\ ~workqueue'.down
    BY <1>0, <1>9 DEF Return, Done, Queue
  <2>3. \A k \in Key : k # NoKey BY ReconcilerAssumption
  <2>4. ASSUME NEW k \in Key PROVE Kept(k)'
    <3>1. CASE Waiting(k) \/ k # j BY <1>0, <2>1, <2>2, <2>3, <3>1 DEF Kept, Waiting
    <3>2. CASE ~Waiting(k) /\ k = j /\ cache[k] # NoObject
      <4>1. worker.copy # NoObject /\ worker.copy.spec = cache[k].spec
        BY <1>0, <2>1, <3>2 DEF Kept, HasRead
      <4>2. worker.verdict = "failed" \/ synced[k] = cache[k].spec
        BY <2>1, <3>2, <4>1 DEF RunInv
      <4>3. CASE Requeues(worker.verdict) BY <2>1, <3>2, <4>3 DEF Kept, Waiting
      <4>4. CASE ~Requeues(worker.verdict)
        <5>1. resyncPeriod = 0 /\ worker.verdict # "failed"
          BY <4>4 DEF Requeues, TypeOK, OtherTypeOK
        <5> QED BY <2>1, <2>3, <4>2, <5>1 DEF Kept
      <4> QED BY <4>3, <4>4
    <3>3. CASE cache[k] = NoObject BY <2>1, <3>3 DEF Kept
    <3> QED BY <3>1, <3>2, <3>3
  <2> QED BY <2>2, <2>4 DEF KeptInv
<1> QED BY <1>1, <1>2, <1>3, <1>4, <1>5, <1>6, <1>7, <1>8, <1>9 DEF Next, WorkerStep

\* Every resource the manager has a spec for is queued, has a timer, or is with the
\* worker; without a resync period it rests only after a run of it that went well.
THEOREM NeverForgotten == Spec => []NothingForgotten
<1>1. Init => KeptInv
  <2>1. Init => workqueue = EmptyQueue /\ \A k \in Key : cache[k] = NoObject
    BY ClusterKnown DEF Init
  <2>2. ~EmptyQueue.down BY DEF EmptyQueue
  <2> QED BY <2>1, <2>2 DEF KeptInv, Kept
<1>2. KeptInv => NothingForgotten BY DEF KeptInv, Kept, NothingForgotten
<1> QED BY <1>1, <1>2, TypeCorrect, RunCorrect, KeptNext, PTL DEF Spec

(***************************************************************************)
(* The loop does not feed itself.                                          *)
(***************************************************************************)

LEMMA QueueNext == ASSUME TypeOK, QueueInv, [Next]_vars PROVE QueueInv'
<1>0. workqueue \in Queue /\ WellOrdered(workqueue) BY WorkerFacts DEF QueueInv
<1>1. ASSUME UNCHANGED worker, NEW k \in Key, workqueue' = Add(workqueue, k) PROVE QueueInv'
  BY <1>0, <1>1, AddWellOrdered DEF QueueInv
<1>2. ASSUME UNCHANGED workqueue, worker'.key = worker.key, worker.pc # "idle" PROVE QueueInv'
  BY <1>2 DEF QueueInv
<1>3. CASE UNCHANGED <<worker, workqueue>> BY <1>3 DEF QueueInv
<1>4. CASE processNextWorkItem
  <2>1. /\ WellOrdered(workqueue')
        /\ workqueue'.processing = workqueue.processing \union {Head(workqueue.order)}
    BY <1>0, <1>4, GetWellOrdered DEF processNextWorkItem
  <2>2. worker'.key = Head(workqueue.order) BY <1>4 DEF processNextWorkItem, Idle
  <2> QED BY <2>1, <2>2 DEF QueueInv
<1>5. ASSUME ReadSpec \/ BeginSeed \/ EndSeed \/ updateStatus PROVE QueueInv'
  <2>1. worker.pc # "idle" /\ UNCHANGED workqueue
    BY <1>5 DEF ReadSpec, BeginSeed, EndSeed, updateStatus, queue
  <2>2. worker'.key = worker.key
    <3>1. CASE ReadSpec BY <3>1, WorkerFacts DEF ReadSpec, RecordOK, WorkerRecord
    <3>2. CASE BeginSeed BY <3>2, WorkerFacts DEF BeginSeed, Goto, RecordOK, WorkerRecord
    <3>3. CASE EndSeed BY <3>3, WorkerFacts DEF EndSeed, RecordOK, WorkerRecord
    <3>4. CASE updateStatus BY <3>4, WorkerFacts DEF updateStatus, Goto, RecordOK, WorkerRecord
    <3> QED BY <1>5, <3>1, <3>2, <3>3, <3>4
  <2> QED BY <1>2, <2>1, <2>2
<1>6. CASE Return
  <2>1. worker.key \in workqueue.processing /\ workqueue' = Done(workqueue, worker.key)
    BY <1>6 DEF Return, QueueInv
  <2>2. worker'.pc = "idle" BY <1>6 DEF Return, Idle
  <2> QED BY <1>0, <2>1, <2>2, DoneWellOrdered DEF QueueInv
<1>7. CASE Crash
  <2>1. worker' = Idle /\ workqueue' = EmptyQueue BY <1>7 DEF Crash
  <2>2. Idle.pc = "idle" BY DEF Idle
  <2> QED BY <2>1, <2>2, EmptyWellOrdered DEF QueueInv
<1>8. ASSUME NEW k \in Key, Change(k) \/ Drift(k) \/ Deliver(k) \/ Resync(k) \/ Elapse(k)
      PROVE  UNCHANGED worker /\ (UNCHANGED workqueue \/ workqueue' = Add(workqueue, k))
  BY <1>8 DEF Change, Drift, Deliver, Resync, Elapse, queue
<1>9. ASSUME Relist \/ UNCHANGED vars PROVE UNCHANGED <<worker, workqueue>>
  BY <1>9 DEF Relist, vars, queue
<1> QED BY <1>1, <1>3, <1>4, <1>5, <1>6, <1>7, <1>8, <1>9 DEF Next, WorkerStep

LEMMA QueueCorrect == Spec => []QueueInv
<1>1. Init => QueueInv
  <2>1. Init => worker = Idle /\ workqueue = EmptyQueue BY DEF Init
  <2>2. Idle.pc = "idle" BY DEF Idle
  <2> QED BY <2>1, <2>2, EmptyWellOrdered DEF QueueInv
<1> QED BY <1>1, TypeCorrect, QueueNext, PTL DEF Spec

LEMMA OwesTypes == \A k, S : \A n \in Nat : Owes(k, S, n) \in {0, n}
BY DEF Owes

\* What there is to do, now and after a step.
WorkIsTyped ==
    /\ \A k \in Key :
         /\ Len(watch[k]) \in Nat /\ KeyWork[k] \in Nat
         /\ KeyWork[k] = 8 * Len(watch[k]) + Owes(k, delayed, 8)
                         + Owes(k, workqueue.dirty, 7) + Owes(k, Unwell, 8)
    /\ KeyWork \in [Key -> Nat] /\ RunWork \in Nat /\ faults \in Nat

LEMMA WorkTypes == TypeOK => WorkIsTyped
<1> SUFFICES ASSUME TypeOK PROVE WorkIsTyped OBVIOUS
<1>1. \A k \in Key : Len(watch[k]) \in Nat BY DEF TypeOK, KubernetesTypeOK
<1>2. ASSUME NEW k \in Key
      PROVE  8 * Len(watch[k]) + Owes(k, delayed, 8) + Owes(k, workqueue.dirty, 7)
               + Owes(k, Unwell, 8) \in Nat
  <2>1. /\ Owes(k, delayed, 8) \in {0, 8} /\ Owes(k, workqueue.dirty, 7) \in {0, 7}
        /\ Owes(k, Unwell, 8) \in {0, 8}
    BY OwesTypes
  <2> QED BY <1>1, <2>1
<1>3. /\ \A k \in Key : /\ KeyWork[k] \in Nat
                        /\ KeyWork[k] = 8 * Len(watch[k]) + Owes(k, delayed, 8)
                                        + Owes(k, workqueue.dirty, 7) + Owes(k, Unwell, 8)
      /\ KeyWork \in [Key -> Nat]
  BY <1>2 DEF KeyWork
<1>4. worker.pc \in WorkerPC BY WorkerFacts DEF RecordOK, WorkerRecord
<1>5. RunWork \in Nat BY <1>4 DEF RunWork, WorkerPC
<1> QED BY <1>1, <1>3, <1>5 DEF WorkIsTyped, TypeOK, OtherTypeOK

LEMMA WorkTypesNext == TypeOK' => WorkIsTyped'
BY WorkTypes, PTL

\* A step that deals with one resource and leaves less of it.
LEMMA LessWork ==
    ASSUME TypeOK, TypeOK', NEW c \in Key,
           \A k \in Key \ {c} : KeyWork'[k] = KeyWork[k],
           KeyWork'[c] + RunWork' + 24 * faults' < KeyWork[c] + RunWork + 24 * faults
    PROVE  WorkLeft' < WorkLeft
<1>1. KeyWork \in [Key -> Nat] /\ RunWork \in Nat /\ faults \in Nat
  BY WorkTypes DEF WorkIsTyped
<1>2. KeyWork' \in [Key -> Nat] /\ RunWork' \in Nat /\ faults' \in Nat
  BY WorkTypesNext DEF WorkIsTyped
<1>3. Total(KeyWork', Key) + KeyWork[c] = Total(KeyWork, Key) + KeyWork'[c]
  BY <1>1, <1>2, FiniteAssumption, TotalChanged
<1>4. Total(KeyWork, Key) \in Nat /\ Total(KeyWork', Key) \in Nat
  BY <1>1, <1>2, FiniteAssumption, TotalType
<1>5. WorkLeft = Total(KeyWork, Key) + RunWork + 24 * faults BY DEF WorkLeft, Total
<1>6. WorkLeft' = Total(KeyWork', Key) + RunWork' + 24 * faults'
  BY DEF WorkLeft, Total, MapThenSumSet, MapThenFoldSet
<1>7. KeyWork[c] \in Nat /\ KeyWork'[c] \in Nat BY <1>1, <1>2
<1> HIDE DEF WorkLeft, RunWork, KeyWork
<1> QED BY <1>1, <1>2, <1>3, <1>4, <1>5, <1>6, <1>7

\* What is the same for a resource costs the same.
LEMMA SameWork ==
    ASSUME TypeOK, TypeOK', NEW k \in Key, watch'[k] = watch[k], server'[k] = server[k],
           k \in delayed' <=> k \in delayed,
           k \in workqueue'.dirty <=> k \in workqueue.dirty
    PROVE  KeyWork'[k] = KeyWork[k]
<1>1. Owes(k, delayed', 8) = Owes(k, delayed, 8) BY DEF Owes
<1>2. Owes(k, workqueue'.dirty, 7) = Owes(k, workqueue.dirty, 7) BY DEF Owes
<1>3. Owes(k, Unwell', 8) = Owes(k, Unwell, 8) BY DEF Owes, Unwell
<1> QED BY <1>1, <1>2, <1>3, WorkTypes, WorkTypesNext DEF WorkIsTyped

\* Getting a key into the queue costs at most a run of it.
LEMMA AddWork ==
    ASSUME TypeOK, TypeOK', NEW c \in Key, UNCHANGED server,
           workqueue' = Add(workqueue, c) \/ UNCHANGED workqueue,
           \A k \in Key \ {c} : watch'[k] = watch[k] /\ (k \in delayed' <=> k \in delayed)
    PROVE  /\ \A k \in Key \ {c} : KeyWork'[k] = KeyWork[k]
           /\ Owes(c, Unwell', 8) = Owes(c, Unwell, 8)
           /\ Owes(c, workqueue'.dirty, 7) <= Owes(c, workqueue.dirty, 7) + 7
<1>1. \A k \in Key \ {c} : k \in workqueue'.dirty <=> k \in workqueue.dirty
  BY WorkerFacts DEF Add, Queue
<1>2. Owes(c, workqueue'.dirty, 7) \in {0, 7} /\ Owes(c, workqueue.dirty, 7) \in {0, 7}
  BY OwesTypes
<1> QED BY <1>1, <1>2, SameWork DEF Owes, Unwell

\* The work of one resource, before and after, summand by summand.
Summands(c) ==
    /\ KeyWork[c] = 8 * Len(watch[c]) + Owes(c, delayed, 8)
                    + Owes(c, workqueue.dirty, 7) + Owes(c, Unwell, 8)
    /\ KeyWork'[c] = 8 * Len(watch'[c]) + Owes(c, delayed', 8)
                     + Owes(c, workqueue'.dirty, 7) + Owes(c, Unwell', 8)
    /\ Len(watch[c]) \in Nat /\ Len(watch'[c]) \in Nat
    /\ Owes(c, delayed, 8) \in {0, 8} /\ Owes(c, delayed', 8) \in {0, 8}
    /\ Owes(c, workqueue.dirty, 7) \in {0, 7} /\ Owes(c, workqueue'.dirty, 7) \in {0, 7}
    /\ Owes(c, Unwell, 8) \in {0, 8} /\ Owes(c, Unwell', 8) \in {0, 8}
Sizes(c) ==
    /\ KeyWork[c] \in Nat /\ KeyWork'[c] \in Nat
    /\ RunWork \in Nat /\ RunWork' \in Nat /\ faults \in Nat /\ faults' \in Nat

LEMMA WorkOfOne == ASSUME TypeOK, TypeOK', NEW c \in Key PROVE Summands(c) /\ Sizes(c)
BY WorkTypes, WorkTypesNext, OwesTypes DEF WorkIsTyped, Summands, Sizes

LEMMA SameRun == ASSUME UNCHANGED worker PROVE RunWork' = RunWork
BY DEF RunWork

LEMMA DeliverRunsDown ==
    ASSUME TypeOK, TypeOK', NEW c \in Key, Deliver(c) PROVE WorkLeft' < WorkLeft
<1>1. /\ UNCHANGED <<server, delayed, worker, faults>>
      /\ watch[c] # <<>> /\ watch' = [watch EXCEPT ![c] = Tail(@)]
      /\ workqueue' = Add(workqueue, c) \/ UNCHANGED workqueue
  BY DEF Deliver, See, k8s, bounds
<1>2. watch \in [Key -> Seq(ObjectOrNone)] BY DEF TypeOK, KubernetesTypeOK
<1>3. /\ watch'[c] = Tail(watch[c]) /\ \A k \in Key \ {c} : watch'[k] = watch[k]
      /\ Len(watch'[c]) = Len(watch[c]) - 1 /\ Len(watch[c]) \in Nat
  BY <1>1, <1>2
<1>4. /\ \A k \in Key \ {c} : KeyWork'[k] = KeyWork[k]
      /\ Owes(c, Unwell', 8) = Owes(c, Unwell, 8)
      /\ Owes(c, workqueue'.dirty, 7) <= Owes(c, workqueue.dirty, 7) + 7
  BY <1>1, <1>3, AddWork
<1>5. Owes(c, delayed', 8) = Owes(c, delayed, 8) BY <1>1
<1>6. RunWork' = RunWork BY <1>1, SameRun
<1>7. Summands(c) /\ Sizes(c) BY WorkOfOne
<1>8. KeyWork'[c] < KeyWork[c] BY <1>3, <1>4, <1>5, <1>7 DEF Summands
<1>9. KeyWork'[c] + RunWork' + 24 * faults' < KeyWork[c] + RunWork + 24 * faults
  BY <1>1, <1>6, <1>7, <1>8 DEF Sizes
<1> QED BY <1>4, <1>9, LessWork

LEMMA ElapseRunsDown ==
    ASSUME TypeOK, TypeOK', NEW c \in Key, Elapse(c) PROVE WorkLeft' < WorkLeft
<1>1. /\ UNCHANGED <<server, watch, worker, faults>>
      /\ c \in delayed /\ delayed' = delayed \ {c}
      /\ workqueue' = Add(workqueue, c)
  BY DEF Elapse, k8s, bounds
<1>2. /\ \A k \in Key \ {c} : KeyWork'[k] = KeyWork[k]
      /\ Owes(c, Unwell', 8) = Owes(c, Unwell, 8)
      /\ Owes(c, workqueue'.dirty, 7) <= Owes(c, workqueue.dirty, 7) + 7
  BY <1>1, AddWork
<1>3. Owes(c, delayed, 8) = 8 /\ Owes(c, delayed', 8) = 0 BY <1>1 DEF Owes
<1>4. RunWork' = RunWork BY <1>1, SameRun
<1>5. Summands(c) /\ Sizes(c) BY WorkOfOne
<1>6. KeyWork'[c] < KeyWork[c] BY <1>1, <1>2, <1>3, <1>5 DEF Summands
<1>7. KeyWork'[c] + RunWork' + 24 * faults' < KeyWork[c] + RunWork + 24 * faults
  BY <1>1, <1>4, <1>5, <1>6 DEF Sizes
<1> QED BY <1>2, <1>7, LessWork

LEMMA NextItemRunsDown ==
    ASSUME TypeOK, TypeOK', QueueInv, processNextWorkItem PROVE WorkLeft' < WorkLeft
<1> DEFINE c == Head(workqueue.order)
<1>1. workqueue \in Queue /\ workqueue.order # <<>> /\ worker.pc = "idle"
  BY WorkerFacts DEF processNextWorkItem
<1>2. c \in Key BY <1>1, GetTypes
<1>3. c \in workqueue.dirty
  <2>1. workqueue.order \in Seq(Key) BY <1>1 DEF Queue
  <2>2. 1 \in DOMAIN workqueue.order /\ c = workqueue.order[1] BY <1>1, <2>1
  <2> QED BY <2>2 DEF QueueInv, WellOrdered
<1>4. workqueue'.dirty = workqueue.dirty \ {c} /\ UNCHANGED <<server, watch, delayed, faults>>
  BY <1>1 DEF processNextWorkItem, Get, Queue, k8s, bounds
<1>5. worker'.pc = "get" BY DEF processNextWorkItem, Idle
<1>6. RunWork = 0 /\ RunWork' = 6 BY <1>1, <1>5 DEF RunWork
<1> HIDE DEF c
<1>7. \A k \in Key \ {c} : KeyWork'[k] = KeyWork[k] BY <1>4, SameWork
<1>8. Owes(c, workqueue.dirty, 7) = 7 /\ Owes(c, workqueue'.dirty, 7) = 0
  BY <1>3, <1>4 DEF Owes
<1>9. Owes(c, Unwell', 8) = Owes(c, Unwell, 8) /\ Owes(c, delayed', 8) = Owes(c, delayed, 8)
  BY <1>4 DEF Owes, Unwell
<1>10. Summands(c) /\ Sizes(c) BY <1>2, WorkOfOne
<1>11. KeyWork'[c] = KeyWork[c] - 7
  <2>1. watch'[c] = watch[c] BY <1>4
  <2> QED BY <1>8, <1>9, <1>10, <2>1 DEF Summands
<1>12. KeyWork'[c] + RunWork' + 24 * faults' < KeyWork[c] + RunWork + 24 * faults
  BY <1>4, <1>6, <1>10, <1>11 DEF Sizes
<1> QED BY <1>2, <1>7, <1>12, LessWork

\* A step of a run that sends nothing to the API server and takes no key.
LEMMA RunStepWork ==
    ASSUME TypeOK, TypeOK', worker.pc # "idle", UNCHANGED <<server, watch, queue>>,
           \/ RunWork' < RunWork /\ faults' = faults
           \/ RunWork' < RunWork + 24 /\ faults' = faults - 1
    PROVE  WorkLeft' < WorkLeft
<1> DEFINE c == worker.key
<1>1. c \in Key BY WorkerFacts
<1>2. \A k \in Key : KeyWork'[k] = KeyWork[k] BY SameWork DEF queue
<1> HIDE DEF c
<1>3. Sizes(c) /\ KeyWork'[c] = KeyWork[c] BY <1>1, <1>2, WorkOfOne
<1>4. KeyWork'[c] + RunWork' + 24 * faults' < KeyWork[c] + RunWork + 24 * faults
  BY <1>3 DEF Sizes
<1> QED BY <1>1, <1>2, <1>4, LessWork

LEMMA RunStepRunsDown ==
    ASSUME TypeOK, TypeOK', ReadSpec \/ BeginSeed \/ EndSeed PROVE WorkLeft' < WorkLeft
<1>1. worker.pc # "idle" /\ UNCHANGED <<server, watch, queue>> /\ faults \in Nat
  BY WorkTypes DEF ReadSpec, BeginSeed, EndSeed, k8s, WorkIsTyped
<1>2. CASE ReadSpec
  <2>1. worker.pc = "get" /\ worker'.pc = "seed" /\ UNCHANGED faults
    BY <1>2, WorkerFacts DEF ReadSpec, RecordOK, WorkerRecord, bounds
  <2>2. RunWork = 6 /\ RunWork' = 5 BY <2>1 DEF RunWork
  <2> QED BY <1>1, <2>1, <2>2, RunStepWork
<1>3. CASE BeginSeed
  <2>1. /\ worker.pc = "seed" /\ UNCHANGED faults
        /\ worker'.pc = "seeding" \/ (worker'.pc = "status" /\ worker'.verdict = "ok")
    BY <1>3, WorkerFacts DEF BeginSeed, Goto, RecordOK, WorkerRecord, bounds
  <2>2. RunWork = 5 /\ RunWork' \in {2, 4} BY <2>1 DEF RunWork
  <2> QED BY <1>1, <2>1, <2>2, RunStepWork
<1>4. CASE EndSeed
  <2>1. /\ worker.pc = "seeding" /\ worker'.pc = "status"
        /\ \/ worker'.verdict = "ok" /\ faults' = faults
           \/ worker'.verdict = "failed" /\ faults' = faults - 1
    BY <1>4, WorkerFacts DEF EndSeed, Fault, RecordOK, WorkerRecord, bounds
  <2>2. /\ RunWork = 4
        /\ \/ RunWork' = 2 /\ faults' = faults
           \/ RunWork' = 26 /\ faults' = faults - 1
    BY <2>1 DEF RunWork
  <2> QED BY <1>1, <2>2, RunStepWork
<1> QED BY <1>2, <1>3, <1>4

\* A status that is written is another one, or that of a failure.
LEMMA updateStatusRunsDown ==
    ASSUME TypeOK, TypeOK', RunInv, updateStatus PROVE WorkLeft' < WorkLeft
<1> DEFINE c == worker.key
           n == [server[c] EXCEPT !.status = worker.verdict, !.resourceVersion = revision + 1]
<1>1. /\ c \in Key /\ worker.pc = "status" /\ UNCHANGED <<queue, faults>>
      /\ worker'.pc = "done" /\ worker'.verdict = worker.verdict
  BY WorkerFacts DEF updateStatus, Goto, RecordOK, WorkerRecord, bounds
<1>2. RunWork = IF worker.verdict = "failed" THEN 26 ELSE 2
  BY <1>1 DEF RunWork
<1>3. RunWork' = IF worker.verdict = "failed" THEN 9 ELSE 1
  BY <1>1 DEF RunWork
<1>6. Summands(c) /\ Sizes(c) BY <1>1, WorkOfOne
<1>4. CASE UNCHANGED <<k8s, watch>>
  <2>1. RunWork' < RunWork BY <1>2, <1>3
  <2> QED BY <1>1, <1>4, <2>1, RunStepWork DEF k8s
<1>5. CASE /\ worker.copy # NoObject /\ Fresh(c, worker.copy)
           /\ "new" \in Messages(server[c].status, worker.verdict) /\ Store(c, n)
  <2>1. worker.verdict \in {"ok", "failed"} BY <1>1, <1>5 DEF RunInv
  <2>2. server[c] # NoObject BY <1>5 DEF Fresh
  <2>3. n \in RestStrategy /\ n.status = worker.verdict
    BY <1>1, <1>5, <2>1, StatusOf DEF TypeOK, Message
  <2>4. n # NoObject BY <2>3, NoObjectAssumption
  <2> HIDE DEF n
  <2>5. /\ \A k \in Key \ {c} : watch'[k] = watch[k] /\ server'[k] = server[k]
        /\ server'[c] = n /\ Len(watch'[c]) = Len(watch[c]) + 1
    <3>1. watch' = [watch EXCEPT ![c] = Append(@, n)] /\ server' = [server EXCEPT ![c] = n]
      BY <1>5 DEF Store
    <3>2. watch \in [Key -> Seq(ObjectOrNone)] /\ server \in [Key -> ObjectOrNone]
      BY DEF TypeOK, KubernetesTypeOK
    <3> HIDE DEF c
    <3>3. watch'[c] = Append(watch[c], n) /\ watch[c] \in Seq(ObjectOrNone) BY <1>1, <3>1, <3>2
    <3>4. n \in ObjectOrNone BY <2>3 DEF ObjectOrNone
    <3> QED BY <1>1, <3>1, <3>2, <3>3, <3>4
  <2>6. \A k \in Key \ {c} : KeyWork'[k] = KeyWork[k] BY <1>1, <2>5, SameWork DEF queue
  <2>7. Owes(c, delayed', 8) = Owes(c, delayed, 8)
        /\ Owes(c, workqueue'.dirty, 7) = Owes(c, workqueue.dirty, 7)
    BY <1>1 DEF queue
  <2>8. CASE worker.verdict = "ok"
    <3>1. server[c].status # "ok" BY <1>5, <2>8 DEF Messages
    <3>2. Owes(c, Unwell, 8) = 8 BY <1>1, <2>2, <3>1 DEF Owes, Unwell
    <3>3. Owes(c, Unwell', 8) = 0 BY <1>1, <2>3, <2>5, <2>8 DEF Owes, Unwell
    <3>4. KeyWork'[c] = KeyWork[c] BY <1>6, <2>5, <2>7, <3>2, <3>3 DEF Summands
    <3>5. KeyWork'[c] + RunWork' + 24 * faults' < KeyWork[c] + RunWork + 24 * faults
      BY <1>1, <1>2, <1>3, <1>6, <2>8, <3>4 DEF Sizes
    <3> QED BY <1>1, <2>6, <3>5, LessWork
  <2>9. CASE worker.verdict = "failed"
    <3>1. KeyWork'[c] <= KeyWork[c] + 16 BY <1>6, <2>5, <2>7 DEF Summands
    <3>2. RunWork = 26 /\ RunWork' = 9 BY <1>2, <1>3, <2>9
    <3>3. KeyWork'[c] + RunWork' + 24 * faults' < KeyWork[c] + RunWork + 24 * faults
      BY <1>1, <1>6, <3>1, <3>2 DEF Sizes
    <3> QED BY <1>1, <2>6, <3>3, LessWork
  <2> QED BY <2>1, <2>8, <2>9
<1> QED BY <1>4, <1>5 DEF updateStatus

LEMMA ReturnRunsDown ==
    ASSUME TypeOK, TypeOK', resyncPeriod = 0, Return PROVE WorkLeft' < WorkLeft
<1> DEFINE c == worker.key
<1>1. /\ c \in Key /\ worker.pc = "done" /\ UNCHANGED <<server, watch, faults>>
      /\ workqueue'.dirty = workqueue.dirty
      /\ delayed' = IF worker.verdict = "failed" THEN delayed \union {c} ELSE delayed
  BY WorkerFacts DEF Return, Requeues, Done, Queue, k8s, bounds
<1>2. worker'.pc = "idle" BY DEF Return, Idle
<1>3. RunWork = IF worker.verdict = "failed" THEN 9 ELSE 1 BY <1>1 DEF RunWork
<1>4. RunWork' = 0 BY <1>2 DEF RunWork
<1> HIDE DEF c
<1>5. \A k \in Key \ {c} : KeyWork'[k] = KeyWork[k] BY <1>1, SameWork
<1>6. Owes(c, Unwell', 8) = Owes(c, Unwell, 8) BY <1>1 DEF Unwell
<1>7. Summands(c) /\ Sizes(c) BY <1>1, WorkOfOne
<1>8. KeyWork'[c] + RunWork' < KeyWork[c] + RunWork
  <2>1. CASE worker.verdict = "failed"
    <3>1. KeyWork'[c] <= KeyWork[c] + 8 BY <1>1, <1>6, <1>7 DEF Summands
    <3> QED BY <1>3, <1>4, <1>7, <2>1, <3>1 DEF Sizes
  <2>2. CASE worker.verdict # "failed"
    <3>1. KeyWork'[c] = KeyWork[c] BY <1>1, <2>2, SameWork
    <3> QED BY <1>3, <1>4, <1>7, <2>2, <3>1 DEF Sizes
  <2> QED BY <2>1, <2>2
<1>9. KeyWork'[c] + RunWork' + 24 * faults' < KeyWork[c] + RunWork + 24 * faults
  BY <1>1, <1>7, <1>8 DEF Sizes
<1> QED BY <1>1, <1>5, <1>9, LessWork

\* Without a resync period no step of the loop leaves as much to do as there was:
\* events, timers, runs and status writes come to an end by themselves.
THEOREM TheLoopRunsDown == Spec => LoopRunsDown
<1>1. ASSUME TypeOK, RunInv, QueueInv, [Next]_vars, resyncPeriod = 0,
             WorkerStep \/ \E k \in Key : Deliver(k) \/ Elapse(k)
      PROVE  WorkLeft' < WorkLeft
  <2>1. TypeOK' BY <1>1, TypeNext
  <2>2. CASE WorkerStep
    BY <1>1, <2>1, <2>2, NextItemRunsDown, RunStepRunsDown, updateStatusRunsDown, ReturnRunsDown
       DEF WorkerStep
  <2>3. ASSUME NEW k \in Key, Deliver(k) \/ Elapse(k) PROVE WorkLeft' < WorkLeft
    BY <1>1, <2>1, <2>3, DeliverRunsDown, ElapseRunsDown
  <2> QED BY <1>1, <2>2, <2>3
<1> QED BY <1>1, TypeCorrect, RunCorrect, QueueCorrect, PTL DEF Spec, LoopRunsDown

(***************************************************************************)
(* What the worker knows of a resource, and in which order it seeds.       *)
(***************************************************************************)

LEMMA StepKnown == ASSUME TypeOK, [Next]_vars, NEW k \in Key PROVE Known(k)
<1> USE DEF TypeOK
<1>1. ASSUME NEW j \in Key, Change(j) PROVE Known(k) BY <1>1, EditKnown DEF Change
<1>2. ASSUME NEW j \in Key, Deliver(j) PROVE Known(k) BY <1>2, SeeKnown DEF Deliver
<1>3. CASE Relist \/ Crash BY <1>3, ListKnown DEF Relist, Crash
<1>4. CASE updateStatus
  <2> DEFINE j == worker.key
             n == [server[j] EXCEPT !.status = worker.verdict, !.resourceVersion = revision + 1]
  <2>1. UNCHANGED cache BY <1>4 DEF updateStatus
  <2>2. CASE UNCHANGED <<k8s, watch>> BY <2>1, <2>2, SameKnown DEF k8s
  <2>3. CASE Fresh(j, worker.copy) /\ Store(j, n)
    <3>1. j \in Key /\ worker.verdict \in Message
      BY <1>4, WorkerFacts DEF updateStatus, RecordOK, WorkerRecord
    <3>2. /\ n \in ObjectOrNone /\ n.resourceVersion = revision + 1
          /\ n.spec = server[j].spec /\ server[j] # NoObject
      BY <2>3, <3>1, StatusOf DEF ObjectOrNone, Fresh
    <3> HIDE DEF n, j
    <3> QED BY <2>1, <2>3, <3>1, <3>2, StoreKnown
  <2> QED BY <1>4, <2>2, <2>3 DEF updateStatus
<1>5. ASSUME UNCHANGED <<k8s, watch, cache>> PROVE Known(k) BY <1>5, SameKnown DEF k8s
<1>6. ASSUME NEW j \in Key, Drift(j) \/ Resync(j) \/ Elapse(j) PROVE UNCHANGED <<k8s, watch, cache>>
  BY <1>6 DEF Drift, Resync, Elapse
<1>7. ASSUME processNextWorkItem \/ ReadSpec \/ BeginSeed \/ EndSeed \/ Return \/ UNCHANGED vars
      PROVE  UNCHANGED <<k8s, watch, cache>>
  BY <1>7 DEF processNextWorkItem, ReadSpec, BeginSeed, EndSeed, Return, vars
<1> QED BY <1>1, <1>2, <1>3, <1>4, <1>5, <1>6, <1>7 DEF Next, WorkerStep

\* A worker keeps its copy, drops it, or takes the informer's.
LEMMA CopyNext ==
    ASSUME TypeOK, [Next]_vars
    PROVE  \/ worker'.key = worker.key /\ worker'.copy = worker.copy
           \/ worker'.copy = NoObject
           \/ ReadSpec /\ worker'.key = worker.key /\ worker'.copy = cache[worker.key]
<1>1. CASE processNextWorkItem \/ Return \/ Crash
  <2>1. Idle.copy = NoObject /\ [Idle EXCEPT !.pc = "get", !.key = Head(workqueue.order)].copy = NoObject
    BY DEF Idle
  <2> QED BY <1>1, <2>1 DEF processNextWorkItem, Return, Crash
<1>2. CASE ReadSpec BY <1>2, WorkerFacts DEF ReadSpec, RecordOK, WorkerRecord
<1>3. CASE BeginSeed BY <1>3, WorkerFacts DEF BeginSeed, Goto, RecordOK, WorkerRecord
<1>4. CASE EndSeed BY <1>4, WorkerFacts DEF EndSeed, RecordOK, WorkerRecord
<1>5. CASE updateStatus BY <1>5, WorkerFacts DEF updateStatus, Goto, RecordOK, WorkerRecord
<1>6. ASSUME NEW j \in Key, Change(j) \/ Drift(j) \/ Deliver(j) \/ Resync(j) \/ Elapse(j)
      PROVE  UNCHANGED worker
  BY <1>6 DEF Change, Drift, Deliver, Resync, Elapse
<1>7. ASSUME Relist \/ UNCHANGED vars PROVE UNCHANGED worker BY <1>7 DEF Relist, vars
<1> QED BY <1>1, <1>2, <1>3, <1>4, <1>5, <1>6, <1>7 DEF Next, WorkerStep

LEMMA CopiesNext ==
    ASSUME TypeOK, [Next]_vars, NEW k \in Key
    PROVE  Copies(k)' \subseteq (Copies(k) \union {cache[k]}) \ {NoObject}
BY CopyNext DEF Copies

LEMMA CopiesTypes ==
    ASSUME TypeOK, NEW k \in Key
    PROVE  /\ Copies(k) \in SUBSET RestStrategy /\ NoObject \notin Copies(k)
           /\ services[k].spec \in Nat /\ services[k].state \in {"partial", "whole"}
BY WorkerFacts DEF Copies, TypeOK, OtherTypeOK

\* The spec of the services changes only when a run begins.
LEMMA ServicesNext ==
    ASSUME TypeOK, [Next]_vars, NEW k \in Key
    PROVE  \/ services'[k].spec = services[k].spec
           \/ /\ BeginSeed /\ worker.key = k /\ worker.copy # NoObject
              /\ services'[k].spec = worker.copy.spec
<1>1. CASE BeginSeed BY <1>1 DEF BeginSeed, TypeOK, OtherTypeOK
<1>2. CASE EndSeed BY <1>2 DEF EndSeed, TypeOK, OtherTypeOK
<1>3. ASSUME NEW j \in Key, Drift(j) PROVE services'[k].spec = services[k].spec
  BY <1>3 DEF Drift, TypeOK, OtherTypeOK
<1>4. ASSUME NEW j \in Key, Change(j) \/ Deliver(j) \/ Resync(j) \/ Elapse(j)
      PROVE  UNCHANGED services
  BY <1>4 DEF Change, Deliver, Resync, Elapse
<1>5. ASSUME processNextWorkItem \/ ReadSpec \/ updateStatus \/ Return \/ Relist \/ Crash
             \/ UNCHANGED vars
      PROVE  UNCHANGED services
  BY <1>5 DEF processNextWorkItem, ReadSpec, updateStatus, Return, Relist, Crash, vars
<1> QED BY <1>1, <1>2, <1>3, <1>4, <1>5 DEF Next, WorkerStep

\* At the start nobody has anything.
LEMMA NothingKnown ==
    ASSUME Init, NEW k \in Key PROVE Copies(k) = {} /\ services[k].spec = 0
<1>1. worker = Idle /\ services = [j \in Key |-> [spec |-> 0, state |-> "partial"]] BY DEF Init
<1>2. Idle.copy = NoObject BY DEF Idle
<1> QED BY <1>1, <1>2 DEF Copies

LEMMA VersionsCorrect == Spec => []VersionsInv
<1>1. Init => VersionsInv BY NothingKnown, VersionsInit DEF VersionsInv, Init
<1>2. TypeOK /\ VersionsInv /\ [Next]_vars => VersionsInv'
  <2> SUFFICES ASSUME TypeOK, VersionsInv, [Next]_vars, NEW k \in Key
               PROVE  VersionsOf(k, Copies(k))'
    BY DEF VersionsInv
  <2>1. Copies(k)' \subseteq Copies(k) \union Ahead(k) BY CopiesNext, AheadTypes DEF TypeOK
  <2>2. VersionsOf(k, Copies(k)) /\ revision' \in Nat /\ Known(k) /\ KubernetesTypeOK
    BY StepKnown, TypeNext DEF VersionsInv, TypeOK, KubernetesTypeOK
  <2> QED BY <2>1, <2>2, CopiesTypes, VersionsStep DEF VersionsOf
<1> QED BY <1>1, <1>2, TypeCorrect, PTL DEF Spec

LEMMA OrderCorrect == Spec => []SpecOrderInv
<1>1. Init => SpecOrderInv BY NothingKnown, OrderInit DEF SpecOrderInv, Init
<1>2. TypeOK /\ SpecOrderInv /\ [Next]_vars => SpecOrderInv'
  <2> SUFFICES ASSUME TypeOK, SpecOrderInv, [Next]_vars, NEW k \in Key
               PROVE  SpecOrderOf(k, Copies(k), services[k].spec)' /\ WatchInOrder(k)'
    BY DEF SpecOrderInv
  <2>1. /\ SpecOrderOf(k, Copies(k), services[k].spec) /\ WatchInOrder(k)
        /\ revision' \in Nat /\ Known(k) /\ KubernetesTypeOK
    BY StepKnown, TypeNext DEF SpecOrderInv, TypeOK, KubernetesTypeOK
  <2>2. services'[k].spec = services[k].spec \/ \E c \in Copies(k) : services'[k].spec = c.spec
    BY ServicesNext DEF Copies
  <2> QED BY <2>1, <2>2, CopiesNext, CopiesTypes, OrderStep DEF SpecOrderOf
<1> QED BY <1>1, <1>2, TypeCorrect, PTL DEF Spec

LEMMA SeedNext == ASSUME TypeOK, SpecOrderInv, SeedInv, SeedingInv, [Next]_vars
                  PROVE  SeedInv' /\ SeedingInv'
<1>1. CASE ReadSpec
  <2>1. /\ worker.key \in Key /\ worker'.key = worker.key /\ worker'.copy = cache[worker.key]
        /\ worker'.pc = "seed" /\ UNCHANGED services
    BY <1>1, WorkerFacts DEF ReadSpec, RecordOK, WorkerRecord
  <2>2. cache[worker.key] # NoObject => services[worker.key].spec <= cache[worker.key].spec
    BY <2>1 DEF SpecOrderInv, SpecOrderOf, Ahead
  <2> QED BY <2>1, <2>2 DEF SeedInv, SeedingInv
<1>2. CASE BeginSeed
  <2> DEFINE k == worker.key
             s == worker.copy.spec
  <2>1. CASE /\ worker.copy # NoObject /\ Goto("seeding")
             /\ services' = [services EXCEPT ![k] = IF @.spec = s THEN @
                                ELSE [spec |-> s, state |-> "partial"]]
    <3>1. worker'.pc = "seeding" /\ worker'.key = k /\ worker'.copy = worker.copy
      BY <2>1, WorkerFacts DEF Goto, RecordOK, WorkerRecord
    <3>2. services'[k].spec = s
      BY <1>2, <2>1, WorkerFacts DEF BeginSeed, TypeOK, OtherTypeOK
    <3> QED BY <3>1, <3>2 DEF SeedInv, SeedingInv
  <2>2. CASE worker' = [worker EXCEPT !.pc = "status", !.verdict = "ok"]
    <3>1. worker'.pc = "status" BY <2>2, WorkerFacts DEF RecordOK, WorkerRecord
    <3> QED BY <3>1 DEF SeedInv, SeedingInv
  <2> QED BY <1>2, <2>1, <2>2 DEF BeginSeed
<1>3. ASSUME worker'.pc \notin {"seed", "seeding"} PROVE SeedInv' /\ SeedingInv'
  BY <1>3 DEF SeedInv, SeedingInv
<1>4. ASSUME processNextWorkItem \/ EndSeed \/ updateStatus \/ Return \/ Crash
      PROVE  worker'.pc \notin {"seed", "seeding"}
  <2>1. CASE processNextWorkItem BY <2>1 DEF processNextWorkItem, Idle
  <2>2. CASE EndSeed BY <2>2, WorkerFacts DEF EndSeed, RecordOK, WorkerRecord
  <2>3. CASE updateStatus BY <2>3, WorkerFacts DEF updateStatus, Goto, RecordOK, WorkerRecord
  <2>4. CASE Return \/ Crash
    <3>1. worker' = Idle BY <2>4 DEF Return, Crash
    <3>2. Idle.pc = "idle" BY DEF Idle
    <3> QED BY <3>1, <3>2
  <2> QED BY <1>4, <2>1, <2>2, <2>3, <2>4
<1>5. ASSUME UNCHANGED worker, ~BeginSeed PROVE SeedInv' /\ SeedingInv'
  <2>1. \A k \in Key : services'[k].spec = services[k].spec BY <1>5, ServicesNext
  <2>2. worker.pc # "idle" => worker.key \in Key BY WorkerFacts
  <2> QED BY <1>5, <2>1, <2>2 DEF SeedInv, SeedingInv
<1>6. ASSUME NEW j \in Key, Change(j) \/ Drift(j) \/ Deliver(j) \/ Resync(j) \/ Elapse(j)
      PROVE  UNCHANGED worker
  BY <1>6 DEF Change, Drift, Deliver, Resync, Elapse
<1>7. ASSUME Relist \/ UNCHANGED vars PROVE UNCHANGED worker BY <1>7 DEF Relist, vars
<1> QED BY <1>1, <1>2, <1>3, <1>4, <1>5, <1>6, <1>7 DEF Next, WorkerStep

LEMMA SeedCorrect == Spec => [](SeedInv /\ SeedingInv)
<1>1. Init => SeedInv /\ SeedingInv
  <2>1. Init => worker = Idle BY DEF Init
  <2>2. Idle.pc = "idle" BY DEF Idle
  <2> QED BY <2>1, <2>2 DEF SeedInv, SeedingInv
<1>2. TypeOK /\ SpecOrderInv /\ (SeedInv /\ SeedingInv) /\ [Next]_vars => (SeedInv /\ SeedingInv)'
  BY SeedNext
<1> QED BY <1>1, <1>2, TypeCorrect, OrderCorrect, PTL DEF Spec

(***************************************************************************)
(* Each step is one of the promise, or invisible.                          *)
(***************************************************************************)

Promise == TypeOK /\ VersionsInv /\ SpecOrderInv /\ SeedInv /\ SeedingInv

LEMMA EndedNone ==
    ASSUME worker.pc # "status" \/ worker.copy = NoObject PROVE Ended = [k \in Key |-> {}]
BY DEF Ended, Runs

LEMMA EndedNoneNext ==
    ASSUME worker'.pc # "status" \/ worker'.copy = NoObject PROVE Ended' = [k \in Key |-> {}]
BY DEF Ended, Runs

LEMMA EndedOne ==
    ASSUME worker.pc = "status", worker.copy # NoObject, worker.key \in Key
    PROVE  Ended = [k \in Key |-> IF k = worker.key THEN {<<worker.copy.spec, worker.verdict>>}
                                                   ELSE {}]
BY DEF Ended, Runs

LEMMA ChangeAsks ==
    ASSUME Promise, NEW k \in Key, Change(k)
    PROVE  Desired!Ask(k) \/ Desired!Withdraw(k) \/ UNCHANGED <<Asked, Reported, services, Ended>>
<1> USE DEF Promise
<1>1. /\ KubernetesTypeOK /\ Edit(k) /\ UNCHANGED <<worker, services>>
      /\ revision \in Nat /\ Asked \in [Key -> Nat] /\ services[k].spec \in Nat
  BY SeenTypes, CopiesTypes DEF Change, TypeOK, KubernetesTypeOK
<1>2. /\ services[k].spec <= revision
      /\ server[k] # NoObject => server[k].spec > 0 /\ server[k].spec <= revision
  BY <1>1, AheadTypes DEF SpecOrderInv, SpecOrderOf
<1>3. Ended' = Ended BY <1>1 DEF Ended, Runs
<1>4. CASE Asked' = Asked /\ Reported' = Reported BY <1>1, <1>3, <1>4
<1>5. CASE Asked' = [Asked EXCEPT ![k] = 0] /\ Reported' = [Reported EXCEPT ![k] = ""]
  BY <1>1, <1>3, <1>5 DEF Desired!Withdraw
<1>6. CASE /\ Asked' = [Asked EXCEPT ![k] = revision + 1]
           /\ Reported' = IF Asked[k] = 0 THEN [Reported EXCEPT ![k] = ""] ELSE Reported
  <2>1. Asked'[k] = revision + 1 BY <1>1, <1>6
  <2>2. Asked[k] <= revision BY <1>1, <1>2 DEF Asked
  <2>3. Asked'[k] \in Nat /\ Asked'[k] > Asked[k] /\ Asked'[k] > services[k].spec
    BY <1>1, <1>2, <2>1, <2>2
  <2> QED BY <1>1, <1>3, <1>6, <2>1, <2>3 DEF Desired!Ask
<1> QED BY <1>1, <1>2, <1>4, <1>5, <1>6, EditSeen

LEMMA BeginSeedApplies ==
    ASSUME Promise, BeginSeed, worker.copy # NoObject
    PROVE  Desired!Apply(worker.key)
<1> USE DEF Promise
<1> DEFINE k == worker.key
           s == worker.copy.spec
<1>1. /\ k \in Key /\ worker.pc = "seed" /\ worker.copy \in Copies(k)
      /\ worker'.pc = "seeding"
      /\ services' = [services EXCEPT ![k] = IF @.spec = s THEN @
                                          ELSE [spec |-> s, state |-> "partial"]]
  BY WorkerFacts DEF BeginSeed, Goto, Copies, RecordOK, WorkerRecord
<1>2. s \in Nat /\ s > 0 /\ services[k].spec <= s
  BY <1>1, WorkerFacts DEF SpecOrderInv, SpecOrderOf, SeedInv
<1>3. Asked[k] # 0 => s <= Asked[k]
  BY <1>1, AheadTypes DEF TypeOK, Asked, SpecOrderInv, SpecOrderOf
<1>4. services'[k].spec = s /\ services[k].spec \in Nat BY <1>1 DEF TypeOK, OtherTypeOK
<1>5. UNCHANGED <<Asked, Reported>> BY DEF BeginSeed, k8s, Asked, Reported
<1>6. Ended' = Ended BY <1>1, EndedNone, EndedNoneNext
<1> HIDE DEF k, s
<1>7. services'[k].spec \in Nat \ {0} /\ services'[k].spec >= services[k].spec
  BY <1>2, <1>4
<1> QED BY <1>1, <1>3, <1>4, <1>5, <1>6, <1>7 DEF Desired!Apply, k

LEMMA EndSeedFinishes == ASSUME Promise, EndSeed PROVE Desired!Finish(worker.key)
<1> USE DEF Promise
<1> DEFINE k == worker.key
<1>1. k \in Key /\ worker.pc = "seeding" /\ worker.copy # NoObject
  BY WorkerFacts DEF EndSeed, RecordOK
<1>2. PICK o \in {"ok", "failed"}, t \in {"partial", "whole"} :
        /\ o = "ok" => t = "whole"
        /\ services' = [services EXCEPT ![k].state = t]
        /\ worker' = [worker EXCEPT !.pc = "status", !.verdict = o]
  <2>1. services' = services => services' = [services EXCEPT ![k].state = services[k].state]
    BY <1>1 DEF TypeOK, OtherTypeOK
  <2>2. services[k].state \in {"partial", "whole"} BY <1>1 DEF TypeOK, OtherTypeOK
  <2> QED BY <2>1, <2>2 DEF EndSeed
<1>3. /\ worker'.pc = "status" /\ worker'.verdict = o
      /\ worker'.key = k /\ worker'.copy = worker.copy
  BY <1>2, WorkerFacts DEF RecordOK, WorkerRecord
<1>4. services[k].spec = worker.copy.spec BY <1>1 DEF SeedingInv
<1>5. Ended = [j \in Key |-> {}] BY <1>1, EndedNone
<1>6. Ended' = [j \in Key |-> IF j = k THEN {<<services[k].spec, o>>} ELSE {}]
  BY <1>1, <1>3, <1>4 DEF Ended, Runs
<1>7. Ended' = [Ended EXCEPT ![k] = @ \union {<<services[k].spec, o>>}]
  BY <1>1, <1>5, <1>6
<1>8. UNCHANGED <<Asked, Reported>> BY DEF EndSeed, k8s, Asked, Reported
<1> QED BY <1>2, <1>7, <1>8 DEF Desired!Finish, Desired!Outcome

LEMMA updateStatusReports ==
    ASSUME Promise, updateStatus, worker.copy # NoObject PROVE Desired!Report(worker.key)
<1> USE DEF Promise
<1> DEFINE k == worker.key
           e == <<worker.copy.spec, worker.verdict>>
           n == [server[k] EXCEPT !.status = worker.verdict, !.resourceVersion = revision + 1]
<1>1. /\ k \in Key /\ worker.pc = "status" /\ worker.copy \in Copies(k)
      /\ KubernetesTypeOK /\ worker.verdict \in Message
  BY WorkerFacts DEF updateStatus, Copies, RecordOK, WorkerRecord, TypeOK
<1>2. worker'.pc = "done" BY WorkerFacts DEF updateStatus, Goto, RecordOK, WorkerRecord
<1>3. Ended = [j \in Key |-> IF j = k THEN {e} ELSE {}] BY <1>1, EndedOne
<1>4. Ended' = [j \in Key |-> {}] BY <1>2, EndedNoneNext
<1>5. e \in Ended[k] /\ Ended' = [Ended EXCEPT ![k] = @ \ {e}] BY <1>1, <1>3, <1>4
<1>6. services' = services BY DEF updateStatus
<1>7. CASE UNCHANGED <<k8s, watch>>
  <2>1. UNCHANGED <<Asked, Reported>> BY <1>7 DEF k8s, Asked, Reported
  <2> QED BY <1>5, <1>6, <2>1 DEF Desired!Report
<1>8. CASE Fresh(k, worker.copy) /\ Store(k, n)
  <2>1. /\ n \in RestStrategy /\ n.spec = server[k].spec /\ n.status = worker.verdict
    BY <1>1, <1>8, StatusOf
  <2>2. n \in ObjectOrNone /\ n # NoObject BY <2>1, NoObjectAssumption DEF ObjectOrNone
  <2> HIDE DEF n
  <2>3. Asked' = [Asked EXCEPT ![k] = n.spec] /\ Reported' = [Reported EXCEPT ![k] = n.status]
    BY <1>1, <1>8, <2>2, StoreSeen
  <2>4. server[k] # NoObject /\ Asked[k] = server[k].spec BY <1>1, <1>8 DEF Fresh, Asked
  <2>5. worker.copy.spec = server[k].spec
    BY <1>1, <1>8, <2>4, AheadTypes DEF VersionsInv, VersionsOf, Fresh
  <2>6. Asked' = Asked BY <1>1, <2>1, <2>3, <2>4, SeenTypes
  <2>7. e[1] = Asked[k] /\ e[2] = n.status BY <2>1, <2>4, <2>5
  <2> HIDE DEF e, k
  <2> QED BY <1>5, <1>6, <2>3, <2>6, <2>7 DEF Desired!Report, k
<1> QED BY <1>7, <1>8 DEF updateStatus

LEMMA StepImplements ==
    ASSUME Promise, [Next]_vars
    PROVE  [Desired!Next]_(Desired!vars)
<1> DEFINE Unseen == UNCHANGED <<Asked, Reported, services, Ended>>
<1>1. Unseen => UNCHANGED Desired!vars BY DEF Desired!vars
<1>2. ASSUME UNCHANGED <<server, services>>, Ended' = Ended PROVE Unseen
  BY <1>2 DEF Asked, Reported
<1>3. ASSUME UNCHANGED worker PROVE Ended' = Ended BY <1>3 DEF Ended, Runs
<1>4. ASSUME NEW k \in Key, Change(k) PROVE Desired!Next \/ Unseen
  BY <1>4, ChangeAsks DEF Desired!Next
<1>5. ASSUME NEW k \in Key, Drift(k) PROVE Desired!Next
  <2>1. UNCHANGED <<Asked, Reported, Ended>> BY <1>3, <1>5 DEF Drift, k8s, Asked, Reported
  <2>2. Desired!Damage(k) BY <1>5, <2>1 DEF Drift, Desired!Damage
  <2> QED BY <2>2 DEF Desired!Next
<1>6. ASSUME NEW k \in Key, Deliver(k) \/ Resync(k) \/ Elapse(k) PROVE Unseen
  BY <1>2, <1>3, <1>6 DEF Deliver, Resync, Elapse, k8s
<1>7. ASSUME Relist \/ UNCHANGED vars PROVE Unseen
  <2>1. UNCHANGED <<server, services, worker>> BY <1>7 DEF Relist, vars, k8s
  <2> QED BY <1>2, <1>3, <2>1
<1>8. CASE Crash
  <2>1. worker' = Idle BY <1>8 DEF Crash
  <2>2. Idle.pc = "idle" BY DEF Idle
  <2>3. Ended' = [k \in Key |-> {}] BY <2>1, <2>2, EndedNoneNext
  <2>4. UNCHANGED <<Asked, Reported, services>> BY <1>8 DEF Crash, k8s, Asked, Reported
  <2> QED BY <2>3, <2>4 DEF Desired!Die, Desired!Next
<1>9. ASSUME BeginSeed \/ EndSeed \/ updateStatus, worker.copy # NoObject PROVE Desired!Next
  <2>1. worker.key \in Key BY <1>9, WorkerFacts DEF Promise, BeginSeed, EndSeed, updateStatus
  <2> QED BY <1>9, <2>1, BeginSeedApplies, EndSeedFinishes, updateStatusReports DEF Desired!Next
<1>10. ASSUME BeginSeed \/ updateStatus, worker.copy = NoObject PROVE Unseen
  <2>1. worker'.copy = NoObject
    BY <1>10, WorkerFacts DEF Promise, BeginSeed, updateStatus, Goto, RecordOK, WorkerRecord
  <2>2. Ended' = Ended BY <1>10, <2>1, EndedNone, EndedNoneNext
  <2>3. UNCHANGED <<server, services>> BY <1>10 DEF BeginSeed, updateStatus, k8s
  <2> QED BY <1>2, <2>2, <2>3
<1>11. ASSUME EndSeed PROVE worker.copy # NoObject
  BY <1>11, WorkerFacts DEF EndSeed, Promise, RecordOK
<1>12. ASSUME processNextWorkItem \/ ReadSpec \/ Return PROVE Unseen
  <2>1. worker.pc # "status" BY <1>12 DEF processNextWorkItem, ReadSpec, Return
  <2>2. worker'.pc # "status"
    <3>1. CASE processNextWorkItem BY <3>1 DEF processNextWorkItem, Idle
    <3>2. CASE ReadSpec BY <3>2, WorkerFacts DEF Promise, ReadSpec, RecordOK, WorkerRecord
    <3>3. CASE Return BY <3>3 DEF Return, Idle
    <3> QED BY <1>12, <3>1, <3>2, <3>3
  <2>3. Ended' = Ended BY <2>1, <2>2, EndedNone, EndedNoneNext
  <2> QED BY <1>2, <1>12, <2>3 DEF processNextWorkItem, ReadSpec, Return, k8s
<1> QED BY <1>1, <1>4, <1>5, <1>6, <1>7, <1>8, <1>9, <1>10, <1>11, <1>12 DEF Next, WorkerStep

LEMMA InitImplements == Init => Desired!Init
<1> SUFFICES ASSUME Init PROVE Desired!Init OBVIOUS
<1>1. \A k \in Key : server[k] # NoObject => server[k].spec = 1 /\ server[k].status = ""
  BY ClusterKnown DEF Init
<1>2. Asked \in [Key -> {0, 1}] /\ Reported = [k \in Key |-> ""] BY <1>1 DEF Asked, Reported
<1>3. worker.pc = "idle" BY DEF Init, Idle
<1>4. Ended = [k \in Key |-> {}] BY <1>3, EndedNone
<1>5. services = [k \in Key |-> [spec |-> 0, state |-> "partial"]] BY DEF Init
<1> QED BY <1>2, <1>4, <1>5 DEF Desired!Init, Desired!Nothing

\* The Kubebuilder controller implements the promise to a resource's author: the
\* services only go from an older spec to a newer one, and the status changes only to
\* the outcome of a run of the spec it stands beside.
THEOREM Implements == Spec => ImplementsDesiredState
<1>1. Spec => []Promise
  BY TypeCorrect, VersionsCorrect, OrderCorrect, SeedCorrect, PTL DEF Promise
<1>2. Promise /\ [Next]_vars => [Desired!Next]_(Desired!vars) BY StepImplements
<1>3. Spec => Desired!Spec
  BY <1>1, <1>2, InitImplements, PTL DEF Spec, Desired!Spec
<1> QED BY <1>3 DEF ImplementsDesiredState
=============================================================================
