----------------------- MODULE ControllerOrderProofs ------------------------
(***************************************************************************)
(* Proofs about what the workers of Controller know of a resource: that    *)
(* the resource version tells specs apart, that specs are seeded in the    *)
(* order they were written in, and that Controller implements DesiredState.*)
(***************************************************************************)
EXTENDS ControllerProofs

LEMMA VersionsNext == ASSUME TypeOK, VersionsInv, [Next]_vars PROVE VersionsInv'
<1> SUFFICES ASSUME NEW k \in Key PROVE VersionsOf(k, Copies(k))' BY DEF VersionsInv
<1>1. Copies(k)' \subseteq Copies(k) \union Ahead(k)
  BY CopiesNext, AheadTypes DEF TypeOK
<1>2. VersionsOf(k, Copies(k)) /\ revision' \in Nat /\ Known(k) /\ KubernetesTypeOK
  BY StepKnown, TypeNext DEF VersionsInv, TypeOK, KubernetesTypeOK
<1> QED BY <1>1, <1>2, CopiesTypes, VersionsStep DEF VersionsOf

\* At the start nobody has anything.
LEMMA NothingKnown == ASSUME Init, NEW k \in Key
                      PROVE  Copies(k) = {} /\ cache[k] = NoObject /\ services[k].spec = 0
<1>1. worker = [w \in Worker |-> Idle] /\ services = [j \in Key |-> [spec |-> 0, state |-> "partial"]]
  BY DEF Init
<1>2. \A w \in Worker : worker[w].copy = NoObject BY <1>1 DEF Idle
<1>3. Copies(k) = {} BY <1>2 DEF Copies
<1>4. cache[k] = NoObject BY ClusterKnown DEF Init
<1>5. services[k].spec = 0 BY <1>1
<1> QED BY <1>3, <1>4, <1>5

LEMMA VersionsCorrect == Spec => []VersionsInv
<1>1. Init => VersionsInv BY NothingKnown, VersionsInit DEF VersionsInv, Init
<1> QED BY <1>1, TypeCorrect, VersionsNext, PTL DEF Spec

\* The server's status of a resource changes only by the worker whose run it
\* tells of, and stands beside the spec that worker seeded.
THEOREM StatusCorrect == Spec => StatusIsOfItsSpec
<1>1. ASSUME TypeOK, VersionsInv, [Next]_vars, NEW k \in Key,
             server[k] # NoObject, server'[k] # NoObject, server'[k].status # server[k].status
      PROVE  \E w \in Worker : /\ worker[w].pc = "status" /\ worker[w].key = k
                               /\ worker[w].copy.spec = server'[k].spec
                               /\ worker[w].verdict = server'[k].status
  <2>1. ASSUME NEW j \in Key, Change(j) PROVE FALSE
    <3>1. PICK obj \in ObjectOrNone :
            Store(j, obj) /\ (server[j] # NoObject /\ obj # NoObject => obj.status = server[j].status)
      BY <1>1, <2>1, EditStores DEF Change, TypeOK
    <3>2. server' = [server EXCEPT ![j] = obj] BY <3>1 DEF Store
    <3>3. k = j /\ server'[k] = obj BY <1>1, <3>2 DEF TypeOK, KubernetesTypeOK
    <3> QED BY <1>1, <3>1, <3>3
  <2>2. ASSUME NEW w \in Worker, updateStatus(w)
        PROVE  /\ worker[w].pc = "status" /\ worker[w].key = k
               /\ worker[w].copy.spec = server'[k].spec
               /\ worker[w].verdict = server'[k].status
    <3> DEFINE j == worker[w].key
               c == worker[w].copy
    <3>1. PICK obj \in RestStrategy :
            /\ Store(j, obj) /\ Fresh(j, c)
            /\ obj.spec = server[j].spec /\ obj.status = worker[w].verdict
      BY <1>1, <2>2, updateStatusStores
    <3>2. server' = [server EXCEPT ![j] = obj] BY <3>1 DEF Store
    <3>3. k = j /\ server'[k] = obj BY <1>1, <3>2 DEF TypeOK, KubernetesTypeOK
    <3>4. worker[w].pc = "status" /\ c # NoObject
      BY <1>1, <2>2, WorkerFacts DEF updateStatus, RecordOK
    <3>5. c \in Copies(k) /\ server[k] \in Ahead(k) BY <1>1, <3>3, <3>4 DEF Copies, Ahead
    <3>6. c.spec = server[k].spec
      BY <1>1, <3>1, <3>3, <3>5 DEF VersionsInv, VersionsOf, Fresh
    <3> QED BY <3>1, <3>3, <3>4, <3>6
  <2>3. ASSUME UNCHANGED server PROVE FALSE BY <1>1, <2>3
  <2>4. ASSUME NEW w \in Worker, WorkerStep(w), ~updateStatus(w) PROVE UNCHANGED server
    BY <2>4 DEF WorkerStep, processNextWorkItem, syncHandler, BeginSeed, EndSeed, Forget, k8s
  <2>5. ASSUME NEW j \in Key, Drift(j) \/ Deliver(j) \/ Resync(j) PROVE UNCHANGED server
    BY <2>5 DEF Drift, Deliver, Resync, k8s, See
  <2>6. ASSUME Tick \/ Relist \/ Stop \/ Crash \/ Restart \/ UNCHANGED vars PROVE UNCHANGED server
    BY <2>6 DEF Tick, Relist, Stop, Crash, Restart, Boot, vars, k8s, List
  <2> QED BY <1>1, <2>1, <2>2, <2>3, <2>4, <2>5, <2>6 DEF Next
<1> DEFINE StatusStep ==
      \A k \in Key :
        server[k] # NoObject /\ server'[k] # NoObject /\ server'[k].status # server[k].status =>
          \E w \in Worker : /\ worker[w].pc = "status" /\ worker[w].key = k
                            /\ worker[w].copy.spec = server'[k].spec
                            /\ worker[w].verdict = server'[k].status
<1>2. TypeOK /\ VersionsInv /\ [Next]_vars => [StatusStep]_vars BY <1>1
<1>3. StatusIsOfItsSpec <=> [][StatusStep]_vars BY DEF StatusIsOfItsSpec
<1> HIDE DEF StatusStep
<1> QED BY <1>2, <1>3, TypeCorrect, VersionsCorrect, PTL DEF Spec

(***************************************************************************)
(* No change is overlooked.                                                *)
(***************************************************************************)

Queued(k) ==
    \/ k \in workqueue.dirty
    \/ \E w \in Worker : worker[w].pc = "lookup" /\ worker[w].key = k
Noticed(k) ==
    k \notin masked /\ ~workqueue.down /\ cache[k] # NoObject /\ looked[k] # cache[k].spec
      => Queued(k)

LEMMA NoticedAll == NoChangeOverlooked <=> \A k \in Key : Noticed(k)
BY DEF NoChangeOverlooked, Noticed, Queued

\* A step that leaves the queue's claims and the worker's reads alone.
LEMMA NoticedFrame ==
    ASSUME NEW k \in Key, Noticed(k), cache'[k] = cache[k], looked'[k] = looked[k],
           k \in masked => k \in masked', workqueue.down => workqueue'.down,
           k \in workqueue.dirty => k \in workqueue'.dirty,
           \A w \in Worker : worker[w].pc = "lookup" /\ worker[w].key = k =>
                               worker'[w].pc = "lookup" /\ worker'[w].key = k
    PROVE  Noticed(k)'
BY DEF Noticed, Queued

LEMMA AddDirty ==
    ASSUME NEW q \in Queue, NEW k \in Key
    PROVE  /\ Add(q, k).down = q.down /\ q.dirty \subseteq Add(q, k).dirty
           /\ q.down \/ k \in Add(q, k).dirty
BY DEF Add, Queue

\* What the handlers say of the key they are called for, and of the others.
LEMMA HandleNoticed ==
    ASSUME TypeOK, NEW j \in Key, NEW old, NEW new, Handle(j, old, new), UNCHANGED <<worker, looked>>,
           old # NoObject /\ new # NoObject /\ old.resourceVersion = new.resourceVersion
             => old.spec = new.spec,
           cache'[j] = new, cache[j] = old, \A k \in Key \ {j} : cache'[k] = cache[k],
           \A k \in Key : Noticed(k), NEW k \in Key
    PROVE  Noticed(k)'
<1>1. workqueue \in Queue BY DEF TypeOK, WorkerTypeOK
<1>2. CASE k # j
  <2>1. /\ workqueue.down => workqueue'.down
        /\ workqueue.dirty \subseteq workqueue'.dirty
        /\ k \in masked => k \in masked'
    BY <1>1, <1>2, AddDirty DEF Handle
  <2> QED BY <1>2, <2>1, NoticedFrame
<1>3. CASE k = j /\ Enqueues(old, new)
  BY <1>1, <1>3, AddDirty DEF Handle, Noticed, Queued
<1>4. CASE k = j /\ ~Enqueues(old, new)
  <2>1. UNCHANGED workqueue BY <1>4 DEF Handle
  <2>2. CASE new = NoObject BY <1>4, <2>2 DEF Noticed
  <2>3. CASE new # NoObject /\ Recreated(old, new)
    BY <1>4, <2>3 DEF Handle, Noticed
  <2>4. CASE new # NoObject /\ ~Recreated(old, new)
    <3>1. old # NoObject /\ masked' = masked BY <1>4, <2>4 DEF Enqueues, Handle
    <3>2. old.spec = new.spec
      BY <1>4, <2>4, <3>1 DEF Enqueues, versionsDiffer, Recreated
    <3> QED BY <1>4, <2>1, <2>4, <3>1, <3>2 DEF Noticed, Queued
  <2> QED BY <2>2, <2>3, <2>4
<1> QED BY <1>2, <1>3, <1>4

LEMMA NoticedNext ==
    ASSUME TypeOK, VersionsInv, \A k \in Key : Noticed(k), [Next]_vars, NEW k \in Key
    PROVE  Noticed(k)'
<1>0. workqueue \in Queue BY DEF TypeOK, WorkerTypeOK
<1>1. ASSUME NEW j \in Key, Deliver(j) PROVE Noticed(k)'
  <2> DEFINE old == cache[j]
             new == Head(watch[j])
  <2>1. /\ cache'[j] = new /\ \A i \in Key \ {j} : cache'[i] = cache[i]
        /\ UNCHANGED <<worker, looked>>
    BY <1>1 DEF Deliver, TypeOK, KubernetesTypeOK, See
  <2>2. CASE old = NoObject /\ new = NoObject /\ UNCHANGED <<workqueue, masked>>
    BY <2>1, <2>2, NoticedFrame
  <2>3. CASE Handle(j, old, new)
    <3>1. 1 \in DOMAIN watch[j] /\ new = watch[j][1] BY <1>1 DEF Deliver, TypeOK, KubernetesTypeOK, See
    <3>2. old # NoObject /\ new # NoObject => old \in Ahead(j) /\ new \in Ahead(j)
      BY <3>1 DEF Ahead
    <3>3. old # NoObject /\ new # NoObject /\ old.resourceVersion = new.resourceVersion
            => old.spec = new.spec
      BY <3>2 DEF VersionsInv, VersionsOf
    <3>4. cache[j] = old OBVIOUS
    <3> HIDE DEF old, new
    <3> QED BY <2>1, <2>3, <3>3, <3>4, HandleNoticed
  <2> QED BY <1>1, <2>2, <2>3 DEF Deliver, See
<1>2. ASSUME NEW j \in Key, Resync(j) PROVE Noticed(k)'
  BY <1>2, HandleNoticed DEF Resync
<1>3. ASSUME NEW j \in Key, Change(j) \/ Drift(j) PROVE Noticed(k)'
  BY <1>3, NoticedFrame DEF Change, Drift, history, Edit
<1>4. CASE Tick \/ Relist \/ UNCHANGED vars
  BY <1>4, NoticedFrame DEF Tick, Relist, vars, history, List
<1>5. CASE Stop BY <1>0, <1>5 DEF Stop, ShutDown, Noticed, Queue
<1>6. CASE Boot BY <1>6 DEF Boot, Noticed, List
<1>7. ASSUME NEW w \in Worker, processNextWorkItem(w) PROVE Noticed(k)'
  <2>1. /\ workqueue'.dirty = workqueue.dirty \ {Head(workqueue.order)}
        /\ workqueue'.down = workqueue.down
    BY <1>0, <1>7 DEF processNextWorkItem, Get, Queue
  <2>2. /\ worker[w].pc = "idle" /\ worker'[w].pc = "lookup"
        /\ worker'[w].key = Head(workqueue.order)
        /\ \A v \in Worker \ {w} : worker'[v] = worker[v]
    BY <1>7 DEF processNextWorkItem, Idle, TypeOK, WorkerTypeOK
  <2>3. UNCHANGED <<cache, looked, masked>> BY <1>7 DEF processNextWorkItem, history
  <2>4. CASE k = Head(workqueue.order) BY <2>2, <2>4 DEF Noticed, Queued
  <2>5. CASE k # Head(workqueue.order)
    BY <2>1, <2>2, <2>3, <2>5, NoticedFrame
  <2> QED BY <2>4, <2>5
<1>8. ASSUME NEW w \in Worker, syncHandler(w) PROVE Noticed(k)'
  <2> DEFINE j == worker[w].key
  <2>1. j \in Key /\ UNCHANGED <<cache, workqueue, masked>>
    BY <1>8, WorkerFacts DEF syncHandler
  <2>2. \A v \in Worker \ {w} : worker'[v] = worker[v]
    BY <1>8, GotoFacts DEF syncHandler, TypeOK, WorkerTypeOK
  <2>3. looked' = looked \/ (cache[j] # NoObject /\ looked' = [looked EXCEPT ![j] = cache[j].spec])
    BY <1>8 DEF syncHandler
  <2>4. cache[j] = NoObject \/ looked'[j] = cache[j].spec
    BY <1>8, <2>1 DEF syncHandler, TypeOK, OtherTypeOK
  <2>5. CASE k = j BY <2>1, <2>4, <2>5 DEF Noticed
  <2>6. CASE k # j
    <3>1. looked'[k] = looked[k] BY <2>3, <2>6 DEF TypeOK, OtherTypeOK
    <3> QED BY <2>1, <2>2, <2>6, <3>1, NoticedFrame
  <2> QED BY <2>5, <2>6
<1>9. ASSUME NEW w \in Worker, worker[w].pc # "lookup",
             UNCHANGED <<cache, looked, masked>>,
             workqueue'.down = workqueue.down, workqueue.dirty \subseteq workqueue'.dirty,
             \A v \in Worker \ {w} : worker'[v] = worker[v]
      PROVE  Noticed(k)'
  BY <1>9, NoticedFrame
<1>10. ASSUME NEW w \in Worker, BeginSeed(w) \/ EndSeed(w) \/ updateStatus(w) PROVE Noticed(k)'
  <2>1. worker[w].pc # "lookup" /\ UNCHANGED <<cache, looked, masked, workqueue>>
    BY <1>10 DEF BeginSeed, EndSeed, updateStatus, history
  <2>2. \A v \in Worker \ {w} : worker'[v] = worker[v]
    BY <1>10, GotoFacts DEF BeginSeed, EndSeed, updateStatus, TypeOK, WorkerTypeOK
  <2> QED BY <1>9, <2>1, <2>2
<1>11. ASSUME NEW w \in Worker, Forget(w) PROVE Noticed(k)'
  <2>1. workqueue'.down = workqueue.down /\ workqueue.dirty \subseteq workqueue'.dirty
    BY <1>0, <1>11 DEF Forget, Done, Queue
  <2>2. \A v \in Worker \ {w} : worker'[v] = worker[v]
    BY <1>11 DEF Forget, TypeOK, WorkerTypeOK
  <2> QED BY <1>9, <1>11, <2>1, <2>2 DEF Forget, history
<1> QED BY <1>1, <1>2, <1>3, <1>4, <1>5, <1>6, <1>7, <1>8, <1>10, <1>11
        DEF Next, WorkerStep, Crash, Restart

\* As long as Run goes on, a spec the informer has and the workers have not read
\* is on its way to them: it is in the queue or about to be read.
THEOREM NothingOverlooked == Spec => []NoChangeOverlooked
<1>1. Init => NoChangeOverlooked
  BY NothingKnown DEF NoChangeOverlooked
<1>2. TypeOK /\ VersionsInv /\ NoChangeOverlooked /\ [Next]_vars => NoChangeOverlooked'
  <2> SUFFICES ASSUME TypeOK, VersionsInv, NoChangeOverlooked, [Next]_vars, NEW k \in Key
               PROVE  Noticed(k)'
    BY DEF NoChangeOverlooked, Noticed, Queued
  <2> QED BY NoticedAll, NoticedNext
<1> QED BY <1>1, <1>2, TypeCorrect, VersionsCorrect, PTL DEF Spec

(***************************************************************************)
(* Specs are seeded in the order they were written in.                     *)
(***************************************************************************)

LEMMA OrderNext ==
    ASSUME TypeOK, SpecOrderInv, [Next]_vars PROVE SpecOrderInv'
<1> SUFFICES ASSUME NEW k \in Key
             PROVE  SpecOrderOf(k, Copies(k), services[k].spec)' /\ WatchInOrder(k)'
  BY DEF SpecOrderInv
<1>1. /\ SpecOrderOf(k, Copies(k), services[k].spec) /\ WatchInOrder(k)
      /\ revision' \in Nat /\ Known(k) /\ KubernetesTypeOK
  BY StepKnown, TypeNext DEF SpecOrderInv, TypeOK, KubernetesTypeOK
<1>2. services'[k].spec = services[k].spec \/ \E c \in Copies(k) : services'[k].spec = c.spec
  <2>1. CASE Seeds(k)
    <3>1. PICK w \in Worker : /\ worker[w].pc = "seed" /\ worker[w].key = k
                              /\ services'[k].spec = worker[w].copy.spec
      BY <2>1 DEF Seeds
    <3>2. worker[w].copy \in Copies(k) BY <3>1, CopiesTypes, WorkerFacts DEF RecordOK
    <3> QED BY <3>1, <3>2
  <2> QED BY <2>1, ServicesNext DEF KeepsServices
<1> QED BY <1>1, <1>2, CopiesNext, CopiesTypes, OrderStep DEF SpecOrderOf

\* Which workers stand before Execute after a step, and what is seeded by then.
LEMMA SeedNext ==
    ASSUME TypeOK, OneWorkerPerKey, SpecOrderInv, SeedInv, [Next]_vars,
           NEW w \in Worker, worker'[w].pc = "seed"
    PROVE  services'[worker'[w].key].spec <= worker'[w].copy.spec
<1> DEFINE k == worker[w].key
<1>1. ASSUME worker'[w] = worker[w], k \in Key => KeepsServices(k)
      PROVE  services'[worker'[w].key].spec <= worker'[w].copy.spec
  BY <1>1, WorkerFacts DEF SeedInv, KeepsServices
<1>2. ASSUME syncHandler(w) PROVE services'[worker'[w].key].spec <= worker'[w].copy.spec
  <2>1. k \in Key BY <1>2, WorkerFacts DEF syncHandler
  <2>2. ~Goto(w, "done") BY GotoFacts
  <2>3. cache[k] # NoObject /\ worker' = [worker EXCEPT ![w].pc = "seed", ![w].copy = cache[k]]
    BY <1>2, <2>2 DEF syncHandler
  <2>4. worker'[w].key = k /\ worker'[w].copy = cache[k]
    BY <2>3 DEF TypeOK, WorkerTypeOK
  <2>5. services[k].spec <= cache[k].spec
    BY <2>1, <2>3 DEF SpecOrderInv, SpecOrderOf, Ahead
  <2> QED BY <1>2, <2>4, <2>5 DEF syncHandler
<1>3. ASSUME NEW v \in Worker, BeginSeed(v)
      PROVE  services'[worker'[w].key].spec <= worker'[w].copy.spec
  <2>1. v # w
    <3>1. worker'[v].pc = "seeding" BY <1>3, GotoFacts DEF BeginSeed
    <3> QED BY <3>1
  <2>2. worker'[w] = worker[w] BY <1>3, <2>1, GotoFacts DEF BeginSeed
  <2>3. worker[v].key # k
    BY <1>3, <2>1, <2>2 DEF BeginSeed, OneWorkerPerKey, Busy
  <2>4. k \in Key => KeepsServices(k)
    BY <1>3, <2>3 DEF BeginSeed, KeepsServices, TypeOK, OtherTypeOK
  <2> QED BY <1>1, <2>2, <2>4
<1>4. ASSUME NEW v \in Worker, EndSeed(v)
      PROVE  services'[worker'[w].key].spec <= worker'[w].copy.spec
  <2>1. worker'[v].pc = "status" /\ \A u \in Worker \ {v} : worker'[u] = worker[u]
    BY <1>4 DEF EndSeed, TypeOK, WorkerTypeOK
  <2>2. k \in Key => KeepsServices(k)
    BY <1>4 DEF EndSeed, KeepsServices, TypeOK, OtherTypeOK
  <2> QED BY <1>1, <2>1, <2>2
<1>5. ASSUME NEW j \in Key, Drift(j) PROVE services'[worker'[w].key].spec <= worker'[w].copy.spec
  <2>1. k \in Key => KeepsServices(k)
    BY <1>5 DEF Drift, KeepsServices, TypeOK, OtherTypeOK
  <2> QED BY <1>1, <1>5, <2>1 DEF Drift
<1>6. ASSUME NEW v \in Worker, processNextWorkItem(v) \/ updateStatus(v) \/ Forget(v)
      PROVE  services'[worker'[w].key].spec <= worker'[w].copy.spec
  <2>1. worker'[v].pc # "seed" /\ \A u \in Worker \ {v} : worker'[u] = worker[u]
    <3>1. CASE processNextWorkItem(v)
      BY <3>1 DEF processNextWorkItem, Idle, TypeOK, WorkerTypeOK
    <3>2. CASE updateStatus(v) BY <3>2, GotoFacts DEF updateStatus
    <3>3. CASE Forget(v) BY <3>3 DEF Forget, Idle, TypeOK, WorkerTypeOK
    <3> QED BY <1>6, <3>1, <3>2, <3>3
  <2> QED BY <1>1, <1>6, <2>1
          DEF processNextWorkItem, updateStatus, Forget, KeepsServices
<1>7. ASSUME NEW v \in Worker \ {w}, syncHandler(v)
      PROVE  services'[worker'[w].key].spec <= worker'[w].copy.spec
  <2>1. worker'[w] = worker[w]
    BY <1>7 DEF syncHandler, Goto, TypeOK, WorkerTypeOK
  <2> QED BY <1>1, <1>7, <2>1 DEF syncHandler, KeepsServices
<1>8. ASSUME NEW j \in Key, Change(j) \/ Deliver(j) \/ Resync(j)
      PROVE  services'[worker'[w].key].spec <= worker'[w].copy.spec
  BY <1>1, <1>8 DEF Change, Deliver, Resync, KeepsServices, Edit, See
<1>9. CASE Tick \/ Relist \/ Stop \/ UNCHANGED vars
  BY <1>1, <1>9 DEF Tick, Relist, Stop, vars, KeepsServices, List
<1>10. CASE Boot BY <1>10 DEF Boot, Idle, List
<1> QED BY <1>2, <1>3, <1>4, <1>5, <1>6, <1>7, <1>8, <1>9, <1>10
        DEF Next, WorkerStep, Crash, Restart

LEMMA OrderCorrect == Spec => []SpecOrderInv
<1>1. Init => SpecOrderInv BY NothingKnown, OrderInit DEF SpecOrderInv, Init
<1>2. TypeOK /\ SpecOrderInv /\ [Next]_vars => SpecOrderInv' BY OrderNext
<1> QED BY <1>1, <1>2, TypeCorrect, PTL DEF Spec

LEMMA SeedCorrect == Spec => []SeedInv
<1>1. Init => SeedInv
  <2>1. Init => \A w \in Worker : worker[w] = Idle BY DEF Init, Cluster
  <2>2. Idle.pc = "idle" BY DEF Idle
  <2> QED BY <2>1, <2>2 DEF SeedInv
<1>2. TypeOK /\ OneWorkerPerKey /\ SpecOrderInv /\ SeedInv /\ [Next]_vars => SeedInv'
  <2> SUFFICES ASSUME TypeOK, OneWorkerPerKey, SpecOrderInv, SeedInv, [Next]_vars,
                      NEW w \in Worker, worker'[w].pc = "seed"
               PROVE  services'[worker'[w].key].spec <= worker'[w].copy.spec
    BY DEF SeedInv
  <2> QED BY SeedNext
<1> QED BY <1>1, <1>2, OrderCorrect, TypeCorrect, NeverTwoWorkers, PTL DEF Spec

\* Whatever is late, lost or crashes, the services of a resource are never
\* seeded with an older spec than the one seeded last.
THEOREM NeverOlder == Spec => NoOlderSpec
<1> DEFINE SpecStep == \A k \in Key : services'[k].spec >= services[k].spec
<1>1. TypeOK /\ SeedInv /\ [Next]_vars => [SpecStep]_vars
  <2> SUFFICES ASSUME TypeOK, SeedInv, [Next]_vars, NEW k \in Key
               PROVE  services'[k].spec >= services[k].spec
    OBVIOUS
  <2>1. services[k].spec \in Nat BY CopiesTypes
  <2>2. CASE KeepsServices(k) BY <2>1, <2>2 DEF KeepsServices
  <2>3. CASE Seeds(k)
    <3>1. PICK w \in Worker : /\ worker[w].pc = "seed" /\ worker[w].key = k
                              /\ services'[k].spec = worker[w].copy.spec
      BY <2>3 DEF Seeds
    <3>2. services[k].spec <= worker[w].copy.spec BY <3>1 DEF SeedInv
    <3>3. worker[w].copy \in RestStrategy BY <3>1, CopiesTypes, WorkerFacts DEF RecordOK
    <3>4. worker[w].copy.spec \in Nat BY <3>3 DEF RestStrategy
    <3> QED BY <2>1, <3>1, <3>2, <3>4
  <2> QED BY <2>2, <2>3, ServicesNext
<1>2. NoOlderSpec <=> [][SpecStep]_vars BY DEF NoOlderSpec
<1> HIDE DEF SpecStep
<1> QED BY <1>1, <1>2, SeedCorrect, TypeCorrect, PTL DEF Spec

-----------------------------------------------------------------------------
(* Controller implements DesiredState.                                     *)

\* A run under way has brought its spec to the services, and nobody else another.
LEMMA SeedingNext ==
    ASSUME TypeOK, OneWorkerPerKey, SeedingInv, [Next]_vars,
           NEW w \in Worker, worker'[w].pc = "seeding"
    PROVE  services'[worker'[w].key].spec = worker'[w].copy.spec
<1> DEFINE k == worker[w].key
<1>1. ASSUME worker'[w] = worker[w], KeepsServices(k)
      PROVE  services'[worker'[w].key].spec = worker'[w].copy.spec
  BY <1>1 DEF SeedingInv, KeepsServices
<1>2. ASSUME BeginSeed(w) PROVE services'[worker'[w].key].spec = worker'[w].copy.spec
  <2>1. k \in Key BY <1>2, WorkerFacts DEF BeginSeed
  <2>2. services'[k].spec = worker[w].copy.spec
    BY <1>2, <2>1 DEF BeginSeed, TypeOK, OtherTypeOK
  <2> QED BY <1>2, <2>2, GotoFacts DEF BeginSeed
<1>3. ASSUME ~BeginSeed(w), worker'[w] = worker[w]
      PROVE  services'[worker'[w].key].spec = worker'[w].copy.spec
  <2>1. k \in Key BY <1>3, WorkerFacts
  <2>2. ASSUME Seeds(k) PROVE KeepsServices(k)
    <3>1. PICK v \in Worker : worker[v].pc = "seed" /\ worker[v].key = k BY <2>2 DEF Seeds
    <3> QED BY <1>3, <3>1 DEF OneWorkerPerKey, Busy
  <2> QED BY <1>1, <1>3, <2>1, <2>2, ServicesNext
<1>4. ~BeginSeed(w) => worker'[w] = worker[w]
  <2>1. ASSUME NEW v \in Worker \ {w}, WorkerStep(v) PROVE worker'[w] = worker[w]
    BY <2>1 DEF WorkerStep, processNextWorkItem, syncHandler, BeginSeed, EndSeed, updateStatus,
                Forget, Goto, TypeOK, WorkerTypeOK
  <2>2. ASSUME processNextWorkItem(w) PROVE FALSE
    BY <2>2 DEF processNextWorkItem, Idle, TypeOK, WorkerTypeOK
  <2>3. ASSUME syncHandler(w) PROVE FALSE
    <3>1. worker'[w].pc \in {"seed", "done"} BY <2>3 DEF syncHandler, Goto, TypeOK, WorkerTypeOK
    <3> QED BY <3>1
  <2>4. ASSUME EndSeed(w) PROVE FALSE
    <3>1. worker'[w].pc = "status" BY <2>4 DEF EndSeed, TypeOK, WorkerTypeOK
    <3> QED BY <3>1
  <2>5. ASSUME updateStatus(w) PROVE FALSE BY <2>5, GotoFacts DEF updateStatus
  <2>6. ASSUME Forget(w) PROVE FALSE BY <2>6 DEF Forget, Idle, TypeOK, WorkerTypeOK
  <2>7. ASSUME Boot PROVE FALSE BY <2>7 DEF Boot, Idle
  <2>8. ASSUME NEW j \in Key, Change(j) \/ Drift(j) \/ Deliver(j) \/ Resync(j)
        PROVE  worker'[w] = worker[w]
    BY <2>8 DEF Change, Drift, Deliver, Resync
  <2>9. CASE Tick \/ Relist \/ Stop \/ UNCHANGED vars BY <2>9 DEF Tick, Relist, Stop, vars
  <2> QED BY <2>1, <2>2, <2>3, <2>4, <2>5, <2>6, <2>7, <2>8, <2>9
          DEF Next, WorkerStep, Crash, Restart
<1> QED BY <1>2, <1>3, <1>4

LEMMA SeedingCorrect == Spec => []SeedingInv
<1>1. Init => SeedingInv
  <2>1. Init => \A w \in Worker : worker[w] = Idle BY DEF Init
  <2>2. Idle.pc = "idle" BY DEF Idle
  <2> QED BY <2>1, <2>2 DEF SeedingInv
<1>2. TypeOK /\ OneWorkerPerKey /\ SeedingInv /\ [Next]_vars => SeedingInv'
  BY SeedingNext DEF SeedingInv
<1> QED BY <1>1, <1>2, TypeCorrect, NeverTwoWorkers, PTL DEF Spec

(***************************************************************************)
(* What the step of a worker does to the runs that are to report.          *)
(***************************************************************************)

\* The runs of a resource that ended and have not reported: one at most.
LEMMA EndedRuns ==
    ASSUME TypeOK, OneWorkerPerKey, NEW w \in Worker, worker[w].pc = "status"
    PROVE  Runs(worker[w].key) = {<<worker[w].copy.spec, worker[w].verdict>>}
<1>1. \A v \in Worker : worker[v].pc = "status" /\ worker[v].key = worker[w].key => v = w
  BY DEF OneWorkerPerKey, Busy
<1> QED BY <1>1 DEF Runs

LEMMA EndedSame ==
    ASSUME \A w \in Worker : /\ worker'[w].pc = "status" <=> worker[w].pc = "status"
                             /\ worker[w].pc = "status" => worker'[w] = worker[w]
    PROVE  Ended' = Ended
BY DEF Ended, Runs

LEMMA EndedOthers ==
    ASSUME NEW w \in Worker, worker'[w].key = worker[w].key,
           \A v \in Worker \ {w} : worker'[v] = worker[v],
           NEW k \in Key, k # worker[w].key
    PROVE  Runs(k)' = Runs(k)
BY DEF Runs

(***************************************************************************)
(* Each step is one of the promise, or invisible.                          *)
(***************************************************************************)

Promise == TypeOK /\ OneWorkerPerKey /\ VersionsInv /\ SpecOrderInv /\ SeedInv /\ SeedingInv

LEMMA ChangeAsks ==
    ASSUME Promise, NEW k \in Key, Change(k)
    PROVE  Desired!Ask(k) \/ Desired!Withdraw(k) \/ UNCHANGED <<Asked, Reported, services, Ended>>
<1> USE DEF Promise
<1>1. /\ KubernetesTypeOK /\ Edit(k) /\ UNCHANGED <<worker, services>>
      /\ revision \in Nat /\ Asked \in [Key -> Nat] /\ services[k].spec \in Nat
  BY SeenTypes, CopiesTypes DEF Change, TypeOK, KubernetesTypeOK
<1>2. /\ services[k].spec <= revision
      /\ server[k] # NoObject => server[k].spec > 0 /\ server[k].spec <= revision
  BY <1>1, AheadTypes DEF SpecOrderInv, SpecOrderOf
<1>3. Ended' = Ended BY <1>1, EndedSame
<1>4. CASE Asked' = Asked /\ Reported' = Reported BY <1>1, <1>3, <1>4
<1>5. CASE Asked' = [Asked EXCEPT ![k] = 0] /\ Reported' = [Reported EXCEPT ![k] = ""]
  BY <1>1, <1>3, <1>5 DEF Desired!Withdraw
<1>6. CASE /\ Asked' = [Asked EXCEPT ![k] = revision + 1]
           /\ Reported' = IF Asked[k] = 0 THEN [Reported EXCEPT ![k] = ""] ELSE Reported
  <2>1. Asked'[k] = revision + 1 BY <1>1, <1>6
  <2>2. Asked[k] <= revision BY <1>1, <1>2 DEF Asked
  <2>3. Asked'[k] \in Nat /\ Asked'[k] > Asked[k] /\ Asked'[k] > services[k].spec
    BY <1>1, <1>2, <2>1, <2>2
  <2> QED BY <1>1, <1>3, <1>6, <2>1, <2>3 DEF Desired!Ask
<1> QED BY <1>1, <1>2, <1>4, <1>5, <1>6, EditSeen

LEMMA BeginSeedApplies ==
    ASSUME Promise, NEW w \in Worker, BeginSeed(w)
    PROVE  Desired!Apply(worker[w].key)
<1> USE DEF Promise
<1> DEFINE k == worker[w].key
           s == worker[w].copy.spec
<1>1. k \in Key /\ worker[w].pc = "seed" /\ worker[w].copy \in Copies(k)
  BY WorkerFacts, CopiesTypes DEF BeginSeed, RecordOK
<1>2. s \in Nat /\ s > 0 /\ services[k].spec <= s
  BY <1>1, CopiesTypes DEF SpecOrderInv, SpecOrderOf, SeedInv, RestStrategy
<1>3. Asked[k] # 0 => s <= Asked[k]
  BY <1>1, AheadTypes DEF TypeOK, Asked, SpecOrderInv, SpecOrderOf
<1>4. services' = [services EXCEPT ![k] = IF @.spec = s THEN @
                                          ELSE [spec |-> s, state |-> "partial"]]
  BY DEF BeginSeed
<1>5. services'[k].spec = s BY <1>1, <1>4 DEF TypeOK, OtherTypeOK
<1>6. UNCHANGED <<Asked, Reported>> BY DEF BeginSeed, k8s, Asked, Reported
<1>7. Ended' = Ended
  <2>1. worker'[w].pc = "seeding" /\ \A v \in Worker \ {w} : worker'[v] = worker[v]
    BY GotoFacts DEF BeginSeed
  <2> QED BY <1>1, <2>1, EndedSame
<1>8. services[k].spec \in Nat BY <1>1, CopiesTypes
<1> HIDE DEF k, s
<1>9. services'[k].spec \in Nat \ {0} /\ services'[k].spec >= services[k].spec
  BY <1>2, <1>5, <1>8
<1> QED BY <1>3, <1>4, <1>5, <1>6, <1>7, <1>9 DEF Desired!Apply, k

LEMMA EndSeedFinishes ==
    ASSUME Promise, NEW w \in Worker, EndSeed(w)
    PROVE  Desired!Finish(worker[w].key)
<1> USE DEF Promise
<1> DEFINE k == worker[w].key
<1>1. k \in Key /\ worker[w].pc = "seeding" BY WorkerFacts DEF EndSeed
<1>2. PICK o \in {"ok", "failed"}, t \in {"partial", "whole"} :
        /\ o = "ok" => t = "whole"
        /\ services' = [services EXCEPT ![k].state = t]
        /\ worker' = [worker EXCEPT ![w].pc = "status", ![w].verdict = o]
  <2>1. services' = services => services' = [services EXCEPT ![k].state = services[k].state]
    BY <1>1 DEF TypeOK, OtherTypeOK
  <2>2. services[k].state \in {"partial", "whole"} BY <1>1 DEF TypeOK, OtherTypeOK
  <2> QED BY <2>1, <2>2 DEF EndSeed
<1>3. /\ worker'[w].pc = "status" /\ worker'[w].verdict = o
      /\ worker'[w].key = k /\ worker'[w].copy = worker[w].copy
      /\ \A v \in Worker \ {w} : worker'[v] = worker[v]
  BY <1>2 DEF TypeOK, WorkerTypeOK
<1>4. services[k].spec = worker[w].copy.spec BY <1>1 DEF SeedingInv
<1>5. Runs(k)' = Runs(k) \union {<<services[k].spec, o>>}
  <2>1. \A v \in Worker : worker'[v].pc = "status" /\ worker'[v].key = k
                            <=> v = w \/ (worker[v].pc = "status" /\ worker[v].key = k)
    BY <1>1, <1>3
  <2> QED BY <1>1, <1>3, <1>4, <2>1 DEF Runs
<1>6. Ended' = [Ended EXCEPT ![k] = @ \union {<<services[k].spec, o>>}]
  BY <1>1, <1>3, <1>5, EndedOthers DEF Ended
<1>7. UNCHANGED <<Asked, Reported>> BY DEF EndSeed, k8s, Asked, Reported
<1> QED BY <1>2, <1>6, <1>7 DEF Desired!Finish, Desired!Outcome

LEMMA updateStatusReports ==
    ASSUME Promise, NEW w \in Worker, updateStatus(w)
    PROVE  Desired!Report(worker[w].key)
<1> USE DEF Promise
<1> DEFINE k == worker[w].key
           e == <<worker[w].copy.spec, worker[w].verdict>>
<1>1. /\ k \in Key /\ worker[w].pc = "status" /\ worker[w].copy \in Copies(k)
      /\ KubernetesTypeOK
  BY WorkerFacts, CopiesTypes DEF updateStatus, RecordOK, TypeOK
<1>2. Runs(k) = {e} BY <1>1, EndedRuns
<1>3. /\ worker'[w].pc = "done" /\ worker'[w].key = k
      /\ \A v \in Worker \ {w} : worker'[v] = worker[v]
  BY GotoFacts DEF updateStatus
<1>4. Runs(k)' = {}
  <2>1. \A v \in Worker : ~(worker'[v].pc = "status" /\ worker'[v].key = k)
    BY <1>1, <1>3 DEF OneWorkerPerKey, Busy
  <2> DEFINE S == {v \in Worker : worker'[v].pc = "status" /\ worker'[v].key = k}
  <2>2. S = {} BY <2>1
  <2>3. Runs(k)' = {<<worker'[v].copy.spec, worker'[v].verdict>> : v \in S} BY <1>3 DEF Runs
  <2> HIDE DEF k, S
  <2> QED BY <2>2, <2>3
<1>5. e \in Ended[k] /\ Ended' = [Ended EXCEPT ![k] = @ \ {e}]
  BY <1>1, <1>2, <1>3, <1>4, EndedOthers DEF Ended
<1>6. services' = services BY DEF updateStatus
<1>7. CASE UNCHANGED <<server, revision, watch>>
  <2>1. UNCHANGED <<Asked, Reported>> BY <1>7 DEF Asked, Reported
  <2> QED BY <1>5, <1>6, <2>1 DEF Desired!Report
<1>8. CASE \E obj \in RestStrategy :
             /\ Store(k, obj) /\ Fresh(k, worker[w].copy)
             /\ obj.spec = server[k].spec /\ obj.status = worker[w].verdict
  <2>1. PICK obj \in RestStrategy :
          /\ Store(k, obj) /\ Fresh(k, worker[w].copy)
          /\ obj.spec = server[k].spec /\ obj.status = worker[w].verdict
    BY <1>8
  <2>2. obj \in ObjectOrNone /\ obj # NoObject BY NoObjectAssumption DEF ObjectOrNone
  <2>3. Asked' = [Asked EXCEPT ![k] = obj.spec] /\ Reported' = [Reported EXCEPT ![k] = obj.status]
    BY <1>1, <2>1, <2>2, StoreSeen
  <2>4. server[k] # NoObject /\ Asked[k] = server[k].spec BY <1>1, <2>1 DEF Fresh, Asked
  <2>5. worker[w].copy.spec = server[k].spec
    BY <1>1, <2>1, <2>4, AheadTypes DEF VersionsInv, VersionsOf, Fresh
  <2>6. Asked' = Asked BY <1>1, <2>1, <2>3, <2>4, SeenTypes
  <2>7. e[1] = Asked[k] /\ e[2] = obj.status BY <2>1, <2>4, <2>5
  <2> HIDE DEF e, k
  <2> QED BY <1>5, <1>6, <2>3, <2>6, <2>7 DEF Desired!Report, k
<1> QED BY <1>7, <1>8, updateStatusStores

LEMMA StepImplements ==
    ASSUME Promise, [Next]_vars
    PROVE  [Desired!Next]_(Desired!vars)
<1> DEFINE Unseen == UNCHANGED <<Asked, Reported, services, Ended>>
<1>1. Unseen => UNCHANGED Desired!vars BY DEF Desired!vars
<1>2. ASSUME UNCHANGED <<server, services>>, Ended' = Ended PROVE Unseen
  BY <1>2 DEF Asked, Reported
<1>3. ASSUME UNCHANGED worker PROVE Ended' = Ended BY <1>3, EndedSame
<1>4. ASSUME NEW k \in Key, Change(k) PROVE Desired!Next \/ Unseen
  BY <1>4, ChangeAsks DEF Desired!Next
<1>5. ASSUME NEW k \in Key, Drift(k) PROVE Desired!Next
  <2>1. UNCHANGED <<Asked, Reported, Ended>> BY <1>3, <1>5 DEF Drift, k8s, Asked, Reported
  <2>2. Desired!Damage(k) BY <1>5, <2>1 DEF Drift, Desired!Damage
  <2> QED BY <2>2 DEF Desired!Next
<1>6. ASSUME NEW k \in Key, Deliver(k) \/ Resync(k) PROVE Unseen
  BY <1>2, <1>3, <1>6 DEF Deliver, Resync, k8s
<1>7. CASE Tick \/ Relist \/ Stop \/ UNCHANGED vars
  <2>1. UNCHANGED <<server, services, worker>> BY <1>7 DEF Tick, Relist, Stop, vars, k8s
  <2> QED BY <1>1, <1>2, <1>3, <2>1
<1>8. CASE Boot
  <2>1. \A w \in Worker : worker'[w].pc = "idle" BY <1>8 DEF Boot, Idle
  <2>2. Ended' = [k \in Key |-> {}] BY <2>1 DEF Ended, Runs
  <2>3. UNCHANGED <<Asked, Reported, services>> BY <1>8 DEF Boot, k8s, Asked, Reported
  <2> QED BY <2>2, <2>3 DEF Desired!Die, Desired!Next
<1>9. ASSUME NEW w \in Worker, BeginSeed(w) \/ EndSeed(w) \/ updateStatus(w) PROVE Desired!Next
  <2>1. worker[w].key \in Key
    BY <1>9, WorkerFacts DEF Promise, BeginSeed, EndSeed, updateStatus
  <2> QED BY <1>9, <2>1, BeginSeedApplies, EndSeedFinishes, updateStatusReports DEF Desired!Next
<1>10. ASSUME NEW w \in Worker, processNextWorkItem(w) \/ syncHandler(w) \/ Forget(w) PROVE Unseen
  <2>1. /\ worker[w].pc # "status" /\ worker'[w].pc # "status"
        /\ \A v \in Worker \ {w} : worker'[v] = worker[v]
    <3>1. CASE processNextWorkItem(w)
      BY <3>1 DEF processNextWorkItem, Idle, Promise, TypeOK, WorkerTypeOK
    <3>2. CASE syncHandler(w) BY <3>2 DEF syncHandler, Goto, Promise, TypeOK, WorkerTypeOK
    <3>3. CASE Forget(w) BY <3>3 DEF Forget, Idle, Promise, TypeOK, WorkerTypeOK
    <3> QED BY <1>10, <3>1, <3>2, <3>3
  <2>2. Ended' = Ended BY <2>1, EndedSame
  <2> QED BY <1>2, <1>10, <2>2 DEF processNextWorkItem, syncHandler, Forget, k8s
<1> QED BY <1>1, <1>4, <1>5, <1>6, <1>7, <1>8, <1>9, <1>10 DEF Next, WorkerStep, Crash, Restart

LEMMA InitImplements == Init => Desired!Init
<1> SUFFICES ASSUME Init PROVE Desired!Init OBVIOUS
<1>1. \A k \in Key : server[k] # NoObject => server[k].spec = 1 /\ server[k].status = ""
  BY ClusterKnown DEF Init
<1>2. Asked \in [Key -> {0, 1}] /\ Reported = [k \in Key |-> ""] BY <1>1 DEF Asked, Reported
<1>3. \A w \in Worker : worker[w].pc = "idle" BY DEF Init, Idle
<1>4. Ended = [k \in Key |-> {}] BY <1>3 DEF Ended, Runs
<1>5. services = [k \in Key |-> [spec |-> 0, state |-> "partial"]] BY DEF Init
<1> QED BY <1>2, <1>4, <1>5 DEF Desired!Init, Desired!Nothing

\* Queue, informer, workers and API server together keep the promise to the
\* author of a resource, whatever fails, is lost or restarted.
THEOREM Implements == Spec => ImplementsDesiredState
<1>1. Spec => []Promise
  BY TypeCorrect, NeverTwoWorkers, VersionsCorrect, OrderCorrect, SeedCorrect, SeedingCorrect, PTL
     DEF Promise
<1>2. Promise /\ [Next]_vars => [Desired!Next]_(Desired!vars) BY StepImplements
<1>3. Spec => Desired!Spec
  BY <1>1, <1>2, InitImplements, PTL DEF Spec, Desired!Spec
<1> QED BY <1>3 DEF ImplementsDesiredState
=============================================================================
