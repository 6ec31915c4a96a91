-------------------------- MODULE KubernetesProofs --------------------------
(***************************************************************************)
(* What the proofs about both controllers need of the queue, the API       *)
(* server and the informer.                                                *)
(***************************************************************************)
EXTENDS KubernetesOrder, TLAPS

(***************************************************************************)
(* Types.                                                                  *)
(***************************************************************************)

LEMMA GetTypes ==
    ASSUME NEW q \in Queue, q.order # <<>>
    PROVE  Get(q) \in Queue /\ Head(q.order) \in Key
<1>1. q.order \in Seq(Key) /\ q.dirty \in SUBSET Key /\ q.processing \in SUBSET Key
  BY DEF Queue
<1>2. Head(q.order) \in Key /\ Tail(q.order) \in Seq(Key) BY <1>1
<1> QED BY <1>1, <1>2 DEF Queue, Get

LEMMA QueueTypes ==
    ASSUME NEW q \in Queue, NEW k \in Key
    PROVE  Add(q, k) \in Queue /\ Done(q, k) \in Queue
<1>1. /\ q.order \in Seq(Key) /\ q.dirty \in SUBSET Key /\ q.processing \in SUBSET Key
      /\ Append(q.order, k) \in Seq(Key)
  BY DEF Queue
<1>2. Add(q, k) \in Queue BY <1>1 DEF Queue, Add
<1>3. Done(q, k) \in Queue BY <1>1 DEF Queue, Done
<1> QED BY <1>2, <1>3

LEMMA ClusterTypes == ASSUME Cluster PROVE KubernetesTypeOK
<1>1. NoObject \in ObjectOrNone BY DEF ObjectOrNone
<1>2. [spec |-> 1, generation |-> 1, resourceVersion |-> 1, status |-> ""] \in ObjectOrNone
  BY DEF ObjectOrNone, RestStrategy, Message
<1>3. server \in [Key -> ObjectOrNone] BY <1>1, <1>2 DEF Cluster
<1>4. watch = [k \in Key |-> <<server[k]>>] BY DEF Cluster
<1>5. watch \in [Key -> Seq(ObjectOrNone)] BY <1>3, <1>4
<1> QED BY <1>1, <1>3, <1>5 DEF Cluster, KubernetesTypeOK

LEMMA StoreTypes ==
    ASSUME KubernetesTypeOK, NEW k \in Key, NEW obj \in ObjectOrNone, Store(k, obj),
           UNCHANGED cache
    PROVE  KubernetesTypeOK'
BY DEF KubernetesTypeOK, Store

LEMMA SeeTypes ==
    ASSUME KubernetesTypeOK, NEW k \in Key, See(k), UNCHANGED k8s
    PROVE  KubernetesTypeOK'
<1>1. Head(watch[k]) \in ObjectOrNone /\ Tail(watch[k]) \in Seq(ObjectOrNone)
  BY DEF KubernetesTypeOK, See
<1>2. cache' \in [Key -> ObjectOrNone] /\ watch' \in [Key -> Seq(ObjectOrNone)]
  BY <1>1 DEF KubernetesTypeOK, See
<1> QED BY <1>2 DEF KubernetesTypeOK, k8s

LEMMA ListTypes ==
    ASSUME KubernetesTypeOK, List, UNCHANGED k8s,
           cache' = cache \/ cache' = [k \in Key |-> NoObject]
    PROVE  KubernetesTypeOK'
<1>1. watch' \in [Key -> Seq(ObjectOrNone)] BY DEF KubernetesTypeOK, List
<1>2. NoObject \in ObjectOrNone BY DEF ObjectOrNone
<1> QED BY <1>1, <1>2 DEF KubernetesTypeOK, k8s

\* What users write, and a controller's status.
LEMMA EditStores ==
    ASSUME KubernetesTypeOK, NEW j \in Key, Edit(j)
    PROVE  \E obj \in ObjectOrNone :
             /\ Store(j, obj)
             /\ obj # NoObject =>
                  /\ obj.resourceVersion = revision + 1
                  /\ obj.spec = revision + 1 \/ (server[j] # NoObject /\ obj.spec = server[j].spec)
             /\ server[j] # NoObject /\ obj # NoObject => obj.status = server[j].status
             /\ server[j] = NoObject => obj # NoObject /\ obj.status = ""
<1> DEFINE o == server[j]
           n == revision + 1
           o1 == [spec |-> n, generation |-> 1, resourceVersion |-> n, status |-> ""]
           o2 == [o EXCEPT !.spec = n, !.generation = @ + 1, !.resourceVersion = n]
           o3 == [o EXCEPT !.resourceVersion = n]
<1>1. o \in ObjectOrNone /\ n \in Nat BY DEF KubernetesTypeOK
<1>2. CASE o = NoObject /\ Store(j, o1)
  <2>1. o1 \in RestStrategy /\ o1.resourceVersion = n /\ o1.spec = n /\ o1.status = ""
    BY <1>1 DEF RestStrategy, Message
  <2> HIDE DEF o1
  <2> QED BY <1>2, <2>1, NoObjectAssumption DEF ObjectOrNone
<1>3. CASE o # NoObject /\ Store(j, o2)
  <2>1. o \in RestStrategy BY <1>1, <1>3 DEF ObjectOrNone
  <2>2. o2.resourceVersion = n /\ o2.spec = n /\ o2.status = o.status
    BY <2>1 DEF RestStrategy
  <2>3. o2 \in RestStrategy
    <3>1. o.generation + 1 \in Nat BY <2>1 DEF RestStrategy
    <3> HIDE DEF o, n
    <3> QED BY <1>1, <2>1, <3>1 DEF RestStrategy
  <2> HIDE DEF o2
  <2> QED BY <1>3, <2>2, <2>3 DEF ObjectOrNone
<1>4. CASE o # NoObject /\ Store(j, o3)
  <2>1. o \in RestStrategy BY <1>1, <1>4 DEF ObjectOrNone
  <2>2. o3.resourceVersion = n /\ o3.spec = o.spec /\ o3.status = o.status
    BY <2>1 DEF RestStrategy
  <2>3. o3 \in RestStrategy
    <3> HIDE DEF o, n
    <3> QED BY <1>1, <2>1 DEF RestStrategy
  <2> HIDE DEF o3
  <2> QED BY <1>4, <2>2, <2>3 DEF ObjectOrNone
<1>5. CASE o # NoObject /\ Store(j, NoObject) BY <1>5 DEF ObjectOrNone
<1> QED BY <1>2, <1>3, <1>4, <1>5 DEF Edit

LEMMA StatusOf ==
    ASSUME KubernetesTypeOK, NEW k \in Key, NEW v \in Message, NEW copy, Fresh(k, copy)
    PROVE  LET n == [server[k] EXCEPT !.status = v, !.resourceVersion = revision + 1]
           IN  /\ n \in RestStrategy
               /\ n.resourceVersion = revision + 1 /\ n.spec = server[k].spec /\ n.status = v
<1>1. server[k] \in RestStrategy /\ revision + 1 \in Nat
  BY DEF Fresh, KubernetesTypeOK, ObjectOrNone
<1> QED BY <1>1 DEF RestStrategy

(***************************************************************************)
(* What a step can do to what is known of one resource.                    *)
(***************************************************************************)

Same(k) ==
    /\ server'[k] = server[k] /\ cache'[k] = cache[k] /\ watch'[k] = watch[k]
    /\ revision' >= revision
WrittenAs(k, obj) ==
    /\ server'[k] = obj /\ cache'[k] = cache[k] /\ watch'[k] = Append(watch[k], obj)
    /\ revision' = revision + 1
    /\ obj # NoObject =>
         /\ obj.resourceVersion = revision + 1
         /\ obj.spec = revision + 1 \/ (server[k] # NoObject /\ obj.spec = server[k].spec)
Written(k) == \E obj \in ObjectOrNone : WrittenAs(k, obj)
Delivered(k) ==
    /\ watch[k] # <<>> /\ server'[k] = server[k] /\ revision' = revision
    /\ cache'[k] = Head(watch[k]) /\ watch'[k] = Tail(watch[k])
Listed(k) ==
    /\ server'[k] = server[k] /\ revision' = revision
    /\ watch'[k] = <<server[k]>> /\ cache'[k] \in {cache[k], NoObject}
Known(k) == Same(k) \/ Written(k) \/ Delivered(k) \/ Listed(k)

LEMMA StoreKnown ==
    ASSUME KubernetesTypeOK, NEW j \in Key, NEW obj \in ObjectOrNone, Store(j, obj), UNCHANGED cache,
           obj # NoObject =>
             /\ obj.resourceVersion = revision + 1
             /\ obj.spec = revision + 1 \/ (server[j] # NoObject /\ obj.spec = server[j].spec),
           NEW k \in Key
    PROVE  Known(k)
<1>1. CASE k = j
  <2>1. WrittenAs(k, obj) BY <1>1 DEF WrittenAs, Store, KubernetesTypeOK
  <2> QED BY <2>1 DEF Written, Known
<1>2. CASE k # j BY <1>2 DEF Same, Store, KubernetesTypeOK, Known
<1> QED BY <1>1, <1>2

LEMMA EditKnown ==
    ASSUME KubernetesTypeOK, NEW j \in Key, Edit(j), UNCHANGED cache, NEW k \in Key
    PROVE  Known(k)
BY EditStores, StoreKnown

LEMMA SeeKnown ==
    ASSUME KubernetesTypeOK, NEW j \in Key, See(j), UNCHANGED k8s, NEW k \in Key
    PROVE  Known(k)
<1>1. CASE j = k BY <1>1 DEF Delivered, Known, k8s, KubernetesTypeOK, See
<1>2. CASE j # k BY <1>2 DEF Same, Known, k8s, KubernetesTypeOK, See
<1> QED BY <1>1, <1>2

LEMMA ListKnown ==
    ASSUME List, UNCHANGED k8s, cache' = cache \/ cache' = [k \in Key |-> NoObject], NEW k \in Key
    PROVE  Known(k)
BY DEF Listed, Known, k8s, List

LEMMA SameKnown ==
    ASSUME KubernetesTypeOK, UNCHANGED <<server, revision, cache, watch>>, NEW k \in Key
    PROVE  Known(k)
BY DEF Same, Known, KubernetesTypeOK

(***************************************************************************)
(* The states of a resource still to be acted on, after a step.            *)
(***************************************************************************)

LEMMA AheadTypes ==
    ASSUME KubernetesTypeOK, NEW k \in Key
    PROVE  /\ revision \in Nat /\ Ahead(k) \subseteq RestStrategy /\ NoObject \notin Ahead(k)
           /\ \A o \in RestStrategy : o.spec \in Nat /\ o.resourceVersion \in Nat
           /\ server[k] \in ObjectOrNone /\ watch[k] \in Seq(ObjectOrNone)
           /\ cache[k] # NoObject => cache[k] \in Ahead(k)
           /\ server[k] # NoObject => server[k] \in Ahead(k)
           /\ \A i \in DOMAIN watch[k] : watch[k][i] # NoObject => watch[k][i] \in Ahead(k)
<1>1. /\ server[k] \in ObjectOrNone /\ cache[k] \in ObjectOrNone
      /\ \A i \in DOMAIN watch[k] : watch[k][i] \in ObjectOrNone
  BY DEF KubernetesTypeOK
<1>2. Ahead(k) \subseteq RestStrategy BY <1>1 DEF Ahead, ObjectOrNone
<1>3. \A o \in RestStrategy : o.spec \in Nat /\ o.resourceVersion \in Nat BY DEF RestStrategy
<1> QED BY <1>1, <1>2, <1>3 DEF KubernetesTypeOK, Ahead

LEMMA AheadSame == ASSUME NEW k, Same(k) PROVE Ahead(k)' = Ahead(k)
BY DEF Same, Ahead

LEMMA AheadWritten ==
    ASSUME KubernetesTypeOK, NEW k \in Key, NEW obj \in ObjectOrNone, WrittenAs(k, obj)
    PROVE  Ahead(k)' \subseteq Ahead(k) \union ({obj} \ {NoObject})
<1>1. watch[k] \in Seq(ObjectOrNone) BY DEF KubernetesTypeOK
<1>2. \A i \in DOMAIN watch'[k] :
        watch'[k][i] = obj \/ (i \in DOMAIN watch[k] /\ watch'[k][i] = watch[k][i])
  BY <1>1 DEF WrittenAs
<1> QED BY <1>2 DEF Ahead, WrittenAs

LEMMA AheadDelivered ==
    ASSUME KubernetesTypeOK, NEW k \in Key, Delivered(k)
    PROVE  Ahead(k)' \subseteq Ahead(k)
<1>1. watch[k] \in Seq(ObjectOrNone) /\ watch[k] # <<>> BY DEF Delivered, KubernetesTypeOK
<1>2. 1 \in DOMAIN watch[k] /\ cache'[k] = watch[k][1] BY <1>1 DEF Delivered
<1>3. \A i \in DOMAIN watch'[k] : i + 1 \in DOMAIN watch[k] /\ watch'[k][i] = watch[k][i + 1]
  BY <1>1 DEF Delivered
<1> QED BY <1>2, <1>3 DEF Ahead, Delivered

LEMMA AheadListed == ASSUME NEW k, Listed(k) PROVE Ahead(k)' \subseteq Ahead(k)
<1>1. \A i \in DOMAIN watch'[k] : watch'[k][i] = server[k] BY DEF Listed
<1> QED BY <1>1 DEF Ahead, Listed

\* A step adds at most one state to those ahead, with a version of its own.
LEMMA AheadNext ==
    ASSUME KubernetesTypeOK, NEW k \in Key, Known(k)
    PROVE  \/ Ahead(k)' \subseteq Ahead(k) /\ revision' >= revision
           \/ \E obj \in RestStrategy :
                /\ Ahead(k)' \subseteq Ahead(k) \union {obj}
                /\ obj.resourceVersion = revision + 1 /\ revision' = revision + 1
<1>0. revision \in Nat BY DEF KubernetesTypeOK
<1>1. CASE Same(k) BY <1>1, AheadSame DEF Same
<1>2. CASE Written(k)
  <2>1. PICK obj \in ObjectOrNone : WrittenAs(k, obj) BY <1>2 DEF Written
  <2>2. Ahead(k)' \subseteq Ahead(k) \union ({obj} \ {NoObject}) BY <2>1, AheadWritten
  <2> QED BY <1>0, <2>1, <2>2 DEF WrittenAs, ObjectOrNone
<1>3. CASE Delivered(k) \/ Listed(k)
  BY <1>0, <1>3, AheadDelivered, AheadListed DEF Delivered, Listed
<1> QED BY <1>1, <1>2, <1>3 DEF Known

\* At the start all that is known is the server's state, if anything.
LEMMA ClusterKnown ==
    ASSUME Cluster, NEW k \in Key
    PROVE  /\ cache[k] = NoObject /\ revision = 1
           /\ watch[k] = <<server[k]>> /\ Ahead(k) = {server[k]} \ {NoObject}
           /\ server[k] # NoObject =>
                server[k].spec = 1 /\ server[k].resourceVersion = 1 /\ server[k].status = ""
<1>1. /\ cache = [j \in Key |-> NoObject] /\ revision = 1
      /\ watch = [j \in Key |-> <<server[j]>>]
      /\ server[k] \in {NoObject, [spec |-> 1, generation |-> 1,
                                   resourceVersion |-> 1, status |-> ""]}
  BY DEF Cluster
<1>2. Ahead(k) = {server[k]} \ {NoObject}
  <2>1. cache[k] = NoObject /\ watch[k] = <<server[k]>> BY <1>1
  <2> QED BY <2>1 DEF Ahead
<1>3. server[k] # NoObject =>
        server[k].spec = 1 /\ server[k].resourceVersion = 1 /\ server[k].status = ""
  <2> DEFINE r == [spec |-> 1, generation |-> 1, resourceVersion |-> 1, status |-> ""]
  <2>1. r.spec = 1 /\ r.resourceVersion = 1 /\ r.status = "" OBVIOUS
  <2>2. server[k] = NoObject \/ server[k] = r BY <1>1
  <2> HIDE DEF r
  <2> QED BY <2>1, <2>2
<1> QED BY <1>1, <1>2, <1>3

(***************************************************************************)
(* One resource version, one spec.                                         *)
(***************************************************************************)

LEMMA VersionsInit ==
    ASSUME Cluster, NEW k \in Key PROVE VersionsOf(k, {})
<1>1. \A o \in Ahead(k) \union {} : o = server[k] /\ o.resourceVersion = 1 BY ClusterKnown
<1>2. revision = 1 BY ClusterKnown
<1>3. 1 <= 1 OBVIOUS
<1> QED BY <1>1, <1>2, <1>3 DEF VersionsOf

\* Copies may be dropped, and taken of what is ahead.
LEMMA VersionsStep ==
    ASSUME KubernetesTypeOK, revision' \in Nat, NEW k \in Key, Known(k),
           NEW C \in SUBSET RestStrategy, NEW D, D \subseteq C \union Ahead(k),
           VersionsOf(k, C)
    PROVE  VersionsOf(k, D)'
<1> DEFINE K == Ahead(k) \union C
           L == Ahead(k)' \union D
<1>1. /\ \A o, p \in K : o.resourceVersion = p.resourceVersion => o.spec = p.spec
      /\ \A o \in K : o.resourceVersion <= revision /\ o.resourceVersion \in Nat
      /\ revision \in Nat
  BY AheadTypes DEF VersionsOf
<1>2. SUFFICES /\ \A o, p \in L : o.resourceVersion = p.resourceVersion => o.spec = p.spec
               /\ \A o \in L : o.resourceVersion <= revision'
  BY DEF VersionsOf
<1>3. CASE Ahead(k)' \subseteq Ahead(k) /\ revision' >= revision
  <2>1. L \subseteq K BY <1>3
  <2> HIDE DEF K, L
  <2> QED BY <1>1, <1>3, <2>1
<1>4. CASE \E obj \in RestStrategy :
             /\ Ahead(k)' \subseteq Ahead(k) \union {obj}
             /\ obj.resourceVersion = revision + 1 /\ revision' = revision + 1
  <2>1. PICK obj \in RestStrategy :
          /\ Ahead(k)' \subseteq Ahead(k) \union {obj}
          /\ obj.resourceVersion = revision + 1 /\ revision' = revision + 1
    BY <1>4
  <2>2. L \subseteq K \union {obj} BY <2>1
  <2> HIDE DEF K, L
  <2>3. \A o \in K : o.resourceVersion # obj.resourceVersion BY <1>1, <2>1
  <2>4. \A o \in L : o.resourceVersion <= revision' BY <1>1, <2>1, <2>2
  <2>5. \A o, p \in L : o.resourceVersion = p.resourceVersion => o.spec = p.spec
    BY <1>1, <2>1, <2>2, <2>3
  <2> QED BY <2>4, <2>5
<1> QED BY <1>3, <1>4, AheadNext

(***************************************************************************)
(* The queue.                                                              *)
(***************************************************************************)

LEMMA AddWellOrdered ==
    ASSUME NEW q \in Queue, NEW k \in Key, WellOrdered(q)
    PROVE  WellOrdered(Add(q, k)) /\ Add(q, k).processing = q.processing
<1>1. CASE q.down \/ k \in q.dirty BY <1>1 DEF Add
<1>2. CASE ~q.down /\ k \notin q.dirty /\ k \in q.processing
  BY <1>2 DEF Add, WellOrdered, Queue
<1>3. CASE ~q.down /\ k \notin q.dirty /\ k \notin q.processing
  <2> DEFINE p == [q EXCEPT !.dirty = @ \union {k}, !.order = Append(@, k)]
  <2>1. Add(q, k) = p BY <1>3 DEF Add
  <2>2. /\ p.order = Append(q.order, k) /\ p.dirty = q.dirty \union {k}
        /\ p.processing = q.processing
    BY DEF Queue
  <2>3. q.order \in Seq(Key) BY DEF Queue
  <2>4. /\ DOMAIN p.order = 1..(Len(q.order) + 1)
        /\ \A i \in 1..Len(q.order) : p.order[i] = q.order[i]
        /\ p.order[Len(q.order) + 1] = k
    BY <2>2, <2>3
  <2>5. \A i \in 1..Len(q.order) : q.order[i] # k BY <1>3, <2>3 DEF WellOrdered
  <2> HIDE DEF p
  <2> QED BY <1>3, <2>1, <2>2, <2>3, <2>4, <2>5 DEF WellOrdered
<1> QED BY <1>1, <1>2, <1>3

LEMMA GetWellOrdered ==
    ASSUME NEW q \in Queue, q.order # <<>>, WellOrdered(q)
    PROVE  /\ WellOrdered(Get(q))
           /\ Get(q).processing = q.processing \union {Head(q.order)}
           /\ Head(q.order) \notin q.processing
<1>1. q.order \in Seq(Key) BY DEF Queue
<1>2. /\ Get(q).order = Tail(q.order) /\ Get(q).dirty = q.dirty \ {Head(q.order)}
      /\ Get(q).processing = q.processing \union {Head(q.order)}
  BY DEF Get, Queue
<1>3. /\ Len(q.order) > 0 /\ Head(q.order) = q.order[1]
      /\ DOMAIN Tail(q.order) = 1..(Len(q.order) - 1)
      /\ \A i \in 1..(Len(q.order) - 1) : Tail(q.order)[i] = q.order[i + 1]
      /\ DOMAIN q.order = 1..Len(q.order)
  BY <1>1
<1>4. \A i \in 1..(Len(q.order) - 1) : i + 1 \in DOMAIN q.order /\ i + 1 # 1 BY <1>3
<1> DEFINE p == Get(q)
           t == Tail(q.order)
<1>5. \A i \in 1..(Len(q.order) - 1) : q.order[i + 1] # Head(q.order)
  BY <1>3, <1>4 DEF WellOrdered
<1>6. ASSUME NEW i \in DOMAIN t PROVE t[i] \in p.dirty /\ t[i] \notin p.processing
  BY <1>2, <1>3, <1>4, <1>5, <1>6 DEF WellOrdered
<1>7. ASSUME NEW i \in DOMAIN t, NEW j \in DOMAIN t, t[i] = t[j] PROVE i = j
  <2>1. q.order[i + 1] = q.order[j + 1] BY <1>3, <1>7
  <2>2. i + 1 = j + 1 BY <1>3, <1>4, <1>7, <2>1 DEF WellOrdered
  <2> QED BY <1>3, <1>7, <2>2
<1>8. WellOrdered(p) BY <1>2, <1>6, <1>7 DEF WellOrdered
<1>9. Head(q.order) \notin q.processing BY <1>3 DEF WellOrdered
<1> QED BY <1>2, <1>8, <1>9

LEMMA DoneWellOrdered ==
    ASSUME NEW q \in Queue, NEW k \in q.processing, WellOrdered(q)
    PROVE  WellOrdered(Done(q, k)) /\ Done(q, k).processing = q.processing \ {k}
<1>1. q.order \in Seq(Key) /\ k \in Key BY DEF Queue
<1>2. CASE k \notin q.dirty
  BY <1>2 DEF Done, WellOrdered, Queue
<1>3. CASE k \in q.dirty
  <2> DEFINE p == Done(q, k)
  <2>0. Done(q, k) = p OBVIOUS
  <2>1. /\ p.order = Append(q.order, k) /\ p.dirty = q.dirty
        /\ p.processing = q.processing \ {k}
    BY <1>3 DEF Done, Queue
  <2>2. /\ DOMAIN p.order = 1..(Len(q.order) + 1)
        /\ \A i \in 1..Len(q.order) : p.order[i] = q.order[i]
        /\ p.order[Len(q.order) + 1] = k
    BY <1>1, <2>1
  <2>3. \A i \in 1..Len(q.order) : q.order[i] # k BY <1>1 DEF WellOrdered
  <2> HIDE DEF p
  <2> QED BY <1>1, <1>3, <2>0, <2>1, <2>2, <2>3 DEF WellOrdered
<1> QED BY <1>2, <1>3

LEMMA ShutDownWellOrdered ==
    ASSUME NEW q \in Queue, WellOrdered(q)
    PROVE  WellOrdered(ShutDown(q)) /\ ShutDown(q).processing = q.processing
BY DEF ShutDown, WellOrdered, Queue

LEMMA EmptyWellOrdered == WellOrdered(EmptyQueue)
BY DEF EmptyQueue, WellOrdered

(***************************************************************************)
(* Specs in the order they were written in.                                *)
(***************************************************************************)

LEMMA OrderInit ==
    ASSUME Cluster, NEW k \in Key PROVE SpecOrderOf(k, {}, 0) /\ WatchInOrder(k)
<1>1. \A o \in Ahead(k) \union {} : o.spec = 1 BY ClusterKnown
<1>2. revision = 1 /\ cache[k] = NoObject /\ watch[k] = <<server[k]>> BY ClusterKnown
<1>3. SpecOrderOf(k, {}, 0) BY <1>1, <1>2 DEF SpecOrderOf
<1>4. WatchInOrder(k)
  <2>1. \A i \in DOMAIN watch[k] : watch[k][i] = server[k] BY <1>2
  <2>2. server[k] # NoObject => server[k].spec = 1 BY ClusterKnown
  <2> QED BY <2>1, <2>2 DEF WatchInOrder
<1> QED BY <1>3, <1>4

LEMMA WrittenOrder ==
    ASSUME KubernetesTypeOK, revision' \in Nat, NEW k \in Key, Written(k),
           NEW C \in SUBSET RestStrategy, NEW s \in Nat, SpecOrderOf(k, C, s), WatchInOrder(k)
    PROVE  SpecOrderOf(k, C, s)' /\ WatchInOrder(k)'
<1>1. PICK obj \in ObjectOrNone : WrittenAs(k, obj) BY DEF Written
<1> DEFINE n == Len(watch[k]) + 1
<1>2. /\ revision \in Nat /\ revision' = revision + 1
      /\ server'[k] = obj /\ cache'[k] = cache[k]
      /\ \A o \in Ahead(k) \union C : o.spec \in Nat
  BY <1>1, AheadTypes DEF WrittenAs
<1>3. /\ DOMAIN watch'[k] = 1..n /\ watch'[k][n] = obj
      /\ \A i \in 1..(n - 1) : i \in DOMAIN watch[k] /\ watch'[k][i] = watch[k][i]
      /\ n \in Nat /\ n > 0
  BY <1>1, AheadTypes DEF WrittenAs
<1>4. Ahead(k)' \subseteq Ahead(k) \union ({obj} \ {NoObject}) BY <1>1, AheadWritten
<1>5. CASE obj = NoObject
  <2>1. SpecOrderOf(k, C, s)' BY <1>2, <1>4, <1>5 DEF SpecOrderOf
  <2>2. WatchInOrder(k)'
    <3>1. \A i, j \in 1..n : i <= j /\ watch'[k][i] # NoObject /\ watch'[k][j] # NoObject
                               => i \in 1..(n - 1) /\ j \in 1..(n - 1)
      BY <1>3, <1>5
    <3> QED BY <1>2, <1>3, <1>5, <3>1 DEF WatchInOrder
  <2> QED BY <2>1, <2>2
<1>6. CASE obj # NoObject
  <2>1. /\ obj.spec \in Nat /\ 0 < obj.spec /\ obj.spec <= revision + 1
        /\ \A i \in DOMAIN watch[k] : watch[k][i] # NoObject => watch[k][i].spec <= obj.spec
        /\ \A c \in C : c.spec <= obj.spec
        /\ s <= obj.spec
        /\ cache[k] # NoObject => cache[k].spec <= obj.spec
    <3>1. CASE obj.spec = revision + 1
      BY <1>2, <3>1, AheadTypes DEF SpecOrderOf
    <3>2. CASE server[k] # NoObject /\ obj.spec = server[k].spec
      <4>1. /\ server[k] \in Ahead(k) /\ server[k].spec \in Nat
            /\ 0 < server[k].spec /\ server[k].spec <= revision
        BY <1>2, <3>2, AheadTypes DEF SpecOrderOf
      <4>2. cache[k] # NoObject => cache[k].spec <= server[k].spec
        BY <4>1 DEF SpecOrderOf
      <4>3. \A i \in DOMAIN watch[k] : watch[k][i] # NoObject => watch[k][i].spec <= server[k].spec
        BY <3>2 DEF WatchInOrder
      <4>4. \A c \in C : c.spec <= server[k].spec BY <4>1 DEF SpecOrderOf
      <4>5. s <= server[k].spec BY <4>1 DEF SpecOrderOf
      <4>6. obj.spec \in Nat /\ 0 < obj.spec /\ obj.spec <= revision + 1 BY <1>2, <3>2, <4>1
      <4> QED BY <3>2, <4>2, <4>3, <4>4, <4>5, <4>6
    <3> QED BY <1>1, <1>6, <3>1, <3>2 DEF WrittenAs
  <2>2. \A o \in Ahead(k)' : o \in Ahead(k) \/ o = obj BY <1>4
  <2>3. s <= revision' BY <1>2 DEF SpecOrderOf
  <2>4. \A o \in Ahead(k)' : s <= o.spec BY <2>1, <2>2 DEF SpecOrderOf
  <2>5. \A c \in C, o \in Ahead(k)' : c.spec <= o.spec BY <2>1, <2>2 DEF SpecOrderOf
  <2>6. \A o \in Ahead(k)' \union C : 0 < o.spec /\ o.spec <= revision'
    BY <1>2, <2>1, <2>2 DEF SpecOrderOf
  <2>7. cache'[k] # NoObject => \A o \in Ahead(k)' : cache'[k].spec <= o.spec
    BY <1>2, <2>1, <2>2 DEF SpecOrderOf
  <2>8. \A i \in 1..n : watch'[k][i] # NoObject => watch'[k][i].spec <= obj.spec
    <3>1. ASSUME NEW i \in 1..n, i # n, watch'[k][i] # NoObject PROVE watch'[k][i].spec <= obj.spec
      BY <1>3, <2>1, <3>1
    <3> QED BY <1>3, <2>1, <3>1
  <2>9. \A i, j \in 1..n : i <= j /\ watch'[k][i] # NoObject /\ watch'[k][j] # NoObject
                             => watch'[k][i].spec <= watch'[k][j].spec
    <3> SUFFICES ASSUME NEW i \in 1..n, NEW j \in 1..n, i <= j,
                        watch'[k][i] # NoObject, watch'[k][j] # NoObject
                 PROVE  watch'[k][i].spec <= watch'[k][j].spec
      OBVIOUS
    <3>1. CASE j = n BY <1>3, <2>8, <3>1
    <3>2. CASE j # n
      <4>1. i \in 1..(n - 1) /\ j \in 1..(n - 1) BY <1>3, <3>2
      <4> QED BY <1>3, <4>1 DEF WatchInOrder
    <3> QED BY <3>1, <3>2
  <2>10. SpecOrderOf(k, C, s)' BY <2>3, <2>4, <2>5, <2>6, <2>7 DEF SpecOrderOf
  <2>11. WatchInOrder(k)' BY <1>2, <1>3, <2>8, <2>9 DEF WatchInOrder
  <2> QED BY <2>10, <2>11
<1> QED BY <1>5, <1>6

LEMMA DeliveredOrder ==
    ASSUME KubernetesTypeOK, NEW k \in Key, Delivered(k),
           NEW C \in SUBSET RestStrategy, NEW s \in Nat, SpecOrderOf(k, C, s), WatchInOrder(k)
    PROVE  SpecOrderOf(k, C, s)' /\ WatchInOrder(k)'
<1>1. watch[k] \in Seq(ObjectOrNone) /\ watch[k] # <<>> BY AheadTypes DEF Delivered
<1>2. /\ 1 \in DOMAIN watch[k] /\ cache'[k] = watch[k][1] /\ server'[k] = server[k]
      /\ \A i \in DOMAIN watch'[k] : i + 1 \in DOMAIN watch[k] /\ watch'[k][i] = watch[k][i + 1]
      /\ \A i \in DOMAIN watch'[k] : i \in Nat
      /\ \A i \in DOMAIN watch[k] : i \in Nat /\ 1 <= i
  BY <1>1 DEF Delivered
<1>3. WatchInOrder(k)'
  <2>1. ASSUME NEW i \in DOMAIN watch'[k], NEW j \in DOMAIN watch'[k], i <= j,
               watch'[k][i] # NoObject, watch'[k][j] # NoObject
        PROVE  watch'[k][i].spec <= watch'[k][j].spec
    <3>1. i + 1 <= j + 1 BY <1>2, <2>1
    <3> QED BY <1>2, <2>1, <3>1 DEF WatchInOrder
  <2>2. ASSUME NEW i \in DOMAIN watch'[k], watch'[k][i] # NoObject, server'[k] # NoObject
        PROVE  watch'[k][i].spec <= server'[k].spec
    BY <1>2, <2>2 DEF WatchInOrder
  <2> QED BY <2>1, <2>2 DEF WatchInOrder
<1>4. Ahead(k)' \subseteq Ahead(k) BY AheadDelivered
<1>5. ASSUME cache'[k] # NoObject, NEW o \in Ahead(k)' PROVE cache'[k].spec <= o.spec
  <2>1. CASE o = server'[k] BY <1>2, <1>5, <2>1 DEF WatchInOrder, Ahead
  <2>2. CASE o = cache'[k] BY <1>2, <1>5, <2>2 DEF WatchInOrder
  <2>3. ASSUME NEW i \in DOMAIN watch'[k], o = watch'[k][i] PROVE cache'[k].spec <= o.spec
    <3>1. o # NoObject BY <1>5 DEF Ahead
    <3> QED BY <1>2, <1>5, <2>3, <3>1 DEF WatchInOrder
  <2> QED BY <1>5, <2>1, <2>2, <2>3 DEF Ahead
<1>6. SpecOrderOf(k, C, s)' BY <1>4, <1>5 DEF SpecOrderOf, Delivered
<1> QED BY <1>3, <1>6

LEMMA ListedOrder ==
    ASSUME KubernetesTypeOK, NEW k \in Key, Listed(k),
           NEW C \in SUBSET RestStrategy, NEW s \in Nat, SpecOrderOf(k, C, s)
    PROVE  SpecOrderOf(k, C, s)' /\ WatchInOrder(k)'
<1>1. SpecOrderOf(k, C, s)' BY AheadListed DEF Listed, SpecOrderOf
<1>2. \A i \in DOMAIN watch'[k] : watch'[k][i] = server'[k] BY DEF Listed
<1>3. server'[k] # NoObject => server'[k].spec \in Nat BY AheadTypes DEF Listed
<1> QED BY <1>1, <1>2, <1>3 DEF WatchInOrder

LEMMA SameOrder ==
    ASSUME KubernetesTypeOK, revision' \in Nat, NEW k \in Key, Same(k),
           NEW C \in SUBSET RestStrategy, NEW s \in Nat, SpecOrderOf(k, C, s), WatchInOrder(k)
    PROVE  SpecOrderOf(k, C, s)' /\ WatchInOrder(k)'
<1>1. Ahead(k)' = Ahead(k) /\ cache'[k] = cache[k] BY AheadSame DEF Same
<1>2. /\ revision \in Nat /\ revision' >= revision
      /\ \A o \in Ahead(k) \union C : o.spec \in Nat
  BY AheadTypes DEF Same
<1>3. SpecOrderOf(k, C, s)' BY <1>1, <1>2 DEF SpecOrderOf
<1> QED BY <1>3 DEF WatchInOrder, Same

\* Copies may be dropped and taken from the informer; what is seeded may become
\* what a copy has.
LEMMA OrderStep ==
    ASSUME KubernetesTypeOK, revision' \in Nat, NEW k \in Key, Known(k),
           NEW C \in SUBSET RestStrategy, NEW s \in Nat,
           NEW D, D \subseteq (C \union {cache[k]}) \ {NoObject},
           NEW t, t = s \/ \E c \in C : t = c.spec,
           SpecOrderOf(k, C, s), WatchInOrder(k)
    PROVE  SpecOrderOf(k, D, t)' /\ WatchInOrder(k)'
<1>1. /\ \A o \in Ahead(k) \union C : o.spec \in Nat /\ o \in RestStrategy
      /\ revision \in Nat
      /\ \A d \in D : d \in C \/ (d = cache[k] /\ cache[k] # NoObject /\ d \in Ahead(k))
  BY AheadTypes
<1>2. D \in SUBSET RestStrategy /\ t \in Nat BY <1>1
<1>3. SpecOrderOf(k, D, t)
  <2>1. t <= revision /\ \A o \in Ahead(k) : t <= o.spec BY <1>1 DEF SpecOrderOf
  <2>2. \A c \in D, o \in Ahead(k) : c.spec <= o.spec BY <1>1 DEF SpecOrderOf
  <2>3. \A o \in Ahead(k) \union D : 0 < o.spec /\ o.spec <= revision BY <1>1 DEF SpecOrderOf
  <2> QED BY <2>1, <2>2, <2>3 DEF SpecOrderOf
<1> QED BY <1>2, <1>3, SameOrder, WrittenOrder, DeliveredOrder, ListedOrder DEF Known

(***************************************************************************)
(* What the author of a resource sees of a step.                           *)
(***************************************************************************)

LEMMA SeenTypes ==
    ASSUME KubernetesTypeOK
    PROVE  Asked \in [Key -> Nat] /\ Reported \in [Key -> Message]
<1>1. \A k \in Key : server[k] # NoObject => server[k] \in RestStrategy
  BY DEF KubernetesTypeOK, ObjectOrNone
<1> QED BY <1>1 DEF Asked, Reported, RestStrategy, Message

LEMMA StoreSeen ==
    ASSUME KubernetesTypeOK, NEW k \in Key, NEW obj \in ObjectOrNone, Store(k, obj)
    PROVE  /\ Asked' = [Asked EXCEPT ![k] = IF obj = NoObject THEN 0 ELSE obj.spec]
           /\ Reported' = [Reported EXCEPT ![k] = IF obj = NoObject THEN "" ELSE obj.status]
<1>1. \A j \in Key : server'[j] = IF j = k THEN obj ELSE server[j] BY DEF Store, KubernetesTypeOK
<1> QED BY <1>1 DEF Asked, Reported

LEMMA EditSeen ==
    ASSUME KubernetesTypeOK, NEW k \in Key, Edit(k), server[k] # NoObject => server[k].spec > 0
    PROVE  \/ Asked' = Asked /\ Reported' = Reported
           \/ Asked' = [Asked EXCEPT ![k] = 0] /\ Reported' = [Reported EXCEPT ![k] = ""]
           \/ /\ Asked' = [Asked EXCEPT ![k] = revision + 1]
              /\ Reported' = IF Asked[k] = 0 THEN [Reported EXCEPT ![k] = ""] ELSE Reported
<1>1. PICK obj \in ObjectOrNone :
        /\ Store(k, obj)
        /\ obj # NoObject =>
             obj.spec = revision + 1 \/ (server[k] # NoObject /\ obj.spec = server[k].spec)
        /\ server[k] # NoObject /\ obj # NoObject => obj.status = server[k].status
        /\ server[k] = NoObject => obj # NoObject /\ obj.status = ""
  BY EditStores
<1>2. /\ Asked' = [Asked EXCEPT ![k] = IF obj = NoObject THEN 0 ELSE obj.spec]
      /\ Reported' = [Reported EXCEPT ![k] = IF obj = NoObject THEN "" ELSE obj.status]
  BY <1>1, StoreSeen
<1>3. /\ Asked[k] = IF server[k] = NoObject THEN 0 ELSE server[k].spec
      /\ Reported[k] = IF server[k] = NoObject THEN "" ELSE server[k].status
  BY DEF Asked, Reported
<1>4. CASE obj = NoObject BY <1>2, <1>4
<1>5. CASE obj # NoObject /\ server[k] = NoObject BY <1>1, <1>2, <1>3, <1>5
<1>6. CASE obj # NoObject /\ server[k] # NoObject
  <2>1. Reported' = Reported BY <1>1, <1>2, <1>3, <1>6, SeenTypes
  <2>2. Asked[k] # 0
    <3>1. server[k].spec \in Nat BY <1>6, AheadTypes
    <3> QED BY <1>3, <1>6, <3>1
  <2>3. CASE obj.spec = revision + 1 BY <1>2, <1>6, <2>1, <2>2, <2>3
  <2>4. CASE obj.spec = server[k].spec BY <1>2, <1>3, <1>6, <2>1, <2>4, SeenTypes
  <2> QED BY <1>1, <1>6, <2>3, <2>4
<1> QED BY <1>4, <1>5, <1>6
=============================================================================
