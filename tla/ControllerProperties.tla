------------------------ MODULE ControllerProperties ------------------------
(***************************************************************************)
(* What is claimed of Controller.                                          *)
(***************************************************************************)
EXTENDS Controller, KubernetesOrder

WorkerTypeOK ==
    /\ workqueue \in Queue
    /\ worker \in [Worker -> [pc : WorkerPC, key : Key \union {NoKey},
                              copy : ObjectOrNone, verdict : Message]]
    /\ \A w \in Worker : (worker[w].pc = "idle") <=> (worker[w].key = NoKey)
    /\ \A w \in Worker : worker[w].pc \in {"seed", "seeding", "status"} => worker[w].copy # NoObject

FlagsTypeOK == returned \in BOOLEAN /\ full \in BOOLEAN

OtherTypeOK ==
    /\ services \in [Key -> [spec : Nat, state : {"partial", "whole"}]]
    /\ hour \in 0..(HoursPerDay - 1)
    /\ looked \in [Key -> Nat] /\ masked \subseteq Key
    /\ changes \in Nat /\ faults \in Nat /\ restarts \in Nat

\* The type invariant of Controller.
TypeOK == KubernetesTypeOK /\ WorkerTypeOK /\ FlagsTypeOK /\ OtherTypeOK

Busy(w) == worker[w].pc # "idle"

-----------------------------------------------------------------------------
\* "We are never processing the same item simultaneously in two different
\* workers" (controller/internal/k8s/controller.go:85-86), so no two runs of
\* the seeder race each other to the same services.
OneWorkerPerKey ==
    \A v, w \in Worker : v # w /\ Busy(v) /\ Busy(w) => worker[v].key # worker[w].key

\* No change is overlooked: when the informer has a spec the workers have not
\* read, the key is in the queue, or back in it after the Done of the worker
\* that has it, or about to be read.  The exception is pinned down: a resource
\* deleted and created again while the watch was broken, with the generation it
\* had before, for versionsDiffer compares generations.
NoChangeOverlooked ==
    \A k \in Key \ masked :
        ~workqueue.down /\ cache[k] # NoObject /\ looked[k] # cache[k].spec =>
            \/ k \in workqueue.dirty
            \/ \E w \in Worker : worker[w].pc = "lookup" /\ worker[w].key = k

\* The services never go back to an older spec, however late a worker is and
\* however often the controller is restarted.
NoOlderSpec == [][\A k \in Key : services'[k].spec >= services[k].spec]_vars

\* A status changes only by the worker that seeded the very spec it is written
\* beside, and to that run's verdict; an edit of the spec leaves it as it was.
StatusIsOfItsSpec ==
    [][\A k \in Key :
         server[k] # NoObject /\ server'[k] # NoObject /\ server'[k].status # server[k].status =>
           \E w \in Worker : /\ worker[w].pc = "status" /\ worker[w].key = k
                             /\ worker[w].copy.spec = server'[k].spec
                             /\ worker[w].verdict = server'[k].status]_vars

-----------------------------------------------------------------------------
(* The abstract specification.                                             *)

Runs(k) ==
    LET ended == {w \in Worker : worker[w].pc = "status" /\ worker[w].key = k}
    IN {<<worker[w].copy.spec, worker[w].verdict>> : w \in ended}

Ended == [k \in Key |-> Runs(k)]
Desired == INSTANCE DesiredState WITH
    desired <- Asked, report <- Reported, applied <- services, ended <- Ended

\* Queue, informer and workers together implement the promise to the author of
\* a resource: the services only go from an older spec to a newer one, and the
\* status changes only to the outcome of a run of the spec it stands beside.
ImplementsDesiredState == Desired!Spec

-----------------------------------------------------------------------------
(* Inductive strengthenings (ControllerProofs).                            *)

\* The queue hands out a key only while nobody has it, and once.
BusyIsProcessing == \A w \in Worker : Busy(w) => worker[w].key \in workqueue.processing
QueueInv == BusyIsProcessing /\ WellOrdered(workqueue) /\ OneWorkerPerKey

\* What the workers have of a resource.
Copies(k) == {worker[w].copy : w \in {v \in Worker : worker[v].key = k}} \ {NoObject}

\* One resource version, one spec; specs are seeded in the order of writing.
VersionsInv == \A k \in Key : VersionsOf(k, Copies(k))
SpecOrderInv == \A k \in Key : SpecOrderOf(k, Copies(k), services[k].spec) /\ WatchInOrder(k)

\* Nothing newer was seeded than what the worker about to seed has.
SeedInv == \A w \in Worker : worker[w].pc = "seed" =>
              services[worker[w].key].spec <= worker[w].copy.spec
SeedingInv == \A w \in Worker : worker[w].pc = "seeding" =>
              services[worker[w].key].spec = worker[w].copy.spec

-----------------------------------------------------------------------------
InPlace(k) == /\ services[k].spec = server[k].spec /\ services[k].state = "whole"
              /\ server[k].status = "ok"

\* Changes, faults, manual edits and restarts being finite in number, each
\* resource that remains is seeded as its last spec wants it and says so.
\* Nothing is retried: it is the periodic resync that gets there.
EventuallyInPlace ==
    \A k \in Key : <>[](server[k] = NoObject \/ InPlace(k))

\* Every key that is queued is processed, whatever the other keys do.
EveryKeyServed == \A k \in Key : k \in workqueue.dirty ~> k \notin workqueue.dirty

-----------------------------------------------------------------------------
(* What comments say and the code does not do.                             *)

\* "Put the item back on the workqueue to handle any transient errors"
\* (controller.go:236).
FailuresRequeued ==
    [][\A w \in Worker : worker[w].pc = "done" /\ worker[w].verdict = "failed" /\ Forget(w)
         => worker[w].key \in workqueue'.dirty]_vars

\* "shutdown the workqueue and wait for workers to finish processing their
\* current work items" (controller.go:162-163).
RunWaits == returned => \A w \in Worker : ~Busy(w)
=============================================================================
