----------------------------- MODULE Reconciler -----------------------------
(***************************************************************************)
(* The Kubebuilder controller (kubebuilder-controller): the manager queues *)
(* a key for every event, Reconcile seeds what the resource asks for and   *)
(* writes its status, and what it returns decides when it is called again. *)
(* There is one worker, the manager's default.                             *)
(*                                                                         *)
(* A run of the seeder is what SeedJob promises of one, as in Controller.  *)
(***************************************************************************)
EXTENDS Kubernetes, FiniteSets

CONSTANTS
    NoKey,
    ResyncPeriods,  \* values of --rsync, in minutes
    MaxChanges, MaxFaults, MaxRestarts   \* bounds

ASSUME ReconcilerAssumption ==
    /\ NoKey \notin Key
    /\ ResyncPeriods \subseteq Nat
    /\ MaxChanges \in Nat /\ MaxFaults \in Nat /\ MaxRestarts \in Nat
ASSUME FiniteAssumption == IsFiniteSet(Key)

VARIABLES
    workqueue,
    delayed,       \* keys with a timer: a backoff, or RequeueAfter
    worker,        \* where the worker is, its key, its copy of the resource
    services,      \* for each key: the spec seeded last, and how much of it is there
    resyncPeriod,
    synced,        \* history: spec of each key's last run, 0 if that failed
    changes, faults, restarts   \* what can still happen

queue  == <<workqueue, delayed>>
bounds == <<changes, faults, restarts>>
vars   == <<k8s, watch, cache, queue, worker, services, resyncPeriod, synced, bounds>>

WorkerPC == {"idle", "get", "seed", "seeding", "status", "done"}
Idle == [pc |-> "idle", key |-> NoKey, copy |-> NoObject, verdict |-> ""]
Goto(pc) == worker' = [worker EXCEPT !.pc = pc]

Init ==
    /\ Cluster
    /\ workqueue = EmptyQueue /\ delayed = {}
    /\ worker = Idle
    /\ services = [k \in Key |-> [spec |-> 0, state |-> "partial"]]
    /\ resyncPeriod \in ResyncPeriods
    /\ synced = [k \in Key |-> 0]
    /\ changes = MaxChanges /\ faults = MaxFaults /\ restarts = MaxRestarts

-----------------------------------------------------------------------------
(* What happens outside.                                                   *)

Fault == faults > 0 /\ faults' = faults - 1 /\ UNCHANGED <<changes, restarts>>
Stir == changes > 0 /\ changes' = changes - 1 /\ UNCHANGED <<faults, restarts>>

Change(k) ==
    /\ Stir /\ Edit(k)
    /\ UNCHANGED <<cache, queue, worker, services, resyncPeriod, synced>>

\* Somebody undoes by hand what was seeded.
Drift(k) ==
    /\ services[k].state = "whole" /\ Fault
    /\ services' = [services EXCEPT ![k].state = "partial"]
    /\ UNCHANGED <<k8s, watch, cache, queue, worker, resyncPeriod, synced>>

-----------------------------------------------------------------------------
(* The manager.                                                            *)

\* A bug: only a change of the spec's generation is an event.
BugEnqueues(old, new) == new # NoObject /\ (old # NoObject => old.generation # new.generation)
\* For() without a predicate: creations, updates and deletions.
Enqueues(old, new) == old # NoObject \/ new # NoObject

Deliver(k) ==
    /\ See(k)
    /\ workqueue' = IF Enqueues(cache[k], Head(watch[k])) THEN Add(workqueue, k) ELSE workqueue
    /\ UNCHANGED <<k8s, delayed, worker, services, resyncPeriod, synced, bounds>>

\* The informer's own resync, every ten hours: an update that changes nothing.
Resync(k) ==
    /\ cache[k] # NoObject /\ Stir
    /\ workqueue' = Add(workqueue, k)
    /\ UNCHANGED <<k8s, watch, cache, delayed, worker, services, resyncPeriod, synced>>

\* The watch breaks.
Relist ==
    /\ Fault /\ List
    /\ UNCHANGED <<k8s, cache, queue, worker, services, resyncPeriod, synced>>

\* A timer of the delaying queue.
Elapse(k) ==
    /\ k \in delayed /\ delayed' = delayed \ {k}
    /\ workqueue' = Add(workqueue, k)
    /\ UNCHANGED <<k8s, watch, cache, worker, services, resyncPeriod, synced, bounds>>

processNextWorkItem ==
    /\ worker.pc = "idle" /\ workqueue.order # <<>>
    /\ worker' = [Idle EXCEPT !.pc = "get", !.key = Head(workqueue.order)]
    /\ workqueue' = Get(workqueue)
    /\ UNCHANGED <<k8s, watch, cache, delayed, services, resyncPeriod, synced, bounds>>

-----------------------------------------------------------------------------
(* Reconcile.                                                              *)

\* client.Get reads the informer's store.  That the resource is gone is logged,
\* and the rest runs on with an empty one.
ReadSpec ==
    /\ worker.pc = "get"
    /\ worker' = [worker EXCEPT !.pc = "seed", !.copy = cache[worker.key]]
    /\ UNCHANGED <<k8s, watch, cache, queue, services, resyncPeriod, synced, bounds>>

\* Execute: without actions it returns nil.
BeginSeed ==
    /\ worker.pc = "seed"
    /\ LET k == worker.key
           c == worker.copy
       IN \/ /\ c # NoObject /\ Goto("seeding")
             /\ services' = [services EXCEPT ![k] = IF @.spec = c.spec THEN @
                                                    ELSE [spec |-> c.spec, state |-> "partial"]]
          \/ /\ c = NoObject /\ worker' = [worker EXCEPT !.pc = "status", !.verdict = "ok"]
             /\ UNCHANGED services
    /\ UNCHANGED <<k8s, watch, cache, queue, resyncPeriod, synced, bounds>>

EndSeed ==
    /\ worker.pc = "seeding"
    /\ LET k == worker.key IN
       \/ /\ services' = [services EXCEPT ![k].state = "whole"]
          /\ worker' = [worker EXCEPT !.pc = "status", !.verdict = "ok"]
          /\ synced' = [synced EXCEPT ![k] = worker.copy.spec]
          /\ UNCHANGED bounds
       \/ /\ \/ UNCHANGED services
             \/ services' = [services EXCEPT ![k].state = "partial"]
          /\ worker' = [worker EXCEPT !.pc = "status", !.verdict = "failed"]
          /\ synced' = [synced EXCEPT ![k] = 0]
          /\ Fault
    /\ UNCHANGED <<k8s, watch, cache, queue, resyncPeriod>>

\* A bug: the message holds the time.
BugMessages(old, verdict) == {"new"}
\* Whether the message is another one: that of a success is always the same,
\* that of a failure holds the run's errors.
Messages(old, verdict) ==
    IF old # verdict THEN {"new"} ELSE IF verdict = "ok" THEN {"same"} ELSE {"new", "same"}

\* A bug: the resource is read again and the status written into that.
BugUpdateStatus ==
    /\ worker.pc = "status" /\ Goto("done")
    /\ LET k == worker.key IN
       IF server[k] # NoObject
       THEN Store(k, [server[k] EXCEPT !.status = worker.verdict, !.resourceVersion = revision + 1])
       ELSE UNCHANGED <<k8s, watch>>
    /\ UNCHANGED <<cache, queue, services, resyncPeriod, synced, bounds>>

\* Status().Update.  What is refused, or meant for a resource that is gone, is
\* an error that is only logged.
updateStatus ==
    /\ worker.pc = "status" /\ Goto("done")
    /\ LET k == worker.key IN
       IF worker.copy = NoObject THEN UNCHANGED <<k8s, watch>>
       ELSE IF ~Fresh(k, worker.copy) THEN UNCHANGED <<k8s, watch>>
       ELSE \/ /\ "new" \in Messages(server[k].status, worker.verdict)
               /\ Store(k, [server[k] EXCEPT !.status = worker.verdict,
                                             !.resourceVersion = revision + 1])
            \/ /\ "same" \in Messages(server[k].status, worker.verdict)
               /\ UNCHANGED <<k8s, watch>>
    /\ UNCHANGED <<cache, queue, services, resyncPeriod, synced, bounds>>

\* Bugs: a failed run returns no error; without a period there is a default one.
BugRequeues(verdict) == resyncPeriod > 0
BugRequeuesAlways(verdict) == TRUE
\* What Reconcile returns: an error backs off, RequeueAfter 0 means not at all.
Requeues(verdict) == verdict = "failed" \/ resyncPeriod > 0

\* A bug: the worker keeps its key.
BugReturn ==
    /\ worker.pc = "done" /\ Goto("idle")
    /\ workqueue' = Done(workqueue, worker.key)
    /\ UNCHANGED <<k8s, watch, cache, delayed, services, resyncPeriod, synced, bounds>>

Return ==
    /\ worker.pc = "done" /\ worker' = Idle
    /\ delayed' = IF Requeues(worker.verdict) THEN delayed \union {worker.key} ELSE delayed
    /\ workqueue' = Done(workqueue, worker.key)
    /\ UNCHANGED <<k8s, watch, cache, services, resyncPeriod, synced, bounds>>

-----------------------------------------------------------------------------
\* The process ends at any moment and is started again.
Crash ==
    /\ restarts > 0 /\ restarts' = restarts - 1
    /\ List /\ cache' = [k \in Key |-> NoObject]
    /\ workqueue' = EmptyQueue /\ delayed' = {}
    /\ worker' = Idle
    /\ synced' = [k \in Key |-> 0]
    /\ UNCHANGED <<k8s, services, resyncPeriod, changes, faults>>

WorkerStep ==
    processNextWorkItem \/ ReadSpec \/ BeginSeed \/ EndSeed \/ updateStatus \/ Return

Next ==
    \/ \E k \in Key : Change(k) \/ Drift(k) \/ Deliver(k) \/ Resync(k) \/ Elapse(k)
    \/ WorkerStep \/ Relist \/ Crash

Spec == Init /\ [][Next]_vars

\* The manager's goroutines run, the watch delivers, timers fire.
Fairness ==
    /\ WF_vars(WorkerStep)
    /\ \A k \in Key : WF_vars(Deliver(k)) /\ WF_vars(Elapse(k))

FairSpec == Spec /\ Fairness
=============================================================================
