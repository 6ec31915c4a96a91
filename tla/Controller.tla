----------------------------- MODULE Controller -----------------------------
(***************************************************************************)
(* The CRD controller (controller/internal/k8s): the informer's handlers   *)
(* put keys on a work queue, workers take them off, seed what the custom   *)
(* resource asks for and write its status.                                 *)
(*                                                                         *)
(* A run of the seeder is what SeedJob promises of one: an error, or nil   *)
(* and the services are as the spec wants them.                            *)
(***************************************************************************)
EXTENDS Kubernetes

CONSTANTS
    Worker,        \* the goroutines of Run
    NoKey,
    ResyncPeriod,  \* --rsync, in hours
    HoursPerDay,
    MaxChanges, MaxFaults, MaxRestarts   \* bounds

ASSUME ControllerAssumption ==
    /\ NoKey \notin Key
    /\ ResyncPeriod \in Nat \ {0}
    /\ HoursPerDay \in Nat \ {0}
    /\ MaxChanges \in Nat /\ MaxFaults \in Nat /\ MaxRestarts \in Nat

VARIABLES
    workqueue,
    worker,    \* of each worker: where it is, its key, its copy of the resource
    services,  \* for each key: the spec seeded last, and how much of it is there
    returned,  \* Run has returned
    hour, full,   \* the time: the hour, and whether Minute() = 0
    looked,    \* history: spec of each key that syncHandler read last
    masked,    \* history: keys whose recreation looked like no change
    changes, faults, restarts   \* what can still happen

history == <<looked, masked>>
clock   == <<hour, full>>
bounds  == <<changes, faults, restarts>>
vars == <<k8s, watch, cache, workqueue, worker, services, returned, clock, history, bounds>>

WorkerPC == {"idle", "lookup", "seed", "seeding", "status", "done"}
Idle == [pc |-> "idle", key |-> NoKey, copy |-> NoObject, verdict |-> ""]
Goto(w, pc) == worker' = [worker EXCEPT ![w].pc = pc]

Init ==
    /\ Cluster
    /\ workqueue = EmptyQueue
    /\ worker = [w \in Worker |-> Idle]
    /\ services = [k \in Key |-> [spec |-> 0, state |-> "partial"]]
    /\ returned = FALSE
    /\ hour = 0 /\ full = TRUE
    /\ looked = [k \in Key |-> 0] /\ masked = {}
    /\ changes = MaxChanges /\ faults = MaxFaults /\ restarts = MaxRestarts

-----------------------------------------------------------------------------
(* What happens outside.                                                   *)

Fault == faults > 0 /\ faults' = faults - 1 /\ UNCHANGED <<changes, restarts>>

Change(k) ==
    /\ changes > 0 /\ changes' = changes - 1
    /\ Edit(k)
    /\ UNCHANGED <<cache, workqueue, worker, services, returned, clock, history, faults, restarts>>

\* Somebody undoes by hand what was seeded.
Drift(k) ==
    /\ services[k].state = "whole" /\ Fault
    /\ services' = [services EXCEPT ![k].state = "partial"]
    /\ UNCHANGED <<k8s, watch, cache, workqueue, worker, returned, clock, history>>

Tick ==
    /\ full' = ~full
    /\ hour' = IF full THEN hour ELSE (hour + 1) % HoursPerDay
    /\ UNCHANGED <<k8s, watch, cache, workqueue, worker, services, returned, history, bounds>>

-----------------------------------------------------------------------------
(* The informer and the event handlers.                                    *)

\* A bug: the hour is compared with the period.
BugDoPeriodResync == hour = ResyncPeriod /\ full
doPeriodResync == hour % ResyncPeriod = 0 /\ full

versionsDiffer(new, old) ==
    /\ old.resourceVersion # new.resourceVersion
    /\ old.generation # new.generation

\* A bug: an update is enqueued by the periodic resync only.
BugEnqueues(old, new) == new # NoObject /\ (old = NoObject \/ doPeriodResync)
\* The handlers: Add enqueues, Update enqueues if it has to, Delete does not.
Enqueues(old, new) ==
    /\ new # NoObject
    /\ old = NoObject \/ doPeriodResync \/ versionsDiffer(new, old)

\* Another resource of the same name and generation.
Recreated(old, new) ==
    /\ old # NoObject /\ new # NoObject
    /\ new.spec # old.spec /\ new.generation = old.generation

Handle(k, old, new) ==
    IF Enqueues(old, new)
    THEN workqueue' = Add(workqueue, k) /\ masked' = masked \ {k}
    ELSE /\ UNCHANGED workqueue
         /\ masked' = IF Recreated(old, new) THEN masked \union {k}
                      ELSE IF new = NoObject THEN masked \ {k} ELSE masked

Deliver(k) ==
    /\ See(k)
    /\ LET new == Head(watch[k]) IN
       IF cache[k] = NoObject /\ new = NoObject
       THEN UNCHANGED <<workqueue, masked>>
       ELSE Handle(k, cache[k], new)
    /\ UNCHANGED <<k8s, worker, services, returned, clock, looked, bounds>>

\* Every 60 seconds the informer tells the handlers of each object it has.
Resync(k) ==
    /\ cache[k] # NoObject
    /\ Handle(k, cache[k], cache[k])
    /\ UNCHANGED <<k8s, watch, cache, worker, services, returned, clock, looked, bounds>>

\* The watch breaks.
Relist ==
    /\ Fault /\ List
    /\ UNCHANGED <<k8s, cache, workqueue, worker, services, returned, clock, history>>

-----------------------------------------------------------------------------
(* The workers: processNextWorkItem and syncHandler.                       *)

\* A bug: Done is called right after Get.
BugProcessNextWorkItem(w) ==
    /\ worker[w].pc = "idle" /\ workqueue.order # <<>>
    /\ worker' = [worker EXCEPT ![w] = [Idle EXCEPT !.pc = "lookup",
                                                    !.key = Head(workqueue.order)]]
    /\ workqueue' = Done(Get(workqueue), Head(workqueue.order))
    /\ UNCHANGED <<k8s, watch, cache, services, returned, clock, history, bounds>>

processNextWorkItem(w) ==
    /\ worker[w].pc = "idle" /\ workqueue.order # <<>>
    /\ worker' = [worker EXCEPT ![w] = [Idle EXCEPT !.pc = "lookup",
                                                    !.key = Head(workqueue.order)]]
    /\ workqueue' = Get(workqueue)
    /\ UNCHANGED <<k8s, watch, cache, services, returned, clock, history, bounds>>

\* The lister's copy, and its tokens replaced; without either there is nothing
\* to be done, and nothing is told or tried again.
syncHandler(w) ==
    /\ worker[w].pc = "lookup"
    /\ LET k == worker[w].key
           o == cache[k]
       IN \/ o = NoObject /\ Goto(w, "done") /\ UNCHANGED <<bounds, looked>>
          \/ /\ o # NoObject
             /\ looked' = [looked EXCEPT ![k] = o.spec]
             /\ \/ worker' = [worker EXCEPT ![w].pc = "seed", ![w].copy = o] /\ UNCHANGED bounds
                \/ Goto(w, "done") /\ Fault
    /\ UNCHANGED <<k8s, watch, cache, workqueue, services, returned, clock, masked>>

\* rstservice.Execute: seeding what is there already leaves it there, a new
\* spec is not all there before the end.
BeginSeed(w) ==
    /\ worker[w].pc = "seed" /\ Goto(w, "seeding")
    /\ LET k == worker[w].key
           s == worker[w].copy.spec
       IN  services' = [services EXCEPT ![k] = IF @.spec = s THEN @
                                               ELSE [spec |-> s, state |-> "partial"]]
    /\ UNCHANGED <<k8s, watch, cache, workqueue, returned, clock, history, bounds>>

EndSeed(w) ==
    /\ worker[w].pc = "seeding"
    /\ LET k == worker[w].key IN
       \/ /\ services' = [services EXCEPT ![k].state = "whole"]
          /\ worker' = [worker EXCEPT ![w].pc = "status", ![w].verdict = "ok"]
          /\ UNCHANGED bounds
       \/ /\ \/ UNCHANGED services
             \/ services' = [services EXCEPT ![k].state = "partial"]
          /\ worker' = [worker EXCEPT ![w].pc = "status", ![w].verdict = "failed"]
          /\ Fault
    /\ UNCHANGED <<k8s, watch, cache, workqueue, returned, clock, history>>

\* A bug: the resource is read again and the status written into that.
BugUpdateStatus(w) ==
    /\ worker[w].pc = "status" /\ Goto(w, "done")
    /\ LET k == worker[w].key IN
       IF server[k] # NoObject
       THEN Store(k, [server[k] EXCEPT !.status = worker[w].verdict,
                                       !.resourceVersion = revision + 1])
       ELSE UNCHANGED <<k8s, watch>>
    /\ UNCHANGED <<cache, workqueue, services, returned, clock, history, bounds>>

\* A refused update is an error nobody looks at.  An update that changes
\* nothing is no write.
updateStatus(w) ==
    /\ worker[w].pc = "status" /\ Goto(w, "done")
    /\ LET k == worker[w].key
           n == [server[k] EXCEPT !.status = worker[w].verdict, !.resourceVersion = revision + 1]
       IN  IF Fresh(k, worker[w].copy) /\ server[k].status # worker[w].verdict
           THEN Store(k, n)
           ELSE UNCHANGED <<k8s, watch>>
    /\ UNCHANGED <<cache, workqueue, services, returned, clock, history, bounds>>

\* Bugs: a return before the deferred Done; the worker keeps its key.
BugForgetOnly(w) ==
    /\ worker[w].pc = "done"
    /\ worker' = [worker EXCEPT ![w] = Idle]
    /\ UNCHANGED <<k8s, watch, cache, workqueue, services, returned, clock, history, bounds>>
BugForget(w) ==
    /\ worker[w].pc = "done" /\ Goto(w, "idle")
    /\ workqueue' = Done(workqueue, worker[w].key)
    /\ UNCHANGED <<k8s, watch, cache, services, returned, clock, history, bounds>>

\* Forget and Done, whatever syncHandler met with: it has returned nil.
Forget(w) ==
    /\ worker[w].pc = "done"
    /\ worker' = [worker EXCEPT ![w] = Idle]
    /\ workqueue' = Done(workqueue, worker[w].key)
    /\ UNCHANGED <<k8s, watch, cache, services, returned, clock, history, bounds>>

-----------------------------------------------------------------------------
(* The process.                                                            *)

\* The stop channel is closed: Run shuts the queue down and returns, and main
\* with it.
Stop ==
    /\ ~returned /\ returned' = TRUE
    /\ restarts > 0 /\ restarts' = restarts - 1
    /\ workqueue' = ShutDown(workqueue)
    /\ UNCHANGED <<k8s, watch, cache, worker, services, clock, history, changes, faults>>

Boot ==
    /\ List
    /\ cache' = [k \in Key |-> NoObject]
    /\ workqueue' = EmptyQueue
    /\ worker' = [w \in Worker |-> Idle]
    /\ returned' = FALSE
    /\ looked' = [k \in Key |-> 0] /\ masked' = {}
    /\ UNCHANGED <<k8s, services, clock, changes, faults>>

\* The process ends at any moment, or because Run returned, and is started again.
Crash == ~returned /\ restarts > 0 /\ restarts' = restarts - 1 /\ Boot
Restart == returned /\ UNCHANGED restarts /\ Boot

-----------------------------------------------------------------------------
WorkerStep(w) ==
    processNextWorkItem(w) \/ syncHandler(w) \/ BeginSeed(w) \/ EndSeed(w)
      \/ updateStatus(w) \/ Forget(w)

Next ==
    \/ \E k \in Key : Change(k) \/ Drift(k) \/ Deliver(k) \/ Resync(k)
    \/ \E w \in Worker : WorkerStep(w)
    \/ Tick \/ Relist \/ Stop \/ Crash \/ Restart

Spec == Init /\ [][Next]_vars

\* Goroutines run, the watch delivers, time passes.  The informer's 60 seconds
\* drift against the clock's, so a resync may miss the minute it is due in, but
\* not for ever.
Fairness ==
    /\ \A w \in Worker : WF_vars(WorkerStep(w))
    /\ \A k \in Key : WF_vars(Deliver(k)) /\ SF_vars(doPeriodResync /\ Resync(k))
    /\ WF_vars(Tick) /\ WF_vars(Restart)

FairSpec == Spec /\ Fairness
=============================================================================
