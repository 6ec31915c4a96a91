------------------------ MODULE ReconcilerProperties ------------------------
(***************************************************************************)
(* What is claimed of Reconciler.                                          *)
(***************************************************************************)
EXTENDS Reconciler, KubernetesOrder, FiniteSetsExt

WorkerTypeOK ==
    /\ workqueue \in Queue /\ delayed \subseteq Key
    /\ worker \in [pc : WorkerPC, key : Key \union {NoKey},
                   copy : ObjectOrNone, verdict : Message]
    /\ (worker.pc = "idle") <=> (worker.key = NoKey)
    /\ worker.pc = "seeding" => worker.copy # NoObject

OtherTypeOK ==
    /\ services \in [Key -> [spec : Nat, state : {"partial", "whole"}]]
    /\ resyncPeriod \in Nat
    /\ synced \in [Key -> Nat]
    /\ changes \in Nat /\ faults \in Nat /\ restarts \in Nat

\* The type invariant of Reconciler.
TypeOK == KubernetesTypeOK /\ WorkerTypeOK /\ OtherTypeOK

-----------------------------------------------------------------------------
Waiting(k) == k \in workqueue.dirty \union delayed
HasRead(k) == worker.key = k /\ worker.copy # NoObject /\ worker.copy.spec = cache[k].spec

\* No resource drops out of the loop: what the manager has a spec for is queued
\* or has a timer or is with the worker, which has read this very spec or is
\* about to.  Only without a resync period may it rest, and only after a run of
\* this spec that did not fail.
NothingForgotten ==
    \A k \in Key : cache[k] # NoObject =>
        \/ Waiting(k)
        \/ worker.key = k /\ (worker.pc = "get" \/ HasRead(k))
        \/ resyncPeriod = 0 /\ synced[k] = cache[k].spec

\* What the loop still has to do were nothing to happen outside: a write makes
\* an event, an event or a timer makes a run, and a run writes what is not "ok".
Owes(k, S, n) == IF k \in S THEN n ELSE 0
Unwell == {k \in Key : server[k] # NoObject /\ server[k].status # "ok"}
KeyWork == [k \in Key |-> 8 * Len(watch[k]) + Owes(k, delayed, 8)
                          + Owes(k, workqueue.dirty, 7) + Owes(k, Unwell, 8)]

\* A run that failed may write a new message and has its key come back.
RunWork ==
    LET failed == worker.verdict = "failed" IN
    CASE worker.pc = "idle"    -> 0
      [] worker.pc = "get"     -> 6
      [] worker.pc = "seed"    -> 5
      [] worker.pc = "seeding" -> 4
      [] worker.pc = "status"  -> IF failed THEN 26 ELSE 2
      [] worker.pc = "done"    -> IF failed THEN 9 ELSE 1

\* Only so many runs can still fail.
WorkLeft == MapThenSumSet(LAMBDA k : KeyWork[k], Key) + RunWork + 24 * faults

\* The loop does not feed itself.  Every status it writes is an event that has
\* Reconcile called again, which writes the status again; a failure brings its
\* key back.  Without a resync period each of its own steps leaves it less to
\* do, so that only what happens outside can keep it busy.
LoopRunsDown ==
    [][ resyncPeriod = 0 /\ (WorkerStep \/ \E k \in Key : Deliver(k) \/ Elapse(k))
          => WorkLeft' < WorkLeft ]_vars

\* The loop implements the promise the other controller implements.
Runs(k) ==
    IF worker.pc = "status" /\ worker.key = k /\ worker.copy # NoObject
    THEN {<<worker.copy.spec, worker.verdict>>} ELSE {}

Ended == [k \in Key |-> Runs(k)]
Desired == INSTANCE DesiredState WITH
    desired <- Asked, report <- Reported, applied <- services, ended <- Ended

\* The services only go from an older spec to a newer one, and the status
\* changes only to the outcome of a run of the spec it stands beside.
ImplementsDesiredState == Desired!Spec

-----------------------------------------------------------------------------
(* Inductive strengthenings (ReconcilerProofs).                            *)

\* The queue hands out a key only while the worker does not have it, and once.
QueueInv ==
    /\ WellOrdered(workqueue)
    /\ worker.pc # "idle" => worker.key \in workqueue.processing

\* A key at rest is not with the worker: its next run may fail.
Kept(k) ==
    cache[k] # NoObject =>
        \/ Waiting(k)
        \/ worker.key = k /\ (worker.pc = "get" \/ HasRead(k))
        \/ worker.key # k /\ resyncPeriod = 0 /\ synced[k] = cache[k].spec
KeptInv == ~workqueue.down /\ \A k \in Key : Kept(k)

\* What a run that ended leaves.
RunInv ==
    worker.pc \in {"status", "done"} /\ worker.copy # NoObject =>
        /\ worker.verdict \in {"ok", "failed"}
        /\ worker.verdict = "ok" => synced[worker.key] = worker.copy.spec

\* What the worker has of a resource.
Copies(k) == IF worker.key = k THEN {worker.copy} \ {NoObject} ELSE {}

\* One resource version, one spec; specs are seeded in the order of writing.
VersionsInv == \A k \in Key : VersionsOf(k, Copies(k))
SpecOrderInv == \A k \in Key : SpecOrderOf(k, Copies(k), services[k].spec) /\ WatchInOrder(k)

\* Nothing newer was seeded than what the worker is about to seed or seeds.
SeedInv == worker.pc = "seed" /\ worker.copy # NoObject =>
              services[worker.key].spec <= worker.copy.spec
SeedingInv == worker.pc = "seeding" => services[worker.key].spec = worker.copy.spec

-----------------------------------------------------------------------------
\* Changes, faults, manual edits and restarts being finite in number, each
\* resource that remains is seeded with its last spec and says so.  What was
\* undone by hand is repaired if there is a resync period.
InPlace(k) ==
    /\ services[k].spec = server[k].spec /\ server[k].status = "ok"
    /\ resyncPeriod > 0 => services[k].state = "whole"

EventuallyInPlace == \A k \in Key : <>[](server[k] = NoObject \/ InPlace(k))

\* Every status that is written is an update the manager calls Reconcile for,
\* which writes the status again; without a resync period this comes to rest.
Quiet ==
    /\ worker.pc = "idle" /\ workqueue.order = <<>> /\ delayed = {}
    /\ \A k \in Key : watch[k] = <<>>
ComesToRest == resyncPeriod = 0 => <>[]Quiet
=============================================================================
