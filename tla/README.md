# Formal model of reststrategy

TLA+ specifications of the REST seeder, of how it makes its requests and of the two
Kubernetes controllers that run it, with TLC configurations that check them on small
instances and TLAPS proofs of their safety properties. Paths below are relative to `src/`.

## 1. The system

A *definition* (a YAML file or a `RestStrategy` custom resource) lists actions. Each
names an endpoint, a payload and a *strategy*: which HTTP calls to make, and which to
fall back on. The seeder performs them. A CLI runs it once, two controllers run it
whenever a custom resource changes, and periodically.

| component | state it keeps | operations | talks to |
|---|---|---|---|
| REST seeder (`seeder/seeder.go`, `seederstrategies.go`, `rest.go`) | of a run: sorted actions, error list, each action's `foundId` and templated payload. Nothing outlives a run. | `Execute`, `performAction`, nine strategy functions, `get`/`post`/`put`/`patch`/`delete` and `do` | remote REST services, ConfigManager |
| Templating (`rest.go`: `TemplateWithVars`, `findRuntimeVars`) | runtime variables of a seeder (under a lock); the environment of the process | template a payload or a path; capture variables from answers | the seeder; through the environment, everything else in the process |
| Auth (`auth.go`, `rest.go: setAuthHeader`) | `actionAuthMap`, `currentToken`, the header map an action's requests share | token exchange, header enrichment | token services, the seeder |
| CRD controller (`controller/internal/k8s`, `controller/pkg/rstservice`) | work queue, informer store, worker goroutines | event handlers, `runWorker`, `processNextWorkItem`, `syncHandler`, `updateStatus`, `Run` | the API server (watch, status), one new seeder per sync |
| Kubebuilder controller (`kubebuilder-controller`) | none of its own: the manager's queue and cache | `Reconcile` | the API server, one new seeder per call |
| CLI (`seeder/cmd`, `seeder/internal`) | none | read a file, `Execute` once | the seeder |
| Signals (`controller/pkg/signals`) | a channel | close it at the first signal, exit at the second | the CRD controller |
| API types, generated client (`apis`) | none | - | - |
| Test tooling (`kube-testing-tools`) | none | - | - |

What is hard here, and so what the properties are about:

* **A write may be applied and its answer lost**, and the next run starts from what it
  left. Strategies must recognise what they made (no duplicates) and get there in the end.
* **Fallback chains**: whether a strategy goes on after an error depends on the status
  code (299/300, 499/500, no answer at all), and a swallowed error in the chain turns a
  failed run into a successful one. `FIND/DELETE/POST` has a moment without the item.
* **The error list** is threaded through the actions, sorted by an unstable sort with a
  default of 999, with or without `FailFast`.
* **Workers, informer, API server and user interleave**: a worker seeds from a copy of
  the resource that may be out of date by the time it writes the status; a change must
  not be lost while its key is being processed; an older spec must not be seeded after a
  newer one.
* **Nothing is retried**: a sync that fails is forgotten. Only the periodic resync, a
  60-second timer that has to fall into minute 0 of a due hour, repairs it.
* **Crashes, shutdown in the middle of a sync, a broken watch** lose events; the next
  list must make up for them.
* **Texts are expanded from the environment of the process**, which all runs of all workers
  write to, variable by variable, and which nobody ever clears.
* **A strategy object and a header map are shared** by the requests of an action, and a
  token exchange may fail with an empty token, a nil token or a panic. A panic in one
  worker ends every other worker's run.
* **The Kubebuilder controller triggers itself**: each status it writes is an update it is
  called for. It must come to rest, and yet must not drop a resource.

What makes each component correct: the seeder never duplicates, never reports a success
that is not there, goes on only after answers that allow it, keeps the order, reports
every failure, and repeated runs converge; templating fills a text with
the newest value its run has for a name; an auth failure never lets a request out as if it
were authenticated; both controllers eventually bring the newest spec about, and never write
beside a spec the outcome of a run of another (the status an edited spec had stays until
its next run).

## 2. Modules

```
checked with TLC                                         proved with TLAPS

                                                         SumProofs (sums over finite sets)

RestService (external) <- Seeder <- SeederProperties     SeederProofs <- SeederRunProofs
                                       |  <- MCSeeder
                                       ^-- SeedJob (abstract)

Templating, Auth <- RestCalls <- RestCallsProperties     RestCallsProofs
                                     <- MCRestCalls

WorkQueue <- Kubernetes <- KubernetesOrder               KubernetesProofs
(external)   (external)     |
                            | <- Controller              ControllerProofs
                            |      <- ControllerProperties   <- ControllerOrderProofs
                            |            |
                            |            ^-- DesiredState (abstract)
                            |            v
                            | <- Reconciler              ReconcilerProofs
                                   <- ReconcilerProperties
```

The modules compose by promise. `Seeder` says which requests a strategy makes and what
they do to a service; `RestCalls` is the inside of one request, for several runs in one
process; the controllers take of a run what `SeedJob` promises, which `Seeder` is checked
to keep, and both controllers keep `DesiredState`. `PROJECT.json` maps every definition to
the lines it stands for. Operators whose name begins with `Bug` are plausible mistakes in
the code; each property is known to fail when one of them takes the place of the
definition beside it.

### RestService, Seeder: `seeder/`

`RestService` is what the strategies assume of a service. Each action owns a collection
from ids to the *content* found there: absent, `old` (somebody else's), `new` (the
payload) or `raw` (the payload with a ConfigManager token still in it). Services differ
in how they report a missing item (`NotFoundStyle`) and in whether PUT creates; both are
part of an action's configuration so that one run covers them all.

`Seeder` is one `StrategyRestSeeder` and all the runs made with one definition. **One
step is one HTTP call with the code up to the next one.** What happens in between
touches only locals of the run, so no other process can tell where in it a change of the
service fell.

| code | model |
|---|---|
| `Execute`, sort, loop, join of errors | `Execute`, `ExecuteNoAuth`, `AtHead`, `Stopped`, `ExecuteReturns` |
| `performAction`, `configManagerReplaceAction`, strategy map | `performAction(a)`, `SkipUnknown(a)`, `raw` |
| `GetPost` ... `FindPatchPost` | one operator each (`GetPost(r)` ...), given the GET's answer |
| `Put`, `PutPost`, `Post`, the DELETE of `FindDeletePost` | `ReturnCode`, `PutPost`, `AfterDelete` |
| `get`, `put`, `patch`, `delete`, `post`, `do` | actions of the same names over `Write`, `IsError`, `ProceedFallback`, `IsFatal` |
| error list | `errs[a]`: how often errors of `a` are in it; `AppendErrs` keeps the doubling of the code |
| `findPathByExpression` | `Found`, `FindFails`: an id, none, or an error |

`Crash` is the process ending between two calls (killed; a nil token in `setAuthHeader`;
the controller's `Run` returning), `Drift` is anybody editing the service by hand, and a
faulty call (`GetFaults`, `WriteFaults`) is any 3XX/4XX/5XX or no answer, the last two
with or without the write having been applied. `succeeded`, `touched`, `raced` and `clean` (no
call of the run has failed) are history: they only let properties name their conditions.

`SeedJob` is the promise of a run without HTTP: actions one at a time, counted as done
only while their item really is in order, a verdict that is "ok" only if none failed.
`ImplementsSeedJob` checks that `Seeder` refines it (mapping in `SeederProperties`).

### Templating, Auth, RestCalls: `seeder/rest.go`, `seeder/auth.go`

`Templating` and `Auth` are operators on values: a map of variables, the environment and a
text are functions on names, a template is the set of names it mentions, a header maps keys
to credentials. A value says where it is from (whose variables, whose answer) and a
credential which entry and which request it is of: that is all the properties tell apart.

`RestCalls` is the process: `Worker` many seeders, each performing its own definition over
and over, and the one environment. There is a step for each access to it, so that any
two runs interleave at every `os.Setenv`.

| code | model |
|---|---|
| `Execute`, `performAction` up to the strategy, the loop's end | `Execute(w)`, `performAction`, `EndAction` |
| `TemplateWithVars`, `templatePayload`'s loop, `envsubst` | `TemplateWithVars` (`Extend`, `DeepCopyInto`), `templatePayload(w)`, `Expand(w)` (`Substitute`) |
| payload before the first request, path in each `do()` | `at[w].text`, `NewRequest(w)` |
| `findRuntimeVars` after each 2XX | `findRuntimeVars` in `Send(w)` |
| `NewAuth`, `AuthMap`, setters and defaults | `Strategy`, `NewAuth`, `CustomFlowAuth`; `ExecutePanics(w)` for a missing section |
| `setAuthHeader`, `customTokenExchange`, `Token` | `setAuthHeader(w)` (`FreshToken`, `WithoutToken`, `WithCredential`) |
| `net/http` refusing an empty header key; the answer | `Refused`, `Send(w)` |
| the panic of a nil request or token | `Panic`: the whole process starts again |

A worker goes through its methods in the order of its strategy, an answer deciding whether
it goes on: *which* answers make it go on is `Seeder`'s matter, here both may happen. A
malformed template, prefixes, the place of credentials in a token request and the headers
a user adds are left out.

### WorkQueue, Kubernetes: external

`WorkQueue` is client-go's queue as a value (order, dirty, processing, down) with the
operators the controllers call. `Kubernetes` is the API server and the informer that
watches it: revisions, generations, optimistic locking of the status (`Fresh`), a watch
whose events are seen in order (`See`) or lost and listed again (`List`). Both controllers
extend them, and differ in what they do with an event and with a failure.

`KubernetesOrder` names what is true of any controller on top of it: which states of a
resource are still to be acted on (`Ahead`), that a version among them determines the spec
(`VersionsOf`), that they are in the order of writing (`SpecOrderOf`, `WatchInOrder`). Both
property modules extend it; `KubernetesProofs` holds the lemmas both controllers share.

### Controller: `controller/`

`Controller` is the three handlers, the workers and `Run`. A revision counts writes to the API server, and a spec is named
after the revision that wrote it: "older" is `<`. A run of the seeder is its promise in
`SeedJob`: an error, or nil and the services are as the spec wants them; until then
they may be partly so (`services[k].state`).

| code | model |
|---|---|
| informer delivers an event, its handler enqueues or not | `Deliver(k)`: store update and handler in one step, since only the handler reads both versions |
| informer's 60 s resync | `Resync(k)`, at any time |
| `createCustomResource`, `updateCustomResource`, `deleteRestStrategyCustomResource` | `Enqueues`, `Handle` |
| `doPeriodResync` | `hour % ResyncPeriod = 0 /\ full`, moved by `Tick` |
| `versionsDiffer` | the same conjunction |
| `processNextWorkItem` up to `syncHandler`, its `Forget`/`Done` | `processNextWorkItem(w)`, `Forget(w)` |
| `syncHandler`: lister, token replacement | `syncHandler(w)` |
| `rstservice.Seeder.Execute` | `BeginSeed(w)`, `EndSeed(w)` |
| `updateStatus` | `updateStatus(w)`, refused by the API server unless `Fresh` |
| `Run`, `RunWithConfig`, signals | `Stop`, `Restart`, `Crash`, `Boot` |

`Change(k)` is a user's create, edit, label edit or delete, `Relist` a broken watch: the
events in between are lost and the informer lists again. `masked` and `looked` are history.

### Reconciler: `kubebuilder-controller/`

| code | model |
|---|---|
| `For(&RestStrategy{})` without a predicate | `Enqueues`, `Deliver(k)`; `Resync(k)` for the informer's ten hours |
| the manager's queue with its timers | `workqueue`, `delayed`, `Elapse(k)` |
| the one worker calling `Reconcile` | `processNextWorkItem`, `Return` |
| `client.Get`, its error only logged | `ReadSpec`: the copy may be nothing |
| `rstservice` / `Execute` | `BeginSeed`, `EndSeed`; an empty definition returns nil at once |
| `Status().Update`, its error only logged | `updateStatus` |
| `ctrl.Result{RequeueAfter}`, an error | `Requeues`, `Return` |
| `--rsync` in minutes, 0 for never | `resyncPeriod` |

A failed run's message may or may not equal the last one (`Messages`), and only one that
differs is a write and with it another event. `synced` is history.

### DesiredState

What both controllers promise, with no queue, watch or worker in it: for each resource the
spec it asks for, what its status reports, what was applied, and which runs have ended and
not yet reported. Services go from older specs to newer ones that were asked for, a report
changes only to the outcome of a run of the spec it stands beside, and only a complete run
is a success.

## 3. Properties and runs

| run | instance | shows |
|---|---|---|
| `seeder_one` | 1 action in every configuration, 2 ids, 4 error codes, 3 faults, 2 edits | `NoDuplicates`, `SuccessMeansSeeded`, `FallbackOnlyOnClientError`, `CleanRunSucceeds`, `ExistingKept`, `NothingUndone`, `RunsConverge` |
| `seeder_list` | 3 actions, 6 configurations, with and without FailFast, 1 fault | `OrderRespected`, `ErrorsComplete`, `FailFastStops`, `ErrorListGrowth`, `ImplementsSeedJob`, `RunsEnd`, `RunsConverge` |
| `seeder_unknown` | as `seeder_list` | violation: `FIND/DELETE` is documented and skipped, with a nil result |
| `seeder_tokens` | as `seeder_one` | violation: a payload is sent with its tokens in it |
| `seeder_get_put` | as `seeder_one` | violation: `GET/PUT/POST` PUTs an item the GET did not show |
| `controller_one` | 1 resource, 2 workers, 2 changes, 1 fault, 1 restart, resync every 2nd hour of 2 | `OneWorkerPerKey`, `NoChangeOverlooked`, `NoOlderSpec`, `StatusIsOfItsSpec`, `ImplementsDesiredState`, `EventuallyInPlace` |
| `controller_two` | 2 resources, 2 workers, 1 change, endless resyncs | `EveryKeyServed` |
| `controller_requeue` | 1 resource, 1 worker, 1 fault | violation: a failed sync is not put back, as a comment says it is |
| `controller_shutdown` | 1 resource, 1 worker, 1 restart | violation: `Run` returns without waiting for its workers |
| `reconciler` | 1 resource, resync period 0 or 1, 2 changes, 2 faults, 1 restart | `NothingForgotten`, `ImplementsDesiredState`, `LoopRunsDown`, `EventuallyInPlace`, `ComesToRest` |
| `restcalls` | 4 definitions in one process, 8 actions, all auth types, 2 names, 1 failed token fetch | `OwnValues`, `CredentialIsOwn`, `NilMeansAuthenticated` |
| `restcalls_context` | as `restcalls` | violation: a text is filled with another resource's value |

Properties whose statement surprises:

* `NoDuplicates` and `ExistingKept` leave out a collection in `raced`: somebody else made
  the item between the action's GET and its POST. No strategy can exclude that.
* `SuccessMeansSeeded` does not vouch for `GET/POST`, which takes any 2XX document for the
  item (`Vouched`), nor for a strategy outside the map, nor for what others changed
  during the run.
* `ErrorListGrowth` is the exact bound of a list that doubles with each action after the
  first error; the joined text ends up in the custom resource's status.
* `RunsConverge` names, strategy by strategy, for which services repeated runs bring the
  item about (`Converges`). `GET/POST` does so only if a missing item is a 2XX without
  body, because it takes a 404 for a failure.
* `RunsEnd`, `CleanRunSucceeds` and `NothingUndone` are what `RunsConverge` consists of
  when fairness is taken away. A run comes to an end; if no call of it failed it has put
  every item that converges in order, whatever earlier runs were cut off in the middle of;
  and a later run does not undo that, its own failures and cut-offs included. Two things
  may: the DELETE of `FIND/DELETE/POST`, and a payload whose tokens were not replaced.
* `NoChangeOverlooked` leaves out `masked` keys: a resource deleted and recreated while
  the watch is broken comes as an update with the generation it had, and `versionsDiffer`
  drops it. `EventuallyInPlace` holds for them too: the periodic resync finds them.

* `OwnValues` is about *private* names, those no other resource of the process sets. Before
  a text is expanded all that the run has captured and all that its action declares is set
  anew, and nothing else: a name the text merely mentions is filled with what is left in
  the environment. The property says what that is (`Left`): the declaration of the nearest
  action before in the same run, and only if there is none a value of an earlier run of the
  resource, or the shell's. So a definition that relies on such a name gets one value in
  its first run and may get another in the next. For names that are not private,
  `LocalContext` makes the least of these claims and is false (`restcalls_context`).
* `NilMeansAuthenticated` holds by an accident worth knowing: after a failed exchange the
  header gets an empty key, which `net/http` refuses, and that is the error reported.
* `CredentialIsOwn` covers entries of one name (the last counts), references to no entry
  and unknown types: those go out without a credential and without a word, which the
  property states as what the code does.
* `ComesToRest` is the other side of `NothingForgotten`: without a resync period the
  controller's own status writes must not keep it busy for ever. With failures bounded
  they do not, because a success writes the same message twice and the second is no write.
  `LoopRunsDown` is its core and says how much is left: an event or a timer costs a run,
  a run may cost a write, a write an event, and only so many runs fail (`WorkLeft`).
* `ImplementsDesiredState` holds of both controllers although they treat events and
  failures in opposite ways; `EventuallyInPlace` rests on the periodic resync in one and on
  the backoff in the other.

**Bounds.** `MaxFaults`, `MaxDrift`, `MaxChanges` and `MaxRestarts` bound what the
environment may do, nothing the program does. Two ids are the fewest that tell a
duplicate; the answers lie on both sides of each limit `do` draws (299/300, 499/500): every
success is a 299, for no strategy tells one 2XX from another, and the four error codes are
300, 499, 500 and no answer. Two edits make and remove an item; three faults let a POST
be lost, the next run's GET fail and the POST be lost again. Three actions are the fewest
with one before and one after a failure, and with two of equal order. In the controller
two workers and one key are all the queue needs to hand a key out twice, two changes are a
delete and a recreation, or an edit behind an edit, and one fault breaks the watch
or one sync. A 2-hour day with a period of 2 has an hour that is due and one that is not.
The second key of `controller_two` is there for starvation alone. In `reconciler` two
faults are a failed run during a broken watch or two failed runs, so that a failure is
retried and fails again. In `restcalls` the first two workers share the name `x` while `id`
is the first one's alone: its first action captures what the second declares, and the first
and the third mention it undeclared, so that a text meets each case of `OwnValues` (the
shell has a value for both names). One action of the second worker names what the first
sets. Workers 3 and 4 panic in `NewAuth` and on a bad address, which may end the process at
any point of the others' runs. One failed fetch is enough, for each run starts from nothing but the environment.

**Deadlock** is checked in every run but `reconciler`, where the system may really come to
rest (that is `ComesToRest`); the others go on for ever.

**Fairness.** `RestCalls` needs none: nothing temporal is claimed of it. `Reconciler`: weak
fairness of the worker, of the watch and of each timer, which is what the manager's
goroutines amount to. `Seeder`: weak fairness of its own steps only. The program runs, a call ends
some day with an answer or an error, and there is always another run (the CLI is started
again, the controller resyncs); faults and crashes carry none. `Controller`:
weak fairness of each worker (goroutines are scheduled; a run of the seeder ends), of
each watch (client-go reconnects), of the clock and of the restart after a stop (the
deployment), and *strong* fairness of "the 60 s resync falls into a due minute". Weak
fairness would be vacuous, since a due minute passes by itself; the informer's ticker and
the wall clock have no common period (the ticker restarts with the process and fires after
processing delays), so missing minute 0 of a due hour for ever is excluded,
missing it any number of times is not. Without it nothing in the code repairs a failed
sync.

**Comments the code does not follow** and no run was spent on: `WithHeader` *adds* to the
default headers (`seeder/rest.go:155` says overwrite); `kubebuilder-controller/controllers/reststrategy_controller.go:76`
speaks of a requeue after 5 minutes where the manager backs off; the leader election flag
is parsed and not handed on (`cmd/controller/rest.go:70`).

## 4. Proofs

| theorem | module | statement |
|---|---|---|
| `TypeCorrect` | SeederProofs | `Spec => []TypeOK` |
| `NeverDuplicates` | SeederProofs | `Spec => []NoDuplicates` |
| `SuccessIsTrue` | SeederProofs | `Spec => []SuccessMeansSeeded` |
| `ErrorsAreComplete` | SeederProofs | `Spec => []ErrorsComplete` |
| `OrderIsRespected` | SeederRunProofs | `Spec => []OrderRespected` |
| `FailFastIsKept` | SeederRunProofs | `Spec => []FailFastStops` |
| `FallbackIsDocumented` | SeederRunProofs | `Spec => []FallbackOnlyOnClientError` |
| `ExistingIsKept` | SeederRunProofs | `Spec => ExistingKept` |
| `Implements` | SeederRunProofs | `Spec => ImplementsSeedJob` |
| `ErrorListIsBounded` | SeederRunProofs | `Spec => []ErrorListGrowth` |
| `RunsComeToAnEnd` | SeederRunProofs | `Spec => RunsEnd` |
| `NothingIsUndone` | SeederRunProofs | `Spec => NothingUndone` |
| `CleanRunsSucceed` | SeederRunProofs | `Spec => []CleanRunSucceeds` |
| `OneCleanRunRepairs` | SeederRunProofs | all actions converge, undisturbed, no call failed: nil, and all in order |
| `KnownStrategiesArePerformed` | SeederRunProofs | registered strategies only: `Spec => []NilMeansAllPerformed` |
| `TypeCorrect` | ControllerProofs | `Spec => []TypeOK` |
| `NeverTwoWorkers` | ControllerProofs | `Spec => []OneWorkerPerKey` |
| `StatusCorrect` | ControllerOrderProofs | `Spec => StatusIsOfItsSpec` |
| `NothingOverlooked` | ControllerOrderProofs | `Spec => []NoChangeOverlooked` |
| `NeverOlder` | ControllerOrderProofs | `Spec => NoOlderSpec` |
| `Implements` | ControllerOrderProofs | `Spec => ImplementsDesiredState` |
| `TypeCorrect` | ReconcilerProofs | `Spec => []TypeOK` |
| `NeverForgotten` | ReconcilerProofs | `Spec => []NothingForgotten` |
| `TheLoopRunsDown` | ReconcilerProofs | `Spec => LoopRunsDown` |
| `Implements` | ReconcilerProofs | `Spec => ImplementsDesiredState` |
| `TypeCorrect` | RestCallsProofs | `Spec => []TypeOK` |
| `CredentialsOwn` | RestCallsProofs | `Spec => []CredentialIsOwn` |
| `DeniedIsReported` | RestCallsProofs | `Spec => []NilMeansAuthenticated` |
| `OwnValuesOnly` | RestCallsProofs | `Spec => OwnValues` |
| `LocalIfNamesAreOwn` | RestCallsProofs | no two resources set a common name: `Spec => LocalContext` |

They hold for every number of actions, ids, resources and workers and for every bound,
from the named assumptions on the constants (`ServiceAssumption`, `SeederAssumption`,
`ControllerAssumption`, `ReconcilerAssumption`, `NoObjectAssumption`, `AuthAssumption`,
`CredentialAssumption`, `RestCallsAssumption`, `ValueAssumption`), which TLC evaluates in
the runs. The sums in `ErrorListGrowth` and `LoopRunsDown` and the count in `RunsEnd` need
one more: a definition has finitely many actions, a cluster finitely many names
(`FiniteAssumption` of `Seeder` and of `Reconciler`).

`KnownStrategiesArePerformed` and `LocalIfNamesAreOwn` mark how far two of the findings
reach: under the condition they name, the very property that a run shows violated holds.

*Seeder.* The lemmas `GetStep`, `WriteStep` and `CallStep` reduce the five HTTP actions to
"the collection of the current action becomes this, the action goes on like that", so the
invariants see two kinds of step instead of nine strategies. `NoDuplicates` is not
inductive: a POST after a search makes a second copy unless there is none. `UniqueInv`
adds that (`PostFindsNone`), that items with a user's id exist under it alone
(`KnownIdOnly`) and that `foundId` comes from a search (`FoundBySearch`).
`SuccessMeansSeeded` rests on `SuccessInv`: every action passed has succeeded or left an
error (`PassedInv`), and what succeeded is still in order unless touched
(`SucceededVouched`).

`ExistingKept` is about steps, and rests on a state: an action that must not update sends
no other write than POST, and its POST only where there is no item (`KeptInv`, with
`UniqueInv` for what a search has seen). `FallbackOnlyOnClientError` needs no more than that
no answer is kept from one action to the next (`FallbackInv`); `OrderRespected` and
`FailFastStops` are inductive as they stand.

`ErrorListGrowth` bounds a sum over the actions, which is defined by recursion on sets.
`SumProofs` gets from that definition what a proof can use without induction: a sum exists
because among the sets that have none there would be a smallest (`MinimalSubset`), and two
sums that differ differ on a smallest set. What the model needs of it is `TotalChanged` (a
sum when one summand changes) and `TotalDoubled` (when all double). Then `GrowthInv`, that
n actions passed leave at most 2^(n+1)-2 errors, is inductive: `performAction` doubles the
list and adds two. That 2^n grows as it should comes from counting subsets (`PowerOfTwo`).

`RunsEnd` is a measure, `StepsLeft`: four times the actions to do, and at most four for
where the one under way is. `EndingStep` and `Onward` show that no answer leads back.
`NothingUndone` and `CleanRunSucceeds` rest on what is known while a call is out.
`RequestsInv` says that a strategy sends only the requests it is named after, so only a
strategy with DELETE in its name deletes. `CleanInv` says, for a run in which nothing
failed, what the request about to be sent will find (`ReadyFor`): a PUT or PATCH an item or
a service that creates, a POST none. `CreateRefused` is the reason a fallback is needed at
all, `StaysSeeded` that an item in order is left in order. With `SuccessMeansSeeded` the two
give `OneCleanRunRepairs`; between it and `RunsConverge` stands only that such a run comes.

The refinement of `SeedJob` uses `SuccessInv` alone. `Outcomes` turns the abstract sets
(active, pending, failed) into `cur`, `todo` and the error list; then each step is one of
the promise: `WorkStep` for the five calls, `TakeStep` for the loop, `RunStep` for begin,
end, refusal and crash, `OutsideStep` for what others do.

*Controller.* `OneWorkerPerKey` follows from `QueueInv`: a busy worker's key is in
`processing`, the order holds a key at most once and none that is processed, and all of
it is dirty. For the rest, `StepKinds` shows that for each resource a step is one of three
things: its known states move (a write, a delivery, a list), a worker reads the informer's
store, or a worker seeds its copy. Under that,

* `VersionsInv`: among the states of a resource that anybody has, a resource version
  determines the spec. So a status the API server accepts belongs to the spec it stands
  beside (`StatusCorrect`), and `versionsDiffer` comparing versions loses nothing but the
  recreation that `masked` marks (`NothingOverlooked`).
* `SpecOrderInv` and `SeedInv`: what was seeded, what workers hold, the store, the watch
  and the server are in the order of writing. A worker that starts to seed has a spec at
  least as new as the last one, because no second worker has the key (`NeverOlder`).

The refinement of `DesiredState` puts these together and adds `SeedingInv`: while a worker
seeds, the services of its key hold its copy's spec and nobody else's. A user's write is
`Ask` or `Withdraw`, a change of a service by hand `Damage`, the two halves of a run `Apply`
and `Finish`, an accepted status `Report`, a crash `Die`; deliveries, lists, the queue and
the clock stutter.

*Reconciler.* `KubernetesProofs` shows `VersionsInv` and `SpecOrderInv` for any controller
that moves the states of a resource as `Kubernetes` does, so they are proved once; the
refinement follows the same argument, with one worker in place of one worker per key.
`NothingForgotten` rests on `KeptInv`: a resource in the store waits in the queue or on a
timer, is with the worker, or, without a resync period, rests after a run of this spec that
went well; and on `RunInv`: a run that ended well has noted the spec it was of.

`LoopRunsDown` needs no invariant about the loop as a whole, only about its parts: a key
handed out was dirty (`QueueInv`, with `WellOrdered` as in the other controller), so taking
it leaves one less, and the verdict of a run is one of two (`RunInv`). `LessWork` reduces
each step to the one resource it deals with by `TotalChanged`; `updateStatusRunsDown` is
the step that matters: a success that writes turns a status that was not "ok" into one that
is, which pays for the event, and what a failure writes was paid for by the fault. Every
other step that happens uses up one of the bounds on the environment, so with fairness
of the loop `ComesToRest` follows; that last inference is not made in TLAPS.

*Requests.* `StepLeaves` is the frame: a step of one worker leaves all that belongs to
another alone except the environment, unless it is a panic, after which everybody is idle.
So each invariant is shown for the worker that moves and carried over for the rest.

* `AuthInv`: `CredentialIsOwn` speaks of the moment of sending only. Before it, the shared
  header may hold the credential of the action's *previous* request, but under the key that
  is about to be overwritten and no other (`Clean`); that is why reusing the map is harmless.
* `DeniedInv`: a worker whose exchange failed has an error in its list or a header that is
  about to be refused (`Denied`); an "ok" is given only to a run without errors.
* `OwnInv`: a run's maps hold its own values only (`Holds`), what the action declares unless
  captured (`Declares`), both after `Extend` (`Extended`).
* `RemainsInv` is the environment under a private name, which nobody else writes: what a text
  of the action has set is there, and what none of them sets is as `Left` says. It must hold
  between the texts too, or nothing would be known when the next action comes to a name it
  does not declare (`LeftNext`); a new run finds only older values (`LeftFirst`).

All these invariants were checked with TLC on the instances of the runs first.

**Only model-checked**: liveness (`RunsConverge`, `EventuallyInPlace`, `EveryKeyServed`,
`ComesToRest`), which with ENABLED is out of the prover's reach; of two of them the part
that is not fairness is proved, as said above. The external modules are
assumed, not proved: that a service, the API server and client-go's queue behave as
`RestService`, `Kubernetes` and `WorkQueue` say.

## 5. Abstractions, and what is not modelled

* The payload is its content class; templating and header contents are left out of
  `Seeder`. Two actions, or two resources, that write the same endpoint are not modelled:
  collections are apart per action.
* A malformed template gives an empty text and no error; texts are always well formed here.
* A definition is a map from names to actions. The controllers make it out of a list in
  which names may collide (`controller/pkg/rstservice/rstservice.go:34`); the CLI reads a map.
* The event recorder of the controller, log lines, metrics and probes are left out.
* `AddRateLimited` is not modelled because it is not reachable: `syncHandler` returns an
  error only if the lister fails with something other than NotFound, and a lister over the
  informer's store does not.
* `--rsync 0` is excluded by `ControllerAssumption` (it divides by zero at the first event).
* A request sent by a process that then died is over at once: it was applied or not
  before the next process starts. One that arrives later can undo what the next run did.
* Two replicas of a controller: the CRD controller has no leader election. One is modelled.
* CLI, signals, generated code and test tooling are listed in `PROJECT.json` with reasons.

## 6. Plan

Modelled: the seeder, its requests, both controllers, the promise each keeps; proved: all
safety properties, the refinements, and the measures behind `RunsConverge` and
`ComesToRest`. What is left, most useful first:

1. Two seeders over one `RestService` collection: what two resources that name one
   endpoint do to each other (`controller/internal/k8s/controller.go:180`). The queue only
   keeps two workers from one *resource*.
2. The definition as a list with names that may collide.
3. A run for the documented "captured from a PUT or POST" of runtime variables, which the
   code captures from a GET too; malformed templates.
4. Two replicas of the CRD controller, which has no leader election.

Reading order: `SeedJob`, `RestService`, `Seeder`, `SeederProperties`; `Templating`, `Auth`,
`RestCalls`, `RestCallsProperties`; `DesiredState`, `WorkQueue`, `Kubernetes`, `Controller`,
`ControllerProperties`, `Reconciler`, `ReconcilerProperties`; the proof modules last, each
in the order of its component.
