------------------------------- MODULE Seeder -------------------------------
(***************************************************************************)
(* One StrategyRestSeeder and the runs it makes: Execute with its ordering *)
(* and its error list, performAction, the nine strategy functions, and the *)
(* verdict do() passes on every HTTP answer.                               *)
(*                                                                         *)
(* A step is one HTTP call with the code up to the next call: what happens *)
(* in between touches only the seeder's own locals, so nothing another     *)
(* process does can be told apart from it happening before or after.  The  *)
(* service answers as RestService says or, at most MaxFaults times, fails. *)
(* Between any two steps the process may die, and somebody else (at most   *)
(* MaxDrift times) may change the service by hand.                         *)
(*                                                                         *)
(* Runs follow each other for ever: the CLI is started again, the          *)
(* controller resyncs.  Nothing but the service's state survives a run.    *)
(***************************************************************************)
EXTENDS RestService, FiniteSets

CONSTANTS
    Action,      \* the actions of the definition, by name
    NoAction,
    Config,      \* the configurations an action may have, a set of records
    NoOrder,     \* Action.Order = nil
    FailFast,    \* the values of Options.FailFast, a set of Booleans
    MaxFaults,
    MaxDrift

Known == {"PUT", "POST", "PUT/POST", "GET/PUT/POST", "FIND/PUT/POST",
          "FIND/POST", "GET/POST", "FIND/DELETE/POST", "FIND/PATCH/POST"}
Strategies == Known \union {"FIND/DELETE"}

ActionConfig ==
    [strategy : Strategies, order : Int \union {NoOrder},
     expr : BOOLEAN,                 \* FindByJsonPathExpr # ""
     postIsPut : BOOLEAN,
     notFound : NotFoundStyle, putCreates : BOOLEAN]   \* of the service

ASSUME SeederAssumption ==
    /\ NoAction \notin Action
    /\ NoOrder \notin Int
    /\ Config \subseteq ActionConfig
    /\ FailFast \subseteq BOOLEAN
    /\ MaxFaults \in Nat
    /\ MaxDrift \in Nat

\* Actions are the entries of a map in a file.
ASSUME FiniteAssumption == IsFiniteSet(Action)

VARIABLES
    job,        \* the definition: an action's configuration, FailFast
    store,      \* the service's collections
    pc,         \* "idle", "next" (head of the loop), or the next HTTP method
    cur,        \* the action being performed
    todo,       \* actions the loop has not reached
    foundId,    \* Action.foundId of cur
    raw,        \* cur's ConfigManager tokens could not be replaced
    last,       \* code of the last answer to a request of cur, 0 before it
    errs,       \* how often each action's errors occur in the error list
    result,     \* what Execute returned last
    succeeded,  \* history: actions of this run that left no error
    touched,    \* history: collections changed by others during this run
    raced,      \* history: created by others between a GET and its POST
    clean,      \* history: nothing has failed in this run
    faults,     \* failures that can still happen
    drift       \* changes by others that can still happen

run   == <<pc, cur, todo, foundId, raw, last, errs, result, succeeded>>
world == <<store, touched, raced, clean, faults, drift>>
vars  == <<job, run, world>>

cfg == job.act[cur]
Method == {"GET", "PUT", "PATCH", "DELETE", "POST"}

\* Strategies whose endpoints name the item; the others search for it.
KnowsId(s) == s \in {"PUT", "PUT/POST", "GET/PUT/POST", "GET/POST"}
Where(s) == IF KnowsId(s) THEN {KnownId} ELSE Id

Order(a) == IF job.act[a].order = NoOrder THEN 999 ELSE job.act[a].order
HasErrs == \E a \in Action : errs[a] > 0

Init ==
    /\ job \in [act : [Action -> Config], failFast : FailFast]
    /\ store \in [Action -> {c \in [Id -> {"absent", "old"}] :
                               \A i \in Present(c) : i = KnownId}]
    /\ pc = "idle" /\ cur = NoAction /\ todo = Action
    /\ foundId = NoId /\ raw = FALSE /\ last = 0
    /\ errs = [a \in Action |-> 0] /\ result = "none" /\ succeeded = {}
    /\ touched = {} /\ raced = {} /\ clean = TRUE
    /\ faults = MaxFaults /\ drift = MaxDrift

-----------------------------------------------------------------------------
(* What do() makes of a status code.                                       *)

\* A bug a run must find: 300 taken for a success.
BugIsError(code) == code > 300
IsError(code) == code > 299
\* A bug: a 5XX does not reset ProceedFallback.
BugProceedFallback(code) == code > 299
ProceedFallback(code) == code > 299 /\ code < 500
IsFatal(code) == code = NetworkError

\* The path expression over a GET's body: an id, NoId if it yields nothing or
\* there is no expression, an error on a body it cannot be evaluated on.
FindFails(r) == cfg.expr /\ r.body \in {"empty", "bad"}
\* A bug: the matched document instead of the id in it.
BugFound(r) == IF cfg.expr /\ r.body = "item" THEN r.body ELSE NoId
Found(r) == IF cfg.expr /\ r.body = "item" THEN r.id ELSE NoId

-----------------------------------------------------------------------------
(* How a step of the action ends.  Each fixes every variable of `run`.     *)

\* Bugs: the strategy's error is dropped when the tokens could not be replaced;
\* the action's own errors are appended once more.
BugAppendErrsLost(fnFailed) ==
    IF raw \/ ~fnFailed THEN errs ELSE [errs EXCEPT ![cur] = @ + 1]
BugAppendErrsTwice(fnFailed) ==
    LET own == (IF raw THEN 1 ELSE 0) + (IF fnFailed THEN 1 ELSE 0)
    IN  [a \in Action |-> 2 * errs[a] + IF a = cur THEN 2 * own ELSE 0]

\* Execute appends what performAction returned, and performAction returned the
\* errors it was given with its own at the end: the list at least doubles.
AppendErrs(fnFailed) ==
    LET own == (IF raw THEN 1 ELSE 0) + (IF fnFailed THEN 1 ELSE 0)
        out == [errs EXCEPT ![cur] = @ + own]
    IN  IF \E a \in Action : out[a] > 0
        THEN [a \in Action |-> errs[a] + out[a]]
        ELSE errs

EndAction(fnFailed) ==
    /\ errs' = AppendErrs(fnFailed)
    /\ succeeded' = IF fnFailed \/ raw THEN succeeded ELSE succeeded \union {cur}
    /\ pc' = "next" /\ cur' = NoAction
    /\ foundId' = NoId /\ raw' = FALSE /\ last' = 0
    /\ UNCHANGED <<todo, result>>

Return    == EndAction(FALSE)
ReturnErr == EndAction(TRUE)

\* The strategy goes on with another request.
Send(method, id, code) ==
    /\ pc' = method /\ foundId' = id /\ last' = code
    /\ UNCHANGED <<cur, todo, raw, errs, result, succeeded>>

-----------------------------------------------------------------------------
(* The strategies that begin with a GET, from its answer r on.             *)

\* A bug: a failed GET is taken for "not found", as in GetPutPost.
BugGetPost(r) ==
    \/ r.body = "empty" /\ Send("POST", NoId, r.code)
    \/ r.body # "empty" /\ Return

GetPost(r) ==
    \/ IsError(r.code) /\ ReturnErr
    \/ ~IsError(r.code) /\ r.body = "empty" /\ Send("POST", NoId, r.code)
    \/ ~IsError(r.code) /\ r.body # "empty" /\ Return

FindPost(r) ==
    \/ (IsError(r.code) \/ FindFails(r)) /\ ReturnErr
    \/ /\ ~IsError(r.code) /\ ~FindFails(r)
       /\ \/ (Found(r) = NoId \/ cfg.postIsPut) /\ Send("POST", NoId, r.code)
          \/ Found(r) # NoId /\ ~cfg.postIsPut /\ Return

\* A bug: the GET's error is not looked at.
BugFindUpdatePost(r, method) ==
    \/ Found(r) = NoId /\ Send("POST", NoId, r.code)
    \/ Found(r) # NoId /\ Send(method, Found(r), r.code)

\* FindPutPost and FindPatchPost differ in the method alone.
FindUpdatePost(r, method) ==
    \/ (IsError(r.code) \/ FindFails(r)) /\ ReturnErr
    \/ /\ ~IsError(r.code) /\ ~FindFails(r)
       /\ \/ Found(r) = NoId /\ Send("POST", NoId, r.code)
          \/ Found(r) # NoId /\ Send(method, Found(r), r.code)

FindDeletePost(r) ==
    LET stop == IsError(r.code) /\ ~ProceedFallback(r.code) IN
    \/ (stop \/ FindFails(r)) /\ ReturnErr
    \/ /\ ~stop /\ ~FindFails(r)
       /\ \/ Found(r) = NoId /\ Send("POST", NoId, r.code)
          \/ Found(r) # NoId /\ Send("DELETE", Found(r), r.code)

\* A bug: the item is deleted and made again in place of updated.
BugFindPutPost(r) == FindDeletePost(r)
FindPutPost(r) == FindUpdatePost(r, "PUT")
FindPatchPost(r) == FindUpdatePost(r, "PATCH")

\* A bug: a 4XX, "there is none", ends the action.
BugGetPutPost(r) ==
    \/ IsError(r.code) /\ ReturnErr
    \/ ~IsError(r.code) /\ r.body = "empty" /\ Send("POST", NoId, r.code)
    \/ ~IsError(r.code) /\ r.body # "empty" /\ Send("PUT", NoId, r.code)

GetPutPost(r) ==
    LET stop == IsError(r.code) /\ ~ProceedFallback(r.code) IN
    \/ stop /\ ReturnErr
    \/ ~stop /\ r.body = "empty" /\ Send("POST", NoId, r.code)
    \/ ~stop /\ r.body # "empty" /\ Send("PUT", NoId, r.code)

AfterGet(r) ==
    \/ cfg.strategy = "GET/POST"         /\ GetPost(r)
    \/ cfg.strategy = "FIND/POST"        /\ FindPost(r)
    \/ cfg.strategy = "FIND/PUT/POST"    /\ FindPutPost(r)
    \/ cfg.strategy = "FIND/PATCH/POST"  /\ FindPatchPost(r)
    \/ cfg.strategy = "FIND/DELETE/POST" /\ FindDeletePost(r)
    \/ cfg.strategy = "GET/PUT/POST"     /\ GetPutPost(r)

-----------------------------------------------------------------------------
(* The five HTTP methods.                                                  *)

Fault == faults > 0 /\ faults' = faults - 1 /\ clean' = FALSE

get ==
    /\ pc = "GET"
    /\ \/ /\ \E r \in GetReplies(store[cur], Where(cfg.strategy), cfg.notFound) :
               AfterGet(r)
          /\ UNCHANGED <<faults, clean>>
       \/ (\E r \in GetFaults : AfterGet(r)) /\ Fault
    /\ UNCHANGED <<job, store, touched, raced, drift>>

\* A write whose effects in order are `effects`, and what follows its code.
Write(effects, Then(_)) ==
    /\ \/ /\ \E x \in effects : store' = [store EXCEPT ![cur] = x.store] /\ Then(x.code)
          /\ UNCHANGED <<faults, clean>>
       \/ /\ \E x \in WriteFaults(store[cur], effects) :
               store' = [store EXCEPT ![cur] = x.store] /\ Then(x.code)
          /\ Fault
    /\ UNCHANGED <<job, touched, raced, drift>>

ReturnCode(code) ==
    \/ IsError(code) /\ ReturnErr
    \/ ~IsError(code) /\ Return

Payload == IF raw THEN "raw" ELSE "new"
PathId == IF foundId = NoId THEN KnownId ELSE foundId

\* A bug: every error of the PUT is final.
BugPutPost(code) == ReturnCode(code)

PutPost(code) ==
    \/ ~IsError(code) /\ Return
    \/ IsError(code) /\ (IsFatal(code) \/ ~ProceedFallback(code)) /\ ReturnErr
    \/ IsError(code) /\ ~(IsFatal(code) \/ ~ProceedFallback(code)) /\ Send("POST", NoId, code)

put ==
    /\ pc = "PUT"
    /\ LET effects == Update(store[cur], PathId, Payload, cfg.putCreates /\ KnowsId(cfg.strategy)) IN
       \/ cfg.strategy = "PUT/POST" /\ Write(effects, PutPost)
       \/ cfg.strategy # "PUT/POST" /\ Write(effects, ReturnCode)

patch ==
    /\ pc = "PATCH"
    /\ Write(Update(store[cur], PathId, Payload, FALSE), ReturnCode)

\* A bug: the DELETE's error is swallowed and the action ends.
BugAfterDelete(code) ==
    \/ IsError(code) /\ Return
    \/ ~IsError(code) /\ Send("POST", foundId, code)

\* A bug: a DELETE that failed is sent again.
BugAfterDeleteRetry(code) ==
    \/ IsError(code) /\ Send("DELETE", foundId, code)
    \/ ~IsError(code) /\ Send("POST", foundId, code)

AfterDelete(code) ==
    \/ IsError(code) /\ ReturnErr
    \/ ~IsError(code) /\ Send("POST", foundId, code)

delete ==
    /\ pc = "DELETE"
    /\ Write(Delete(store[cur], PathId), AfterDelete)

post ==
    /\ pc = "POST"
    /\ Write(Create(store[cur], Where(cfg.strategy), Payload,
                    cfg.postIsPut \/ KnowsId(cfg.strategy)), ReturnCode)

-----------------------------------------------------------------------------
(* Execute.                                                                *)

BeginRun ==
    /\ todo' = Action
    /\ errs' = [a \in Action |-> 0] /\ succeeded' = {} /\ touched' = {}
    /\ UNCHANGED <<job, store, cur, foundId, raw, last, raced, drift>>

Execute ==
    /\ pc = "idle" /\ pc' = "next" /\ result' = "none"
    /\ BeginRun /\ clean' = TRUE /\ UNCHANGED faults

\* replaceAuthTokens fails: nothing is performed.
ExecuteNoAuth ==
    /\ pc = "idle" /\ pc' = "idle" /\ result' = "error"
    /\ BeginRun /\ Fault

\* A bug: the list is not sorted.
BugAtHead(a) == a \in todo
\* The sorted list's next element: one of the lowest order, ties in any order.
AtHead(a) == a \in todo /\ \A b \in todo : Order(a) <= Order(b)
\* Bugs: FailFast is ignored; FailFast is always on.
BugStoppedNever == todo = {}
BugStoppedAlways == todo = {} \/ HasErrs
Stopped == todo = {} \/ (job.failFast /\ HasErrs)

FirstMethod(s) == IF s \in {"PUT", "PUT/POST"} THEN "PUT"
                  ELSE IF s = "POST" THEN "POST" ELSE "GET"

performAction(a) ==
    /\ pc = "next" /\ ~Stopped /\ AtHead(a)
    /\ job.act[a].strategy \in Known
    /\ cur' = a /\ todo' = todo \ {a} /\ pc' = FirstMethod(job.act[a].strategy)
    /\ \/ raw' = FALSE /\ UNCHANGED <<faults, clean>>
       \/ raw' = TRUE /\ Fault      \* configManagerReplaceAction fails
    /\ UNCHANGED <<job, store, foundId, last, errs, result, succeeded, touched, raced, drift>>

SkipUnknown(a) ==
    /\ pc = "next" /\ ~Stopped /\ AtHead(a)
    /\ job.act[a].strategy \notin Known
    /\ todo' = todo \ {a}
    /\ UNCHANGED <<job, pc, cur, foundId, raw, last, errs, result, succeeded, world>>

ExecuteReturns ==
    /\ pc = "next" /\ Stopped
    /\ pc' = "idle" /\ result' = IF HasErrs THEN "error" ELSE "ok"
    /\ UNCHANGED <<job, cur, todo, foundId, raw, last, errs, succeeded, world>>

-----------------------------------------------------------------------------
(* Everybody else.                                                         *)

\* The process ends: killed, a panic in setAuthHeader without a token, the
\* controller's Run returning before its workers have.
Crash ==
    /\ pc # "idle" /\ Fault
    /\ pc' = "idle" /\ result' = "none" /\ cur' = NoAction /\ todo' = Action
    /\ foundId' = NoId /\ raw' = FALSE /\ last' = 0
    /\ errs' = [a \in Action |-> 0] /\ succeeded' = {}
    /\ UNCHANGED <<job, store, touched, raced, drift>>

\* Somebody edits, removes or (if there is none) makes an item by hand.
Drift(a) ==
    /\ drift > 0 /\ drift' = drift - 1
    /\ touched' = touched \union {a}
    /\ LET c == store[a] IN
       \/ /\ \E i \in Present(c), s \in {"absent", "old"} :
               c[i] # s /\ store' = [store EXCEPT ![a] = [c EXCEPT ![i] = s]]
          /\ UNCHANGED raced
       \/ /\ Present(c) = {}
          /\ \E i \in Where(job.act[a].strategy) :
               store' = [store EXCEPT ![a] = [c EXCEPT ![i] = "old"]]
          /\ raced' = IF cur = a /\ pc = "POST" THEN raced \union {a} ELSE raced
    /\ UNCHANGED <<job, run, faults, clean>>

SeederStep ==
    \/ Execute \/ ExecuteReturns
    \/ \E a \in Action : performAction(a) \/ SkipUnknown(a)
    \/ get \/ put \/ patch \/ delete \/ post

Next == SeederStep \/ ExecuteNoAuth \/ Crash \/ \E a \in Action : Drift(a)

Spec == Init /\ [][Next]_vars

\* The program runs on, every request is answered some day, and there is always
\* another run.
FairSpec == Spec /\ WF_vars(SeederStep)
=============================================================================
