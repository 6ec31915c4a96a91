--------------------------- MODULE SeederRunProofs ---------------------------
(***************************************************************************)
(* Proofs about the requests of an action and the list of actions, and     *)
(* that Seeder implements SeedJob.                                         *)
(***************************************************************************)
EXTENDS SeederProofs, SumProofs

USE DEF Success

-----------------------------------------------------------------------------
(* The order of the actions.                                               *)

LEMMA OrderStep == ASSUME TypeOK, OrderRespected, [Next]_vars PROVE OrderRespected'
<1>1. CASE pc' = "idle" \/ todo' = Action BY <1>1 DEF OrderRespected
<1>2. CASE UNCHANGED <<job, todo>> /\ pc # "idle" BY <1>2 DEF OrderRespected
<1>3. ASSUME NEW a \in Action, pc = "next", AtHead(a), todo' = todo \ {a}, UNCHANGED job
      PROVE  OrderRespected'
  <2>1. \A b \in Action : job.act[b].order \in Int \union {NoOrder}
    BY SeederAssumption DEF TypeOK, JobTypeOK, ActionConfig
  <2>2. \A b \in todo : Order(a) <= Order(b) BY <1>3 DEF AtHead
  <2>3. ASSUME NEW b \in Action \ todo', NEW c \in todo'
        PROVE  LET p == job.act[b].order
                   q == job.act[c].order
               IN  /\ p # NoOrder /\ q # NoOrder => p <= q
                   /\ p = NoOrder /\ q # NoOrder => q >= 999
                   /\ p # NoOrder /\ q = NoOrder => p <= 999
    <3>1. c \in todo /\ c \in Action BY <1>3, <2>3 DEF TypeOK, RunTypeOK
    <3>2. CASE b = a
      <4>1. Order(a) <= Order(c) BY <2>2, <3>1
      <4> QED BY <2>1, <3>1, <3>2, <4>1 DEF Order
    <3>3. CASE b # a
      <4>1. b \in Action \ todo BY <1>3, <2>3, <3>3
      <4> QED BY <1>3, <3>1, <4>1 DEF OrderRespected
    <3> QED BY <3>2, <3>3
  <2> QED BY <1>3, <2>3 DEF OrderRespected
<1>4. ASSUME NEW a \in Action, performAction(a) \/ SkipUnknown(a) PROVE OrderRespected'
  BY <1>3, <1>4 DEF performAction, SkipUnknown
<1>5. CASE get \/ put \/ patch \/ delete \/ post
  <2>1. pc \in Method /\ UNCHANGED job BY <1>5, CallStep
  <2>2. UNCHANGED todo BY <1>5, CallStep DEF Goes, Return, ReturnErr, EndAction, Send
  <2> QED BY <1>2, <2>1, <2>2 DEF Method
<1>6. CASE \E a \in Action : Drift(a)
  <2>1. UNCHANGED <<job, pc, todo>> BY <1>6 DEF Drift, run
  <2> QED BY <2>1 DEF OrderRespected
<1>7. CASE UNCHANGED vars
  <2>1. UNCHANGED <<job, pc, todo>> BY <1>7 DEF vars, run
  <2> QED BY <2>1 DEF OrderRespected
<1>8. CASE Execute \/ ExecuteNoAuth \/ ExecuteReturns \/ Crash
  BY <1>1, <1>8 DEF Execute, ExecuteNoAuth, BeginRun, ExecuteReturns, Crash
<1> QED BY <1>4, <1>5, <1>6, <1>7, <1>8 DEF Next, SeederStep

\* No action begins before one of a lower order has ended.
THEOREM OrderIsRespected == Spec => []OrderRespected
<1>1. Init => OrderRespected BY DEF Init, OrderRespected
<1> QED BY <1>1, OrderStep, TypeCorrect, PTL DEF Spec

-----------------------------------------------------------------------------
(* FailFast.                                                               *)

LEMMA FailFastStep == ASSUME TypeOK, FailFastStops, [Next]_vars PROVE FailFastStops'
<1>1. CASE ~HasErrs' BY <1>1 DEF FailFastStops
<1>2. CASE UNCHANGED <<job, errs>> /\ (pc' = pc \/ pc' = "idle" \/ ~(job.failFast /\ HasErrs))
  BY <1>2 DEF FailFastStops, HasErrs
<1>3. ASSUME NEW f \in BOOLEAN, EndAction(f), pc \in Method, cur \in Action, UNCHANGED job
      PROVE  FailFastStops'
  <2>1. CASE job.failFast
    <3>1. \A a \in Action : errs[a] = 0
      BY <1>3, <2>1 DEF FailFastStops, HasErrs, Method, TypeOK, RunTypeOK
    <3> DEFINE own == (IF raw THEN 1 ELSE 0) + (IF f THEN 1 ELSE 0)
               out == [errs EXCEPT ![cur] = @ + own]
    <3>2. own \in 0..2 OBVIOUS
    <3>3. errs' = IF \E a \in Action : out[a] > 0 THEN [a \in Action |-> errs[a] + out[a]] ELSE errs
      BY <1>3 DEF EndAction, AppendErrs
    <3> HIDE DEF own
    <3>4. \A a \in Action : out[a] = IF a = cur THEN own ELSE 0
      BY <3>1, <3>2 DEF TypeOK, RunTypeOK
    <3> HIDE DEF out
    <3>5. errs'[cur] <= 2 /\ \A a \in Action \ {cur} : errs'[a] = 0
      BY <1>3, <3>1, <3>2, <3>3, <3>4
    <3> QED BY <1>3, <3>5 DEF EndAction, FailFastStops
  <2>2. CASE ~job.failFast BY <1>3, <2>2 DEF FailFastStops
  <2> QED BY <2>1, <2>2
<1>4. CASE get \/ put \/ patch \/ delete \/ post
  <2>1. /\ pc \in Method /\ cur \in Action /\ UNCHANGED job /\ \E code \in Nat : Goes(code)
    BY <1>4, CallStep
  <2>2. CASE Return \/ ReturnErr BY <1>3, <2>1, <2>2 DEF Return, ReturnErr
  <2>3. CASE \E m, i, code : Send(m, i, code)
    <3>1. ~(job.failFast /\ HasErrs) BY <2>1 DEF FailFastStops, Method
    <3> QED BY <1>2, <2>1, <2>3, <3>1 DEF Send
  <2> QED BY <2>1, <2>2, <2>3 DEF Goes
<1>5. ASSUME NEW a \in Action, performAction(a) \/ SkipUnknown(a) PROVE FailFastStops'
  BY <1>2, <1>5 DEF performAction, SkipUnknown, Stopped
<1>6. CASE Execute \/ ExecuteNoAuth \/ Crash
  <2>1. errs' = [a \in Action |-> 0] BY <1>6 DEF Execute, ExecuteNoAuth, BeginRun, Crash
  <2> QED BY <1>1, <2>1 DEF HasErrs
<1>7. CASE ExecuteReturns \/ (\E a \in Action : Drift(a)) \/ UNCHANGED vars
  <2>1. UNCHANGED <<job, errs>> /\ (pc' = pc \/ pc' = "idle")
    BY <1>7 DEF ExecuteReturns, Drift, run, vars
  <2> QED BY <1>2, <2>1
<1> QED BY <1>4, <1>5, <1>6, <1>7 DEF Next, SeederStep

\* With FailFast nothing follows a failed action, and the error list holds that
\* action's errors alone.
THEOREM FailFastIsKept == Spec => []FailFastStops
<1>1. Init => FailFastStops BY DEF Init, FailFastStops, HasErrs
<1> QED BY <1>1, FailFastStep, TypeCorrect, PTL DEF Spec

-----------------------------------------------------------------------------
(* Fallbacks.                                                              *)

\* Every reply with an error code is empty.
LEMMA ErrorIsEmpty ==
    ASSUME NEW c, NEW where, NEW style,
           NEW r \in GetReplies(c, where, style) \union GetFaults, r.code > 299
    PROVE  r.body = "empty"
BY DEF GetReplies, GetFaults, NotFoundReply, Failed

LEMMA FallbackGet ==
    ASSUME TypeOK, get, NEW m \in Method, NEW i, NEW code \in Nat, Send(m, i, code), code > 299
    PROVE  /\ code < 500 /\ m = "POST"
           /\ \/ cfg.strategy = "GET/PUT/POST"
              \/ cfg.strategy = "FIND/DELETE/POST" /\ ~cfg.expr
<1>1. PICK r \in GetReplies(store[cur], Where(cfg.strategy), cfg.notFound) \union GetFaults :
        AfterGet(r) /\ r \in Reply /\ r.code \in Nat
  BY GetStep
<1>2. ~Return /\ ~ReturnErr BY DEF Send, Return, ReturnErr, EndAction, Method
<1>3. last' = code /\ pc' = m BY DEF Send
<1>4. r.code = code
  BY <1>1, <1>2, <1>3, AfterGetGoes DEF AfterGet, GetPost, FindPost, FindPutPost, FindPatchPost,
     FindUpdatePost, FindDeletePost, GetPutPost, Send
<1>5. IsError(r.code) /\ r.body = "empty" BY <1>1, <1>4, ErrorIsEmpty DEF IsError
<1>6. CASE cfg.strategy = "GET/PUT/POST"
  BY <1>1, <1>2, <1>3, <1>4, <1>5, <1>6 DEF AfterGet, GetPutPost, ProceedFallback, Send
<1>7. CASE cfg.strategy = "FIND/DELETE/POST"
  <2>1. FindDeletePost(r) BY <1>1, <1>7 DEF AfterGet
  <2>2. ~FindFails(r) /\ ProceedFallback(r.code) BY <1>2, <1>5, <2>1 DEF FindDeletePost
  <2>3. ~cfg.expr BY <1>5, <2>2 DEF FindFails
  <2>4. Found(r) = NoId BY <2>3 DEF Found
  <2>5. Send("POST", NoId, r.code) BY <1>2, <2>1, <2>4 DEF FindDeletePost
  <2> QED BY <1>3, <1>4, <1>7, <2>2, <2>3, <2>5 DEF ProceedFallback, Send
<1>8. CASE cfg.strategy \notin {"GET/PUT/POST", "FIND/DELETE/POST"}
  BY <1>1, <1>2, <1>5, <1>8 DEF AfterGet, GetPost, FindPost, FindPutPost, FindPatchPost,
     FindUpdatePost
<1> QED BY <1>6, <1>7, <1>8

LEMMA FallbackWrite ==
    ASSUME TypeOK, put \/ patch \/ delete \/ post,
           NEW m \in Method, NEW i, NEW code \in Nat, Send(m, i, code), code > 299
    PROVE  code < 500 /\ m = "POST" /\ cfg.strategy = "PUT/POST"
<1>1. PICK x \in Effects \union WriteFaults(store[cur], Effects) : AfterWrite(x.code)
  BY WriteStep
<1>2. ~Return /\ ~ReturnErr BY DEF Send, Return, ReturnErr, EndAction, Method
<1>3. last' = code /\ pc' = m BY DEF Send
<1>4. ~ReturnCode(x.code) BY <1>2 DEF ReturnCode
<1>5. CASE pc = "PUT" /\ cfg.strategy = "PUT/POST" /\ PutPost(x.code)
  BY <1>2, <1>3, <1>5 DEF PutPost, Send, ProceedFallback
<1>6. CASE pc = "DELETE" /\ AfterDelete(x.code)
  BY <1>2, <1>3, <1>6 DEF AfterDelete, Send, IsError
<1> QED BY <1>1, <1>4, <1>5, <1>6 DEF AfterWrite

LEMMA FallbackStep == ASSUME TypeOK, FallbackInv, [Next]_vars PROVE FallbackInv'
<1>1. CASE UNCHANGED <<job, pc, cur, last>>
  BY <1>1 DEF FallbackInv, FallbackOnlyOnClientError, cfg
<1>2. CASE last' = 0 BY <1>2 DEF FallbackInv, FallbackOnlyOnClientError
<1>3. CASE get \/ put \/ patch \/ delete \/ post
  <2>1. UNCHANGED job /\ \E code \in Nat : Goes(code) BY <1>3, CallStep
  <2>2. CASE Return \/ ReturnErr BY <1>2, <2>2 DEF Return, ReturnErr, EndAction
  <2>3. CASE \E m \in Method, i \in Id \union {NoId}, code \in Nat : Send(m, i, code)
    <3>1. PICK m \in Method, i \in Id \union {NoId}, code \in Nat : Send(m, i, code) BY <2>3
    <3>2. pc' = m /\ last' = code /\ cur' = cur BY <3>1 DEF Send
    <3>3. code > 299 => /\ code < 500 /\ m = "POST"
                        /\ \/ cfg.strategy \in {"PUT/POST", "GET/PUT/POST"}
                           \/ cfg.strategy = "FIND/DELETE/POST" /\ ~cfg.expr
      BY <1>3, <3>1, FallbackGet, FallbackWrite
    <3> QED BY <2>1, <3>2, <3>3 DEF FallbackInv, FallbackOnlyOnClientError, cfg
  <2> QED BY <2>1, <2>2, <2>3 DEF Goes
<1>4. ASSUME pc \notin Method, last' = last PROVE FallbackInv'
  BY <1>2, <1>4 DEF FallbackInv
<1>5. CASE Execute \/ ExecuteNoAuth \/ ExecuteReturns
             \/ \E a \in Action : performAction(a) \/ SkipUnknown(a)
  BY <1>4, <1>5 DEF Execute, ExecuteNoAuth, BeginRun, ExecuteReturns, performAction, SkipUnknown,
     Method
<1>6. CASE Crash BY <1>2, <1>6 DEF Crash
<1>7. CASE (\E a \in Action : Drift(a)) \/ UNCHANGED vars
  BY <1>1, <1>7 DEF Drift, run, vars
<1> QED BY <1>3, <1>5, <1>6, <1>7 DEF Next, SeederStep

\* Nothing is sent after a 5XX or a call without an answer, and after a 3XX or 4XX only the
\* POST of a strategy that documents one.
THEOREM FallbackIsDocumented == Spec => []FallbackOnlyOnClientError
<1>1. Init => FallbackInv BY DEF Init, FallbackInv, FallbackOnlyOnClientError, Method
<1>2. FallbackInv => FallbackOnlyOnClientError BY DEF FallbackInv
<1> QED BY <1>1, <1>2, FallbackStep, TypeCorrect, PTL DEF Spec

-----------------------------------------------------------------------------
(* What must not be updated is not.                                        *)

\* An empty answer that is no error says that there is nothing.
LEMMA EmptyMeans ==
    ASSUME NEW c, NEW where, NEW style,
           NEW r \in GetReplies(c, where, style) \union GetFaults,
           r.body = "empty", r.code <= 299
    PROVE  Present(c) \intersect where = {}
BY ServiceAssumption DEF GetReplies, GetFaults, NotFoundReply, Failed, NetworkError

LEMMA KeptGet ==
    ASSUME TypeOK, UniqueInv, UniqueInv', KeptInv, get PROVE KeptInv'
<1>1. PICK r \in GetReplies(store[cur], Where(cfg.strategy), cfg.notFound) \union GetFaults :
        AfterGet(r) /\ r \in Reply /\ r.code \in Nat
  BY GetStep
<1>2. UNCHANGED <<job, store, raced>> /\ pc = "GET" /\ cur \in Action /\ cur # NoAction
  BY GetStep, CallArguments, SeederAssumption
<1>3. CASE Return \/ ReturnErr
  BY <1>3 DEF Return, ReturnErr, EndAction, KeptInv
<1>4. CASE ~KeepsExisting(cur) /\ \E m, i, code : Send(m, i, code)
  BY <1>2, <1>4 DEF Send, KeptInv, KeepsExisting
<1>5. CASE cfg.strategy = "GET/POST" /\ ~Return /\ ~ReturnErr
  <2>1. /\ Send("POST", NoId, r.code) /\ ~IsError(r.code) /\ r.body = "empty"
    BY <1>1, <1>5 DEF AfterGet, GetPost
  <2>2. Present(store[cur]) \intersect {KnownId} = {}
    BY <1>1, <1>5, <2>1, EmptyMeans DEF IsError, Where, KnowsId
  <2>3. Present(store[cur]) \subseteq {KnownId}
    BY <1>2, <1>5 DEF UniqueInv, KnownIdOnly, KnowsId, cfg
  <2> QED BY <1>2, <2>1, <2>2, <2>3 DEF Send, KeptInv
<1>6. CASE cfg.strategy = "FIND/POST" /\ ~cfg.postIsPut /\ ~Return /\ ~ReturnErr
  <2>1. Send("POST", NoId, r.code) BY <1>1, <1>6 DEF AfterGet, FindPost
  <2>2. cfg' = cfg /\ cur' = cur /\ pc' = "POST" BY <1>2, <2>1 DEF Send, cfg
  <2>3. cur' \notin raced' /\ Recognises(cur)' => Present(store'[cur']) = {}
    BY <1>6, <2>2 DEF UniqueInv, PostFindsNone, KnowsId
  <2> QED BY <2>2, <2>3 DEF KeptInv
<1>7. KeepsExisting(cur) =>
        cfg.strategy = "GET/POST" \/ (cfg.strategy = "FIND/POST" /\ ~cfg.postIsPut)
  BY DEF KeepsExisting, cfg
<1> QED BY <1>1, <1>3, <1>4, <1>5, <1>6, <1>7, AfterGetGoes DEF Goes

LEMMA KeptStep ==
    ASSUME TypeOK, UniqueInv, UniqueInv', KeptInv, [Next]_vars PROVE KeptInv'
<1>1. CASE get BY <1>1, KeptGet
<1>2. CASE put \/ patch \/ delete \/ post
  <2>1. PICK x \in Effects \union WriteFaults(store[cur], Effects) : AfterWrite(x.code)
    BY <1>2, WriteStep
  <2>2. /\ pc \in Method /\ pc # "GET" /\ cur \in Action /\ UNCHANGED job
        /\ \E code \in Nat : Goes(code)
    BY <1>2, WriteStep, CallStep
  <2>3. CASE Return \/ ReturnErr
    BY <2>3 DEF Return, ReturnErr, EndAction, KeptInv
  <2>4. CASE \E m \in Method, i \in Id \union {NoId}, code \in Nat : Send(m, i, code)
    <3>1. cur' = cur BY <2>4 DEF Send
    <3>2. KeepsExisting(cur) => pc = "POST"
      BY <2>2, SeederAssumption DEF KeptInv
    <3>3. ~Return /\ ~ReturnErr BY <2>4 DEF Send, Return, ReturnErr, EndAction, Method
    <3>4. pc # "POST" BY <2>1, <2>2, <3>3 DEF AfterWrite, ReturnCode
    <3> QED BY <2>2, <3>1, <3>2, <3>4 DEF KeptInv, KeepsExisting
  <2> QED BY <2>2, <2>3, <2>4 DEF Goes
<1>3. ASSUME NEW a \in Action, performAction(a) PROVE KeptInv'
  BY <1>3 DEF performAction, FirstMethod, KeptInv, KeepsExisting
<1>4. ASSUME NEW a \in Action, Drift(a) PROVE KeptInv'
  <2>1. UNCHANGED <<job, pc, cur>> BY <1>4 DEF Drift, run
  <2>2. CASE Present(store'[cur]) \subseteq Present(store[cur]) /\ raced \subseteq raced'
    BY <2>1, <2>2 DEF KeptInv, KeepsExisting, Recognises
  <2>3. raced \subseteq raced' BY <1>4 DEF Drift
  <2>4. CASE a # cur /\ cur \in Action
    <3>1. store'[cur] = store[cur] BY <1>4, <2>4 DEF Drift, TypeOK, WorldTypeOK
    <3> QED BY <2>2, <2>3, <3>1
  <2>5. CASE a = cur /\ \E i \in Present(store[a]), s \in {"absent", "old"} :
               store' = [store EXCEPT ![a] = [store[a] EXCEPT ![i] = s]]
    <3>1. Present(store'[cur]) \subseteq Present(store[cur])
      BY <2>5 DEF TypeOK, WorldTypeOK, Collection, Present
    <3> QED BY <2>2, <2>3, <3>1
  <2>6. CASE a = cur /\ raced' = IF cur = a /\ pc = "POST" THEN raced \union {a} ELSE raced
    <3>1. pc = "POST" => cur \in raced' BY <2>6
    <3> QED BY <2>1, <3>1 DEF KeptInv, KeepsExisting
  <2>7. CASE cur = NoAction BY <2>1, <2>7 DEF KeptInv
  <2>8. cur \in Action \union {NoAction} BY DEF TypeOK, RunTypeOK
  <2> QED BY <1>4, <2>4, <2>5, <2>6, <2>7, <2>8 DEF Drift
<1>5. CASE Execute \/ ExecuteNoAuth \/ ExecuteReturns \/ Crash \/ \E a \in Action : SkipUnknown(a)
  <2>1. cur' = NoAction
    BY <1>5 DEF Execute, ExecuteNoAuth, BeginRun, ExecuteReturns, Crash, SkipUnknown, TypeOK, RunTypeOK
  <2> QED BY <2>1 DEF KeptInv
<1>6. CASE UNCHANGED vars
  <2>1. UNCHANGED <<job, store, pc, cur, raced>> BY <1>6 DEF vars, run, world
  <2> QED BY <2>1 DEF KeptInv, KeepsExisting, Recognises
<1> QED BY <1>1, <1>2, <1>3, <1>4, <1>5, <1>6 DEF Next, SeederStep

\* FIND/POST and GET/POST never change an item that exists, except in a race with
\* somebody else's creation.
THEOREM ExistingIsKept == Spec => ExistingKept
<1> DEFINE Step == \A a \in Action \ raced :
                     KeepsExisting(a) /\ Recognises(a) /\ drift' = drift =>
                       \A i \in Present(store[a]) : store'[a][i] = store[a][i]
           Inv == TypeOK /\ UniqueInv /\ KeptInv
<1>1. Init => Inv BY TypeInit, UniqueInit DEF Init, KeptInv
<1>2. Inv /\ [Next]_vars => Inv' BY TypeStep, UniqueStep, KeptStep
<1>3. Inv /\ [Next]_vars => [Step]_vars
  <2> SUFFICES ASSUME Inv, [Next]_vars, NEW a \in Action \ raced, KeepsExisting(a), Recognises(a),
                      drift' = drift, NEW i \in Present(store[a])
               PROVE  store'[a][i] = store[a][i]
    OBVIOUS
  <2>1. CASE get \/ put \/ patch \/ delete \/ post
    <3>1. /\ pc \in Method /\ cur \in Action /\ store \in [Action -> Collection]
          /\ \E s \in Collection : store' = [store EXCEPT ![cur] = s]
      BY <2>1, CallStep DEF TypeOK, WorldTypeOK
    <3>2. CASE a # cur BY <3>1, <3>2
    <3>3. CASE a = cur
      <4>1. pc = "GET" BY <3>1, <3>3, SeederAssumption DEF KeptInv
      <4> QED BY <2>1, <4>1 DEF get, put, patch, delete, post
    <3> QED BY <3>2, <3>3
  <2>2. ASSUME NEW b \in Action, Drift(b) PROVE FALSE
    BY <2>2 DEF Drift, TypeOK, WorldTypeOK
  <2>3. CASE Execute \/ ExecuteNoAuth \/ ExecuteReturns \/ Crash \/ UNCHANGED vars
             \/ \E b \in Action : performAction(b) \/ SkipUnknown(b)
    BY <2>3 DEF Execute, ExecuteNoAuth, BeginRun, ExecuteReturns, Crash, performAction, SkipUnknown,
       vars, world
  <2> QED BY <2>1, <2>2, <2>3 DEF Next, SeederStep
<1>4. ExistingKept <=> [][Step]_vars BY DEF ExistingKept
<1> HIDE DEF Step, Inv
<1> QED BY <1>1, <1>2, <1>3, <1>4, PTL DEF Spec

-----------------------------------------------------------------------------
(* Seeder implements SeedJob.                                              *)

\* The abstract outcomes, in the variables of a run.
LEMMA Outcomes ==
    ASSUME TypeOK, SuccessInv
    PROVE  /\ Job!Having("active") = {cur} \intersect Action
           /\ Job!Having("pending") = todo
           /\ Job!Having("failed") = {a \in Action : errs[a] > 0}
<1>1. todo \subseteq Action /\ errs \in [Action -> Nat] /\ (cur \in Action => cur \notin todo)
  BY SeederAssumption DEF TypeOK, RunTypeOK, SuccessInv, CurInv
<1>2. \A a \in Action : errs[a] > 0 => a \notin todo /\ a # cur /\ a \notin succeeded
  BY <1>1 DEF SuccessInv, PassedInv
<1>3. \A a \in Action : errs[a] > 0 <=> OutcomeOf(a) = "failed" BY <1>1, <1>2 DEF OutcomeOf
<1>4. \A a \in Action : a = cur <=> OutcomeOf(a) = "active" BY <1>1 DEF OutcomeOf
<1>5. \A a \in Action : a \in todo <=> OutcomeOf(a) = "pending" BY DEF OutcomeOf
<1> QED BY <1>1, <1>3, <1>4, <1>5 DEF Job!Having

LEMMA HaltedMeans ==
    ASSUME TypeOK, SuccessInv PROVE Job!Halted <=> job.failFast /\ HasErrs
BY Outcomes DEF Job!Halted, HasErrs

\* What does not touch the services does not touch what is seeded.
LEMMA VouchedKept ==
    ASSUME UNCHANGED job, NEW a \in Action, store'[a] = store[a]
    PROVE  Vouched(a)' <=> Vouched(a)
BY DEF Vouched, Seeded, SeededIn, KeepsExisting

LEMMA SeededKept ==
    ASSUME UNCHANGED <<job, store>>
    PROVE  {a \in Action : Vouched(a)}' = {a \in Action : Vouched(a)}
BY VouchedKept

LEMMA AllPendingAgain ==
    ASSUME todo' = Action
    PROVE  [a \in Action |-> OutcomeOf(a)]' = Job!AllPending
BY DEF OutcomeOf, Job!AllPending

\* A call works on the active action alone.
LEMMA WorkStep ==
    ASSUME TypeOK, SuccessInv, get \/ put \/ patch \/ delete \/ post, NEW c \in Action, c = cur
    PROVE  Job!Work(c)
<1>1. /\ cur \in Action /\ pc \in Method /\ UNCHANGED job
      /\ store \in [Action -> Collection]
      /\ \E s \in Collection : store' = [store EXCEPT ![cur] = s]
  BY CallStep DEF TypeOK, WorldTypeOK
<1>2. /\ cur # NoAction /\ cur \notin todo /\ job.act[cur].strategy \in Known
      /\ errs[cur] = 0 /\ cur \notin succeeded /\ raw \in BOOLEAN
      /\ errs \in [Action -> Nat]
  BY <1>1, SeederAssumption DEF SuccessInv, CurInv, PassedInv, TypeOK, RunTypeOK, cfg
<1>3. \A a \in Action \ {c} : Vouched(a)' <=> Vouched(a)
  <2>1. \A a \in Action \ {c} : store'[a] = store[a] BY <1>1
  <2> QED BY <1>1, <2>1, VouchedKept
<1>4. {a \in Action : Vouched(a)}' =
        IF Vouched(c)' THEN {a \in Action : Vouched(a)} \union {c}
                         ELSE {a \in Action : Vouched(a)} \ {c}
  BY <1>1, <1>3
<1> DEFINE o == OutcomeOf(c)'
<1>5. ASSUME NEW f \in BOOLEAN, EndAction(f),
             ~f /\ ~raw => job.act[c].strategy = "GET/POST" \/ SeededIn(c, store'[c])
      PROVE  /\ pc' # "idle" /\ OutcomeOf(c)' \in {"ok", "failed"}
             /\ OutcomeOf(c)' = "ok" => Vouched(c)'
             /\ \A a \in Action \ {c} : OutcomeOf(a)' = OutcomeOf(a)
  <2>1. \A a \in Action : errs'[a] = 0 <=> errs[a] = 0 /\ (a = cur => ~raw /\ ~f)
    BY <1>1, <1>2, <1>5, AppendErrsMeaning DEF EndAction
  <2>2. \A a \in Action : a \in succeeded' <=> a \in succeeded \/ (a = cur /\ ~f /\ ~raw)
    BY <1>2, <1>5 DEF EndAction
  <2>3. errs' \in [Action -> Nat] BY <1>2, <1>5, AppendErrsType DEF EndAction
  <2>4. todo' = todo /\ cur' = NoAction /\ pc' = "next" BY <1>5 DEF EndAction
  <2>5. OutcomeOf(c)' = IF ~f /\ ~raw THEN "ok" ELSE "failed"
    <3>1. c \notin todo' /\ c # cur' BY <1>2, <2>4
    <3>2. c \in succeeded' <=> ~f /\ ~raw BY <1>2, <2>2
    <3>3. errs'[c] > 0 <=> ~(~f /\ ~raw) BY <1>2, <2>1, <2>3
    <3> QED BY <3>1, <3>2, <3>3 DEF OutcomeOf
  <2>6. ~f /\ ~raw => Vouched(c)'
    BY <1>1, <1>5 DEF Vouched, Seeded, SeededIn, KeepsExisting
  <2>7. \A a \in Action \ {c} : OutcomeOf(a)' = OutcomeOf(a)
    BY <1>2, <2>1, <2>2, <2>3, <2>4, SeederAssumption DEF OutcomeOf
  <2> QED BY <2>4, <2>5, <2>6, <2>7
<1>6. ASSUME NEW m \in Method, NEW i, NEW code, Send(m, i, code)
      PROVE  /\ pc' # "idle" /\ OutcomeOf(c)' = "active"
             /\ \A a \in Action \ {c} : OutcomeOf(a)' = OutcomeOf(a)
  BY <1>2, <1>6 DEF Send, OutcomeOf, Method
<1>7. /\ pc' # "idle" /\ o \in {"active", "ok", "failed"}
      /\ o = "ok" => Vouched(c)'
      /\ \A a \in Action \ {c} : OutcomeOf(a)' = OutcomeOf(a)
  <2>1. CASE EndsWell(c) BY <1>5, <2>1 DEF EndsWell, Return
  <2>2. CASE ReturnErr BY <1>5, <2>2 DEF ReturnErr
  <2>3. CASE \E m \in Method, i \in Id \union {NoId}, code \in Nat : Send(m, i, code)
    BY <1>6, <2>3
  <2> QED BY <1>1, <2>1, <2>2, <2>3, CallEnds
<1>8. [a \in Action |-> OutcomeOf(a)]' = [[a \in Action |-> OutcomeOf(a)] EXCEPT ![c] = o]
  BY <1>1, <1>7
<1>9. OutcomeOf(c) = "active" /\ pc # "idle" BY <1>1, <1>2 DEF OutcomeOf, Method
<1>10. Vouched(c)' \in BOOLEAN BY DEF Vouched, Seeded, SeededIn
<1> HIDE DEF o
<1> QED BY <1>1, <1>4, <1>7, <1>8, <1>9, <1>10 DEF Job!Work

LEMMA TakeStep ==
    ASSUME TypeOK, SuccessInv, NEW a \in Action, performAction(a) \/ SkipUnknown(a)
    PROVE  Job!Take(a, "active") \/ Job!Take(a, "skipped")
<1>1. /\ pc = "next" /\ ~Stopped /\ a \in todo /\ todo' = todo \ {a} /\ cur = NoAction
      /\ UNCHANGED <<job, store, errs, succeeded>> /\ pc' # "idle" /\ a # NoAction
      /\ cur' = IF job.act[a].strategy \in Known THEN a ELSE NoAction
  BY SeederAssumption DEF performAction, SkipUnknown, AtHead, FirstMethod, world, TypeOK, RunTypeOK
<1>2. errs[a] = 0 /\ a \notin succeeded BY <1>1 DEF SuccessInv, PassedInv
<1>3. OutcomeOf(a) = "pending" BY <1>1 DEF OutcomeOf
<1>4. OutcomeOf(a)' = IF job.act[a].strategy \in Known THEN "active" ELSE "skipped"
  BY <1>1, <1>2 DEF OutcomeOf
<1>5. \A b \in Action \ {a} : OutcomeOf(b)' = OutcomeOf(b)
  BY <1>1, SeederAssumption DEF OutcomeOf
<1>6. [b \in Action |-> OutcomeOf(b)]' =
        [[b \in Action |-> OutcomeOf(b)] EXCEPT ![a] = OutcomeOf(a)']
  BY <1>5
<1>7. ~Job!Halted /\ Job!Having("active") = {}
  BY <1>1, HaltedMeans, Outcomes, SeederAssumption DEF Stopped
<1> QED BY <1>1, <1>3, <1>4, <1>6, <1>7, SeededKept DEF Job!Take

LEMMA RunStep ==
    ASSUME TypeOK, SuccessInv, Execute \/ ExecuteNoAuth \/ ExecuteReturns \/ Crash
    PROVE  Job!Begin \/ Job!Refuse \/ Job!End \/ Job!Abort
<1>1. result \in {"none", "ok", "error"} BY DEF TypeOK, RunTypeOK
<1>2. CASE Execute
  BY <1>1, <1>2, AllPendingAgain, SeededKept DEF Execute, BeginRun, Job!Begin
<1>3. CASE ExecuteNoAuth
  BY <1>1, <1>3, AllPendingAgain, SeededKept DEF ExecuteNoAuth, BeginRun, Job!Refuse
<1>4. CASE Crash
  BY <1>4, AllPendingAgain, SeededKept DEF Crash, Job!Abort
<1>5. CASE ExecuteReturns
  <2>1. /\ pc = "next" /\ pc' = "idle" /\ Stopped /\ cur = NoAction
        /\ UNCHANGED <<job, store, cur, todo, errs, succeeded>>
        /\ result' = IF HasErrs THEN "error" ELSE "ok"
    BY <1>5 DEF ExecuteReturns, world, TypeOK, RunTypeOK
  <2>2. Job!Having("active") = {} BY <2>1, Outcomes, SeederAssumption
  <2>3. Job!Having("pending") = {} \/ Job!Halted BY <2>1, Outcomes, HaltedMeans DEF Stopped
  <2>4. HasErrs <=> Job!Having("failed") # {} BY Outcomes DEF HasErrs
  <2>5. [a \in Action |-> OutcomeOf(a)]' = [a \in Action |-> OutcomeOf(a)]
    BY <2>1 DEF OutcomeOf
  <2> QED BY <2>1, <2>2, <2>3, <2>4, <2>5, SeededKept DEF Job!End
<1> QED BY <1>2, <1>3, <1>4, <1>5

LEMMA OutsideStep ==
    ASSUME TypeOK, NEW a \in Action, Drift(a) PROVE Job!Outside(a)
<1>1. /\ UNCHANGED <<job, pc, cur, todo, errs, succeeded, result>>
      /\ \A b \in Action \ {a} : store'[b] = store[b]
  BY DEF Drift, run, TypeOK, WorldTypeOK
<1>2. \A b \in Action \ {a} : Vouched(b)' <=> Vouched(b) BY <1>1, VouchedKept
<1>3. [b \in Action |-> OutcomeOf(b)]' = [b \in Action |-> OutcomeOf(b)]
  BY <1>1 DEF OutcomeOf
<1> QED BY <1>1, <1>2, <1>3 DEF Job!Outside

\* Every step of the seeder is a step of a SeedJob or none.
THEOREM Implements == Spec => ImplementsSeedJob
<1>1. Init => Job!Init
  <2> SUFFICES ASSUME Init PROVE Job!Init OBVIOUS
  <2>1. [a \in Action |-> OutcomeOf(a)] = Job!AllPending
    BY DEF Init, OutcomeOf, Job!AllPending
  <2>2. job.failFast \in BOOLEAN BY SeederAssumption DEF Init
  <2> QED BY <2>1, <2>2 DEF Init, Job!Init
<1>2. TypeOK /\ SuccessInv /\ [Next]_vars => [Job!Next]_Job!vars
  <2> SUFFICES ASSUME TypeOK, SuccessInv, [Next]_vars PROVE [Job!Next]_Job!vars OBVIOUS
  <2>1. CASE get \/ put \/ patch \/ delete \/ post
    <3>1. PICK c \in Action : c = cur BY <2>1, CallStep
    <3> QED BY <2>1, <3>1, WorkStep DEF Job!Next
  <2>2. ASSUME NEW a \in Action, performAction(a) \/ SkipUnknown(a) PROVE Job!Next
    BY <2>2, TakeStep DEF Job!Next
  <2>3. CASE Execute \/ ExecuteNoAuth \/ ExecuteReturns \/ Crash
    BY <2>3, RunStep DEF Job!Next
  <2>4. ASSUME NEW a \in Action, Drift(a) PROVE Job!Next BY <2>4, OutsideStep DEF Job!Next
  <2>5. CASE UNCHANGED vars
    <3>1. UNCHANGED <<job, store, pc, cur, todo, errs, succeeded, result>>
      BY <2>5 DEF vars, run, world
    <3>2. [a \in Action |-> OutcomeOf(a)]' = [a \in Action |-> OutcomeOf(a)]
      BY <3>1 DEF OutcomeOf
    <3> QED BY <3>1, <3>2, SeededKept DEF Job!vars
  <2> QED BY <2>1, <2>2, <2>3, <2>4, <2>5 DEF Next, SeederStep
<1>3. TypeOK /\ SuccessInv /\ [Next]_vars => (TypeOK /\ SuccessInv)'
  BY TypeStep, SuccessStep
<1> QED BY <1>1, <1>2, <1>3, TypeInit, SuccessInit, PTL DEF Spec, ImplementsSeedJob, Job!Spec
-----------------------------------------------------------------------------
(* How long the list of errors can get.                                    *)

Bound(U) == 2 ^ (Cardinality(U) + 1) - 2

LEMMA BoundGrows ==
    ASSUME NEW U \in SUBSET Action, NEW c \in Action \ U
    PROVE  Bound(U) \in Nat /\ Bound(U \union {c}) = 2 * Bound(U) + 2
<1>1. Cardinality(U) \in Nat /\ Cardinality(U \union {c}) = Cardinality(U) + 1
  BY FiniteAssumption, FS_Subset, FS_CardinalityType, FS_AddElement
<1> DEFINE n == Cardinality(U)
<1>2. n \in Nat /\ n + 1 \in Nat BY <1>1
<1> HIDE DEF n
<1>3. 2 ^ n \in Nat /\ 2 ^ n >= 1 /\ 2 ^ (n + 1) = 2 * 2 ^ n BY <1>2, PowerOfTwo
<1>4. 2 ^ ((n + 1) + 1) = 2 * 2 ^ (n + 1) BY <1>2, PowerOfTwo
<1>5. Bound(U) = 2 ^ (n + 1) - 2 /\ Bound(U \union {c}) = 2 ^ ((n + 1) + 1) - 2
  BY <1>1 DEF Bound, n
<1> QED BY <1>3, <1>4, <1>5

LEMMA BoundNat == ASSUME NEW U \in SUBSET Action PROVE Bound(U) \in Nat
<1>1. Cardinality(U) \in Nat BY FiniteAssumption, FS_Subset, FS_CardinalityType
<1> DEFINE n == Cardinality(U)
<1>2. n \in Nat BY <1>1
<1> HIDE DEF n
<1>3. 2 ^ n \in Nat /\ 2 ^ n >= 1 /\ 2 ^ (n + 1) = 2 * 2 ^ n BY <1>2, PowerOfTwo
<1>4. Bound(U) = 2 ^ (n + 1) - 2 BY DEF Bound, n
<1> QED BY <1>3, <1>4

\* The actions that have left their errors in the list.
Over == Action \ (todo \union {cur})

LEMMA GrowthStep ==
    ASSUME TypeOK, CurInv, GrowthInv, [Next]_vars PROVE GrowthInv'
<1> SUFFICES Total(errs', Action) <= Bound(Over')
  <2>1. ErrorListLength' = Total(errs', Action)
    BY DEF ErrorListLength, Total, MapThenSumSet, MapThenFoldSet
  <2>2. GrowthInv' <=> ErrorListLength' <= Bound(Over') BY DEF GrowthInv, Bound, Over
  <2> QED BY <2>1, <2>2
<1>1. /\ errs \in [Action -> Nat] /\ errs' \in [Action -> Nat]
      /\ IsFiniteSet(Action) /\ Over \in SUBSET Action /\ Over' \in SUBSET Action
      /\ Total(errs, Action) \in Nat /\ Total(errs, Action) <= Bound(Over)
  <2>1. errs \in [Action -> Nat] /\ errs' \in [Action -> Nat]
    BY TypeStep DEF TypeOK, RunTypeOK
  <2>2. Total(errs, Action) \in Nat BY <2>1, FiniteAssumption, TotalType
  <2> QED BY <2>1, <2>2, FiniteAssumption
          DEF GrowthInv, ErrorListLength, Total, Bound, Over
<1>2. ASSUME NEW c \in Action \ Over, Over' = Over \union {c}
      PROVE  Bound(Over) \in Nat /\ Bound(Over') = 2 * Bound(Over) + 2
  BY <1>1, <1>2, BoundGrows
<1>3. CASE errs' = errs /\ Over' = Over BY <1>1, <1>3
<1>4. CASE errs' = [a \in Action |-> 0]
  <2>1. Total(errs', Action) = 0 BY <1>1, <1>4, TotalZero
  <2> QED BY <1>1, <2>1, BoundNat
<1>5. ASSUME NEW f \in BOOLEAN, EndAction(f), cur \in Action
      PROVE  Total(errs', Action) <= Bound(Over')
  <2>1. cur \in Action \ Over /\ Over' = Over \union {cur}
    BY <1>5, SeederAssumption DEF EndAction, Over, CurInv
  <2>2. Bound(Over) \in Nat /\ Bound(Over') = 2 * Bound(Over) + 2 BY <1>2, <2>1
  <2> DEFINE own == (IF raw THEN 1 ELSE 0) + (IF f THEN 1 ELSE 0)
             out == [errs EXCEPT ![cur] = @ + own]
  <2>3. own \in Nat /\ own <= 2 OBVIOUS
  <2>4. errs' = IF \E a \in Action : out[a] > 0 THEN [a \in Action |-> errs[a] + out[a]] ELSE errs
    BY <1>5 DEF EndAction, AppendErrs
  <2> HIDE DEF own
  <2>5. \A a \in Action : out[a] = IF a = cur THEN errs[a] + own ELSE errs[a]
    BY <1>1, <2>3
  <2> HIDE DEF out
  <2>6. CASE errs' = errs BY <1>1, <2>2, <2>6
  <2>7. CASE errs' = [a \in Action |-> errs[a] + out[a]]
    <3>1. \A a \in Action : errs'[a] = 2 * errs[a] + IF a = cur THEN own ELSE 0
      BY <1>1, <2>3, <2>5, <2>7
    <3>2. Total(errs', Action) = 2 * Total(errs, Action) + own
      BY <1>1, <1>5, <2>3, <3>1, TotalDoubled
    <3> QED BY <1>1, <2>2, <2>3, <3>2
  <2> QED BY <2>4, <2>6, <2>7
<1>6. CASE get \/ put \/ patch \/ delete \/ post
  <2>1. cur \in Action /\ \E code \in Nat : Goes(code) BY <1>6, CallStep
  <2>2. CASE Return \/ ReturnErr BY <1>5, <2>1, <2>2 DEF Return, ReturnErr
  <2>3. CASE \E m, i, code : Send(m, i, code) BY <1>3, <2>3 DEF Send, Over
  <2> QED BY <2>1, <2>2, <2>3 DEF Goes
<1>7. ASSUME NEW a \in Action, performAction(a)
      PROVE  Total(errs', Action) <= Bound(Over')
  <2>1. errs' = errs /\ cur = NoAction /\ todo' = todo \ {a} /\ cur' = a /\ a \in todo
    BY <1>7 DEF performAction, AtHead, TypeOK, RunTypeOK
  <2>2. Over' = Over BY <2>1, SeederAssumption DEF Over
  <2> QED BY <1>3, <2>1, <2>2
<1>8. ASSUME NEW a \in Action, SkipUnknown(a)
      PROVE  Total(errs', Action) <= Bound(Over')
  <2>1. errs' = errs /\ cur = NoAction /\ cur' = cur /\ todo' = todo \ {a} /\ a \in todo
    BY <1>8 DEF SkipUnknown, AtHead, TypeOK, RunTypeOK
  <2>2. a \in Action \ Over /\ Over' = Over \union {a} BY <2>1, SeederAssumption DEF Over
  <2>3. Bound(Over) \in Nat /\ Bound(Over') = 2 * Bound(Over) + 2 BY <1>2, <2>2
  <2> QED BY <1>1, <2>1, <2>3
<1>9. CASE Execute \/ ExecuteNoAuth \/ Crash
  BY <1>4, <1>9 DEF Execute, ExecuteNoAuth, BeginRun, Crash
<1>10. CASE ExecuteReturns \/ (\E a \in Action : Drift(a)) \/ UNCHANGED vars
  BY <1>3, <1>10 DEF ExecuteReturns, Drift, run, vars, Over
<1> QED BY <1>6, <1>7, <1>8, <1>9, <1>10 DEF Next, SeederStep

\* The list of errors at least doubles with every action after the first error, and is
\* never longer than 2^(n+1) - 2 after n actions.
THEOREM ErrorListIsBounded == Spec => []ErrorListGrowth
<1>1. Init => GrowthInv
  <2> SUFFICES ASSUME Init PROVE GrowthInv OBVIOUS
  <2>1. errs \in [Action -> Nat] /\ \A a \in Action : errs[a] = 0 BY DEF Init
  <2>2. Total(errs, Action) = 0 BY <2>1, FiniteAssumption, TotalZero
  <2>3. Bound(Over) \in Nat BY BoundNat DEF Over
  <2> QED BY <2>2, <2>3 DEF GrowthInv, ErrorListLength, Total, Bound, Over
<1>2. TypeOK /\ CurInv /\ GrowthInv => ErrorListGrowth
  <2> SUFFICES ASSUME TypeOK, CurInv, GrowthInv PROVE ErrorListGrowth OBVIOUS
  <2>1. ErrorListLength \in Nat /\ ErrorListLength <= Bound(Over)
    <3>1. Total(errs, Action) \in Nat BY FiniteAssumption, TotalType DEF TypeOK, RunTypeOK
    <3> QED BY <3>1 DEF GrowthInv, ErrorListLength, Total, Bound, Over
  <2>2. CASE cur = NoAction
    <3>1. Over = Action \ todo BY <2>2, SeederAssumption DEF Over
    <3> QED BY <2>1, <3>1 DEF ErrorListGrowth, Bound
  <2>3. CASE cur \in Action
    <3>1. Over \in SUBSET Action /\ cur \in Action \ Over /\ Action \ todo = Over \union {cur}
      BY <2>3, SeederAssumption DEF Over, CurInv
    <3>2. Bound(Over) \in Nat /\ Bound(Action \ todo) = 2 * Bound(Over) + 2
      BY <3>1, BoundGrows
    <3>3. ErrorListLength <= Bound(Action \ todo) BY <2>1, <3>2
    <3> QED BY <3>3 DEF ErrorListGrowth, Bound
  <2> QED BY <2>2, <2>3 DEF TypeOK, RunTypeOK
<1>3. SuccessInv => CurInv BY DEF SuccessInv
<1>4. TypeOK /\ SuccessInv /\ [Next]_vars => (TypeOK /\ SuccessInv)' BY TypeStep, SuccessStep
<1> QED BY <1>1, <1>2, <1>3, <1>4, TypeInit, SuccessInit, GrowthStep, PTL DEF Spec

-----------------------------------------------------------------------------
(* Runs end.                                                               *)

\* A PATCH and a POST are the last request of an action, and no strategy goes back to a
\* GET or from PUT or DELETE to anything but the POST.
LEMMA Onward ==
    ASSUME TypeOK, get \/ put \/ patch \/ delete \/ post,
           NEW m \in Method, NEW i, NEW code, Send(m, i, code)
    PROVE  \/ pc = "GET" /\ m # "GET"
           \/ pc \in {"PUT", "DELETE"} /\ m = "POST"
<1>1. ~Return /\ ~ReturnErr /\ pc' = m
  BY DEF Send, Return, ReturnErr, EndAction, Method
<1>2. CASE get
  <2>1. PICK r \in GetReplies(store[cur], Where(cfg.strategy), cfg.notFound) \union GetFaults :
          AfterGet(r)
    BY <1>2, GetStep
  <2>2. pc' # "GET"
    BY <1>1, <2>1 DEF AfterGet, GetPost, FindPost, FindPutPost, FindPatchPost,
       FindUpdatePost, FindDeletePost, GetPutPost, Send
  <2> QED BY <1>1, <1>2, <2>2, GetStep
<1>3. CASE put \/ patch \/ delete \/ post
  <2>1. PICK x \in Effects \union WriteFaults(store[cur], Effects) : AfterWrite(x.code)
    BY <1>3, WriteStep
  <2>2. ~ReturnCode(x.code) BY <1>1 DEF ReturnCode
  <2>3. PutPost(x.code) \/ AfterDelete(x.code) => pc' = "POST"
    BY <1>1 DEF PutPost, AfterDelete, Send
  <2> QED BY <1>1, <2>1, <2>2, <2>3 DEF AfterWrite
<1> QED BY <1>2, <1>3

LEMMA EndingStep ==
    ASSUME TypeOK, [Next]_vars, pc # "idle", run' # run PROVE StepsLeft' < StepsLeft
<1>1. ASSUME NEW U \in SUBSET Action
      PROVE  IsFiniteSet(U) /\ Cardinality(U) \in Nat
  BY FiniteAssumption, FS_Subset, FS_CardinalityType
<1>2. ASSUME NEW a \in todo
      PROVE  /\ Cardinality(todo) \in Nat
             /\ Cardinality(todo \ {a}) = Cardinality(todo) - 1
  BY <1>1, FS_RemoveElement DEF TypeOK, RunTypeOK
<1>3. CASE get \/ put \/ patch \/ delete \/ post
  <2>1. pc \in Method /\ \E code \in Nat : Goes(code) BY <1>3, CallStep
  <2>2. Cardinality(todo) \in Nat BY <1>1 DEF TypeOK, RunTypeOK
  <2>3. CASE Return \/ ReturnErr
    <3>1. todo' = todo /\ pc' = "next" BY <2>3 DEF Return, ReturnErr, EndAction
    <3> QED BY <2>1, <2>2, <3>1 DEF StepsLeft, Method
  <2>4. ASSUME NEW m \in Method, NEW i, NEW code, Send(m, i, code)
        PROVE  StepsLeft' < StepsLeft
    <3>1. todo' = todo /\ pc' = m BY <2>4 DEF Send
    <3>2. \/ pc = "GET" /\ m # "GET"
          \/ pc \in {"PUT", "DELETE"} /\ m = "POST"
      BY <1>3, <2>4, Onward
    <3> QED BY <2>2, <3>1, <3>2 DEF StepsLeft, Method
  <2> QED BY <2>1, <2>3, <2>4 DEF Goes
<1>4. ASSUME NEW a \in Action, performAction(a) \/ SkipUnknown(a) PROVE StepsLeft' < StepsLeft
  <2>1. pc = "next" /\ a \in todo /\ todo' = todo \ {a} /\ pc' \in {"GET", "PUT", "POST", "next"}
    BY <1>4 DEF performAction, SkipUnknown, AtHead, FirstMethod
  <2>2. /\ Cardinality(todo) \in Nat
        /\ Cardinality(todo') = Cardinality(todo) - 1
    BY <1>2, <2>1
  <2> QED BY <2>1, <2>2 DEF StepsLeft
<1>5. CASE ExecuteReturns \/ Crash
  <2>1. pc' = "idle" /\ pc \in {"next"} \union Method
    BY <1>5 DEF ExecuteReturns, Crash, TypeOK, RunTypeOK
  <2>2. Cardinality(todo) \in Nat BY <1>1 DEF TypeOK, RunTypeOK
  <2> QED BY <2>1, <2>2 DEF StepsLeft, Method
<1>6. ~UNCHANGED vars /\ ~(\E a \in Action : Drift(a)) /\ ~Execute /\ ~ExecuteNoAuth
  BY DEF vars, Drift, Execute, ExecuteNoAuth
<1> QED BY <1>3, <1>4, <1>5, <1>6 DEF Next, SeederStep

\* Every run ends after at most four steps for each of its actions and one.
THEOREM RunsComeToAnEnd == Spec => RunsEnd
<1>1. TypeOK /\ [Next]_vars => [pc # "idle" /\ run' # run => StepsLeft' < StepsLeft]_vars
  BY EndingStep
<1> QED BY <1>1, TypeCorrect, PTL DEF Spec, RunsEnd
-----------------------------------------------------------------------------
(* What a run leaves alone.                                                *)

LEMMA RequestSent ==
    ASSUME TypeOK, CurInv, RequestsInv, get \/ put \/ patch \/ delete \/ post,
           NEW m \in Method, NEW i, NEW code, Send(m, i, code)
    PROVE  m \in Requests(cfg.strategy)
<1>1. ~Return /\ ~ReturnErr /\ pc' = m
  BY DEF Send, Return, ReturnErr, EndAction, Method
<1>2. cur # NoAction /\ cfg.strategy \in Known /\ pc \in Requests(cfg.strategy)
  BY CallStep, SeederAssumption DEF CurInv, RequestsInv
<1>3. CASE get
  <2>1. PICK r \in GetReplies(store[cur], Where(cfg.strategy), cfg.notFound) \union GetFaults :
          AfterGet(r)
    BY <1>3, GetStep
  <2> QED BY <1>1, <2>1 DEF AfterGet, GetPost, FindPost, FindPutPost, FindPatchPost,
       FindUpdatePost, FindDeletePost, GetPutPost, Send, Requests
<1>4. CASE put \/ patch \/ delete \/ post
  <2>1. PICK x \in Effects \union WriteFaults(store[cur], Effects) : AfterWrite(x.code)
    BY <1>4, WriteStep
  <2>2. ~ReturnCode(x.code) BY <1>1 DEF ReturnCode
  <2>3. PutPost(x.code) \/ AfterDelete(x.code) => m = "POST"
    BY <1>1 DEF PutPost, AfterDelete, Send
  <2> QED BY <1>2, <2>1, <2>2, <2>3 DEF AfterWrite, Requests, Known
<1> QED BY <1>3, <1>4

LEMMA RequestsStep ==
    ASSUME TypeOK, CurInv, RequestsInv, [Next]_vars PROVE RequestsInv'
<1>1. CASE get \/ put \/ patch \/ delete \/ post
  <2>1. UNCHANGED job /\ \E code \in Nat : Goes(code) BY <1>1, CallStep
  <2>2. CASE Return \/ ReturnErr BY <2>2 DEF Return, ReturnErr, EndAction, RequestsInv
  <2>3. ASSUME NEW m \in Method, NEW i, NEW code, Send(m, i, code) PROVE RequestsInv'
    <3>1. m \in Requests(cfg.strategy) BY <1>1, <2>3, RequestSent
    <3>2. cfg' = cfg /\ pc' = m BY <2>1, <2>3 DEF Send, cfg
    <3> QED BY <3>1, <3>2 DEF RequestsInv
  <2> QED BY <2>1, <2>2, <2>3 DEF Goes
<1>2. ASSUME NEW a \in Action, performAction(a) PROVE RequestsInv'
  <2>1. /\ cfg'.strategy \in Known /\ pc' = FirstMethod(cfg'.strategy)
    BY <1>2 DEF performAction, cfg
  <2> QED BY <2>1 DEF FirstMethod, Requests, RequestsInv, Known
<1>3. CASE Execute \/ ExecuteNoAuth \/ ExecuteReturns \/ Crash \/ \E a \in Action : SkipUnknown(a)
  <2>1. cur' = NoAction
    BY <1>3 DEF Execute, ExecuteNoAuth, BeginRun, ExecuteReturns, Crash, SkipUnknown, TypeOK, RunTypeOK
  <2> QED BY <2>1 DEF RequestsInv
<1>4. CASE (\E a \in Action : Drift(a)) \/ UNCHANGED vars
  <2>1. UNCHANGED <<job, pc, cur>> BY <1>4 DEF Drift, run, vars
  <2> QED BY <2>1 DEF RequestsInv, cfg
<1> QED BY <1>1, <1>2, <1>3, <1>4 DEF Next, SeederStep

LEMMA CreateRefused ==
    ASSUME NEW c \in Collection, NEW where \in SUBSET Id, NEW content,
           NEW upserts \in BOOLEAN, NEW x \in Create(c, where, content, upserts)
    PROVE  /\ x.code > 299 => x.store = c
           /\ x.code \in {Success, 409}
           /\ x.code = 409 => ~upserts /\ Present(c) # {}
BY DEF Create, Effect

\* A write with the tokens replaced leaves an item in order that was, whether
\* it is applied or refused.
LEMMA StaysSeeded ==
    ASSUME TypeOK, CurInv, RequestsInv, put \/ patch \/ delete \/ post,
           NEW a \in Action, a = cur, ~raw, cfg.strategy # "FIND/DELETE/POST", Seeded(a)
    PROVE  SeededIn(a, store'[a])
<1>1. PICK x \in Effects \union WriteFaults(store[cur], Effects) :
        store' = [store EXCEPT ![cur] = x.store]
  BY WriteStep
<1>2. /\ pc \in Method /\ pc # "GET" /\ cur # NoAction /\ store \in [Action -> Collection]
      /\ cfg \in ActionConfig /\ cfg.strategy \in Known /\ pc \in Requests(cfg.strategy)
      /\ store[cur] \in Collection /\ PathId \in Id /\ Where(cfg.strategy) \in SUBSET Id
  BY WriteStep, CallArguments, SeederAssumption
     DEF TypeOK, WorldTypeOK, CurInv, RequestsInv
<1>3. Payload = "new" /\ "new" \in Content \ {"absent"} BY DEF Payload, Content
<1>4. x.store = store[cur] \/ \E y \in Effects : x.store = y.store
  BY <1>2, EffectsType, FaultEffect
<1>5. SeededIn(a, store[cur]) BY DEF Seeded
<1>6. \A c \in Collection : (\E i \in Id : c[i] = "new") => SeededIn(a, c)
  BY DEF SeededIn, Present
<1>7. ASSUME NEW y \in Effects PROVE SeededIn(a, y.store)
  <2>1. y.store \in Collection BY <1>2, EffectsType DEF EffectType
  <2>2. ASSUME NEW creates \in BOOLEAN, y \in Update(store[cur], PathId, Payload, creates)
        PROVE  SeededIn(a, y.store)
    BY <1>2, <1>3, <1>5, <1>6, <2>1, <2>2, UpdateEffect DEF EffectType
  <2>3. CASE pc = "PUT"
    <3> DEFINE creates == cfg.putCreates /\ KnowsId(cfg.strategy)
    <3>1. creates \in BOOLEAN BY <1>2 DEF ActionConfig, KnowsId
    <3>2. y \in Update(store[cur], PathId, Payload, creates) BY <1>7, <2>3 DEF Effects
    <3> HIDE DEF creates
    <3> QED BY <2>2, <3>1, <3>2
  <2>4. CASE pc = "PATCH"
    <3>1. y \in Update(store[cur], PathId, Payload, FALSE) BY <1>7, <2>4 DEF Effects
    <3> QED BY <2>2, <3>1
  <2>5. CASE pc = "DELETE" BY <1>2, <2>5 DEF Requests, Known
  <2>6. CASE pc = "POST"
    <3> DEFINE upserts == cfg.postIsPut \/ KnowsId(cfg.strategy)
    <3>1. upserts \in BOOLEAN BY <1>2 DEF ActionConfig, KnowsId
    <3>2. y \in Create(store[cur], Where(cfg.strategy), Payload, upserts)
      BY <1>7, <2>6 DEF Effects
    <3> HIDE DEF upserts
    <3>3. y.code > 299 => y.store = store[cur] BY <1>2, <3>1, <3>2, CreateRefused
    <3>4. y.code <= 299 => \E i \in Id : y.store[i] = "new"
      BY <1>2, <1>3, <3>1, <3>2, CreateEffect
    <3>5. y.code \in Nat BY <1>2, EffectsType DEF EffectType
    <3> QED BY <1>5, <1>6, <2>1, <3>3, <3>4, <3>5
  <2> QED BY <1>2, <2>3, <2>4, <2>5, <2>6 DEF Method
<1>8. store'[a] = x.store BY <1>1, <1>2
<1> QED BY <1>4, <1>5, <1>7, <1>8

LEMMA NothingUndoneStep ==
    ASSUME TypeOK, CurInv, RequestsInv, [Next]_vars,
           NEW a \in Action, Seeded(a), drift' = drift,
           ~(a = cur /\ (raw \/ cfg.strategy = "FIND/DELETE/POST"))
    PROVE  Seeded(a)'
<1>1. UNCHANGED job
  BY CallStep DEF Next, SeederStep, Execute, ExecuteNoAuth, BeginRun, ExecuteReturns, performAction,
     SkipUnknown, Crash, Drift, vars
<1>2. SUFFICES SeededIn(a, store'[a]) BY <1>1 DEF Seeded, SeededIn, KeepsExisting
<1>3. CASE store' = store BY <1>3 DEF Seeded
<1>4. CASE get BY <1>3, <1>4, GetStep
<1>5. CASE put \/ patch \/ delete \/ post
  <2>1. CASE a = cur BY <1>5, <2>1, StaysSeeded
  <2>2. CASE a # cur
    <3>1. store'[a] = store[a] BY <1>5, <2>2, CallStep DEF TypeOK, WorldTypeOK
    <3> QED BY <3>1 DEF Seeded
  <2> QED BY <2>1, <2>2
<1>6. ~\E b \in Action : Drift(b) BY DEF Drift, TypeOK, WorldTypeOK
<1>7. CASE Execute \/ ExecuteNoAuth \/ ExecuteReturns \/ Crash \/ UNCHANGED vars
           \/ \E b \in Action : performAction(b) \/ SkipUnknown(b)
  BY <1>3, <1>7 DEF Execute, ExecuteNoAuth, BeginRun, ExecuteReturns, Crash, performAction,
     SkipUnknown, vars, world
<1> QED BY <1>4, <1>5, <1>6, <1>7 DEF Next, SeederStep

LEMMA RequestsInit == Init => RequestsInv BY DEF Init, RequestsInv

\* A run, failed or not, leaves in order what was in order.
THEOREM NothingIsUndone == Spec => NothingUndone
<1>1. TypeOK /\ SuccessInv /\ RequestsInv /\ [Next]_vars =>
        [\A a \in Action : Seeded(a) /\ drift' = drift =>
           Seeded(a)' \/ (a = cur /\ (raw \/ cfg.strategy = "FIND/DELETE/POST"))]_vars
  BY NothingUndoneStep DEF SuccessInv
<1>2. TypeOK /\ SuccessInv /\ RequestsInv /\ [Next]_vars => (TypeOK /\ SuccessInv /\ RequestsInv)'
  BY TypeStep, SuccessStep, RequestsStep DEF SuccessInv
<1> QED BY <1>1, <1>2, TypeInit, SuccessInit, RequestsInit, PTL DEF Spec, NothingUndone
-----------------------------------------------------------------------------
(* What a run without a failure achieves.                                  *)

\* What is claimed of a call that does not fail: it ends the action without an
\* error or sends a request that the service cannot refuse.
GoesWell(c) ==
    \/ Return
    \/ \E m \in Method, i \in Id \union {NoId}, code \in Nat :
         /\ Send(m, i, code)
         /\ m \in {"PUT", "PATCH", "DELETE"} /\ ~KnowsId(cfg.strategy) => i \in Present(c)
         /\ m = "PUT" /\ cfg.strategy = "GET/PUT/POST" =>
              KnownId \in Present(c) \/ cfg.putCreates
         /\ m = "POST" => KnowsId(cfg.strategy) \/ cfg.postIsPut \/ Present(c) = {}

\* An answer in order tells of an item that is there, or that there is none in
\* the way the service has of saying so.
LEMMA CleanReply ==
    ASSUME NEW c \in Collection, NEW where \in SUBSET Id, NEW style \in NotFoundStyle,
           NEW r \in GetReplies(c, where, style)
    PROVE  /\ r.code \in {Success, 404} /\ r.id \in Id \union {NoId}
           /\ \/ r.code = Success /\ r.body = "item" /\ r.id \in Present(c) \intersect where
              \/ Present(c) \intersect where = {} /\ r.id = NoId /\
                   \/ style = "status" /\ r.code = 404 /\ r.body = "empty"
                   \/ style = "document" /\ r.code = Success /\ r.body = "other"
                   \/ style = "nobody" /\ r.code = Success /\ r.body = "empty"
<1> DEFINE hits == Present(c) \intersect where
<1>1. hits \subseteq Id BY DEF Present
<1>2. CASE hits = {} BY <1>2 DEF GetReplies, NotFoundReply, NotFoundStyle, Failed
<1>3. CASE hits # {} BY <1>1, <1>3 DEF GetReplies
<1> QED BY <1>2, <1>3

LEMMA CleanGet ==
    ASSUME TypeOK, get, clean', Converges(cfg) PROVE GoesWell(store[cur])
<1>1. pc \in Method /\ UNCHANGED <<job, store>> BY GetStep
<1>2. /\ cur \in Action /\ cfg \in ActionConfig /\ store[cur] \in Collection
      /\ Where(cfg.strategy) \in SUBSET Id /\ cfg.notFound \in NotFoundStyle
  BY <1>1, CallArguments DEF ActionConfig
<1>3. PICK r \in GetReplies(store[cur], Where(cfg.strategy), cfg.notFound) : AfterGet(r)
  BY DEF get, Fault
<1> DEFINE hits == Present(store[cur]) \intersect Where(cfg.strategy)
<1>4. /\ r.code \in {Success, 404} /\ r.id \in Id \union {NoId}
      /\ \/ r.code = Success /\ r.body = "item" /\ r.id \in hits
         \/ hits = {} /\ r.id = NoId /\
              \/ cfg.notFound = "status" /\ r.code = 404 /\ r.body = "empty"
              \/ cfg.notFound = "document" /\ r.code = Success /\ r.body = "other"
              \/ cfg.notFound = "nobody" /\ r.code = Success /\ r.body = "empty"
  BY <1>2, <1>3, CleanReply
<1>5. r.code \in Nat /\ NoId \in Id \union {NoId} /\ {"POST", "PUT", "PATCH", "DELETE"} \subseteq Method
  BY <1>4 DEF Method
<1>6. CASE cfg.strategy = "GET/POST"
  <2>1. GetPost(r) /\ KnowsId(cfg.strategy) /\ ~IsError(r.code)
    BY <1>3, <1>4, <1>6 DEF AfterGet, KnowsId, Converges, IsError
  <2> QED BY <1>5, <2>1 DEF GetPost, GoesWell
<1>7. CASE cfg.strategy = "GET/PUT/POST"
  <2>1. GetPutPost(r) /\ KnowsId(cfg.strategy) BY <1>3, <1>7 DEF AfterGet, KnowsId
  <2>2. ~(IsError(r.code) /\ ~ProceedFallback(r.code)) BY <1>4 DEF ProceedFallback, IsError
  <2>3. r.body # "empty" => KnownId \in Present(store[cur]) \/ cfg.putCreates
    <3>1. hits \subseteq {KnownId} BY <2>1 DEF Where
    <3> QED BY <1>4, <1>7, <3>1 DEF Converges
  <2> QED BY <1>5, <2>1, <2>2, <2>3 DEF GetPutPost, GoesWell
<1>8. ASSUME cfg.strategy \in {"FIND/POST", "FIND/PUT/POST", "FIND/PATCH/POST", "FIND/DELETE/POST"}
      PROVE  GoesWell(store[cur])
  <2>1. ~KnowsId(cfg.strategy) /\ cfg.expr /\ cfg.notFound = "document"
    BY <1>8 DEF KnowsId, Converges
  <2>2. hits = Present(store[cur]) BY <2>1 DEF Where, Present
  <2>3. ~IsError(r.code) /\ ~FindFails(r) BY <1>4, <2>1 DEF IsError, FindFails
  <2>4. /\ Found(r) = NoId => Present(store[cur]) = {}
        /\ Found(r) # NoId => Found(r) \in Present(store[cur]) /\ Found(r) \in Id \union {NoId}
    BY <1>2, <1>4, <2>1, <2>2, ServiceAssumption DEF Found
  <2>5. CASE cfg.strategy = "FIND/POST"
    <3>1. FindPost(r) BY <1>3, <2>5 DEF AfterGet
    <3> QED BY <1>5, <2>3, <2>4, <3>1 DEF FindPost, GoesWell
  <2>6. CASE cfg.strategy \in {"FIND/PUT/POST", "FIND/PATCH/POST"}
    <3>1. \E m \in {"PUT", "PATCH"} : FindUpdatePost(r, m)
      BY <1>3, <2>6 DEF AfterGet, FindPutPost, FindPatchPost
    <3>2. cfg.strategy # "GET/PUT/POST" BY <2>6
    <3> QED BY <1>5, <2>3, <2>4, <3>1, <3>2 DEF FindUpdatePost, GoesWell
  <2>7. CASE cfg.strategy = "FIND/DELETE/POST"
    <3>1. FindDeletePost(r) BY <1>3, <2>7 DEF AfterGet
    <3> QED BY <1>5, <2>3, <2>4, <3>1 DEF FindDeletePost, GoesWell
  <2> QED BY <1>8, <2>5, <2>6, <2>7
<1> QED BY <1>3, <1>6, <1>7, <1>8 DEF AfterGet

LEMMA CleanWrite ==
    ASSUME TypeOK, CurInv, RequestsInv, UniqueInv, put \/ patch \/ delete \/ post, clean',
           Converges(cfg), Undisturbed(cur), ReadyFor(pc, foundId)
    PROVE  GoesWell(store'[cur])
<1>1. PICK x \in Effects : store' = [store EXCEPT ![cur] = x.store] /\ AfterWrite(x.code)
  <2>1. CASE put
    <3>1. pc = "PUT" BY <2>1 DEF put
    <3> QED BY <2>1, <3>1 DEF put, Write, Fault, Effects, AfterWrite
  <2>2. CASE patch BY <2>2 DEF patch, Write, Fault, Effects, AfterWrite
  <2>3. CASE delete BY <2>3 DEF delete, Write, Fault, Effects, AfterWrite
  <2>4. CASE post BY <2>4 DEF post, Write, Fault, Effects, AfterWrite
  <2> QED BY <2>1, <2>2, <2>3, <2>4
<1>2. /\ pc \in Method /\ pc # "GET" /\ cur \in Action /\ cur # NoAction /\ cfg \in ActionConfig
      /\ cfg.strategy \in Known /\ pc \in Requests(cfg.strategy)
      /\ store \in [Action -> Collection] /\ store[cur] \in Collection
      /\ Where(cfg.strategy) \in SUBSET Id /\ foundId \in Id \union {NoId}
  BY WriteStep, CallArguments, SeederAssumption
     DEF TypeOK, RunTypeOK, WorldTypeOK, CurInv, RequestsInv
<1>3. store'[cur] = x.store BY <1>1, <1>2
<1>4. {"POST"} \subseteq Method /\ NoId \in Id \union {NoId} BY DEF Method
<1>5. KnowsId(cfg.strategy) => PathId = KnownId
  BY DEF UniqueInv, FoundBySearch, PathId
<1>6. ~KnowsId(cfg.strategy) /\ pc \in {"PUT", "PATCH", "DELETE"} =>
        PathId = foundId /\ foundId \in Present(store[cur])
  BY ServiceAssumption DEF ReadyFor, PathId, Present
<1>7. x.code \in {Success, 404} /\ ReturnCode(x.code) => x.code = 404 \/ Return
  BY DEF ReturnCode, IsError
<1>8. CASE pc = "PUT"
  <2> DEFINE creates == cfg.putCreates /\ KnowsId(cfg.strategy)
  <2>1. x \in Update(store[cur], PathId, Payload, creates) BY <1>8 DEF Effects
  <2>2. x.code \in {Success, 404} /\ (x.code = 404 => ~creates /\ PathId \notin Present(store[cur]))
    BY <2>1 DEF Update, Effect
  <2>3. CASE cfg.strategy = "PUT/POST"
    <3>1. PutPost(x.code) /\ KnowsId(cfg.strategy) BY <1>1, <1>8, <2>3 DEF AfterWrite, KnowsId
    <3>2. ~(IsFatal(x.code) \/ ~ProceedFallback(x.code)) \/ ~IsError(x.code)
      BY <2>2 DEF IsFatal, ProceedFallback, IsError, NetworkError
    <3>3. Return \/ Send("POST", NoId, x.code) BY <3>1, <3>2 DEF PutPost
    <3> QED BY <1>4, <2>2, <3>1, <3>3 DEF GoesWell
  <2>4. CASE cfg.strategy # "PUT/POST"
    <3>1. cfg.strategy \in {"PUT", "GET/PUT/POST", "FIND/PUT/POST"}
      BY <1>2, <1>8, <2>4 DEF Requests, Known
    <3>2. x.code # 404
      BY <1>5, <1>6, <1>8, <2>2, <3>1 DEF Converges, KnowsId, ReadyFor
    <3> QED BY <1>1, <1>7, <1>8, <2>2, <2>4, <3>2 DEF AfterWrite, GoesWell
  <2> QED BY <2>3, <2>4
<1>9. CASE pc = "PATCH"
  <2>1. x \in Update(store[cur], PathId, Payload, FALSE) BY <1>9 DEF Effects
  <2>2. ~KnowsId(cfg.strategy) BY <1>2, <1>9 DEF Requests, Known, KnowsId
  <2>3. x.code = Success BY <1>6, <1>9, <2>1, <2>2 DEF Update, Effect
  <2> QED BY <1>1, <1>7, <1>9, <2>3 DEF AfterWrite, GoesWell
<1>10. CASE pc = "DELETE"
  <2>1. x \in Delete(store[cur], PathId) BY <1>10 DEF Effects
  <2>2. cfg.strategy = "FIND/DELETE/POST" BY <1>2, <1>10 DEF Requests, Known
  <2>3. PathId = foundId /\ foundId \in Present(store[cur])
    BY <1>6, <1>10, <2>2 DEF KnowsId
  <2>4. x.code = Success BY <2>1, <2>3 DEF Delete, Effect
  <2>5. Present(x.store) = Present(store[cur]) \ {PathId}
    <3>1. PathId \in Id BY <2>3 DEF Present
    <3> QED BY <1>2, <2>1, <2>4, <3>1, DeleteEffect
  <2>6. AtMostOne(store[cur])
    <3>1. cur \notin raced BY <2>2 DEF Undisturbed, cfg
    <3>2. Recognises(cur) BY <2>2 DEF Recognises, Converges, cfg
    <3> QED BY <1>2, <3>1, <3>2 DEF UniqueInv, NoDuplicates
  <2>7. Present(x.store) = {} BY <2>3, <2>5, <2>6 DEF AtMostOne
  <2>8. Send("POST", foundId, x.code) BY <1>1, <1>10, <2>4 DEF AfterWrite, AfterDelete, IsError
  <2> QED BY <1>2, <1>3, <1>4, <2>4, <2>7, <2>8 DEF GoesWell
<1>11. CASE pc = "POST"
  <2> DEFINE upserts == cfg.postIsPut \/ KnowsId(cfg.strategy)
  <2>1. x \in Create(store[cur], Where(cfg.strategy), Payload, upserts) BY <1>11 DEF Effects
  <2>2. upserts \in BOOLEAN BY <1>2 DEF ActionConfig, KnowsId
  <2>3. upserts \/ Present(store[cur]) = {} BY <1>11 DEF ReadyFor
  <2> HIDE DEF upserts
  <2>4. x.code = Success BY <1>2, <2>1, <2>2, <2>3, CreateRefused
  <2> QED BY <1>1, <1>11, <2>4 DEF AfterWrite, ReturnCode, IsError, GoesWell
<1> QED BY <1>2, <1>8, <1>9, <1>10, <1>11 DEF Method
LEMMA CleanCall ==
    ASSUME TypeOK, SuccessInv, RequestsInv, UniqueInv, CleanInv,
           get \/ put \/ patch \/ delete \/ post
    PROVE  CleanInv'
<1>1. /\ cur \in Action /\ cur # NoAction /\ pc \in Method /\ UNCHANGED <<job, touched, raced>>
      /\ \E code \in Nat : Goes(code)
  BY CallStep, SeederAssumption
<1>2. clean' => clean
  BY DEF get, put, patch, delete, post, Write, Fault
<1>3. \A a \in Action : Undisturbed(a)' <=> Undisturbed(a) BY <1>1 DEF Undisturbed
<1>4. clean' /\ Undisturbed(cur) /\ Converges(cfg) => GoesWell(store'[cur])
  <2>1. CurInv BY DEF SuccessInv
  <2>2. clean' /\ Undisturbed(cur) /\ Converges(cfg) => ReadyFor(pc, foundId)
    BY <1>1, <1>2 DEF CleanInv
  <2> QED BY <2>1, <2>2, GetStep, CleanGet, CleanWrite
<1>5. ASSUME NEW m \in Method, NEW i, NEW code, Send(m, i, code)
      PROVE  /\ UNCHANGED <<errs, raw, cur>> /\ cfg' = cfg
             /\ result' = result /\ pc' # "idle"
             /\ ReadyFor(pc, foundId)' <=>
                  /\ m \in {"PUT", "PATCH", "DELETE"} /\ ~KnowsId(cfg.strategy) =>
                       i \in Present(store'[cur])
                  /\ m = "PUT" /\ cfg.strategy = "GET/PUT/POST" =>
                       KnownId \in Present(store'[cur]) \/ cfg.putCreates
                  /\ m = "POST" =>
                       KnowsId(cfg.strategy) \/ cfg.postIsPut \/ Present(store'[cur]) = {}
  <2>1. UNCHANGED <<errs, raw, cur, result>> /\ cfg' = cfg /\ pc' = m /\ foundId' = i
    BY <1>1, <1>5 DEF Send, cfg
  <2> QED BY <2>1 DEF ReadyFor, Method
<1>6. ASSUME NEW m \in Method, NEW i, NEW code, Send(m, i, code),
             clean' /\ Undisturbed(cur) /\ Converges(cfg) => ReadyFor(pc, foundId)'
      PROVE  CleanInv'
  <2>1. UNCHANGED <<errs, raw, cur>> /\ cfg' = cfg /\ result' = "none" /\ pc' # "idle"
    BY <1>1, <1>5, <1>6 DEF CleanInv, Method
  <2>2. clean' => CleanRunSucceeds' /\ ~raw'
    BY <1>1, <1>2, <1>3, <2>1 DEF CleanInv, CleanRunSucceeds
  <2>3. Undisturbed(cur)' <=> Undisturbed(cur) BY <1>1, <2>1 DEF Undisturbed
  <2>4. Converges(cfg)' <=> Converges(cfg) BY <2>1 DEF Converges
  <2>5. clean' /\ Undisturbed(cur)' /\ Converges(cfg)' => ReadyFor(pc, foundId)'
    BY <1>6, <2>3, <2>4
  <2> QED BY <1>1, <2>1, <2>2, <2>5 DEF CleanInv
<1>7. ASSUME NEW f \in BOOLEAN, EndAction(f),
             clean' /\ Undisturbed(cur) /\ Converges(cfg) => ~f
      PROVE  CleanInv'
  <2>1. /\ cur' = NoAction /\ ~raw' /\ errs' = AppendErrs(f) /\ pc' = "next"
        /\ result' = "none"
    BY <1>1, <1>7 DEF EndAction, CleanInv, Method
  <2>2. errs[cur] = 0 /\ errs \in [Action -> Nat] /\ raw \in BOOLEAN
    BY <1>1 DEF SuccessInv, PassedInv, TypeOK, RunTypeOK
  <2>3. ASSUME clean', NEW a \in Action, Undisturbed(a), Converges(job.act[a])
        PROVE  errs'[a] = 0
    <3>1. errs[a] = 0 /\ ~raw BY <1>2, <2>3 DEF CleanInv, CleanRunSucceeds
    <3>2. a = cur => ~f BY <1>7, <2>3 DEF cfg
    <3> QED BY <1>1, <2>1, <2>2, <3>1, <3>2, AppendErrsMeaning
  <2>4. clean' => CleanRunSucceeds' BY <1>1, <1>3, <2>1, <2>3 DEF CleanRunSucceeds
  <2> QED BY <2>1, <2>4 DEF CleanInv
<1>8. CASE clean' /\ Undisturbed(cur) /\ Converges(cfg)
  <2>1. CASE Return BY <1>7, <2>1 DEF Return
  <2>2. CASE ~Return
    <3>1. PICK m \in Method, i \in Id \union {NoId}, code \in Nat :
            /\ Send(m, i, code)
            /\ m \in {"PUT", "PATCH", "DELETE"} /\ ~KnowsId(cfg.strategy) =>
                 i \in Present(store'[cur])
            /\ m = "PUT" /\ cfg.strategy = "GET/PUT/POST" =>
                 KnownId \in Present(store'[cur]) \/ cfg.putCreates
            /\ m = "POST" =>
                 KnowsId(cfg.strategy) \/ cfg.postIsPut \/ Present(store'[cur]) = {}
      BY <1>4, <1>8, <2>2 DEF GoesWell
    <3>2. ReadyFor(pc, foundId)' BY <1>5, <3>1
    <3> QED BY <1>6, <3>1, <3>2
  <2> QED BY <2>1, <2>2
<1>9. CASE ~(clean' /\ Undisturbed(cur) /\ Converges(cfg))
  <2>1. CASE Return \/ ReturnErr BY <1>7, <1>9, <2>1 DEF Return, ReturnErr
  <2>2. CASE ~(Return \/ ReturnErr) BY <1>1, <1>6, <1>9, <2>2 DEF Goes
  <2> QED BY <2>1, <2>2
<1> QED BY <1>8, <1>9

LEMMA CleanStep ==
    ASSUME TypeOK, SuccessInv, RequestsInv, UniqueInv, CleanInv, [Next]_vars PROVE CleanInv'
<1>1. CASE get \/ put \/ patch \/ delete \/ post BY <1>1, CleanCall
<1>2. CASE Execute \/ ExecuteNoAuth \/ Crash
  <2>1. /\ cur' = NoAction /\ errs' = [a \in Action |-> 0] /\ ~raw'
        /\ pc' # "idle" => result' = "none"
        /\ result' = "error" => ~clean'
    BY <1>2 DEF Execute, ExecuteNoAuth, BeginRun, Crash, Fault, CleanInv, TypeOK, RunTypeOK
  <2> QED BY <2>1 DEF CleanInv, CleanRunSucceeds
<1>3. ASSUME cur' = NoAction, cur = NoAction, UNCHANGED <<job, touched, raced, clean, errs, raw>>,
             pc' # "idle" => result' = "none", result' = "error" => HasErrs
      PROVE  CleanInv'
  <2>1. CleanRunSucceeds => CleanRunSucceeds'
    BY <1>3 DEF CleanRunSucceeds, Undisturbed, HasErrs
  <2> QED BY <1>3, <2>1 DEF CleanInv
<1>4. CASE ExecuteReturns \/ \E a \in Action : SkipUnknown(a)
  <2>1. /\ cur' = NoAction /\ cur = NoAction
        /\ UNCHANGED <<job, touched, raced, clean, errs, raw>>
    BY <1>4 DEF ExecuteReturns, SkipUnknown, TypeOK, RunTypeOK, world
  <2>2. /\ pc' # "idle" => result' = "none"
        /\ result' = "error" => HasErrs
    BY <1>4 DEF ExecuteReturns, SkipUnknown, CleanInv
  <2> QED BY <1>3, <2>1, <2>2
<1>5. ASSUME NEW a \in Action, performAction(a) PROVE CleanInv'
  <2>1. /\ cur' = a /\ a # NoAction /\ UNCHANGED <<job, touched, raced, errs>>
        /\ clean' => clean /\ ~raw'
        /\ result' = result /\ result = "none"
        /\ cfg' = job.act[a] /\ pc' = FirstMethod(job.act[a].strategy)
    BY <1>5, SeederAssumption DEF performAction, Fault, cfg, CleanInv
  <2>2. clean' => CleanRunSucceeds'
    BY <2>1 DEF CleanInv, CleanRunSucceeds, Undisturbed
  <2>3. Converges(cfg)' => ReadyFor(pc, foundId)'
    <3>1. Converges(cfg)' <=> Converges(job.act[a]) BY <2>1 DEF Converges
    <3>2. Converges(job.act[a]) =>
            \/ pc' = "GET"
            \/ pc' = "PUT" /\ KnowsId(cfg'.strategy) /\ cfg'.strategy # "GET/PUT/POST"
      BY <2>1 DEF Converges, FirstMethod, KnowsId
    <3> QED BY <3>1, <3>2 DEF ReadyFor
  <2> QED BY <2>1, <2>2, <2>3 DEF CleanInv
<1>6. ASSUME NEW a \in Action, Drift(a) PROVE CleanInv'
  <2>1. UNCHANGED <<job, pc, cur, foundId, errs, raw, clean, result>> /\ touched' = touched \union {a}
        /\ raced \subseteq raced'
    BY <1>6 DEF Drift, run
  <2>2. \A b \in Action : Undisturbed(b)' => Undisturbed(b) /\ b # a
    BY <2>1 DEF Undisturbed
  <2>3. clean' => CleanRunSucceeds' BY <2>1, <2>2 DEF CleanInv, CleanRunSucceeds, HasErrs
  <2>4. ASSUME cur # NoAction, clean, Undisturbed(cur)', Converges(cfg)'
        PROVE  ReadyFor(pc, foundId)'
    <3>1. cur \in Action BY <2>4 DEF TypeOK, RunTypeOK
    <3>2. Undisturbed(cur) /\ cur # a BY <2>1, <2>4 DEF Undisturbed
    <3>3. store'[cur] = store[cur] /\ cfg' = cfg
      BY <1>6, <2>1, <3>1, <3>2 DEF Drift, TypeOK, WorldTypeOK, cfg
    <3>4. Converges(cfg) BY <2>4, <3>3 DEF Converges
    <3>5. ReadyFor(pc, foundId) BY <2>4, <3>2, <3>4 DEF CleanInv
    <3> QED BY <2>1, <3>3, <3>5 DEF ReadyFor
  <2> QED BY <2>1, <2>3, <2>4 DEF CleanInv
<1>7. CASE UNCHANGED vars
  <2>1. UNCHANGED <<job, store, pc, cur, foundId, errs, raw, clean, touched, raced, result>>
    BY <1>7 DEF vars, run, world
  <2> QED BY <2>1 DEF CleanInv, CleanRunSucceeds, HasErrs, Undisturbed, ReadyFor, cfg, Converges
<1> QED BY <1>1, <1>2, <1>4, <1>5, <1>6, <1>7 DEF Next, SeederStep

LEMMA CleanInit == Init => CleanInv
BY SeederAssumption DEF Init, CleanInv, CleanRunSucceeds

LEMMA RunInvariants ==
    Spec => [](TypeOK /\ UniqueInv /\ SuccessInv /\ RequestsInv /\ CleanInv)
<1> DEFINE Inv == TypeOK /\ UniqueInv /\ SuccessInv /\ RequestsInv /\ CleanInv
<1>1. Init => Inv BY TypeInit, UniqueInit, SuccessInit, RequestsInit, CleanInit
<1>2. Inv /\ [Next]_vars => Inv'
  BY TypeStep, UniqueStep, SuccessStep, RequestsStep, CleanStep DEF SuccessInv
<1> QED BY <1>1, <1>2, PTL DEF Spec

\* Whatever earlier runs left behind, a run in which nothing fails leaves no
\* error of an action that converges and that nobody has interfered with.
THEOREM CleanRunsSucceed == Spec => []CleanRunSucceeds
<1>1. CleanInv => CleanRunSucceeds BY DEF CleanInv, CleanRunSucceeds
<1> QED BY <1>1, RunInvariants, PTL

\* So one undisturbed run repairs everything: when nothing has failed and all
\* actions converge, Execute returns nil, and every item is in order.
THEOREM OneCleanRunRepairs ==
    Spec => [](/\ clean /\ pc = "idle" /\ result # "none"
               /\ \A a \in Action : Undisturbed(a) /\ Converges(job.act[a])
               => result = "ok" /\ \A a \in Action : Vouched(a))
<1> DEFINE P == /\ clean /\ pc = "idle" /\ result # "none"
                /\ \A a \in Action : Undisturbed(a) /\ Converges(job.act[a])
           Q == result = "ok" /\ \A a \in Action : Vouched(a)
<1>1. TypeOK /\ CleanRunSucceeds /\ SuccessMeansSeeded => (P => Q)
  <2> SUFFICES ASSUME TypeOK, CleanRunSucceeds, SuccessMeansSeeded, P PROVE Q OBVIOUS
  <2>1. ~HasErrs BY DEF CleanRunSucceeds, HasErrs
  <2>2. result = "ok" BY <2>1 DEF CleanRunSucceeds, TypeOK, RunTypeOK
  <2>3. \A a \in Action : a \notin touched /\ job.act[a].strategy \in Known
    BY DEF Undisturbed, Converges, Known
  <2> QED BY <2>2, <2>3 DEF SuccessMeansSeeded
<1> HIDE DEF P, Q
<1>2. Spec => [](P => Q) BY <1>1, TypeCorrect, CleanRunsSucceed, SuccessIsTrue, PTL
<1> QED BY <1>2 DEF P, Q

\* How far "each strategy is performed" goes: with definitions that name none but
\* the strategies New registers, Execute returns nil only when every action was
\* performed and succeeded.
THEOREM KnownStrategiesArePerformed ==
    (\A c \in Config : c.strategy \in Known) => (Spec => []NilMeansAllPerformed)
<1> SUFFICES ASSUME \A c \in Config : c.strategy \in Known
             PROVE  Spec => []NilMeansAllPerformed
  OBVIOUS
<1>1. TypeOK /\ SuccessInv => NilMeansAllPerformed
  <2> SUFFICES ASSUME TypeOK, SuccessInv, result = "ok" PROVE succeeded = Action
    BY DEF NilMeansAllPerformed
  <2>1. pc = "idle" /\ todo = {} /\ ~HasErrs BY DEF SuccessInv, OkInv
  <2>2. cur = NoAction BY <2>1 DEF TypeOK, RunTypeOK
  <2>3. \A a \in Action : job.act[a].strategy \in Known BY DEF TypeOK, JobTypeOK
  <2>4. \A a \in Action : errs[a] = 0 BY <2>1 DEF HasErrs, TypeOK, RunTypeOK
  <2>5. \A a \in Action : a \in succeeded
    BY <2>1, <2>2, <2>3, <2>4, SeederAssumption DEF SuccessInv, PassedInv
  <2> QED BY <2>5 DEF TypeOK, RunTypeOK
<1> QED BY <1>1, TypeInit, TypeStep, SuccessInit, SuccessStep, PTL DEF Spec
=============================================================================
