-------------------------- MODULE SeederProperties --------------------------
(***************************************************************************)
(* What is claimed of Seeder.                                              *)
(***************************************************************************)
EXTENDS Seeder, FiniteSetsExt

RunTypeOK ==
    /\ pc \in {"idle", "next"} \union Method
    /\ cur \in Action \union {NoAction}
    /\ (cur = NoAction) <=> (pc \in {"idle", "next"})
    /\ todo \subseteq Action
    /\ foundId \in Id \union {NoId}
    /\ raw \in BOOLEAN
    /\ last \in Nat
    /\ errs \in [Action -> Nat]
    /\ result \in {"none", "ok", "error"}
    /\ succeeded \subseteq Action

WorldTypeOK ==
    /\ store \in [Action -> Collection]
    /\ touched \subseteq Action /\ raced \subseteq Action
    /\ clean \in BOOLEAN
    /\ faults \in Nat /\ drift \in Nat

JobTypeOK == job \in [act : [Action -> Config], failFast : FailFast]

\* The type invariant of Seeder.
TypeOK == JobTypeOK /\ RunTypeOK /\ WorldTypeOK

-----------------------------------------------------------------------------
(* Idempotence, "ensure an idempotent update" (seeder/README.md).          *)

\* The strategy can recognise an item it made before: by the id its endpoints
\* name, or by a path expression.  POST alone never looks.
Recognises(a) ==
    LET c == job.act[a] IN c.strategy # "POST" /\ (KnowsId(c.strategy) \/ c.expr)

AtMostOne(c) == \A i, j \in Present(c) : i = j

\* However many runs there are, and whatever answers were lost, faked or cut
\* off by a crash in between, the seeder never makes a second copy of an item
\* its strategy can recognise.  The one exception is pinned down: somebody
\* else made the item after the action's GET and before its POST.
NoDuplicates ==
    \A a \in Action \ raced : Recognises(a) => AtMostOne(store[a])

-----------------------------------------------------------------------------
(* A run that returns nil has done its work.                               *)

\* Strategies that must not update what they find.
KeepsExisting(a) ==
    LET c == job.act[a] IN
    c.strategy = "GET/POST" \/ (c.strategy = "FIND/POST" /\ ~c.postIsPut)

\* A collection holds the item as the definition wants it: its payload is
\* there, or, where the strategy does not update, some item is.
SeededIn(a, c) ==
    IF KeepsExisting(a) THEN Present(c) # {} ELSE \E i \in Id : c[i] = "new"

Seeded(a) == SeededIn(a, store[a])

\* Success of an action vouches for its item.  Not that of GET/POST, which
\* takes whatever document answers its GET, an error page too, for the item.
Vouched(a) == job.act[a].strategy = "GET/POST" \/ Seeded(a)

\* When Execute has returned nil, every item is as the definition wants it
\* unless others changed it since the run began: no error of a fallback chain
\* is swallowed, no item is deleted and not made again, and no payload is
\* written with a token unreplaced.
SuccessMeansSeeded ==
    result = "ok" =>
        \A a \in Action \ touched : job.act[a].strategy \in Known => Vouched(a)

\* An existing item is never changed by FIND/POST (with an expression) or
\* GET/POST, whatever goes wrong with the GET: "if item ***FOUND*** it does
\* _NOT_ do a ***POST***" (seeder/seeder.go:266-279).
ExistingKept ==
    [][\A a \in Action \ raced :
         KeepsExisting(a) /\ Recognises(a) /\ drift' = drift =>
           \A i \in Present(store[a]) : store'[a][i] = store[a][i]]_vars

-----------------------------------------------------------------------------
(* Fallbacks.                                                              *)

\* An action sends nothing more after a 5XX or after a call without an answer
\* ("most likely indicates a service down. should not proceed to further
\* strategies", seeder/rest.go:229), and after a 3XX or 4XX only the POST of
\* a strategy that documents one.
FallbackOnlyOnClientError ==
    pc \in Method /\ last > 299 =>
        /\ last < 500 /\ pc = "POST"
        /\ cfg.strategy \in {"PUT/POST", "GET/PUT/POST"}
             \/ (cfg.strategy = "FIND/DELETE/POST" /\ ~cfg.expr)

-----------------------------------------------------------------------------
(* The list of actions and the list of errors.                             *)

\* No action begins before one of a lower order has ended; an action without
\* an order counts as 999, after 998 and before 1000 (seeder/seeder.go:158-169).
OrderRespected ==
    pc # "idle" =>
      \A a \in Action \ todo, b \in todo :
        LET p == job.act[a].order
            q == job.act[b].order
        IN  /\ p # NoOrder /\ q # NoOrder => p <= q
            /\ p = NoOrder /\ q # NoOrder => q >= 999
            /\ p # NoOrder /\ q = NoOrder => p <= 999

\* Between two actions of a run, each action the loop has passed either
\* succeeded or has its error in the list, and never both; and Execute
\* returns an error exactly if there is one.
ErrorsComplete ==
    /\ pc = "next" => \A a \in Action \ todo : job.act[a].strategy \in Known =>
                        (a \in succeeded <=> errs[a] = 0)
    /\ result = "ok" => ~HasErrs /\ todo = {}

\* With FailFast no request follows the action that failed, and the error
\* list holds that action's errors alone, each once: the secret that could
\* not be replaced, the call that failed.
FailFastStops ==
    job.failFast /\ HasErrs =>
        /\ pc \in {"idle", "next"}
        /\ \E a \in Action : errs[a] <= 2 /\ \A b \in Action \ {a} : errs[b] = 0

\* Without FailFast Execute appends to the error list what performAction
\* returned, and that begins with the list itself: the list Execute joins into
\* one message (the custom resource's status) doubles with every action after
\* the first error, failed or not, and this is exactly how long it can get.
ErrorListLength == MapThenSumSet(LAMBDA a : errs[a], Action)
ErrorListGrowth == ErrorListLength <= 2 ^ (Cardinality(Action \ todo) + 1) - 2

-----------------------------------------------------------------------------
(* A run comes to an end, and to a good one if nothing fails.              *)

\* At most how many steps the run under way has left.
StepsLeft ==
    IF pc = "idle" THEN 0
    ELSE 4 * Cardinality(todo)
           + CASE pc = "GET" -> 4 [] pc \in {"PUT", "DELETE"} -> 3
               [] pc \in {"PATCH", "POST"} -> 2 [] pc = "next" -> 1

\* Whatever the answers, a run sends at most three requests for an action and
\* never goes back to one it has passed: each step that is not somebody else's
\* brings its end closer.
RunsEnd == [][pc # "idle" /\ run' # run => StepsLeft' < StepsLeft]_vars

\* The strategies that bring the item about whatever state it is in, given
\* how the service says that an item is missing.  FIND/... needs a document
\* the expression can be evaluated on; GET/POST an answer without a body, for
\* it takes a 4XX for a failure; PUT a service that creates on PUT.
Converges(c) ==
    \/ c.strategy \in {"FIND/POST", "FIND/PUT/POST", "FIND/PATCH/POST", "FIND/DELETE/POST"}
         /\ c.expr /\ c.notFound = "document"
    \/ c.strategy = "GET/POST" /\ c.notFound = "nobody"
    \/ c.strategy = "GET/PUT/POST" /\ (c.notFound # "document" \/ c.putCreates)
    \/ c.strategy = "PUT/POST"
    \/ c.strategy = "PUT" /\ c.putCreates

\* Nobody else has interfered with an action that deals with one item.
Undisturbed(a) ==
    a \notin touched /\ (a \in raced => job.act[a].strategy # "FIND/DELETE/POST")


\* A run in which no call fails leaves no error of an action whose strategy
\* converges, whatever earlier runs were cut off in the middle of or lost
\* answers to, unless somebody changed the item while it ran; and Execute
\* returns no error then but for actions.
CleanRunSucceeds ==
    clean =>
      /\ \A a \in Action : Undisturbed(a) /\ Converges(job.act[a]) => errs[a] = 0
      /\ result = "error" => HasErrs

\* No run takes an item out of order that was in order, not even one that
\* fails, whichever call it fails in; but FIND/DELETE/POST does for a moment,
\* and an action whose tokens could not be replaced may write them over it.
NothingUndone ==
    [][\A a \in Action : Seeded(a) /\ drift' = drift =>
         Seeded(a)' \/ (a = cur /\ (raw \/ cfg.strategy = "FIND/DELETE/POST"))]_vars

-----------------------------------------------------------------------------
(* Inductive strengthenings: what NoDuplicates and SuccessMeansSeeded rest *)
(* on (SeederProofs).                                                      *)

\* A service files an item whose id the user chose under that id alone.
KnownIdOnly ==
    \A a \in Action : KnowsId(job.act[a].strategy) => Present(store[a]) \subseteq {KnownId}

\* Only a search fills Action.foundId.
FoundBySearch == foundId # NoId => cur # NoAction /\ ~KnowsId(cfg.strategy)

\* When the POST of a searching strategy is due, there is no item: the GET saw
\* none, or the DELETE removed the only one.
PostFindsNone ==
    pc = "POST" /\ cur \notin raced /\ Recognises(cur) =>
        KnowsId(cfg.strategy) \/ cfg.postIsPut \/ Present(store[cur]) = {}

UniqueInv == KnownIdOnly /\ FoundBySearch /\ PostFindsNone /\ NoDuplicates

\* An action that was reached and ended is counted as succeeded or has errors.
PassedInv ==
    \A a \in Action :
        IF a \in todo \/ a = cur \/ job.act[a].strategy \notin Known
        THEN errs[a] = 0 /\ a \notin succeeded
        ELSE a \in succeeded <=> errs[a] = 0

\* What was right when its action succeeded still is, but for other people.
SucceededVouched == \A a \in succeeded \ touched : Vouched(a)

CurInv == cur # NoAction => cur \notin todo /\ cfg.strategy \in Known

OkInv == result = "ok" => pc = "idle" /\ todo = {} /\ ~HasErrs

SuccessInv == CurInv /\ PassedInv /\ SucceededVouched /\ OkInv

\* What ExistingKept rests on: an action that must not update sends its POST only
\* where there is no item (SeederRunProofs, as the next).
KeptInv ==
    cur # NoAction /\ KeepsExisting(cur) =>
        /\ pc \in {"GET", "POST"}
        /\ pc = "POST" /\ cur \notin raced /\ Recognises(cur) => Present(store[cur]) = {}

\* What ErrorListGrowth rests on: the action under way has left nothing yet.
GrowthInv == ErrorListLength <= 2 ^ (Cardinality(Action \ (todo \union {cur})) + 1) - 2

\* No answer is kept from one action to the next.
FallbackInv == FallbackOnlyOnClientError /\ (pc \notin Method => last = 0)

\* What NothingUndone and CleanRunSucceeds rest on.  A strategy sends the
\* requests it is named after and no others.
Requests(s) ==
    CASE s \in {"PUT", "POST"} -> {s}
      [] s = "PUT/POST" -> {"PUT", "POST"}
      [] s \in {"GET/POST", "FIND/POST"} -> {"GET", "POST"}
      [] s \in {"GET/PUT/POST", "FIND/PUT/POST"} -> {"GET", "PUT", "POST"}
      [] s = "FIND/PATCH/POST" -> {"GET", "PATCH", "POST"}
      [] s = "FIND/DELETE/POST" -> {"GET", "DELETE", "POST"}

RequestsInv == cur # NoAction => pc \in Requests(cfg.strategy)

\* The service is in a state in which it cannot refuse the request m for item i.
ReadyFor(m, i) ==
    /\ m \in {"PUT", "PATCH", "DELETE"} /\ ~KnowsId(cfg.strategy) => i \in Present(store[cur])
    /\ m = "PUT" /\ cfg.strategy = "GET/PUT/POST" =>
         KnownId \in Present(store[cur]) \/ cfg.putCreates
    /\ m = "POST" => KnowsId(cfg.strategy) \/ cfg.postIsPut \/ Present(store[cur]) = {}

CleanInv ==
    /\ raw => cur # NoAction
    /\ pc # "idle" => result = "none"
    /\ clean => /\ ~raw
                /\ cur # NoAction /\ Undisturbed(cur) /\ Converges(cfg) => ReadyFor(pc, foundId)
                /\ CleanRunSucceeds

-----------------------------------------------------------------------------
(* Seeder implements SeedJob.                                              *)

OutcomeOf(a) ==
    IF a \in todo THEN "pending"
    ELSE IF a = cur THEN "active"
    ELSE IF a \in succeeded THEN "ok"
    ELSE IF errs[a] > 0 THEN "failed" ELSE "skipped"

Job == INSTANCE SeedJob WITH
    failFast <- job.failFast,
    outcome  <- [a \in Action |-> OutcomeOf(a)],
    seeded   <- {a \in Action : Vouched(a)},
    verdict  <- IF pc = "idle" THEN result ELSE "running"

\* Every step of the seeder is a step of a SeedJob or none: in particular an
\* action is counted as done at a moment when its item is as it should be.
ImplementsSeedJob == Job!Spec

-----------------------------------------------------------------------------
(* What runs achieve in the end.                                           *)

\* Faults, crashes and manual changes being finite in number, repeated runs
\* leave every such item as the definition wants it again and again, and all
\* but FIND/DELETE/POST, which takes it away for a moment in every run, leave
\* it so for good.  One action that never succeeds does not keep the others
\* from it unless FailFast is set.
RunsConverge ==
    \A a \in Action :
      LET c == job.act[a] IN
      Converges(c) /\ (job.failFast => \A b \in Action : Converges(job.act[b])) =>
        /\ []<>Seeded(a)
        /\ c.strategy # "FIND/DELETE/POST" => <>[]Seeded(a)

-----------------------------------------------------------------------------
(* What the documentation says and the code does not do.                   *)

\* Every strategy the README lists is performed (seeder/README.md:68-100).
NilMeansAllPerformed == result = "ok" => succeeded = Action

\* "The templating function is provided already with a replaced value"
\* (README.md:74): no payload reaches a service with a token in it.
TokensReplaced == \A a \in Action, i \in Id : store[a][i] # "raw"

\* GET/PUT/POST: "the pathExpression must not evaluate to an empty string in
\* order to for the PUT to be called else POST will be called as item was not
\* present" (seeder/seeder.go:254-255).
PutOnlyWhenPresent ==
    pc = "PUT" /\ cfg.strategy = "GET/PUT/POST" /\ cur \notin touched =>
        Present(store[cur]) # {}
=============================================================================
