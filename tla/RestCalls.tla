----------------------------- MODULE RestCalls ------------------------------
(***************************************************************************)
(* A process that runs seeders, one in each worker, and what they share:   *)
(* the process itself, with its environment.  Seeder says which requests   *)
(* a strategy makes; here it is how one of them is made: templating, do()  *)
(* and setAuthHeader, with a step for each access to the environment.      *)
(*                                                                         *)
(* A worker performs the definition of its own resource over and over.     *)
(* The definition is the informer's object, or what a file was read into.  *)
(***************************************************************************)
EXTENDS Templating, Auth

CONSTANTS
    Worker,
    Definition,    \* for each worker [auth : a list of AuthConfig, seed : a list of Action]
    Ambient,       \* a value the environment of a new process has
    AmbientNames,  \* the names it has one for
    MaxFaults      \* bound on failed token fetches

Method == {"GET", "PUT", "PATCH", "DELETE", "POST"}

\* Of an action: the names of its variables, those its payload and its path
\* mention, and those it captures; its methods, in the order of the strategy.
Action == [variables : SUBSET Name, payload : SUBSET Name, path : SUBSET Name,
           runtimeVars : SUBSET Name, authMapRef : AuthName,
           methods : SUBSET Method, endpoint : {"good", "bad"}]

ASSUME RestCallsAssumption ==
    /\ Definition \in [Worker -> [auth : Seq(AuthConfig), seed : Seq(Action)]]
    /\ \A w \in Worker : Definition[w].seed # <<>>
    /\ AmbientNames \subseteq Name
    /\ MaxFaults \in Nat

\* A value says where it is from: the variables of an action or an answer to
\* one of its requests.  `run` is history: it tells a run's values from earlier ones'.
Origin == [by : Worker, act : Nat, from : Method \union {"variables"}, run : {"this", "earlier"}]
Value == Origin \union {Ambient, NoValue}
ASSUME ValueAssumption == Ambient \notin Origin /\ NoValue \notin Origin /\ Ambient # NoValue

VARIABLES
    env,           \* the environment of the process
    object,        \* the informer's objects: for each worker, the actions' variables
    at,            \* where each worker is: step, action, method, its number, text
    variables,     \* Action.Variables of the action it performs
    runtimeVars,   \* SeederImpl.runtimeVars
    unset,         \* names templatePayload has yet to set
    payload, path, \* the texts of the request
    header,        \* the header map the requests of an action share
    currentToken,  \* CustomFlowAuth.currentToken of each entry
    failed,        \* workers whose run has an error in its list
    denied,        \* history: workers in whose run a token exchange failed
    result,        \* what Execute returned last
    faults

texts == <<payload, path>>
maps  == <<object, variables, unset>>
auths == <<header, currentToken, denied>>
vars  == <<env, at, maps, runtimeVars, texts, auths, failed, result, faults>>

Seed(w) == Definition[w].seed
cur(w) == Seed(w)[at[w].act]
auth(w) == Strategy(Definition[w].auth, cur(w).authMapRef)

NoEntries == [k \in Name |-> NoValue]
From(w, i, what) == [by |-> w, act |-> i, from |-> what, run |-> "this"]
Given(w, i) == [k \in Name |-> IF k \in Seed(w)[i].variables THEN From(w, i, "variables") ELSE NoValue]

Idle == [pc |-> "idle", act |-> 0, method |-> "GET", n |-> 0, text |-> "payload"]
Steps == {"idle", "templating", "request", "auth", "send"}
NoTokens == [n \in AuthName |-> NoCredential]
NewEnv == [k \in Name |-> IF k \in AmbientNames THEN Ambient ELSE NoValue]

Goto(w, pc) == at' = [at EXCEPT ![w].pc = pc]

Each(x) == [w \in Worker |-> x]
Objects == [w \in Worker |-> [i \in DOMAIN Seed(w) |-> Given(w, i)]]

Init ==
    /\ env = NewEnv /\ object = Objects
    /\ at = Each(Idle)
    /\ variables = Each(NoEntries) /\ runtimeVars = Each(NoEntries) /\ unset = Each({})
    /\ payload = Each(NoEntries) /\ path = Each(NoEntries)
    /\ header = Each(WithHeader) /\ currentToken = Each(NoTokens)
    /\ failed = {} /\ denied = {} /\ result = Each("none")
    /\ faults = MaxFaults

\* A panic in one worker ends the process; it is started again.
Panic ==
    /\ env' = NewEnv /\ object' = Objects
    /\ at' = Each(Idle)
    /\ variables' = Each(NoEntries) /\ runtimeVars' = Each(NoEntries) /\ unset' = Each({})
    /\ payload' = Each(NoEntries) /\ path' = Each(NoEntries)
    /\ header' = Each(WithHeader) /\ currentToken' = Each(NoTokens)
    /\ failed' = {} /\ denied' = {} /\ result' = Each("none")

Fault == faults > 0 /\ faults' = faults - 1

-----------------------------------------------------------------------------
(* Templating.                                                             *)

\* A bug: the maps of the copy are those of the informer's object.
BugDeepCopyInto(original, vs) == vs
\* What the informer's object has after its copy was written to.
DeepCopyInto(original, vs) == original

\* TemplateWithVars up to the loop, on one of the action's texts.  What was
\* captured is written into the map of the action itself.
TemplateWithVars(w, vs, captured, here) ==
    LET extended == Extend(vs, captured) IN
    /\ variables' = [variables EXCEPT ![w] = extended]
    /\ object' = [object EXCEPT ![w][here.act] = DeepCopyInto(@, extended)]
    /\ unset' = [unset EXCEPT ![w] = Entries(extended)]
    /\ at' = [at EXCEPT ![w] = here]

templatePayload(w) ==
    /\ at[w].pc = "templating"
    /\ \E k \in unset[w] :
         /\ env' = Setenv(env, k, variables[w][k])
         /\ unset' = [unset EXCEPT ![w] = @ \ {k}]
    /\ UNCHANGED <<object, at, variables, runtimeVars, texts, auths, failed, result, faults>>

Expand(w) ==
    /\ at[w].pc = "templating" /\ unset[w] = {}
    /\ \/ /\ at[w].text = "payload" /\ Goto(w, "request")
          /\ payload' = [payload EXCEPT ![w] = Substitute(env, cur(w).payload)] /\ UNCHANGED path
       \/ /\ at[w].text = "path" /\ Goto(w, "auth")
          /\ path' = [path EXCEPT ![w] = Substitute(env, cur(w).path)] /\ UNCHANGED payload
    /\ UNCHANGED <<env, maps, runtimeVars, auths, failed, result, faults>>

-----------------------------------------------------------------------------
(* The run: Execute and performAction, as far as they matter here.         *)

First(w, i) ==
    IF "GET" \in Seed(w)[i].methods THEN "GET"
    ELSE IF "PUT" \in Seed(w)[i].methods THEN "PUT" ELSE "POST"

performAction(w, i, captured) ==
    /\ TemplateWithVars(w, object[w][i], captured,
                        [pc |-> "templating", act |-> i, method |-> First(w, i),
                         n |-> 1, text |-> "payload"])
    /\ header' = [header EXCEPT ![w] = WithHeader]
    /\ payload' = [payload EXCEPT ![w] = NoEntries] /\ path' = [path EXCEPT ![w] = NoEntries]

\* What w left in the environment is now of an earlier run.
Aged(w, map) ==
    [k \in Name |-> IF map[k] \in Origin /\ map[k].by = w THEN [map[k] EXCEPT !.run = "earlier"]
                    ELSE map[k]]

Execute(w) ==
    /\ at[w].pc = "idle" /\ ~NewAuthPanics(Definition[w].auth)
    /\ runtimeVars' = [runtimeVars EXCEPT ![w] = NoEntries]
    /\ currentToken' = [currentToken EXCEPT ![w] = NoTokens]
    /\ failed' = failed \ {w} /\ denied' = denied \ {w}
    /\ result' = [result EXCEPT ![w] = "none"]
    /\ performAction(w, 1, NoEntries)
    /\ env' = Aged(w, env)
    /\ UNCHANGED faults

ExecutePanics(w) ==
    /\ at[w].pc = "idle" /\ NewAuthPanics(Definition[w].auth)
    /\ Panic /\ UNCHANGED faults

\* The action is over: the next one, or with failFast perhaps the end.
EndAction(w, errors, captured) ==
    /\ failed' = IF errors THEN failed \union {w} ELSE failed
    /\ runtimeVars' = [runtimeVars EXCEPT ![w] = captured]
    /\ \/ /\ at[w].act < Len(Seed(w))
          /\ performAction(w, at[w].act + 1, captured)
          /\ UNCHANGED result
       \/ /\ at[w].act = Len(Seed(w)) \/ errors
          /\ at' = [at EXCEPT ![w] = Idle]
          /\ result' = [result EXCEPT ![w] = IF w \in failed' THEN "error" ELSE "ok"]
          /\ UNCHANGED <<maps, texts, header>>
    /\ UNCHANGED <<env, currentToken, denied>>

-----------------------------------------------------------------------------
(* A request.                                                              *)

\* get() returns the error of a request that cannot be built, the others go on
\* without a request.
NewRequest(w) ==
    /\ at[w].pc = "request"
    /\ \/ /\ cur(w).endpoint = "good"
          /\ TemplateWithVars(w, variables[w], runtimeVars[w],
                              [at[w] EXCEPT !.pc = "templating", !.text = "path"])
          /\ UNCHANGED <<env, runtimeVars, texts, auths, failed, result>>
       \/ /\ cur(w).endpoint = "bad" /\ at[w].method = "GET"
          /\ EndAction(w, TRUE, runtimeVars[w])
       \/ cur(w).endpoint = "bad" /\ at[w].method # "GET" /\ Panic
    /\ UNCHANGED faults

\* The token's exchange or fetch is a call of its own.  Without a token the two
\* OAuth flows panic; so do requests to an address that cannot be parsed.
setAuthHeader(w) ==
    LET a == auth(w)
        n == cur(w).authMapRef
        fetched == FreshToken(currentToken[w][n], Token(n, at[w].act, at[w].n))
    IN
    /\ at[w].pc = "auth"
    /\ \/ /\ ~Protects(a) /\ Goto(w, "send")
          /\ UNCHANGED <<env, maps, runtimeVars, texts, auths, failed, result, faults>>
       \/ /\ Protects(a) /\ ~Fetches(a) /\ Goto(w, "send")
          /\ header' = [header EXCEPT ![w] = WithCredential(@, a, Permanent(n))]
          /\ UNCHANGED <<env, maps, runtimeVars, texts, currentToken, denied, failed, result, faults>>
       \/ /\ Fetches(a) /\ "token" \in customTokenExchange(a) /\ Goto(w, "send")
          /\ header' = [header EXCEPT ![w] = WithCredential(@, a, fetched)]
          /\ currentToken' = [currentToken EXCEPT ![w][n] =
                                IF a.strategy = "CustomToToken" THEN fetched ELSE @]
          /\ UNCHANGED <<env, maps, runtimeVars, texts, denied, failed, result, faults>>
       \/ /\ a.strategy = "CustomToToken" /\ "failure" \in customTokenExchange(a)
          /\ Goto(w, "send")
          /\ header' = [header EXCEPT ![w] = WithoutToken(@)]
          /\ denied' = denied \union {w}
          /\ Fault
          /\ UNCHANGED <<env, maps, runtimeVars, texts, currentToken, failed, result>>
       \/ a.strategy \in OAuthTypes /\ "failure" \in customTokenExchange(a) /\ Panic /\ Fault
       \/ Fetches(a) /\ "panic" \in customTokenExchange(a) /\ Panic /\ UNCHANGED faults

\* What a strategy may send after a 2XX, and after a 3XX or 4XX.
NextMethods(w, answer) ==
    LET more == IF at[w].method = "GET" THEN IF answer = "ok" THEN Method \ {"GET"} ELSE {"POST"}
                ELSE IF at[w].method = "PUT" /\ answer = "client" THEN {"POST"}
                ELSE IF at[w].method = "DELETE" /\ answer = "ok" THEN {"POST"} ELSE {}
        chained == at[w].method # "PUT" \/ "GET" \notin cur(w).methods
    IN {m \in more \intersect cur(w).methods : chained}

\* FindPatchPost templates its other payload when it comes to the PATCH.
Continue(w, m, captured) ==
    LET next == [at[w] EXCEPT !.method = m, !.n = @ + 1] IN
    /\ runtimeVars' = [runtimeVars EXCEPT ![w] = captured]
    /\ \/ /\ m # "PATCH" /\ at' = [at EXCEPT ![w] = [next EXCEPT !.pc = "request"]]
          /\ UNCHANGED maps
       \/ /\ m = "PATCH"
          /\ TemplateWithVars(w, variables[w], captured,
                              [next EXCEPT !.pc = "templating", !.text = "payload"])
    /\ UNCHANGED <<env, texts, auths, failed, result>>

\* What a GET finds may need nothing, or be nothing the path expression can read.
Answered(w, answer, captured) ==
    \/ /\ NextMethods(w, answer) = {} \/ (at[w].method = "GET" /\ answer = "ok")
       /\ EndAction(w, answer # "ok", captured)
    \/ at[w].method = "GET" /\ EndAction(w, TRUE, captured)
    \/ \E m \in NextMethods(w, answer) : Continue(w, m, captured)

\* client.Do and what do() makes of the answer: variables are captured from a
\* 2XX.  No answer, a 5XX or a refused header ends the action.
Send(w) ==
    /\ at[w].pc = "send"
    /\ \/ EndAction(w, TRUE, runtimeVars[w])
       \/ /\ ~Refused(header[w])
          /\ \E answer \in {"ok", "client"}, found \in SUBSET cur(w).runtimeVars :
               /\ answer = "client" => found = {}
               /\ Answered(w, answer, findRuntimeVars(runtimeVars[w], found,
                                                     From(w, at[w].act, at[w].method)))
    /\ UNCHANGED faults

-----------------------------------------------------------------------------
Step(w) == \/ Execute(w) \/ ExecutePanics(w) \/ templatePayload(w) \/ Expand(w)
           \/ NewRequest(w) \/ setAuthHeader(w) \/ Send(w)

Next == \E w \in Worker : Step(w)

Spec == Init /\ [][Next]_vars
=============================================================================
