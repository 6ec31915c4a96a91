-------------------------- MODULE RestCallsProofs ---------------------------
(***************************************************************************)
(* Proofs about RestCalls, for any number of workers, any definitions, any *)
(* names and auth entries and any number of failing token fetches.         *)
(***************************************************************************)
EXTENDS RestCallsProperties, TLAPS

(***************************************************************************)
(* Types.                                                                  *)
(***************************************************************************)

Position == [pc : Steps, act : Nat, method : Method, n : Nat, text : {"payload", "path"}]

LEMMA SeedTypes ==
    ASSUME NEW w \in Worker
    PROVE  /\ Seed(w) \in Seq(Action) /\ Len(Seed(w)) \in Nat
           /\ DOMAIN Seed(w) = 1..Len(Seed(w)) /\ 1 \in DOMAIN Seed(w)
           /\ \A i \in DOMAIN Seed(w) : Seed(w)[i] \in Action /\ i \in Nat
<1>1. Definition[w] \in [auth : Seq(AuthConfig), seed : Seq(Action)] BY RestCallsAssumption
<1>2. Seed(w) \in Seq(Action) /\ Seed(w) # <<>> BY <1>1, RestCallsAssumption DEF Seed
<1> QED BY <1>2

LEMMA OriginTypes ==
    ASSUME NEW w \in Worker, NEW i \in Nat, NEW what \in Method \union {"variables"}
    PROVE  From(w, i, what) \in Origin /\ From(w, i, what) \in Value /\ From(w, i, what) # NoValue
BY ValueAssumption DEF From, Origin, Value

LEMMA VariablesTypes ==
    /\ NoEntries \in Variables /\ NewEnv \in Variables
    /\ \A w \in Worker, i \in Nat : Given(w, i) \in Variables
    /\ \A a, b \in Variables : Extend(a, b) \in Variables
    /\ \A e \in Variables, k \in Name, v \in Value : Setenv(e, k, v) \in Variables
    /\ \A e \in Variables, t \in SUBSET Name : Substitute(e, t) \in Variables
    /\ \A c \in Variables, found \in SUBSET Name, v \in Value :
          findRuntimeVars(c, found, v) \in Variables
    /\ \A e \in Variables : Entries(e) \subseteq Name
<1>1. NoValue \in Value /\ Ambient \in Value BY DEF Value
<1>2. \A w \in Worker, i \in Nat : Given(w, i) \in Variables
  BY <1>1, OriginTypes DEF Given, Variables
<1> QED
  BY <1>1, <1>2 DEF NoEntries, NewEnv, Extend, Setenv, Substitute, findRuntimeVars, Entries, Variables

LEMMA AgedTypes ==
    ASSUME NEW w \in Worker, NEW e \in Variables
    PROVE  Aged(w, e) \in Variables
<1> SUFFICES ASSUME NEW k \in Name PROVE Aged(w, e)[k] \in Value BY DEF Aged, Variables
<1>1. e[k] \in Value BY DEF Variables
<1>2. CASE e[k] \in Origin /\ e[k].by = w
  <2>1. [e[k] EXCEPT !.run = "earlier"] \in Origin BY <1>2 DEF Origin
  <2> QED BY <1>2, <2>1 DEF Aged, Value
<1>3. CASE ~(e[k] \in Origin /\ e[k].by = w) BY <1>1, <1>3 DEF Aged
<1> QED BY <1>2, <1>3

\* The informer's objects are as they came, throughout.
TypeInv == TypeOK /\ object = Objects

Located == /\ at \in [Worker -> Position]
           /\ \A w \in Worker : at[w].pc # "idle" => at[w].act \in DOMAIN Seed(w)

LEMMA ObjectsTypes ==
    \A w \in Worker : Objects[w] \in [DOMAIN Seed(w) -> Variables]
BY SeedTypes, VariablesTypes DEF Objects

LEMMA TemplateTypes ==
    ASSUME TypeInv, NEW w \in Worker, NEW vs \in Variables, NEW captured \in Variables,
           NEW here \in Position, here.act \in DOMAIN Seed(w),
           TemplateWithVars(w, vs, captured, here)
    PROVE  /\ variables' \in [Worker -> Variables]
           /\ unset' \in [Worker -> SUBSET Name]
           /\ object' = Objects
           /\ Located'
<1> DEFINE extended == Extend(vs, captured)
<1>1. extended \in Variables /\ Entries(extended) \in SUBSET Name BY VariablesTypes
<1>2. /\ variables' = [variables EXCEPT ![w] = extended]
      /\ unset' = [unset EXCEPT ![w] = Entries(extended)]
      /\ object' = [object EXCEPT ![w][here.act] = object[w][here.act]]
      /\ at' = [at EXCEPT ![w] = here]
  BY DEF TemplateWithVars, DeepCopyInto
<1> HIDE DEF extended
<1>3. object' = Objects
  <2>1. object = [v \in Worker |-> object[v]] BY DEF TypeInv, Objects
  <2>2. object[w] = [i \in DOMAIN Seed(w) |-> object[w][i]] BY DEF TypeInv, Objects
  <2>3. [object[w] EXCEPT ![here.act] = object[w][here.act]] = object[w] BY <2>2
  <2>4. object' = [object EXCEPT ![w] = object[w]] BY <1>2, <2>3
  <2> QED BY <2>1, <2>4 DEF TypeInv
<1>4. variables' \in [Worker -> Variables] /\ unset' \in [Worker -> SUBSET Name]
  BY <1>1, <1>2 DEF TypeInv, TypeOK, TextTypeOK
<1>5. Located' BY <1>2 DEF Located, TypeInv, TypeOK, RunTypeOK, Position
<1> QED BY <1>3, <1>4, <1>5

LEMMA FirstTypes ==
    ASSUME NEW w \in Worker, NEW i \in DOMAIN Seed(w)
    PROVE  First(w, i) \in Method
BY DEF First, Method

BeginsAt(w, i) == [pc |-> "templating", act |-> i, method |-> First(w, i), n |-> 1, text |-> "payload"]

LEMMA PerformTypes ==
    ASSUME TypeInv, NEW w \in Worker, NEW i \in DOMAIN Seed(w), NEW captured \in Variables,
           performAction(w, i, captured)
    PROVE  /\ variables' \in [Worker -> Variables]
           /\ unset' \in [Worker -> SUBSET Name]
           /\ object' = Objects
           /\ Located'
           /\ header' \in [Worker -> Header]
           /\ payload' \in [Worker -> Variables] /\ path' \in [Worker -> Variables]
<1>1. object[w][i] \in Variables BY ObjectsTypes DEF TypeInv
<1>2. BeginsAt(w, i) \in Position /\ BeginsAt(w, i).act = i
  BY FirstTypes, SeedTypes DEF BeginsAt, Position, Steps
<1>3. TemplateWithVars(w, object[w][i], captured, BeginsAt(w, i)) BY DEF performAction, BeginsAt
<1>4. /\ variables' \in [Worker -> Variables] /\ unset' \in [Worker -> SUBSET Name]
      /\ object' = Objects /\ Located'
  BY <1>1, <1>2, <1>3, TemplateTypes
<1>5. WithHeader \in Header /\ NoEntries \in Variables
  BY VariablesTypes DEF WithHeader, Header
<1>6. /\ header' \in [Worker -> Header]
      /\ payload' \in [Worker -> Variables] /\ path' \in [Worker -> Variables]
  BY <1>5 DEF performAction, TypeInv, TypeOK, TextTypeOK, AuthTypeOK
<1> QED BY <1>4, <1>6

LEMMA GotoTypes ==
    ASSUME TypeInv, NEW w \in Worker, at[w].pc # "idle", NEW pc \in Steps, Goto(w, pc)
    PROVE  Located'
BY DEF Goto, Located, TypeInv, TypeOK, RunTypeOK, Position

\* What is left of TypeOK when templating and texts are seen to.
Others == /\ failed \subseteq Worker /\ denied \subseteq Worker
          /\ result \in [Worker -> {"none", "ok", "error"}]
          /\ faults \in Nat
Texts == /\ env \in Variables
         /\ variables \in [Worker -> Variables] /\ runtimeVars \in [Worker -> Variables]
         /\ payload \in [Worker -> Variables] /\ path \in [Worker -> Variables]
         /\ unset \in [Worker -> SUBSET Name]

LEMMA Split == TypeInv <=> Texts /\ Located /\ Others /\ AuthTypeOK /\ object = Objects
BY ObjectsTypes
   DEF TypeInv, TypeOK, Texts, Located, Others, TextTypeOK, RunTypeOK, Position

LEMMA SplitNext == TypeInv' <=> Texts' /\ Located' /\ Others' /\ AuthTypeOK' /\ object' = Objects
<1>1. Objects' = Objects BY DEF Objects, Given, Seed, From
<1> QED BY ObjectsTypes, <1>1
  DEF TypeInv, TypeOK, Texts, Located, Others, TextTypeOK, RunTypeOK, Position

LEMMA TypeInit == Init => TypeInv
<1> SUFFICES ASSUME Init PROVE TypeInv OBVIOUS
<1>1. Idle \in Position /\ Idle.pc = "idle" BY DEF Idle, Position, Steps, Method
<1>2. Located BY <1>1 DEF Init, Each, Located
<1>3. Texts BY VariablesTypes DEF Init, Each, Texts
<1>4. Others BY RestCallsAssumption DEF Init, Each, Others
<1>5. AuthTypeOK BY DEF Init, Each, AuthTypeOK, Header, WithHeader, NoTokens
<1> QED BY <1>2, <1>3, <1>4, <1>5, Split DEF Init

LEMMA PanicTypes ==
    ASSUME Panic, faults' \in Nat
    PROVE  TypeInv'
<1>1. Idle \in Position /\ Idle.pc = "idle" BY DEF Idle, Position, Steps, Method
<1>2. Located' BY <1>1 DEF Panic, Each, Located
<1>3. Texts' BY VariablesTypes DEF Panic, Each, Texts
<1>4. Others' BY DEF Panic, Each, Others
<1>5. AuthTypeOK' BY DEF Panic, Each, AuthTypeOK, Header, WithHeader, NoTokens
<1> QED BY <1>2, <1>3, <1>4, <1>5, SplitNext DEF Panic

LEMMA ExecuteTypes == ASSUME TypeInv, NEW w \in Worker, Execute(w) PROVE TypeInv'
<1>0. Texts /\ Located /\ Others /\ AuthTypeOK BY Split
<1>1. performAction(w, 1, NoEntries) BY DEF Execute
<1>2. /\ variables' \in [Worker -> Variables] /\ unset' \in [Worker -> SUBSET Name]
      /\ object' = Objects /\ Located' /\ header' \in [Worker -> Header]
      /\ payload' \in [Worker -> Variables] /\ path' \in [Worker -> Variables]
  BY <1>1, PerformTypes, SeedTypes, VariablesTypes
<1>3. Texts' BY <1>0, <1>2, AgedTypes, VariablesTypes DEF Execute, Texts
<1>4. Others' BY <1>0 DEF Execute, Others
<1>5. NoTokens \in [AuthName -> Credential \union {NoCredential}] BY DEF NoTokens
<1>6. AuthTypeOK' BY <1>0, <1>2, <1>5 DEF Execute, AuthTypeOK
<1> QED BY <1>2, <1>3, <1>4, <1>6, SplitNext

LEMMA ExpandTypes ==
    ASSUME TypeInv, NEW w \in Worker, templatePayload(w) \/ Expand(w)
    PROVE  TypeInv'
<1>0. Texts /\ Located /\ Others /\ AuthTypeOK /\ object = Objects BY Split
<1>1. CASE templatePayload(w)
  <2>1. PICK k \in unset[w] : /\ env' = Setenv(env, k, variables[w][k])
                              /\ unset' = [unset EXCEPT ![w] = @ \ {k}]
    BY <1>1 DEF templatePayload
  <2>2. k \in Name /\ variables[w][k] \in Value BY <1>0 DEF Texts, Variables
  <2>3. Texts' BY <1>0, <1>1, <2>1, <2>2, VariablesTypes DEF Texts, templatePayload, texts
  <2>4. Located' /\ Others' /\ AuthTypeOK'
    BY <1>0, <1>1 DEF templatePayload, Located, Others, AuthTypeOK, auths
  <2> QED BY <1>0, <1>1, <2>3, <2>4, SplitNext DEF templatePayload
<1>2. CASE Expand(w)
  <2>0. cur(w) \in Action BY <1>0, <1>2, SeedTypes DEF cur, Located, Expand
  <2>1. Substitute(env, cur(w).payload) \in Variables /\ Substitute(env, cur(w).path) \in Variables
    BY <1>0, <2>0, VariablesTypes DEF Texts, Action
  <2>2. Texts' BY <1>0, <1>2, <2>1 DEF Texts, Expand, maps
  <2>3. Located' BY <1>2, GotoTypes DEF Expand, Steps
  <2>4. Others' /\ AuthTypeOK' BY <1>0, <1>2 DEF Expand, Others, AuthTypeOK, auths
  <2> QED BY <1>0, <1>2, <2>2, <2>3, <2>4, SplitNext DEF Expand, maps
<1> QED BY <1>1, <1>2

LEMMA EndTypes ==
    ASSUME TypeInv, NEW w \in Worker, at[w].pc # "idle", NEW errors \in BOOLEAN,
           NEW captured \in Variables, EndAction(w, errors, captured), UNCHANGED faults
    PROVE  TypeInv'
<1>0. Texts /\ Located /\ Others /\ AuthTypeOK /\ object = Objects BY Split
<1>1. /\ failed' \in SUBSET Worker /\ denied' = denied /\ faults' \in Nat
      /\ runtimeVars' \in [Worker -> Variables] /\ env' = env
      /\ currentToken' = currentToken
  BY <1>0 DEF EndAction, Others, Texts
<1>2. CASE at[w].act < Len(Seed(w)) /\ performAction(w, at[w].act + 1, captured) /\ UNCHANGED result
  <2>1. at[w].act + 1 \in DOMAIN Seed(w) BY <1>0, <1>2, SeedTypes DEF Located
  <2>2. /\ variables' \in [Worker -> Variables] /\ unset' \in [Worker -> SUBSET Name]
        /\ object' = Objects /\ Located' /\ header' \in [Worker -> Header]
        /\ payload' \in [Worker -> Variables] /\ path' \in [Worker -> Variables]
    BY <1>2, <2>1, PerformTypes
  <2>3. Texts' BY <1>0, <1>1, <2>2 DEF Texts
  <2>4. Others' /\ AuthTypeOK' BY <1>0, <1>1, <1>2, <2>2 DEF Others, AuthTypeOK
  <2> QED BY <2>2, <2>3, <2>4, SplitNext
<1>3. CASE /\ at' = [at EXCEPT ![w] = Idle]
           /\ result' = [result EXCEPT ![w] = IF w \in failed' THEN "error" ELSE "ok"]
           /\ UNCHANGED <<maps, texts, header>>
  <2>1. Idle \in Position /\ Idle.pc = "idle" BY DEF Idle, Position, Steps, Method
  <2>2. Located' BY <1>0, <1>3, <2>1 DEF Located
  <2>3. Texts' BY <1>0, <1>1, <1>3 DEF Texts, maps, texts
  <2>4. Others' /\ AuthTypeOK' BY <1>0, <1>1, <1>3 DEF Others, AuthTypeOK
  <2> QED BY <1>0, <1>3, <2>2, <2>3, <2>4, SplitNext DEF maps
<1> QED BY <1>2, <1>3 DEF EndAction

LEMMA NewRequestTypes == ASSUME TypeInv, NEW w \in Worker, NewRequest(w) PROVE TypeInv'
<1>0. Texts /\ Located /\ Others /\ AuthTypeOK /\ object = Objects BY Split
<1>1. at[w].pc = "request" /\ UNCHANGED faults BY DEF NewRequest
<1>2. at[w] \in Position /\ runtimeVars[w] \in Variables /\ variables[w] \in Variables
  BY <1>0 DEF Located, Texts
<1> DEFINE here == [at[w] EXCEPT !.pc = "templating", !.text = "path"]
<1>3. CASE /\ TemplateWithVars(w, variables[w], runtimeVars[w], here)
           /\ UNCHANGED <<env, runtimeVars, texts, auths, failed, result>>
  <2>1. here \in Position /\ here.act \in DOMAIN Seed(w)
    BY <1>0, <1>1, <1>2 DEF Position, Steps, Located
  <2> HIDE DEF here
  <2>2. /\ variables' \in [Worker -> Variables] /\ unset' \in [Worker -> SUBSET Name]
        /\ object' = Objects /\ Located'
    BY <1>2, <1>3, <2>1, TemplateTypes
  <2>3. Texts' BY <1>0, <1>3, <2>2 DEF Texts, texts
  <2>4. Others' /\ AuthTypeOK' BY <1>0, <1>1, <1>3 DEF Others, AuthTypeOK, auths
  <2> QED BY <2>2, <2>3, <2>4, SplitNext
<1>4. CASE EndAction(w, TRUE, runtimeVars[w]) BY <1>1, <1>2, <1>4, EndTypes
<1>5. CASE Panic BY <1>0, <1>1, <1>5, PanicTypes DEF Others
<1> QED BY <1>3, <1>4, <1>5 DEF NewRequest

LEMMA TokenTypes ==
    ASSUME TypeInv, NEW w \in Worker, at[w].pc # "idle"
    PROVE  /\ cur(w).authMapRef \in AuthName
           /\ Token(cur(w).authMapRef, at[w].act, at[w].n) \in Credential
           /\ Permanent(cur(w).authMapRef) \in Credential
<1>0. Located BY Split
<1>1. cur(w) \in Action BY <1>0, SeedTypes DEF cur, Located
<1>2. cur(w).authMapRef \in AuthName BY <1>1 DEF Action
<1>3. at[w].act \in Nat /\ at[w].n \in Nat BY <1>0 DEF Located, Position
<1> QED BY <1>2, <1>3 DEF Token, Permanent, Credential

LEMMA HeaderTypes ==
    /\ WithHeader \in Header
    /\ \A h \in Header : WithoutToken(h) \in Header
    /\ \A h \in Header, a, c \in Credential : WithCredential(h, a, c) \in Header
BY DEF WithHeader, WithoutToken, WithCredential, Header

LEMMA AuthTypes == ASSUME TypeInv, NEW w \in Worker, setAuthHeader(w) PROVE TypeInv'
<1> DEFINE a == auth(w)
           n == cur(w).authMapRef
           token == Token(n, at[w].act, at[w].n)
<1>0. Texts /\ Located /\ Others /\ AuthTypeOK /\ object = Objects BY Split
<1>1. at[w].pc = "auth" BY DEF setAuthHeader
<1>2. n \in AuthName /\ token \in Credential /\ Permanent(n) \in Credential BY <1>1, TokenTypes
<1>2a. UNCHANGED faults \/ Fault BY DEF setAuthHeader
<1>2b. UNCHANGED denied \/ denied' = denied \union {w} \/ Panic BY DEF setAuthHeader, auths
<1>3. CASE Panic
  <2>1. faults' \in Nat BY <1>0, <1>2a DEF Fault, Others
  <2> QED BY <1>3, <2>1, PanicTypes
<1>4. CASE Goto(w, "send") /\ UNCHANGED <<env, maps, runtimeVars, texts, failed, result>>
  <2>1. Located' BY <1>1, <1>4, GotoTypes DEF Steps
  <2>2. Texts' /\ object' = Objects BY <1>0, <1>4 DEF Texts, maps, texts
  <2>3. faults' \in Nat /\ denied' \in SUBSET Worker
    BY <1>0, <1>2a, <1>2b DEF Fault, Others, Panic
  <2>4. Others' BY <1>0, <1>4, <2>3 DEF Others
  <2>5. \A x \in Credential, h \in Header : [h EXCEPT ![a.key] = x] \in Header BY DEF Header
  <2>6. AuthTypeOK'
    <3>1. CASE UNCHANGED auths BY <1>0, <3>1 DEF AuthTypeOK, auths
    <3>2. CASE /\ header' = [header EXCEPT ![w] = WithCredential(@, a, Permanent(n))]
               /\ UNCHANGED currentToken
      BY <1>0, <1>2, <2>5, <3>2 DEF AuthTypeOK, WithCredential
    <3>3. CASE /\ header' = [header EXCEPT ![w] = WithCredential(@, a, token)]
               /\ currentToken' = [currentToken EXCEPT ![w][n] =
                                     IF a.strategy = "CustomToToken" THEN token ELSE @]
      BY <1>0, <1>2, <2>5, <3>3 DEF AuthTypeOK, WithCredential
    <3>4. CASE header' = [header EXCEPT ![w] = WithoutToken(@)] /\ UNCHANGED currentToken
      BY <1>0, <3>4, HeaderTypes DEF AuthTypeOK
    <3>5. CASE Panic BY <3>5, <1>3, SplitNext
    <3> QED BY <3>1, <3>2, <3>3, <3>4, <3>5 DEF setAuthHeader, FreshToken
  <2> QED BY <2>1, <2>2, <2>4, <2>6, SplitNext
<1> QED BY <1>3, <1>4 DEF setAuthHeader, auths

LEMMA SendTypes == ASSUME TypeInv, NEW w \in Worker, Send(w) PROVE TypeInv'
<1>0. Texts /\ Located /\ Others /\ AuthTypeOK /\ object = Objects BY Split
<1>1. at[w].pc = "send" /\ UNCHANGED faults BY DEF Send
<1>2. at[w] \in Position /\ runtimeVars[w] \in Variables /\ variables[w] \in Variables
  BY <1>0 DEF Located, Texts
<1>3. CASE EndAction(w, TRUE, runtimeVars[w]) BY <1>1, <1>2, <1>3, EndTypes
<1>4. ASSUME NEW answer \in {"ok", "client"}, NEW found \in SUBSET cur(w).runtimeVars,
             Answered(w, answer, findRuntimeVars(runtimeVars[w], found, From(w, at[w].act, at[w].method)))
      PROVE TypeInv'
  <2> DEFINE captured == findRuntimeVars(runtimeVars[w], found, From(w, at[w].act, at[w].method))
  <2>1. captured \in Variables
    <3>1. cur(w) \in Action BY <1>0, <1>1, SeedTypes DEF cur, Located
    <3>2. found \in SUBSET Name BY <3>1 DEF Action
    <3>3. From(w, at[w].act, at[w].method) \in Value BY <1>2, OriginTypes DEF Position
    <3> QED BY <1>2, <3>2, <3>3, VariablesTypes
  <2>2. Answered(w, answer, captured) BY <1>4
  <2> HIDE DEF captured
  <2>3. CASE \E errors \in BOOLEAN : EndAction(w, errors, captured) BY <1>1, <2>1, <2>3, EndTypes
  <2>4. CASE \E m \in NextMethods(w, answer) : Continue(w, m, captured)
    <3>1. PICK m \in NextMethods(w, answer) : Continue(w, m, captured) BY <2>4
    <3>2. m \in Method BY <3>1 DEF NextMethods, Method
    <3> DEFINE next == [at[w] EXCEPT !.method = m, !.n = @ + 1]
               here == [next EXCEPT !.pc = "templating", !.text = "payload"]
    <3>a. at[w].n + 1 \in Nat BY <1>2 DEF Position
    <3>b. next \in Position /\ next.act = at[w].act BY <1>2, <3>2, <3>a DEF Position
    <3> HIDE DEF next
    <3>3. /\ [next EXCEPT !.pc = "request"] \in Position
          /\ [next EXCEPT !.pc = "request"].act = at[w].act
          /\ here \in Position /\ here.act = at[w].act
      BY <3>b DEF Position, Steps
    <3>4. /\ runtimeVars' \in [Worker -> Variables] /\ Others' /\ AuthTypeOK'
          /\ UNCHANGED <<env, texts>>
      BY <1>0, <1>1, <2>1, <3>1 DEF Continue, Texts, Others, AuthTypeOK, auths
    <3>5. CASE at' = [at EXCEPT ![w] = [next EXCEPT !.pc = "request"]] /\ UNCHANGED maps
      <4>1. Located' BY <1>0, <1>1, <3>3, <3>5 DEF Located
      <4>2. Texts' /\ object' = Objects BY <1>0, <3>4, <3>5 DEF Texts, maps, texts
      <4> QED BY <3>4, <4>1, <4>2, SplitNext
    <3>6. CASE TemplateWithVars(w, variables[w], captured, here)
      <4> HIDE DEF here
      <4>0. here.act \in DOMAIN Seed(w) BY <1>0, <1>1, <3>3 DEF Located
      <4>1. /\ variables' \in [Worker -> Variables] /\ unset' \in [Worker -> SUBSET Name]
            /\ object' = Objects /\ Located'
        BY <1>2, <2>1, <3>3, <3>6, <4>0, TemplateTypes
      <4>2. Texts' BY <1>0, <3>4, <4>1 DEF Texts, texts
      <4> QED BY <3>4, <4>1, <4>2, SplitNext
    <3> QED BY <3>1, <3>5, <3>6 DEF Continue, next
  <2>5. (answer # "ok") \in BOOLEAN /\ TRUE \in BOOLEAN OBVIOUS
  <2> QED BY <2>2, <2>3, <2>4, <2>5 DEF Answered
<1> QED BY <1>3, <1>4 DEF Send

LEMMA TypeNext == TypeInv /\ [Next]_vars => TypeInv'
<1> SUFFICES ASSUME TypeInv, [Next]_vars PROVE TypeInv' OBVIOUS
<1>1. ASSUME NEW w \in Worker, Step(w) PROVE TypeInv'
  <2>1. CASE ExecutePanics(w) BY <2>1, PanicTypes, Split DEF ExecutePanics, Others
  <2> QED
    BY <1>1, <2>1, ExecuteTypes, ExpandTypes, NewRequestTypes, AuthTypes, SendTypes DEF Step
<1>2. CASE UNCHANGED vars
  BY <1>2, Split, SplitNext
  DEF vars, maps, texts, auths, Texts, Located, Others, AuthTypeOK
<1> QED BY <1>1, <1>2 DEF Next

LEMMA TypeInvariant == Spec => []TypeInv
BY TypeInit, TypeNext, PTL DEF Spec

\* Every reachable state of a process that runs seeders is well typed.
THEOREM TypeCorrect == Spec => []TypeOK
BY TypeInvariant, PTL DEF TypeInv

-----------------------------------------------------------------------------
(***************************************************************************)
(* A step of one worker leaves what the others have alone, all but the     *)
(* environment; or it ends the process.                                    *)
(***************************************************************************)

Leaves(u) ==
    /\ at'[u] = at[u] /\ variables'[u] = variables[u] /\ runtimeVars'[u] = runtimeVars[u]
    /\ unset'[u] = unset[u] /\ header'[u] = header[u] /\ result'[u] = result[u]
    /\ (u \in failed') <=> (u \in failed)
    /\ (u \in denied') <=> (u \in denied)

LEMMA TemplateLeaves ==
    ASSUME TypeInv, NEW u \in Worker, NEW v \in Worker, u # v, NEW vs, NEW captured, NEW here,
           TemplateWithVars(v, vs, captured, here)
    PROVE  variables'[u] = variables[u] /\ unset'[u] = unset[u] /\ at'[u] = at[u]
BY DEF TemplateWithVars, TypeInv, TypeOK, TextTypeOK, RunTypeOK

LEMMA PerformLeaves ==
    ASSUME TypeInv, NEW u \in Worker, NEW v \in Worker, u # v, NEW i, NEW captured,
           performAction(v, i, captured)
    PROVE  /\ variables'[u] = variables[u] /\ unset'[u] = unset[u] /\ at'[u] = at[u]
           /\ header'[u] = header[u]
<1>1. variables'[u] = variables[u] /\ unset'[u] = unset[u] /\ at'[u] = at[u]
  BY TemplateLeaves DEF performAction
<1> QED BY <1>1 DEF performAction, TypeInv, TypeOK, AuthTypeOK

LEMMA EndLeaves ==
    ASSUME TypeInv, NEW u \in Worker, NEW v \in Worker, u # v, NEW errors, NEW captured,
           EndAction(v, errors, captured)
    PROVE  Leaves(u)
<1>1. /\ runtimeVars'[u] = runtimeVars[u] /\ denied' = denied
      /\ (u \in failed') <=> (u \in failed)
  BY DEF EndAction, TypeInv, TypeOK, TextTypeOK
<1>2. CASE performAction(v, at[v].act + 1, captured) /\ UNCHANGED result
  BY <1>1, <1>2, PerformLeaves DEF Leaves
<1>3. CASE /\ at' = [at EXCEPT ![v] = Idle]
           /\ result' = [result EXCEPT ![v] = IF v \in failed' THEN "error" ELSE "ok"]
           /\ UNCHANGED <<maps, texts, header>>
  BY <1>1, <1>3 DEF Leaves, maps, TypeInv, TypeOK, RunTypeOK
<1> QED BY <1>2, <1>3 DEF EndAction

LEMMA StepLeaves ==
    ASSUME TypeInv, NEW u \in Worker, NEW v \in Worker, u # v, Step(v)
    PROVE  Panic \/ Leaves(u)
<1>1. CASE Execute(v)
  <2>1. performAction(v, 1, NoEntries) BY <1>1 DEF Execute
  <2>2. /\ variables'[u] = variables[u] /\ unset'[u] = unset[u] /\ at'[u] = at[u]
        /\ header'[u] = header[u]
    BY <2>1, PerformLeaves
  <2> QED BY <1>1, <2>2 DEF Execute, Leaves, TypeInv, TypeOK, TextTypeOK, RunTypeOK
<1>2. CASE templatePayload(v)
  BY <1>2 DEF templatePayload, Leaves, auths, TypeInv, TypeOK, TextTypeOK
<1>3. CASE Expand(v)
  BY <1>3 DEF Expand, Goto, Leaves, auths, maps, TypeInv, TypeOK, RunTypeOK
<1>4. CASE NewRequest(v)
  <2> DEFINE here == [at[v] EXCEPT !.pc = "templating", !.text = "path"]
  <2>1. CASE /\ TemplateWithVars(v, variables[v], runtimeVars[v], here)
             /\ UNCHANGED <<env, runtimeVars, texts, auths, failed, result>>
    <3> HIDE DEF here
    <3>1. variables'[u] = variables[u] /\ unset'[u] = unset[u] /\ at'[u] = at[u]
      BY <2>1, TemplateLeaves
    <3> QED BY <2>1, <3>1 DEF Leaves, auths
  <2>2. CASE EndAction(v, TRUE, runtimeVars[v]) BY <2>2, EndLeaves
  <2> QED BY <1>4, <2>1, <2>2 DEF NewRequest
<1>5. CASE setAuthHeader(v)
  <2>1. \/ Panic
        \/ /\ Goto(v, "send") /\ UNCHANGED <<maps, runtimeVars, failed, result>>
           /\ denied' = denied \/ denied' = denied \union {v}
           /\ \/ UNCHANGED header
              \/ \E h : header' = [header EXCEPT ![v] = h]
    BY <1>5 DEF setAuthHeader, auths
  <2>2. CASE /\ Goto(v, "send") /\ UNCHANGED <<maps, runtimeVars, failed, result>>
             /\ denied' = denied \/ denied' = denied \union {v}
             /\ \/ UNCHANGED header
                \/ \E h : header' = [header EXCEPT ![v] = h]
    <3>1. header'[u] = header[u] BY <2>2 DEF TypeInv, TypeOK, AuthTypeOK
    <3>2. at'[u] = at[u] BY <2>2 DEF Goto, TypeInv, TypeOK, RunTypeOK
    <3> QED BY <2>2, <3>1, <3>2 DEF Leaves, maps
  <2> QED BY <2>1, <2>2
<1>6. CASE Send(v)
  <2>1. ASSUME NEW answer, NEW captured, Answered(v, answer, captured) PROVE Leaves(u)
    <3>1. ASSUME NEW m, Continue(v, m, captured) PROVE Leaves(u)
      <4>1. /\ runtimeVars'[u] = runtimeVars[u]
            /\ UNCHANGED <<header, denied, failed, result>>
        BY <3>1 DEF Continue, auths, TypeInv, TypeOK, TextTypeOK
      <4>2. variables'[u] = variables[u] /\ unset'[u] = unset[u] /\ at'[u] = at[u]
        BY <3>1, TemplateLeaves DEF Continue, maps, TypeInv, TypeOK, RunTypeOK
      <4> QED BY <4>1, <4>2 DEF Leaves
    <3> QED BY <2>1, <3>1, EndLeaves DEF Answered
  <2> QED BY <1>6, <2>1, EndLeaves DEF Send
<1> QED BY <1>1, <1>2, <1>3, <1>4, <1>5, <1>6 DEF Step, ExecutePanics

-----------------------------------------------------------------------------
(***************************************************************************)
(* Authentication.                                                         *)
(***************************************************************************)

LEMMA Kept ==
    ASSUME NEW u \in Worker, at'[u].act = at[u].act, at'[u].n = at[u].n
    PROVE  auth(u)' = auth(u) /\ Wanted(u)' = Wanted(u)
BY DEF auth, cur, Seed, Wanted

LEMMA WantedTypes ==
    ASSUME TypeInv, NEW w \in Worker
    PROVE  \A k \in HeaderKey : Wanted(w)[k] # NoCredential => Protects(auth(w)) /\ k = auth(w).key
BY DEF Wanted

\* What the step of a worker makes of its own header.
LEMMA PerformClean ==
    ASSUME TypeInv, NEW w \in Worker, NEW i \in DOMAIN Seed(w), NEW captured \in Variables,
           performAction(w, i, captured)
    PROVE  at'[w].pc = "templating" /\ header'[w] = WithHeader
<1>1. at' = [at EXCEPT ![w] = BeginsAt(w, i)] BY DEF performAction, TemplateWithVars, BeginsAt
<1>2. at'[w] = BeginsAt(w, i) BY <1>1 DEF TypeInv, TypeOK, RunTypeOK
<1>3. header'[w] = WithHeader BY DEF performAction, TypeInv, TypeOK, AuthTypeOK
<1> QED BY <1>2, <1>3 DEF BeginsAt

LEMMA FreshClean ==
    ASSUME NEW w \in Worker, at'[w].pc = "templating", header'[w] = WithHeader
    PROVE  Clean(w)' /\ Sent(w)'
BY DEF Clean, Sent, WithHeader

LEMMA EndClean ==
    ASSUME TypeInv, NEW w \in Worker, at[w].pc # "idle", NEW errors \in BOOLEAN,
           NEW captured \in Variables, EndAction(w, errors, captured)
    PROVE  Clean(w)' /\ Sent(w)'
<1>1. CASE at[w].act < Len(Seed(w)) /\ performAction(w, at[w].act + 1, captured)
  <2>1. at[w].act \in DOMAIN Seed(w) BY DEF TypeInv, TypeOK, RunTypeOK
  <2>2. at[w].act + 1 \in DOMAIN Seed(w) BY <1>1, <2>1, SeedTypes
  <2> QED BY <1>1, <2>2, PerformClean, FreshClean
<1>2. CASE at' = [at EXCEPT ![w] = Idle]
  <2>1. at'[w].pc = "idle" BY <1>2 DEF Idle, TypeInv, TypeOK, RunTypeOK
  <2> QED BY <2>1 DEF Clean, Sent
<1> QED BY <1>1, <1>2 DEF EndAction

LEMMA AuthSets ==
    ASSUME TypeInv, NEW w \in Worker, Clean(w), setAuthHeader(w), ~Panic
    PROVE  Clean(w)' /\ Sent(w)'
<1> DEFINE a == auth(w)
           n == cur(w).authMapRef
           token == Token(n, at[w].act, at[w].n)
<1>0. header[w] \in Header BY DEF TypeInv, TypeOK, AuthTypeOK
<1>1. at[w].pc = "auth" /\ Goto(w, "send") BY DEF setAuthHeader
<1>2. /\ at'[w].pc = "send" /\ at'[w].act = at[w].act /\ at'[w].n = at[w].n
  BY <1>1 DEF Goto, TypeInv, TypeOK, RunTypeOK
<1>3. Wanted(w)' = Wanted(w) BY <1>2, Kept
<1>4. \A k \in HeaderKey : header[w][k] # NoCredential => Protects(a) /\ k = a.key
  BY <1>1 DEF Clean
<1>5. /\ Wanted(w) = [k \in HeaderKey |-> IF Protects(a) /\ k = a.key
                                          THEN IF Fetches(a) THEN token ELSE Permanent(n)
                                          ELSE NoCredential]
  BY DEF Wanted
<1>6. \/ /\ ~Protects(a) /\ header' = header
      \/ /\ Protects(a) /\ ~Fetches(a)
         /\ header' = [header EXCEPT ![w] = WithCredential(@, a, Permanent(n))]
      \/ /\ Fetches(a)
         /\ header' = [header EXCEPT ![w] = WithCredential(@, a, token)]
      \/ header' = [header EXCEPT ![w] = WithoutToken(@)]
  BY DEF setAuthHeader, FreshToken, auths
<1>7. Fetches(a) => Protects(a) BY DEF Protects
<1> HIDE DEF a, n, token
<1>8. header'[w] = Wanted(w) \/ Refused(header'[w])
  <2>0. header[w] = [k \in HeaderKey |-> header[w][k]] BY <1>0 DEF Header
  <2>1. CASE ~Protects(a) /\ header' = header
    <3>1. \A k \in HeaderKey : header[w][k] = NoCredential BY <1>4, <2>1
    <3>2. Wanted(w) = [k \in HeaderKey |-> header[w][k]] BY <1>5, <2>1, <3>1
    <3> QED BY <2>0, <2>1, <3>2
  <2>2. ASSUME NEW c, header' = [header EXCEPT ![w] = WithCredential(@, a, c)],
               Protects(a), c = IF Fetches(a) THEN token ELSE Permanent(n)
        PROVE  header'[w] = Wanted(w)
    <3>1. header'[w] = [header[w] EXCEPT ![a.key] = c]
      BY <2>2 DEF WithCredential, TypeInv, TypeOK, AuthTypeOK
    <3>2. header'[w] = [k \in HeaderKey |-> IF k = a.key THEN c ELSE header[w][k]]
      BY <2>0, <3>1
    <3>3. \A k \in HeaderKey : k # a.key => header[w][k] = NoCredential BY <1>4
    <3> QED BY <1>5, <2>2, <3>2, <3>3
  <2>3. CASE header' = [header EXCEPT ![w] = WithoutToken(@)]
    <3>1. header'[w] = WithoutToken(header[w]) BY <2>3 DEF TypeInv, TypeOK, AuthTypeOK
    <3>2. header'[w][""] = Blank
      BY <1>0, <3>1, AuthAssumption DEF WithoutToken, Header
    <3> QED BY <3>2, AuthAssumption DEF Refused
  <2> QED BY <1>6, <1>7, <2>1, <2>2, <2>3
<1> QED BY <1>2, <1>3, <1>8 DEF Clean, Sent

LEMMA SendClean ==
    ASSUME TypeInv, NEW w \in Worker, Sent(w), Send(w)
    PROVE  Clean(w)' /\ Sent(w)'
<1>0. at[w].pc = "send" /\ runtimeVars[w] \in Variables
  BY DEF Send, TypeInv, TypeOK, TextTypeOK
<1>1. CASE EndAction(w, TRUE, runtimeVars[w]) BY <1>0, <1>1, EndClean
<1>2. ASSUME ~Refused(header[w]), NEW answer \in {"ok", "client"}, NEW found \in SUBSET cur(w).runtimeVars,
             Answered(w, answer, findRuntimeVars(runtimeVars[w], found, From(w, at[w].act, at[w].method)))
      PROVE  Clean(w)' /\ Sent(w)'
  <2> DEFINE captured == findRuntimeVars(runtimeVars[w], found, From(w, at[w].act, at[w].method))
  <2>1. captured \in Variables
    <3>1. at[w] \in Position /\ cur(w) \in Action
      BY <1>0, Split, SeedTypes DEF Located, cur
    <3>2. From(w, at[w].act, at[w].method) \in Value BY <3>1, OriginTypes DEF Position
    <3>3. found \in SUBSET Name BY <3>1 DEF Action
    <3> QED BY <1>0, <3>2, <3>3, VariablesTypes
  <2> HIDE DEF captured
  <2>2. CASE \E errors \in BOOLEAN : EndAction(w, errors, captured) BY <1>0, <2>1, <2>2, EndClean
  <2>3. ASSUME NEW m \in Method, Continue(w, m, captured) PROVE Clean(w)' /\ Sent(w)'
    <3> DEFINE next == [at[w] EXCEPT !.method = m, !.n = @ + 1]
               here == [next EXCEPT !.pc = "templating", !.text = "payload"]
    <3>0. at[w] \in Position BY Split DEF Located
    <3>1. at' = [at EXCEPT ![w] = [next EXCEPT !.pc = "request"]] \/ at' = [at EXCEPT ![w] = here]
      BY <2>3 DEF Continue, TemplateWithVars
    <3>2. at'[w].pc \in {"request", "templating"} /\ at'[w].act = at[w].act
      <4>1. at \in [Worker -> Position] BY Split DEF Located
      <4>a. at[w].n + 1 \in Nat BY <3>0 DEF Position
      <4>2. next \in Position /\ next.act = at[w].act BY <3>0, <4>a DEF Position
      <4>3. /\ [next EXCEPT !.pc = "request"].pc = "request" /\ here.pc = "templating"
            /\ [next EXCEPT !.pc = "request"].act = next.act /\ here.act = next.act
        BY <4>2 DEF Position
      <4>4. at'[w] = [next EXCEPT !.pc = "request"] \/ at'[w] = here BY <3>1, <4>1
      <4> QED BY <4>2, <4>3, <4>4
    <3>3. header' = header BY <2>3 DEF Continue, auths
    <3>4. header[w] = Wanted(w) BY <1>0, <1>2 DEF Sent
    <3>5. auth(w)' = auth(w) BY <3>2 DEF auth, cur, Seed
    <3> QED BY <3>2, <3>3, <3>4, <3>5, WantedTypes DEF Clean, Sent
  <2>4. (answer # "ok") \in BOOLEAN /\ TRUE \in BOOLEAN OBVIOUS
  <2>5. NextMethods(w, answer) \subseteq Method BY DEF NextMethods, Method
  <2> QED BY <1>2, <2>2, <2>3, <2>4, <2>5 DEF Answered, captured
<1> QED BY <1>1, <1>2 DEF Send

LEMMA OwnStepClean ==
    ASSUME TypeInv, NEW w \in Worker, Clean(w), Sent(w), Step(w), ~Panic
    PROVE  Clean(w)' /\ Sent(w)'
<1>0. /\ at \in [Worker -> Position] /\ header \in [Worker -> Header]
      /\ variables[w] \in Variables /\ runtimeVars[w] \in Variables
  BY Split DEF Located, AuthTypeOK, Texts
<1>1. CASE Execute(w)
  <2>1. performAction(w, 1, NoEntries) BY <1>1 DEF Execute
  <2> QED BY <2>1, PerformClean, FreshClean, SeedTypes, VariablesTypes
<1>2. CASE templatePayload(w)
  <2>1. at' = at /\ header' = header BY <1>2 DEF templatePayload, auths
  <2>2. auth(w)' = auth(w) /\ Wanted(w)' = Wanted(w) BY <2>1, Kept
  <2> QED BY <2>1, <2>2 DEF Clean, Sent
<1>3. CASE Expand(w)
  <2>1. /\ header' = header /\ at[w].pc = "templating"
        /\ at' = [at EXCEPT ![w].pc = "request"] \/ at' = [at EXCEPT ![w].pc = "auth"]
    BY <1>3 DEF Expand, Goto, auths
  <2>2. at'[w].pc \in {"request", "auth"} /\ at'[w].act = at[w].act /\ at'[w].n = at[w].n
    BY <1>0, <2>1 DEF Position
  <2>3. auth(w)' = auth(w) BY <2>2, Kept
  <2> QED BY <2>1, <2>2, <2>3 DEF Clean, Sent
<1>4. CASE NewRequest(w)
  <2> DEFINE here == [at[w] EXCEPT !.pc = "templating", !.text = "path"]
  <2>0. at[w].pc = "request" BY <1>4 DEF NewRequest
  <2>1. CASE /\ TemplateWithVars(w, variables[w], runtimeVars[w], here) /\ UNCHANGED auths
    <3>1. here.pc = "templating" /\ here.act = at[w].act /\ here.n = at[w].n BY <1>0 DEF Position
    <3> HIDE DEF here
    <3>2. at'[w] = here BY <1>0, <2>1 DEF TemplateWithVars
    <3>3. auth(w)' = auth(w) BY <3>1, <3>2, Kept
    <3> QED BY <2>0, <2>1, <3>1, <3>2, <3>3 DEF Clean, Sent, auths
  <2>2. CASE EndAction(w, TRUE, runtimeVars[w]) BY <1>0, <2>0, <2>2, EndClean
  <2> QED BY <1>4, <2>1, <2>2 DEF NewRequest
<1>5. CASE setAuthHeader(w) BY <1>5, AuthSets
<1>6. CASE Send(w) BY <1>6, SendClean
<1> QED BY <1>1, <1>2, <1>3, <1>4, <1>5, <1>6 DEF Step, ExecutePanics

LEMMA PanicIdle ==
    ASSUME NEW w \in Worker, Panic
    PROVE  at'[w] = Idle /\ result'[w] = "none" /\ w \notin denied'
BY DEF Panic, Each

LEMMA AuthNext == TypeInv /\ AuthInv /\ [Next]_vars => AuthInv'
<1> SUFFICES ASSUME TypeInv, AuthInv, [Next]_vars, NEW u \in Worker
             PROVE  Clean(u)' /\ Sent(u)'
  BY DEF AuthInv
<1>0. Clean(u) /\ Sent(u) BY DEF AuthInv
<1>1. CASE Panic
  <2>1. at'[u].pc = "idle" BY <1>1, PanicIdle DEF Idle
  <2> QED BY <2>1 DEF Clean, Sent
<1>2. ASSUME NEW v \in Worker, Step(v), ~Panic PROVE Clean(u)' /\ Sent(u)'
  <2>1. CASE u = v BY <1>0, <1>2, <2>1, OwnStepClean
  <2>2. CASE u # v
    <3>1. Leaves(u) BY <1>2, <2>2, StepLeaves
    <3>2. auth(u)' = auth(u) /\ Wanted(u)' = Wanted(u) BY <3>1, Kept DEF Leaves
    <3> QED BY <1>0, <3>1, <3>2 DEF Clean, Sent, Leaves
  <2> QED BY <2>1, <2>2
<1>3. CASE UNCHANGED vars
  <2>1. at' = at /\ header' = header BY <1>3 DEF vars, auths
  <2>2. auth(u)' = auth(u) /\ Wanted(u)' = Wanted(u) BY <2>1, Kept
  <2> QED BY <1>0, <2>1, <2>2 DEF Clean, Sent
<1> QED BY <1>1, <1>2, <1>3 DEF Next

\* What goes out with a request is the credential of the action's own entry,
\* and nothing else, though requests share the header and the token's place.
THEOREM CredentialsOwn == Spec => []CredentialIsOwn
<1>1. Init => AuthInv BY DEF Init, Each, Idle, AuthInv, Clean, Sent
<1>2. AuthInv => CredentialIsOwn BY DEF AuthInv, Sent, CredentialIsOwn
<1> QED BY <1>1, <1>2, AuthNext, TypeInvariant, PTL DEF Spec

-----------------------------------------------------------------------------
(***************************************************************************)
(* A run in which a token exchange failed: the error in its list comes     *)
(* with the request, which net/http refuses to send.                       *)
(***************************************************************************)

LEMMA EndDenied ==
    ASSUME TypeInv, NEW w \in Worker, result[w] # "ok",
           NEW errors \in BOOLEAN, NEW captured, EndAction(w, errors, captured),
           errors \/ (w \in denied => w \in failed)
    PROVE  Denied(w)'
<1>1. w \in denied' => w \in failed' BY DEF EndAction
<1>2. CASE performAction(w, at[w].act + 1, captured) /\ UNCHANGED result
  BY <1>1, <1>2 DEF Denied
<1>3. CASE /\ at' = [at EXCEPT ![w] = Idle]
           /\ result' = [result EXCEPT ![w] = IF w \in failed' THEN "error" ELSE "ok"]
  <2>1. at'[w].pc = "idle" /\ (result'[w] = "ok" => w \notin failed')
    BY <1>3 DEF Idle, TypeInv, TypeOK, RunTypeOK
  <2> QED BY <1>1, <2>1 DEF Denied
<1> QED BY <1>2, <1>3 DEF EndAction

LEMMA AuthDenied ==
    ASSUME TypeInv, NEW w \in Worker, Denied(w), setAuthHeader(w), ~Panic
    PROVE  Denied(w)'
<1>0. header[w] \in Header BY DEF TypeInv, TypeOK, AuthTypeOK
<1>1. at[w].pc = "auth" /\ Goto(w, "send") /\ UNCHANGED <<failed, result>> BY DEF setAuthHeader
<1>2. at'[w].pc = "send" BY <1>1 DEF Goto, TypeInv, TypeOK, RunTypeOK
<1>3. \/ denied' = denied
      \/ header' = [header EXCEPT ![w] = WithoutToken(@)]
  BY DEF setAuthHeader, auths
<1>4. CASE denied' = denied BY <1>1, <1>2, <1>4 DEF Denied
<1>5. CASE header' = [header EXCEPT ![w] = WithoutToken(@)]
  <2>1. header'[w] = WithoutToken(header[w]) BY <1>5 DEF TypeInv, TypeOK, AuthTypeOK
  <2>2. Refused(header'[w])
    BY <1>0, <2>1, AuthAssumption DEF WithoutToken, Header, Refused
  <2> QED BY <1>1, <1>2, <2>2 DEF Denied, Refused
<1> QED BY <1>3, <1>4, <1>5

LEMMA OwnStepDenied ==
    ASSUME TypeInv, NEW w \in Worker, Denied(w), Step(w), ~Panic
    PROVE  Denied(w)'
<1>0. /\ at \in [Worker -> Position] /\ result \in [Worker -> {"none", "ok", "error"}]
  BY Split DEF Located, Others
<1>1. CASE Execute(w) BY <1>0, <1>1 DEF Execute, Denied
<1>2. CASE templatePayload(w) BY <1>2 DEF templatePayload, Denied, auths
<1>3. CASE Expand(w) BY <1>3 DEF Expand, Denied, auths
<1>4. CASE NewRequest(w)
  <2>0. at[w].pc = "request" BY <1>4 DEF NewRequest
  <2>1. CASE UNCHANGED <<auths, failed, result>> BY <2>0, <2>1 DEF Denied, auths
  <2>2. CASE EndAction(w, TRUE, runtimeVars[w]) BY <2>0, <2>2, EndDenied DEF Denied
  <2> QED BY <1>4, <2>1, <2>2 DEF NewRequest
<1>5. CASE setAuthHeader(w) BY <1>5, AuthDenied
<1>6. CASE Send(w)
  <2>0. at[w].pc = "send" BY <1>6 DEF Send
  <2>1. CASE EndAction(w, TRUE, runtimeVars[w]) BY <2>0, <2>1, EndDenied DEF Denied
  <2>2. ASSUME ~Refused(header[w]), NEW answer, NEW captured, Answered(w, answer, captured)
        PROVE  Denied(w)'
    <3>0. (answer # "ok") \in BOOLEAN /\ TRUE \in BOOLEAN OBVIOUS
    <3>1. CASE \E errors \in BOOLEAN : EndAction(w, errors, captured)
      BY <2>0, <2>2, <3>1, EndDenied DEF Denied
    <3>2. ASSUME NEW m, Continue(w, m, captured) PROVE Denied(w)'
      BY <2>0, <2>2, <3>2 DEF Continue, Denied, auths
    <3> QED BY <2>2, <3>0, <3>1, <3>2 DEF Answered
  <2> QED BY <1>6, <2>1, <2>2 DEF Send
<1> QED BY <1>1, <1>2, <1>3, <1>4, <1>5, <1>6 DEF Step, ExecutePanics

LEMMA DeniedNext == TypeInv /\ DeniedInv /\ [Next]_vars => DeniedInv'
<1> SUFFICES ASSUME TypeInv, DeniedInv, [Next]_vars, NEW u \in Worker
             PROVE  Denied(u)'
  BY DEF DeniedInv, Denied
<1>0. Denied(u) BY DEF DeniedInv, Denied
<1>1. CASE Panic BY <1>1, PanicIdle DEF Denied
<1>2. ASSUME NEW v \in Worker, Step(v), ~Panic PROVE Denied(u)'
  <2>1. CASE u = v BY <1>0, <1>2, <2>1, OwnStepDenied
  <2>2. CASE u # v
    <3>1. Leaves(u) BY <1>2, <2>2, StepLeaves
    <3> QED BY <1>0, <3>1 DEF Denied, Leaves
  <2> QED BY <2>1, <2>2
<1>3. CASE UNCHANGED vars BY <1>0, <1>3 DEF vars, auths, Denied
<1> QED BY <1>1, <1>2, <1>3 DEF Next

\* A run in which a token exchange failed does not report success.
THEOREM DeniedIsReported == Spec => []NilMeansAuthenticated
<1>1. Init => DeniedInv BY DEF Init, Each, DeniedInv, Denied
<1>2. DeniedInv => NilMeansAuthenticated BY DEF DeniedInv, Denied, NilMeansAuthenticated
<1> QED BY <1>1, <1>2, DeniedNext, TypeInvariant, PTL DEF Spec

-----------------------------------------------------------------------------
(***************************************************************************)
(* Values of the run's own: it writes nothing else into the maps of its    *)
(* action.                                                                 *)
(***************************************************************************)

\* A map with values of w's run only, under names it sets.
Owned(w, map) == \A k \in Name : map[k] # NoValue =>
                   map[k] \in Origin /\ map[k].by = w /\ k \in Sets(w)

LEMMA HoldsOwned == ASSUME NEW w \in Worker
                    PROVE  Holds(w) <=> Owned(w, variables[w]) /\ Owned(w, runtimeVars[w])
BY DEF Holds, Owned

LEMMA GivenOwned ==
    ASSUME NEW w \in Worker, NEW i \in DOMAIN Seed(w)
    PROVE  Owned(w, Given(w, i)) /\ Owned(w, NoEntries)
<1> SUFFICES ASSUME NEW k \in Name, Given(w, i)[k] # NoValue
             PROVE  Given(w, i)[k] \in Origin /\ Given(w, i)[k].by = w /\ k \in Sets(w)
  BY DEF Owned, NoEntries
<1>1. k \in Seed(w)[i].variables /\ Given(w, i)[k] = From(w, i, "variables") BY DEF Given
<1>2. k \in Sets(w) BY <1>1 DEF Sets
<1> QED BY <1>1, <1>2, OriginTypes, SeedTypes DEF From

LEMMA TemplateOwn ==
    ASSUME TypeInv, NEW w \in Worker, NEW vs \in Variables, NEW captured \in Variables,
           NEW here \in Position, here.pc = "templating",
           TemplateWithVars(w, vs, captured, here),
           runtimeVars'[w] = captured, Owned(w, vs), Owned(w, captured),
           \A k \in Name : captured[k] = NoValue => vs[k] = Given(w, here.act)[k]
    PROVE  OwnOf(w)'
<1> DEFINE extended == Extend(vs, captured)
<1>1. /\ variables'[w] = extended /\ unset'[w] = Entries(extended) /\ at'[w] = here
  BY DEF TemplateWithVars, TypeInv, TypeOK, TextTypeOK, RunTypeOK
<1>2. \A k \in Name : extended[k] = IF captured[k] # NoValue THEN captured[k] ELSE vs[k]
  BY DEF Extend
<1>3. Owned(w, extended) BY <1>2 DEF Owned
<1> HIDE DEF extended
<1>4. Holds(w)' BY <1>1, <1>3 DEF Holds, Owned, Sets, Seed
<1>5. \A k \in Name : Given(w, at[w].act)'[k] = Given(w, here.act)[k]
  BY <1>1 DEF Given, Seed, From
<1>6. Declares(w)' BY <1>1, <1>2, <1>5 DEF Declares
<1>7. Extended(w)' BY <1>1, <1>2, <1>5 DEF Extended, Meant
<1>8. (unset[w] \subseteq Entries(variables[w]))' BY <1>1 DEF Entries
<1> QED BY <1>4, <1>6, <1>7, <1>8 DEF OwnOf

LEMMA PerformOwn ==
    ASSUME TypeInv, NEW w \in Worker, NEW i \in DOMAIN Seed(w), NEW captured \in Variables,
           performAction(w, i, captured), runtimeVars'[w] = captured, Owned(w, captured)
    PROVE  OwnOf(w)'
<1>1. object[w][i] = Given(w, i) /\ Given(w, i) \in Variables
  BY SeedTypes, VariablesTypes DEF TypeInv, Objects
<1>2. BeginsAt(w, i) \in Position /\ BeginsAt(w, i).act = i /\ BeginsAt(w, i).pc = "templating"
  BY FirstTypes, SeedTypes DEF BeginsAt, Position, Steps
<1>3. TemplateWithVars(w, Given(w, i), captured, BeginsAt(w, i))
  BY <1>1 DEF performAction, BeginsAt
<1> QED BY <1>1, <1>2, <1>3, GivenOwned, TemplateOwn

\* What Extended says is of the time between the maps and the text.
LEMMA RestingOwn ==
    ASSUME NEW w \in Worker, at'[w].pc # "templating",
           variables'[w] = variables[w], unset'[w] = unset[w],
           Holds(w)', Declares(w)', unset[w] \subseteq Entries(variables[w])
    PROVE  OwnOf(w)'
BY DEF OwnOf, Extended, Entries

LEMMA EndOwn ==
    ASSUME TypeInv, NEW w \in Worker, OwnOf(w), at[w].pc # "idle", NEW errors \in BOOLEAN,
           NEW captured \in Variables, Owned(w, captured), EndAction(w, errors, captured)
    PROVE  OwnOf(w)'
<1>1. runtimeVars'[w] = captured BY DEF EndAction, TypeInv, TypeOK, TextTypeOK
<1>2. CASE at[w].act < Len(Seed(w)) /\ performAction(w, at[w].act + 1, captured)
  <2>1. at[w].act \in DOMAIN Seed(w) BY DEF TypeInv, TypeOK, RunTypeOK
  <2>2. at[w].act + 1 \in DOMAIN Seed(w) BY <1>2, <2>1, SeedTypes
  <2> QED BY <1>1, <1>2, <2>2, PerformOwn
<1>3. CASE at' = [at EXCEPT ![w] = Idle] /\ UNCHANGED maps
  <2>1. at'[w].pc = "idle" BY <1>3 DEF Idle, TypeInv, TypeOK, RunTypeOK
  <2>2. variables' = variables /\ unset' = unset BY <1>3 DEF maps
  <2>3. Holds(w)' BY <1>1, <2>2 DEF OwnOf, Holds, Owned, Sets, Seed
  <2>4. Declares(w)' BY <2>1 DEF Declares
  <2> QED BY <2>1, <2>2, <2>3, <2>4, RestingOwn DEF OwnOf
<1> QED BY <1>2, <1>3 DEF EndAction

LEMMA PayloadOwn ==
    ASSUME TypeInv, NEW w \in Worker, OwnOf(w), templatePayload(w)
    PROVE  OwnOf(w)'
<1>0. unset \in [Worker -> SUBSET Name] BY Split DEF Texts
<1>1. PICK k \in unset[w] : unset' = [unset EXCEPT ![w] = @ \ {k}] BY DEF templatePayload
<1>2. UNCHANGED <<at, variables, runtimeVars>> BY DEF templatePayload
<1>3. unset'[w] = unset[w] \ {k} BY <1>0, <1>1
<1>4. Holds(w)' BY <1>2 DEF OwnOf, Holds, Sets, Seed
<1>5. Declares(w)' /\ Extended(w)'
  BY <1>2 DEF OwnOf, Declares, Extended, Meant, Given, Seed, From
<1>6. (unset[w] \subseteq Entries(variables[w]))' BY <1>2, <1>3 DEF OwnOf, Entries
<1> QED BY <1>4, <1>5, <1>6 DEF OwnOf

\* A step to another place in the same action, the maps as they were.
LEMMA GotoOwn ==
    ASSUME NEW w \in Worker, OwnOf(w), at[w].pc # "idle",
           at'[w].pc # "templating", at'[w].act = at[w].act,
           UNCHANGED <<variables, runtimeVars, unset>>
    PROVE  OwnOf(w)'
<1>1. Holds(w)' BY DEF OwnOf, Holds, Sets, Seed
<1>2. Declares(w)' BY DEF OwnOf, Declares, Given, Seed, From
<1> QED BY <1>1, <1>2, RestingOwn DEF OwnOf

LEMMA NewRequestOwn ==
    ASSUME TypeInv, NEW w \in Worker, OwnOf(w), NewRequest(w), ~Panic
    PROVE  OwnOf(w)'
<1>0. at[w].pc = "request" BY DEF NewRequest
<1>1. at[w] \in Position /\ runtimeVars[w] \in Variables /\ variables[w] \in Variables
  BY Split DEF Located, Texts
<1>2. Owned(w, variables[w]) /\ Owned(w, runtimeVars[w]) BY HoldsOwned DEF OwnOf
<1> DEFINE here == [at[w] EXCEPT !.pc = "templating", !.text = "path"]
<1>3. CASE TemplateWithVars(w, variables[w], runtimeVars[w], here) /\ UNCHANGED runtimeVars
  <2>1. here \in Position /\ here.pc = "templating" /\ here.act = at[w].act
    BY <1>1 DEF Position, Steps
  <2> HIDE DEF here
  <2>2. \A k \in Name : runtimeVars[w][k] = NoValue => variables[w][k] = Given(w, here.act)[k]
    BY <1>0, <2>1 DEF OwnOf, Declares
  <2> QED BY <1>1, <1>2, <1>3, <2>1, <2>2, TemplateOwn
<1>4. CASE EndAction(w, TRUE, runtimeVars[w]) BY <1>0, <1>1, <1>2, <1>4, EndOwn
<1> QED BY <1>3, <1>4 DEF NewRequest

LEMMA CapturedOwn ==
    ASSUME TypeInv, NEW w \in Worker, OwnOf(w), at[w].pc # "idle",
           NEW found \in SUBSET cur(w).runtimeVars, NEW captured,
           captured = findRuntimeVars(runtimeVars[w], found, From(w, at[w].act, at[w].method))
    PROVE  /\ captured \in Variables /\ Owned(w, captured)
           /\ \A k \in Name : captured[k] = NoValue => runtimeVars[w][k] = NoValue
<1> DEFINE answer == From(w, at[w].act, at[w].method)
<1>1. /\ at[w] \in Position /\ at[w].act \in DOMAIN Seed(w) /\ runtimeVars[w] \in Variables
  BY Split DEF Located, Texts
<1>2. answer \in Origin /\ answer \in Value /\ answer # NoValue /\ answer.by = w
  BY <1>1, OriginTypes DEF Position, From
<1>3. cur(w) \in Action BY <1>1, SeedTypes DEF cur
<1>4. found \subseteq Name /\ found \subseteq Sets(w)
  BY <1>1, <1>3 DEF Action, Sets, cur
<1>5. Owned(w, runtimeVars[w]) BY HoldsOwned DEF OwnOf
<1> HIDE DEF answer
<1>6. \A k \in Name : captured[k] = IF k \in found THEN answer ELSE runtimeVars[w][k]
  BY DEF findRuntimeVars, answer
<1>7. captured \in Variables BY <1>1, <1>2, <1>4, VariablesTypes DEF answer
<1>8. Owned(w, captured) BY <1>2, <1>4, <1>5, <1>6 DEF Owned
<1> QED BY <1>2, <1>6, <1>7, <1>8

LEMMA ContinueOwn ==
    ASSUME TypeInv, NEW w \in Worker, OwnOf(w), at[w].pc # "idle", NEW m \in Method,
           NEW captured \in Variables, Owned(w, captured),
           \A k \in Name : captured[k] = NoValue => runtimeVars[w][k] = NoValue,
           Continue(w, m, captured)
    PROVE  OwnOf(w)'
<1> DEFINE next == [at[w] EXCEPT !.method = m, !.n = @ + 1]
           request == [next EXCEPT !.pc = "request"]
           here == [next EXCEPT !.pc = "templating", !.text = "payload"]
<1>0. at[w] \in Position /\ variables[w] \in Variables BY Split DEF Located, Texts
<1>a. at[w].n + 1 \in Nat BY <1>0 DEF Position
<1>b. next \in Position /\ next.act = at[w].act BY <1>0, <1>a DEF Position
<1>1. runtimeVars'[w] = captured BY DEF Continue, TypeInv, TypeOK, TextTypeOK
<1>2. \/ at' = [at EXCEPT ![w] = request] /\ UNCHANGED maps
      \/ TemplateWithVars(w, variables[w], captured, here)
  BY DEF Continue
<1> HIDE DEF next
<1>3. /\ request.pc = "request" /\ request.act = at[w].act
      /\ here \in Position /\ here.pc = "templating" /\ here.act = at[w].act
  BY <1>b DEF Position, Steps
<1> HIDE DEF request, here
<1>4. \A k \in Name : captured[k] = NoValue => variables[w][k] = Given(w, at[w].act)[k]
  BY DEF OwnOf, Declares
<1>5. CASE at' = [at EXCEPT ![w] = request] /\ UNCHANGED maps
  <2>1. at'[w] = request BY <1>5 DEF TypeInv, TypeOK, RunTypeOK
  <2>2. variables' = variables /\ unset' = unset BY <1>5 DEF maps
  <2>3. Holds(w)' BY <1>1, <2>2 DEF OwnOf, Holds, Owned, Sets, Seed
  <2>4. Given(w, at[w].act)' = Given(w, at[w].act) BY <1>3, <2>1 DEF Given, Seed, From
  <2>5. Declares(w)' BY <1>1, <1>4, <2>2, <2>4 DEF Declares
  <2> QED BY <1>3, <2>1, <2>2, <2>3, <2>5, RestingOwn DEF OwnOf
<1>6. CASE TemplateWithVars(w, variables[w], captured, here)
  <2>1. Owned(w, variables[w]) BY HoldsOwned DEF OwnOf
  <2> QED BY <1>0, <1>1, <1>3, <1>4, <1>6, <2>1, TemplateOwn
<1> QED BY <1>2, <1>5, <1>6

LEMMA SendOwn ==
    ASSUME TypeInv, NEW w \in Worker, OwnOf(w), Send(w)
    PROVE  OwnOf(w)'
<1>0. at[w].pc = "send" /\ runtimeVars[w] \in Variables /\ Owned(w, runtimeVars[w])
  BY Split, HoldsOwned DEF Send, Texts, OwnOf
<1>1. CASE EndAction(w, TRUE, runtimeVars[w]) BY <1>0, <1>1, EndOwn
<1>2. ASSUME NEW answer \in {"ok", "client"}, NEW found \in SUBSET cur(w).runtimeVars,
             Answered(w, answer, findRuntimeVars(runtimeVars[w], found, From(w, at[w].act, at[w].method)))
      PROVE  OwnOf(w)'
  <2> DEFINE captured == findRuntimeVars(runtimeVars[w], found, From(w, at[w].act, at[w].method))
  <2>1. /\ captured \in Variables /\ Owned(w, captured)
        /\ \A k \in Name : captured[k] = NoValue => runtimeVars[w][k] = NoValue
    BY <1>0, CapturedOwn
  <2>2. Answered(w, answer, captured) BY <1>2
  <2> HIDE DEF captured
  <2>3. (answer # "ok") \in BOOLEAN /\ TRUE \in BOOLEAN OBVIOUS
  <2>4. CASE \E errors \in BOOLEAN : EndAction(w, errors, captured) BY <1>0, <2>1, <2>4, EndOwn
  <2>5. NextMethods(w, answer) \subseteq Method BY DEF NextMethods, Method
  <2>6. CASE \E m \in Method : Continue(w, m, captured) BY <1>0, <2>1, <2>6, ContinueOwn
  <2> QED BY <2>2, <2>3, <2>4, <2>5, <2>6 DEF Answered
<1> QED BY <1>1, <1>2 DEF Send

LEMMA OwnStepOwn ==
    ASSUME TypeInv, NEW w \in Worker, OwnOf(w), Step(w), ~Panic
    PROVE  OwnOf(w)'
<1>0. at \in [Worker -> Position] BY Split DEF Located
<1>1. CASE Execute(w)
  <2>1. performAction(w, 1, NoEntries) /\ runtimeVars'[w] = NoEntries
    BY <1>1 DEF Execute, TypeInv, TypeOK, TextTypeOK
  <2> QED BY <2>1, PerformOwn, SeedTypes, VariablesTypes, GivenOwned
<1>2. CASE templatePayload(w) BY <1>2, PayloadOwn
<1>3. CASE Expand(w)
  <2>1. /\ at[w].pc = "templating" /\ UNCHANGED <<variables, runtimeVars, unset>>
        /\ at' = [at EXCEPT ![w].pc = "request"] \/ at' = [at EXCEPT ![w].pc = "auth"]
    BY <1>3 DEF Expand, Goto, maps
  <2>2. at'[w].pc \in {"request", "auth"} /\ at'[w].act = at[w].act BY <1>0, <2>1 DEF Position
  <2> QED BY <2>1, <2>2, GotoOwn
<1>4. CASE NewRequest(w) BY <1>4, NewRequestOwn
<1>5. CASE setAuthHeader(w)
  <2>1. at[w].pc = "auth" /\ Goto(w, "send") /\ UNCHANGED <<variables, runtimeVars, unset>>
    BY <1>5 DEF setAuthHeader, maps
  <2>2. at'[w].pc = "send" /\ at'[w].act = at[w].act BY <1>0, <2>1 DEF Goto, Position
  <2> QED BY <2>1, <2>2, GotoOwn
<1>6. CASE Send(w) BY <1>6, SendOwn
<1> QED BY <1>1, <1>2, <1>3, <1>4, <1>5, <1>6 DEF Step, ExecutePanics

LEMMA FrameOwn ==
    ASSUME TypeInv, NEW u \in Worker, NEW v \in Worker, u # v, OwnOf(u), Step(v), ~Panic
    PROVE  OwnOf(u)'
<1>1. Leaves(u) BY StepLeaves
<1>2. Holds(u)' BY <1>1 DEF OwnOf, Holds, Sets, Seed, Leaves
<1>3. Declares(u)' /\ Extended(u)'
  BY <1>1 DEF OwnOf, Declares, Extended, Meant, Given, Seed, From, Leaves
<1>4. (unset[u] \subseteq Entries(variables[u]))' BY <1>1 DEF OwnOf, Entries, Leaves
<1> QED BY <1>2, <1>3, <1>4 DEF OwnOf

LEMMA FreshOwn ==
    ASSUME NEW w \in Worker, at[w] = Idle, variables[w] = NoEntries,
           runtimeVars[w] = NoEntries, unset[w] = {}
    PROVE  OwnOf(w)
BY DEF OwnOf, Holds, Declares, Extended, NoEntries, Idle

LEMMA OwnInit == Init => OwnInv
<1> SUFFICES ASSUME Init, NEW w \in Worker PROVE OwnOf(w) BY DEF OwnInv
<1>1. /\ at[w] = Idle /\ variables[w] = NoEntries
      /\ runtimeVars[w] = NoEntries /\ unset[w] = {}
  BY DEF Init, Each
<1> QED BY <1>1, FreshOwn

LEMMA OwnNext == TypeInv /\ OwnInv /\ [Next]_vars => OwnInv'
<1> SUFFICES ASSUME TypeInv, OwnInv, [Next]_vars, NEW u \in Worker PROVE OwnOf(u)'
  BY DEF OwnInv
<1>0. OwnOf(u) /\ \A v \in Worker : OwnOf(v) BY DEF OwnInv
<1>1. CASE Panic
  <2>1. /\ at'[u].pc = "idle" /\ variables'[u] = NoEntries
        /\ runtimeVars'[u] = NoEntries /\ unset'[u] = {}
    BY <1>1 DEF Panic, Each, Idle
  <2> QED BY <2>1 DEF OwnOf, Holds, Declares, Extended, NoEntries
<1>2. ASSUME NEW v \in Worker, Step(v), ~Panic PROVE OwnOf(u)'
  <2>1. CASE u = v BY <1>0, <1>2, <2>1, OwnStepOwn
  <2>2. CASE u # v BY <1>0, <1>2, <2>2, FrameOwn
  <2> QED BY <2>1, <2>2
<1>3. CASE UNCHANGED vars
  <2>1. UNCHANGED <<env, at, variables, runtimeVars, unset>> BY <1>3 DEF vars, maps
  <2> QED
    BY <1>0, <2>1
    DEF OwnOf, Holds, Declares, Extended, Meant, Given, Seed, From, Private, Sets, Entries
<1> QED BY <1>1, <1>2, <1>3 DEF Next

-----------------------------------------------------------------------------
(***************************************************************************)
(* The environment under a private name: nobody else writes there, so what *)
(* a text sets stays set, until another text of the run sets it, through   *)
(* the actions that leave it alone and into the next runs.                 *)
(***************************************************************************)

\* The values that may be in the environment under a name private to w.
Own(w, k, v) == v = NewEnv[k] \/ (v \in Origin /\ v.by = w)

\* A name the next action leaves to what is there: if the last action declared
\* it, the value is that one's, and otherwise what was left before.
LEMMA LeftNext ==
    ASSUME NEW w \in Worker, NEW n \in Nat \ {0}, NEW k \in Name, NEW v,
           IF k \in Seed(w)[n].variables THEN v = From(w, n, "variables") ELSE Left(w, n, k, v)
    PROVE  Left(w, n + 1, k, v)
<1> DEFINE before == {i \in 1..(n - 1) : k \in Seed(w)[i].variables}
           after == {i \in 1..n : k \in Seed(w)[i].variables}
<1>1. 1..n = 1..(n - 1) \union {n} /\ \A i \in 1..(n - 1) : i <= n /\ i # n OBVIOUS
<1>2. /\ after = IF k \in Seed(w)[n].variables THEN before \union {n} ELSE before
      /\ \A i \in after : i <= n
  BY <1>1
<1>3. Left(w, n + 1, k, v) <=>
        IF after # {}
        THEN \E i \in after : v = From(w, i, "variables") /\ \A j \in after : j <= i
        ELSE v = NewEnv[k] \/ (v \in Origin /\ v.by = w /\ v.run = "earlier")
  BY DEF Left
<1>4. Left(w, n, k, v) <=>
        IF before # {}
        THEN \E i \in before : v = From(w, i, "variables") /\ \A j \in before : j <= i
        ELSE v = NewEnv[k] \/ (v \in Origin /\ v.by = w /\ v.run = "earlier")
  BY DEF Left
<1>5. CASE k \in Seed(w)[n].variables
  <2>1. n \in after BY <1>2, <1>5
  <2> QED BY <1>2, <1>3, <1>5, <2>1
<1>6. CASE k \notin Seed(w)[n].variables
  <2>1. after = before BY <1>2, <1>6
  <2> QED BY <1>3, <1>4, <1>6, <2>1
<1> QED BY <1>5, <1>6

\* A new run finds only what earlier ones left, or the shell gave.
LEMMA LeftFirst ==
    ASSUME NEW w \in Worker, NEW k \in Name, NEW e \in Variables, Own(w, k, e[k])
    PROVE  Left(w, 1, k, Aged(w, e)[k]) /\ Own(w, k, Aged(w, e)[k])
<1> DEFINE v == Aged(w, e)[k]
<1>1. v = NewEnv[k] \/ (v \in Origin /\ v.by = w /\ v.run = "earlier")
  <2>1. CASE e[k] \in Origin /\ e[k].by = w
    <3>1. v = [e[k] EXCEPT !.run = "earlier"] BY <2>1 DEF Aged
    <3> QED BY <2>1, <3>1 DEF Origin
  <2>2. CASE ~(e[k] \in Origin /\ e[k].by = w) BY <2>2 DEF Aged, Own
  <2> QED BY <2>1, <2>2
<1>2. {i \in 1..(1 - 1) : k \in Seed(w)[i].variables} = {} OBVIOUS
<1> QED BY <1>1, <1>2 DEF Left, Own

LEMMA TemplateRemains ==
    ASSUME TypeInv, NEW w \in Worker, NEW vs \in Variables, NEW captured \in Variables,
           NEW here, here.pc = "templating", TemplateWithVars(w, vs, captured, here),
           \A k \in Private(w) :
              /\ Own(w, k, env'[k])
              /\ captured[k] = NoValue /\ vs[k] = NoValue => Left(w, here.act, k, env'[k])
    PROVE  Remains(w)'
<1> DEFINE extended == Extend(vs, captured)
<1>1. variables'[w] = extended /\ unset'[w] = Entries(extended) /\ at'[w] = here
  BY DEF TemplateWithVars, TypeInv, TypeOK, TextTypeOK, RunTypeOK
<1>2. \A k \in Name : extended[k] = IF captured[k] # NoValue THEN captured[k] ELSE vs[k]
  BY DEF Extend
<1> HIDE DEF extended
<1>3. Private(w)' = Private(w) /\ Private(w) \subseteq Name BY DEF Private, Sets, Seed
<1> SUFFICES ASSUME NEW k \in Private(w)
             PROVE  /\ Own(w, k, env'[k])
                    /\ IF extended[k] = NoValue THEN Left(w, here.act, k, env'[k])
                       ELSE k \notin Entries(extended) => env'[k] = extended[k]
  BY <1>1, <1>3 DEF Remains, Own, Left, NewEnv, From, Seed
<1> QED BY <1>2, <1>3 DEF Entries

\* The next action begins.
LEMMA PerformRemains ==
    ASSUME TypeInv, NEW w \in Worker, NEW i \in DOMAIN Seed(w), NEW captured \in Variables,
           performAction(w, i, captured),
           \A k \in Private(w) :
              /\ Own(w, k, env'[k])
              /\ captured[k] = NoValue /\ k \notin Seed(w)[i].variables => Left(w, i, k, env'[k])
    PROVE  Remains(w)'
<1>1. object[w][i] = Given(w, i) /\ Given(w, i) \in Variables
  BY SeedTypes, VariablesTypes DEF TypeInv, Objects
<1>2. BeginsAt(w, i).act = i /\ BeginsAt(w, i).pc = "templating" BY DEF BeginsAt
<1>3. TemplateWithVars(w, Given(w, i), captured, BeginsAt(w, i))
  BY <1>1 DEF performAction, BeginsAt
<1>4. ASSUME NEW k \in Private(w), Given(w, i)[k] = NoValue PROVE k \notin Seed(w)[i].variables
  BY <1>4, OriginTypes, SeedTypes DEF Given, Private
<1> QED BY <1>1, <1>2, <1>3, <1>4, TemplateRemains

\* The rest of the action finds the environment as it was.
LEMMA StaysRemains ==
    ASSUME TypeInv, NEW w \in Worker, Remains(w), env' = env,
           at[w].pc # "idle", unset[w] = {}, at'[w].pc = "idle" \/ at'[w].act = at[w].act,
           variables' = variables, unset' = unset
    PROVE  Remains(w)'
BY DEF Remains, Private, Sets, Left, NewEnv, From, Seed

LEMMA AgainRemains ==
    ASSUME TypeInv, NEW w \in Worker, Remains(w), env' = env, at[w].pc # "idle",
           NEW captured \in Variables, NEW here, here.pc = "templating", here.act = at[w].act,
           TemplateWithVars(w, variables[w], captured, here)
    PROVE  Remains(w)'
<1>1. variables[w] \in Variables BY Split DEF Texts
<1>2. \A k \in Private(w) :
         /\ Own(w, k, env[k])
         /\ variables[w][k] = NoValue => Left(w, at[w].act, k, env[k])
  BY DEF Remains, Own
<1> QED BY <1>1, <1>2, TemplateRemains

LEMMA EndRemains ==
    ASSUME TypeInv, NEW w \in Worker, OwnOf(w), Remains(w), at[w].pc \notin {"idle", "templating"},
           NEW errors \in BOOLEAN, NEW captured \in Variables,
           \A k \in Name : captured[k] = NoValue => runtimeVars[w][k] = NoValue,
           EndAction(w, errors, captured)
    PROVE  Remains(w)'
<1>0. env' = env /\ unset[w] = {} BY DEF EndAction, Remains
<1>1. CASE at[w].act < Len(Seed(w)) /\ performAction(w, at[w].act + 1, captured)
  <2> DEFINE n == at[w].act
  <2>1. n \in DOMAIN Seed(w) BY DEF TypeInv, TypeOK, RunTypeOK
  <2>2. n \in Nat \ {0} /\ n + 1 \in DOMAIN Seed(w) BY <1>1, <2>1, SeedTypes
  <2>3. ASSUME NEW k \in Private(w)
        PROVE  Own(w, k, env[k]) /\ (captured[k] = NoValue => Left(w, n + 1, k, env[k]))
    <3>1. k \in Name /\ Own(w, k, env[k]) BY DEF Remains, Own, Private
    <3>2. ASSUME captured[k] = NoValue PROVE Left(w, n + 1, k, env[k])
      <4>1. variables[w][k] = Given(w, n)[k] BY <3>1, <3>2 DEF OwnOf, Declares
      <4>2. IF variables[w][k] = NoValue THEN Left(w, n, k, env[k]) ELSE env[k] = variables[w][k]
        BY <1>0 DEF Remains
      <4>3. Given(w, n)[k] = IF k \in Seed(w)[n].variables THEN From(w, n, "variables") ELSE NoValue
        BY <3>1 DEF Given
      <4>4. From(w, n, "variables") # NoValue BY <2>2, OriginTypes
      <4>5. IF k \in Seed(w)[n].variables THEN env[k] = From(w, n, "variables")
            ELSE Left(w, n, k, env[k])
        BY <4>1, <4>2, <4>3, <4>4
      <4> QED BY <2>2, <3>1, <4>5, LeftNext
    <3> QED BY <3>1, <3>2
  <2> QED BY <1>0, <1>1, <2>2, <2>3, PerformRemains
<1>2. CASE at' = [at EXCEPT ![w] = Idle] /\ UNCHANGED maps
  <2>1. at'[w].pc = "idle" BY <1>2 DEF Idle, TypeInv, TypeOK, RunTypeOK
  <2> QED BY <1>0, <1>2, <2>1, StaysRemains DEF maps
<1> QED BY <1>1, <1>2 DEF EndAction

LEMMA PayloadRemains ==
    ASSUME TypeInv, NEW w \in Worker, OwnOf(w), Remains(w), templatePayload(w)
    PROVE  Remains(w)'
<1>0. env \in Variables /\ unset \in [Worker -> SUBSET Name] BY Split DEF Texts
<1>1. PICK j \in unset[w] : /\ env' = Setenv(env, j, variables[w][j])
                            /\ unset' = [unset EXCEPT ![w] = @ \ {j}]
  BY DEF templatePayload
<1>2. at' = at /\ variables' = variables /\ at[w].pc = "templating" BY DEF templatePayload
<1>3. unset'[w] = unset[w] \ {j} BY <1>0, <1>1
<1>4. \A k \in Name : env'[k] = IF k = j THEN variables[w][j] ELSE env[k]
  BY <1>0, <1>1 DEF Setenv, Variables
<1>5. j \in Name /\ variables[w][j] # NoValue /\ Own(w, j, variables[w][j])
  BY <1>1 DEF OwnOf, Entries, Holds, Own
<1>6. Private(w)' = Private(w) /\ Private(w) \subseteq Name BY DEF Private, Sets, Seed
<1> SUFFICES ASSUME NEW k \in Private(w)
             PROVE  /\ Own(w, k, env'[k])
                    /\ IF variables[w][k] = NoValue THEN Left(w, at[w].act, k, env'[k])
                       ELSE k \notin unset'[w] => env'[k] = variables[w][k]
  BY <1>2, <1>6 DEF Remains, Own, Left, NewEnv, From, Seed
<1>7. CASE k = j BY <1>4, <1>5, <1>7
<1>8. CASE k # j
  <2>1. env'[k] = env[k] BY <1>4, <1>6, <1>8
  <2> QED BY <1>2, <1>3, <1>8, <2>1 DEF Remains, Own
<1> QED BY <1>7, <1>8

LEMMA SendRemains ==
    ASSUME TypeInv, NEW w \in Worker, OwnOf(w), Remains(w), Send(w)
    PROVE  Remains(w)'
<1>0. /\ at[w].pc = "send" /\ at[w].pc \notin {"idle", "templating"}
      /\ at \in [Worker -> Position] /\ at[w] \in Position
      /\ runtimeVars[w] \in Variables /\ unset[w] = {}
  BY Split DEF Send, Located, Texts, Remains
<1>1. CASE EndAction(w, TRUE, runtimeVars[w]) BY <1>0, <1>1, EndRemains
<1>2. ASSUME NEW answer \in {"ok", "client"}, NEW found \in SUBSET cur(w).runtimeVars,
             Answered(w, answer, findRuntimeVars(runtimeVars[w], found, From(w, at[w].act, at[w].method)))
      PROVE  Remains(w)'
  <2> DEFINE captured == findRuntimeVars(runtimeVars[w], found, From(w, at[w].act, at[w].method))
  <2>1. /\ captured \in Variables
        /\ \A k \in Name : captured[k] = NoValue => runtimeVars[w][k] = NoValue
    BY <1>0, CapturedOwn
  <2>2. Answered(w, answer, captured) BY <1>2
  <2> HIDE DEF captured
  <2>3. (answer # "ok") \in BOOLEAN /\ TRUE \in BOOLEAN OBVIOUS
  <2>4. CASE \E errors \in BOOLEAN : EndAction(w, errors, captured) BY <1>0, <2>1, <2>4, EndRemains
  <2>5. NextMethods(w, answer) \subseteq Method BY DEF NextMethods, Method
  <2>6. ASSUME NEW m \in Method, Continue(w, m, captured) PROVE Remains(w)'
    <3> DEFINE next == [at[w] EXCEPT !.method = m, !.n = @ + 1]
               request == [next EXCEPT !.pc = "request"]
               here == [next EXCEPT !.pc = "templating", !.text = "payload"]
    <3>a. at[w].n + 1 \in Nat BY <1>0 DEF Position
    <3>b. next \in Position /\ next.act = at[w].act BY <1>0, <3>a DEF Position
    <3>1. /\ env' = env
          /\ \/ at' = [at EXCEPT ![w] = request] /\ UNCHANGED maps
             \/ TemplateWithVars(w, variables[w], captured, here)
      BY <2>6 DEF Continue
    <3> HIDE DEF next
    <3>2. /\ request.act = at[w].act
          /\ here.pc = "templating" /\ here.act = at[w].act
      BY <3>b DEF Position
    <3> HIDE DEF request, here
    <3>3. CASE at' = [at EXCEPT ![w] = request] /\ UNCHANGED maps
      <4>1. at'[w] = request BY <1>0, <3>3
      <4> QED BY <1>0, <3>1, <3>2, <3>3, <4>1, StaysRemains DEF maps
    <3>4. CASE TemplateWithVars(w, variables[w], captured, here)
      BY <1>0, <2>1, <3>1, <3>2, <3>4, AgainRemains
    <3> QED BY <3>1, <3>3, <3>4
  <2> QED BY <2>2, <2>3, <2>4, <2>5, <2>6 DEF Answered
<1> QED BY <1>1, <1>2 DEF Send

LEMMA OwnStepRemains ==
    ASSUME TypeInv, NEW w \in Worker, OwnOf(w), Remains(w), Step(w), ~Panic
    PROVE  Remains(w)'
<1>0. /\ at \in [Worker -> Position] /\ at[w] \in Position /\ env \in Variables
      /\ variables[w] \in Variables /\ runtimeVars[w] \in Variables
  BY Split DEF Located, Texts
<1>1. CASE Execute(w)
  <2>1. performAction(w, 1, NoEntries) /\ env' = Aged(w, env) BY <1>1 DEF Execute
  <2>2. \A k \in Private(w) : k \in Name /\ Own(w, k, env[k]) BY DEF Remains, Own, Private
  <2>3. \A k \in Private(w) : Own(w, k, env'[k]) /\ Left(w, 1, k, env'[k])
    BY <1>0, <2>1, <2>2, LeftFirst
  <2> QED BY <2>1, <2>3, PerformRemains, SeedTypes, VariablesTypes
<1>2. CASE templatePayload(w) BY <1>2, PayloadRemains
<1>3. CASE Expand(w)
  <2>1. /\ at[w].pc = "templating" /\ unset[w] = {} /\ UNCHANGED <<env, variables, unset>>
        /\ at' = [at EXCEPT ![w].pc = "request"] \/ at' = [at EXCEPT ![w].pc = "auth"]
    BY <1>3 DEF Expand, Goto, maps
  <2>2. at'[w].act = at[w].act BY <1>0, <2>1 DEF Position
  <2> QED BY <2>1, <2>2, StaysRemains
<1>4. CASE NewRequest(w)
  <2> DEFINE here == [at[w] EXCEPT !.pc = "templating", !.text = "path"]
  <2>0. at[w].pc = "request" BY <1>4 DEF NewRequest
  <2>1. CASE TemplateWithVars(w, variables[w], runtimeVars[w], here) /\ UNCHANGED env
    <3>1. here.pc = "templating" /\ here.act = at[w].act BY <1>0 DEF Position
    <3> HIDE DEF here
    <3> QED BY <1>0, <2>0, <2>1, <3>1, AgainRemains
  <2>2. CASE EndAction(w, TRUE, runtimeVars[w]) BY <1>0, <2>0, <2>2, EndRemains
  <2> QED BY <1>4, <2>1, <2>2 DEF NewRequest
<1>5. CASE setAuthHeader(w)
  <2>1. at[w].pc = "auth" /\ Goto(w, "send") /\ UNCHANGED <<env, variables, unset>>
    BY <1>5 DEF setAuthHeader, maps
  <2>2. at'[w].act = at[w].act /\ unset[w] = {} BY <1>0, <2>1 DEF Goto, Position, Remains
  <2> QED BY <2>1, <2>2, StaysRemains
<1>6. CASE Send(w) BY <1>6, SendRemains
<1> QED BY <1>1, <1>2, <1>3, <1>4, <1>5, <1>6 DEF Step, ExecutePanics

\* What another worker's step does to the environment under u's private names:
\* nothing, but that its own values age.
LEMMA EnvLeaves ==
    ASSUME TypeInv, NEW u \in Worker, NEW v \in Worker, u # v, OwnOf(v), Step(v), ~Panic,
           NEW k \in Private(u), env[k] \in Origin => env[k].by = u
    PROVE  env'[k] = env[k]
<1>0. k \in Name /\ k \notin Sets(v) BY DEF Private
<1>1. CASE Execute(v)
  <2>1. env' = Aged(v, env) BY <1>1 DEF Execute
  <2> QED BY <1>0, <2>1 DEF Aged
<1>2. CASE templatePayload(v)
  <2>1. PICK j \in unset[v] : env' = Setenv(env, j, variables[v][j])
    BY <1>2 DEF templatePayload
  <2>2. j \in Name /\ variables[v][j] # NoValue BY <2>1 DEF OwnOf, Entries
  <2>3. j \in Sets(v) BY <2>2 DEF OwnOf, Holds
  <2>4. env \in Variables BY Split DEF Texts
  <2> QED BY <1>0, <2>1, <2>3, <2>4 DEF Setenv, Variables
<1>3. CASE env' = env BY <1>3
<1>4. CASE Expand(v) \/ setAuthHeader(v) BY <1>3, <1>4 DEF Expand, setAuthHeader
<1>5. CASE NewRequest(v) BY <1>3, <1>5 DEF NewRequest, EndAction
<1>6. CASE Send(v) BY <1>3, <1>6 DEF Send, Answered, EndAction, Continue
<1> QED BY <1>1, <1>2, <1>4, <1>5, <1>6 DEF Step, ExecutePanics

LEMMA FrameRemains ==
    ASSUME TypeInv, NEW u \in Worker, NEW v \in Worker, u # v, OwnOf(v), Remains(u), Step(v), ~Panic
    PROVE  Remains(u)'
<1>1. Leaves(u) BY StepLeaves
<1>2. ASSUME NEW k \in Private(u) PROVE env'[k] = env[k]
  <2>1. k \in Name /\ (env[k] = NewEnv[k] \/ env[k].by = u) BY DEF Remains, Private
  <2>2. NewEnv[k] \notin Origin BY <2>1, ValueAssumption DEF NewEnv
  <2> QED BY <2>1, <2>2, EnvLeaves
<1> QED BY <1>1, <1>2 DEF Remains, Leaves, Private, Sets, Left, NewEnv, From, Seed

LEMMA RemainsInit == Init => RemainsInv
BY DEF Init, Each, Idle, RemainsInv, Remains

LEMMA RemainsNext == TypeInv /\ OwnInv /\ RemainsInv /\ [Next]_vars => RemainsInv'
<1> SUFFICES ASSUME TypeInv, OwnInv, RemainsInv, [Next]_vars, NEW u \in Worker PROVE Remains(u)'
  BY DEF RemainsInv
<1>0. Remains(u) /\ \A v \in Worker : OwnOf(v) BY DEF OwnInv, RemainsInv
<1>1. CASE Panic
  <2>1. at'[u].pc = "idle" /\ unset'[u] = {} /\ env' = NewEnv BY <1>1 DEF Panic, Each, Idle
  <2> QED BY <2>1 DEF Remains, NewEnv
<1>2. ASSUME NEW v \in Worker, Step(v), ~Panic PROVE Remains(u)'
  <2>1. CASE u = v BY <1>0, <1>2, <2>1, OwnStepRemains
  <2>2. CASE u # v BY <1>0, <1>2, <2>2, FrameRemains
  <2> QED BY <2>1, <2>2
<1>3. CASE UNCHANGED vars
  <2>1. UNCHANGED <<env, at, variables, unset>> BY <1>3 DEF vars, maps
  <2> QED BY <1>0, <2>1 DEF Remains, Private, Sets, Left, NewEnv, From, Seed
<1> QED BY <1>1, <1>2, <1>3 DEF Next

LEMMA ExpandIsOwn ==
    ASSUME TypeInv, OwnInv, RemainsInv, NEW w \in Worker, Expand(w), NEW k \in Private(w)
    PROVE  /\ at[w].text = "payload" /\ k \in cur(w).payload => Filled(w, k, payload'[w][k])
           /\ at[w].text = "path" /\ k \in cur(w).path => Filled(w, k, path'[w][k])
<1>1. k \in Name /\ at[w].pc = "templating" /\ unset[w] = {} BY DEF Private, Expand
<1>2. variables[w][k] = Meant(w, k) BY <1>1 DEF OwnInv, OwnOf, Extended
<1>3. Filled(w, k, env[k]) BY <1>1, <1>2 DEF RemainsInv, Remains, Filled
<1>4. payload \in [Worker -> Variables] /\ path \in [Worker -> Variables] BY Split DEF Texts
<1>5. ASSUME at[w].text = "payload", k \in cur(w).payload PROVE payload'[w][k] = env[k]
  <2>1. payload' = [payload EXCEPT ![w] = Substitute(env, cur(w).payload)] BY <1>5 DEF Expand
  <2> QED BY <1>1, <1>4, <1>5, <2>1 DEF Substitute
<1>6. ASSUME at[w].text = "path", k \in cur(w).path PROVE path'[w][k] = env[k]
  <2>1. path' = [path EXCEPT ![w] = Substitute(env, cur(w).path)] BY <1>6 DEF Expand
  <2> QED BY <1>1, <1>4, <1>6, <2>1 DEF Substitute
<1> QED BY <1>3, <1>5, <1>6

\* Under a name no other resource sets, a text is filled with what the run
\* captured, or the action declares, or the nearest action before it declared; and
\* only if there is none of these with what an earlier run or the shell left.
THEOREM OwnValuesOnly == Spec => OwnValues
<1>1. TypeInv /\ OwnInv /\ RemainsInv /\ [Next]_vars =>
        [\A w \in Worker : Expand(w) =>
           \A k \in Private(w) :
              /\ at[w].text = "payload" /\ k \in cur(w).payload => Filled(w, k, payload'[w][k])
              /\ at[w].text = "path" /\ k \in cur(w).path => Filled(w, k, path'[w][k])]_vars
  BY ExpandIsOwn
<1> QED BY <1>1, OwnInit, OwnNext, RemainsInit, RemainsNext, TypeInvariant, PTL DEF Spec, OwnValues

\* How far the comment about the local context goes: where no two resources of a
\* process set a common name, what an action declares is what its texts are
\* filled with, unless its run captured that name, whoever else runs meanwhile.
THEOREM LocalIfNamesAreOwn ==
    (\A v, w \in Worker : v # w => Sets(v) \intersect Sets(w) = {}) => (Spec => LocalContext)
<1> SUFFICES ASSUME \A v, w \in Worker : v # w => Sets(v) \intersect Sets(w) = {}
             PROVE  Spec => LocalContext
  OBVIOUS
<1>1. ASSUME TypeInv, NEW w \in Worker, Expand(w), NEW k \in cur(w).variables
      PROVE  k \in Private(w) /\ Meant(w, k) # NoValue
  <2>1. at[w].pc # "idle" BY <1>1 DEF Expand
  <2>2. at[w].act \in DOMAIN Seed(w) BY <1>1, <2>1 DEF TypeInv, TypeOK, RunTypeOK
  <2>3. k \in Name BY <1>1, <2>2, SeedTypes DEF cur, Action
  <2>4. k \in Sets(w) BY <1>1, <2>2 DEF Sets, cur
  <2>5. k \in Private(w) BY <2>3, <2>4 DEF Private
  <2>6. Given(w, at[w].act)[k] = From(w, at[w].act, "variables")
    BY <1>1, <2>3 DEF Given, cur
  <2>7. Given(w, at[w].act)[k] # NoValue BY <1>1, <2>2, <2>6, SeedTypes, OriginTypes
  <2> QED BY <2>5, <2>7 DEF Meant
<1>2. ASSUME TypeInv, OwnInv, RemainsInv, NEW w \in Worker, Expand(w), NEW k \in cur(w).variables
      PROVE  /\ at[w].text = "payload" /\ k \in cur(w).payload => payload'[w][k] = Meant(w, k)
             /\ at[w].text = "path" /\ k \in cur(w).path => path'[w][k] = Meant(w, k)
  BY <1>1, <1>2, ExpandIsOwn DEF Filled
<1>3. TypeInv /\ OwnInv /\ RemainsInv /\ [Next]_vars =>
        [\A w \in Worker : Expand(w) =>
           \A k \in cur(w).variables :
              /\ at[w].text = "payload" /\ k \in cur(w).payload => payload'[w][k] = Meant(w, k)
              /\ at[w].text = "path" /\ k \in cur(w).path => path'[w][k] = Meant(w, k)]_vars
  BY <1>2
<1> QED BY <1>3, OwnInit, OwnNext, RemainsInit, RemainsNext, TypeInvariant, PTL DEF Spec, LocalContext
=============================================================================
