---------------------------- MODULE SeederProofs -----------------------------
(***************************************************************************)
(* Proofs about Seeder, for any actions, ids, configurations and bounds.   *)
(***************************************************************************)
EXTENDS SeederProperties, TLAPS

USE DEF Success

-----------------------------------------------------------------------------
(* The service: what its answers and the effects of writes are made of.    *)

LEMMA ReplyType ==
    ASSUME NEW c \in Collection, NEW where \in SUBSET Id, NEW style \in NotFoundStyle,
           NEW r \in GetReplies(c, where, style) \union GetFaults
    PROVE  r \in Reply /\ r.code \in Nat
BY ServiceAssumption
   DEF GetReplies, GetFaults, NotFoundReply, NotFoundStyle, Failed, Reply, Body,
       Present, NetworkError

EffectType == [store : Collection, code : Nat]

\* A write that is refused leaves the collection alone; one that is accepted
\* has put the content under the id.
LEMMA UpdateEffect ==
    ASSUME NEW c \in Collection, NEW i \in Id, NEW content \in Content \ {"absent"},
           NEW creates \in BOOLEAN, NEW x \in Update(c, i, content, creates)
    PROVE  /\ x \in EffectType
           /\ x.code > 299 => x.store = c
           /\ x.code <= 299 => x.store[i] = content
           /\ \/ Present(x.store) = Present(c)
              \/ creates /\ Present(x.store) = Present(c) \union {i}
BY DEF Update, Effect, EffectType, Collection, Present

LEMMA DeleteEffect ==
    ASSUME NEW c \in Collection, NEW i \in Id, NEW x \in Delete(c, i)
    PROVE  /\ x \in EffectType
           /\ Present(x.store) \subseteq Present(c)
           /\ x.code <= 299 => i \in Present(c) /\ Present(x.store) = Present(c) \ {i}
BY DEF Delete, Effect, EffectType, Collection, Present, Content

\* A POST makes at most one new copy, under an id of `where`, and none where
\* it may update the item that is there.
LEMMA CreateEffect ==
    ASSUME NEW c \in Collection, NEW where \in SUBSET Id,
           NEW content \in Content \ {"absent"}, NEW upserts \in BOOLEAN,
           NEW x \in Create(c, where, content, upserts)
    PROVE  /\ x \in EffectType
           /\ x.code <= 299 => \E i \in Id : x.store[i] = content
           /\ \/ Present(x.store) = Present(c)
              \/ /\ \E i \in where : Present(x.store) = Present(c) \union {i}
                 /\ upserts => Present(c) \intersect where = {}
<1> DEFINE hits  == Present(c) \intersect where
           slots == IF hits # {} /\ upserts THEN hits ELSE where \ Present(c)
<1>1. x \in {Effect([c EXCEPT ![i] = content], Success) : i \in slots}
              \union IF hits # {} /\ ~upserts THEN {Effect(c, 409)} ELSE {}
  BY DEF Create
<1>2. /\ slots \subseteq Id /\ slots \subseteq where
      /\ slots \subseteq Present(c) \/ (upserts => hits = {})
  BY DEF Present
<1> HIDE DEF slots
<1>3. CASE x \in {Effect([c EXCEPT ![i] = content], Success) : i \in slots}
  <2>1. PICK i \in slots : x = Effect([c EXCEPT ![i] = content], Success)
    BY <1>3
  <2>2. [c EXCEPT ![i] = content] \in Collection
    BY <1>2, <2>1 DEF Collection
  <2>3. Present([c EXCEPT ![i] = content]) = Present(c) \union {i}
    BY <1>2, <2>1 DEF Collection, Present
  <2>4. [c EXCEPT ![i] = content][i] = content
    BY <1>2, <2>1 DEF Collection
  <2> QED
    BY <1>2, <2>1, <2>2, <2>3, <2>4 DEF Effect, EffectType
<1>4. CASE x \in IF hits # {} /\ ~upserts THEN {Effect(c, 409)} ELSE {}
  BY <1>4 DEF Effect, EffectType
<1> QED
  BY <1>1, <1>3, <1>4

\* A faulty write is an error, and was applied as in order or not at all.
LEMMA FaultEffect ==
    ASSUME NEW c \in Collection, NEW effects \in SUBSET EffectType,
           NEW x \in WriteFaults(c, effects)
    PROVE  /\ x \in EffectType /\ x.code > 299
           /\ x.store = c \/ \E y \in effects : x.store = y.store
BY ServiceAssumption DEF WriteFaults, Effect, EffectType, NetworkError

-----------------------------------------------------------------------------
(* The control flow: a strategy ends the action or sends another request.  *)

Goes(code) ==
    \/ Return \/ ReturnErr
    \/ \E m \in Method, i \in Id \union {NoId} : Send(m, i, code)

LEMMA AfterGetGoes ==
    ASSUME NEW r \in Reply, AfterGet(r)
    PROVE  Goes(r.code)
<1>1. Found(r) \in Id \union {NoId} /\ NoId \in Id \union {NoId}
  BY DEF Found, Reply
<1>2. {"POST", "PUT", "PATCH", "DELETE"} \subseteq Method
  BY DEF Method
<1>3. GetPost(r) => Goes(r.code)
  BY <1>1, <1>2 DEF GetPost, Goes
<1>4. FindPost(r) => Goes(r.code)
  BY <1>1, <1>2 DEF FindPost, Goes
<1>5. \A m \in {"PUT", "PATCH"} : FindUpdatePost(r, m) => Goes(r.code)
  BY <1>1, <1>2 DEF FindUpdatePost, Goes
<1>6. FindDeletePost(r) => Goes(r.code)
  BY <1>1, <1>2 DEF FindDeletePost, Goes
<1>7. GetPutPost(r) => Goes(r.code)
  BY <1>1, <1>2 DEF GetPutPost, Goes
<1> QED
  BY <1>3, <1>4, <1>5, <1>6, <1>7 DEF AfterGet, FindPutPost, FindPatchPost

LEMMA PutPostGoes ==
    ASSUME NEW code, PutPost(code)
    PROVE  Goes(code)
BY DEF PutPost, Goes, Method

LEMMA ReturnCodeGoes ==
    ASSUME NEW code \in Nat, ReturnCode(code)
    PROVE  Goes(code)
BY DEF ReturnCode, Goes, Return, ReturnErr, IsError

LEMMA AfterDeleteGoes ==
    ASSUME NEW code, foundId \in Id \union {NoId}, AfterDelete(code)
    PROVE  Goes(code)
BY DEF AfterDelete, Goes, Method

LEMMA AppendErrsType ==
    ASSUME errs \in [Action -> Nat], NEW fnFailed \in BOOLEAN
    PROVE  AppendErrs(fnFailed) \in [Action -> Nat]
BY DEF AppendErrs

LEMMA GoesType ==
    ASSUME RunTypeOK, cur \in Action, NEW code \in Nat, Goes(code)
    PROVE  RunTypeOK'
<1>1. CASE Return \/ ReturnErr
  <2>1. PICK f \in BOOLEAN : EndAction(f)
    BY <1>1 DEF Return, ReturnErr
  <2>2. errs' \in [Action -> Nat]
    BY <2>1, AppendErrsType DEF EndAction, RunTypeOK
  <2> QED
    BY <2>1, <2>2 DEF EndAction, RunTypeOK
<1>2. CASE \E m \in Method, i \in Id \union {NoId} : Send(m, i, code)
  BY <1>2, SeederAssumption DEF Send, RunTypeOK, Method
<1> QED
  BY <1>1, <1>2 DEF Goes
-----------------------------------------------------------------------------
(* The type invariant.                                                     *)

LEMMA CallArguments ==
    ASSUME TypeOK, pc \in Method
    PROVE  /\ cur \in Action /\ cfg \in ActionConfig
           /\ store[cur] \in Collection
           /\ Where(cfg.strategy) \in SUBSET Id
           /\ PathId \in Id
           /\ Payload \in Content \ {"absent"}
<1>1. cur \in Action
  BY DEF TypeOK, RunTypeOK, Method
<1>2. cfg \in ActionConfig
  BY <1>1, SeederAssumption DEF TypeOK, JobTypeOK, cfg
<1>3. store[cur] \in Collection
  BY <1>1 DEF TypeOK, WorldTypeOK
<1>4. Where(cfg.strategy) \in SUBSET Id
  BY ServiceAssumption DEF Where
<1>5. PathId \in Id
  BY ServiceAssumption DEF PathId, TypeOK, RunTypeOK
<1>6. Payload \in Content \ {"absent"}
  BY DEF Payload, Content
<1> QED
  BY <1>1, <1>2, <1>3, <1>4, <1>5, <1>6

\* The effects in order of the write that is due, and what they are.
Effects ==
    IF pc = "PUT" THEN Update(store[cur], PathId, Payload, cfg.putCreates /\ KnowsId(cfg.strategy))
    ELSE IF pc = "PATCH" THEN Update(store[cur], PathId, Payload, FALSE)
    ELSE IF pc = "DELETE" THEN Delete(store[cur], PathId)
    ELSE Create(store[cur], Where(cfg.strategy), Payload,
                cfg.postIsPut \/ KnowsId(cfg.strategy))

LEMMA EffectsType ==
    ASSUME TypeOK, pc \in Method
    PROVE  Effects \subseteq EffectType
<1> DEFINE creates == cfg.putCreates /\ KnowsId(cfg.strategy)
           upserts == cfg.postIsPut \/ KnowsId(cfg.strategy)
<1>1. creates \in BOOLEAN /\ upserts \in BOOLEAN
  BY CallArguments DEF ActionConfig, KnowsId
<1> HIDE DEF creates, upserts
<1>2. Update(store[cur], PathId, Payload, creates) \subseteq EffectType
  BY <1>1, CallArguments, UpdateEffect
<1>3. Update(store[cur], PathId, Payload, FALSE) \subseteq EffectType
  BY CallArguments, UpdateEffect
<1>4. Delete(store[cur], PathId) \subseteq EffectType
  BY CallArguments, DeleteEffect
<1>5. Create(store[cur], Where(cfg.strategy), Payload, upserts) \subseteq EffectType
  BY <1>1, CallArguments, CreateEffect
<1> QED
  BY <1>2, <1>3, <1>4, <1>5 DEF Effects, creates, upserts

AfterWrite(code) ==
    \/ pc = "PUT" /\ cfg.strategy = "PUT/POST" /\ PutPost(code)
    \/ pc = "PUT" /\ cfg.strategy # "PUT/POST" /\ ReturnCode(code)
    \/ pc = "DELETE" /\ AfterDelete(code)
    \/ pc \in {"PATCH", "POST"} /\ ReturnCode(code)

LEMMA FaultType ==
    ASSUME faults \in Nat, clean \in BOOLEAN, Fault \/ UNCHANGED <<faults, clean>>
    PROVE  faults' \in Nat /\ clean' \in BOOLEAN
<1>1. faults' \in Nat BY DEF Fault
<1>2. CASE Fault
  <2>1. clean' = FALSE BY <1>2 DEF Fault
  <2> QED BY <1>1, <2>1
<1>3. CASE UNCHANGED <<faults, clean>> BY <1>3
<1> QED BY <1>1, <1>2, <1>3

\* Every write in one form: some effect, in order or faulty, and what follows.
LEMMA WriteStep ==
    ASSUME TypeOK, put \/ patch \/ delete \/ post
    PROVE  /\ pc \in Method /\ pc # "GET"
           /\ \E x \in Effects \union WriteFaults(store[cur], Effects) :
                store' = [store EXCEPT ![cur] = x.store] /\ AfterWrite(x.code)
           /\ UNCHANGED <<job, touched, raced, drift>>
           /\ faults' \in Nat /\ clean' \in BOOLEAN
<1> SUFFICES /\ pc \in Method /\ pc # "GET"
             /\ \E x \in Effects \union WriteFaults(store[cur], Effects) :
                  store' = [store EXCEPT ![cur] = x.store] /\ AfterWrite(x.code)
             /\ UNCHANGED <<job, touched, raced, drift>>
             /\ Fault \/ UNCHANGED <<faults, clean>>
  BY FaultType DEF TypeOK, WorldTypeOK
<1>1. CASE put
  <2>1. pc = "PUT" /\ Effects = Update(store[cur], PathId, Payload,
                                      cfg.putCreates /\ KnowsId(cfg.strategy))
    BY <1>1 DEF put, Effects
  <2>2. CASE cfg.strategy = "PUT/POST"
    BY <1>1, <2>1, <2>2 DEF put, Write, AfterWrite, Method
  <2>3. CASE cfg.strategy # "PUT/POST"
    BY <1>1, <2>1, <2>3 DEF put, Write, AfterWrite, Method
  <2> QED
    BY <2>2, <2>3
<1>2. CASE patch
  <2> DEFINE E == Update(store[cur], PathId, Payload, FALSE)
  <2>1. pc = "PATCH" /\ Effects = E
    BY <1>2 DEF patch, Effects
  <2>2. Write(E, ReturnCode)
    BY <1>2 DEF patch
  <2> HIDE DEF E
  <2> QED
    BY <2>1, <2>2 DEF Write, AfterWrite, Method
<1>3. CASE delete
  <2>1. pc = "DELETE" /\ Effects = Delete(store[cur], PathId)
    BY <1>3 DEF delete, Effects
  <2> QED
    BY <1>3, <2>1 DEF delete, Write, AfterWrite, Method
<1>4. CASE post
  <2>1. pc = "POST" /\ Effects = Create(store[cur], Where(cfg.strategy), Payload,
                                         cfg.postIsPut \/ KnowsId(cfg.strategy))
    BY <1>4 DEF post, Effects
  <2> QED
    BY <1>4, <2>1 DEF post, Write, AfterWrite, Method
<1> QED
  BY <1>1, <1>2, <1>3, <1>4

LEMMA GetStep ==
    ASSUME TypeOK, get
    PROVE  /\ pc = "GET" /\ pc \in Method
           /\ \E r \in GetReplies(store[cur], Where(cfg.strategy), cfg.notFound) \union GetFaults :
                AfterGet(r) /\ r \in Reply /\ r.code \in Nat
           /\ UNCHANGED <<job, store, touched, raced, drift>>
           /\ faults' \in Nat /\ clean' \in BOOLEAN
<1>1. pc = "GET" /\ pc \in Method
  BY DEF get, Method
<1>2. cfg.notFound \in NotFoundStyle
  BY <1>1, CallArguments DEF ActionConfig
<1>3. \E r \in GetReplies(store[cur], Where(cfg.strategy), cfg.notFound) \union GetFaults :
        AfterGet(r)
  BY DEF get
<1>4. \A r \in GetReplies(store[cur], Where(cfg.strategy), cfg.notFound) \union GetFaults :
        r \in Reply /\ r.code \in Nat
  BY <1>1, <1>2, CallArguments, ReplyType
<1>5. Fault \/ UNCHANGED <<faults, clean>> BY DEF get
<1> QED
  BY <1>1, <1>3, <1>4, <1>5, FaultType DEF get, TypeOK, WorldTypeOK

LEMMA AfterWriteGoes ==
    ASSUME RunTypeOK, NEW code \in Nat, AfterWrite(code)
    PROVE  Goes(code)
BY PutPostGoes, ReturnCodeGoes, AfterDeleteGoes DEF AfterWrite, RunTypeOK

\* What every HTTP call has in common.
LEMMA CallStep ==
    ASSUME TypeOK, get \/ put \/ patch \/ delete \/ post
    PROVE  /\ cur \in Action /\ pc \in Method
           /\ \E code \in Nat : Goes(code)
           /\ \E s \in Collection : store' = [store EXCEPT ![cur] = s]
           /\ UNCHANGED <<job, touched, raced, drift>>
           /\ faults' \in Nat /\ clean' \in BOOLEAN
<1>1. CASE get
  <2>1. PICK r \in Reply : AfterGet(r) /\ r.code \in Nat
    BY <1>1, GetStep DEF Reply
  <2>2. store' = [store EXCEPT ![cur] = store[cur]] /\ store[cur] \in Collection
    BY <1>1, GetStep, CallArguments DEF TypeOK, WorldTypeOK
  <2> QED
    BY <1>1, <2>1, <2>2, GetStep, CallArguments, AfterGetGoes
<1>2. CASE put \/ patch \/ delete \/ post
  <2>1. PICK x \in Effects \union WriteFaults(store[cur], Effects) :
          store' = [store EXCEPT ![cur] = x.store] /\ AfterWrite(x.code)
    BY <1>2, WriteStep
  <2>2. x \in EffectType
    BY <1>2, <2>1, WriteStep, CallArguments, EffectsType, FaultEffect
  <2>3. Goes(x.code)
    BY <2>1, <2>2, AfterWriteGoes DEF EffectType, TypeOK
  <2> QED
    BY <1>2, <2>1, <2>2, <2>3, WriteStep, CallArguments DEF EffectType
<1> QED
  BY <1>1, <1>2

THEOREM TypeInit == Init => TypeOK
<1> SUFFICES ASSUME Init PROVE TypeOK
  OBVIOUS
<1>1. JobTypeOK
  BY DEF Init, JobTypeOK
<1>2. RunTypeOK
  BY SeederAssumption DEF Init, RunTypeOK, Method
<1>3. WorldTypeOK
  BY SeederAssumption DEF Init, WorldTypeOK, Collection, Content
<1> QED
  BY <1>1, <1>2, <1>3 DEF TypeOK

LEMMA TypeStep ==
    ASSUME TypeOK, [Next]_vars
    PROVE  TypeOK'
<1> USE DEF TypeOK, JobTypeOK
<1>1. CASE get \/ put \/ patch \/ delete \/ post
  <2>1. RunTypeOK'
    BY <1>1, CallStep, GoesType
  <2>2. WorldTypeOK' /\ JobTypeOK'
    BY <1>1, CallStep DEF WorldTypeOK
  <2> QED
    BY <2>1, <2>2
<1>2. CASE Execute
  BY <1>2 DEF Execute, BeginRun, RunTypeOK, WorldTypeOK
<1>3. CASE ExecuteNoAuth
  <2>1. faults' \in Nat /\ clean' \in BOOLEAN
    BY <1>3, FaultType DEF ExecuteNoAuth, WorldTypeOK
  <2> QED
    BY <1>3, <2>1 DEF ExecuteNoAuth, BeginRun, RunTypeOK, WorldTypeOK
<1>4. CASE \E a \in Action : performAction(a)
  <2>1. PICK a \in Action : performAction(a)
    BY <1>4
  <2>2. raw' \in BOOLEAN
    BY <2>1 DEF performAction
  <2>3. faults' \in Nat /\ clean' \in BOOLEAN
    BY <2>1, FaultType DEF performAction, WorldTypeOK
  <2>4. RunTypeOK'
    BY <2>1, <2>2, SeederAssumption DEF performAction, FirstMethod, Method, RunTypeOK
  <2> QED
    BY <2>1, <2>3, <2>4 DEF performAction, WorldTypeOK
<1>5. CASE \E a \in Action : SkipUnknown(a)
  BY <1>5 DEF SkipUnknown, RunTypeOK, WorldTypeOK, world
<1>6. CASE ExecuteReturns
  BY <1>6 DEF ExecuteReturns, RunTypeOK, WorldTypeOK, world
<1>7. CASE Crash
  <2>1. raw' \in BOOLEAN
    BY <1>7 DEF Crash
  <2>2. faults' \in Nat /\ clean' \in BOOLEAN
    BY <1>7, FaultType DEF Crash, WorldTypeOK
  <2> QED
    BY <1>7, <2>1, <2>2 DEF Crash, RunTypeOK, WorldTypeOK
<1>8. CASE \E a \in Action : Drift(a)
  <2>1. PICK a \in Action : Drift(a)
    BY <1>8
  <2>2. RunTypeOK' /\ JobTypeOK'
    BY <2>1 DEF Drift, RunTypeOK, run
  <2>3. store' \in [Action -> Collection]
    BY <2>1 DEF Drift, WorldTypeOK, Collection, Content
  <2>4. WorldTypeOK'
    BY <2>1, <2>3 DEF Drift, WorldTypeOK
  <2> QED
    BY <2>2, <2>4
<1>9. CASE UNCHANGED vars
  BY <1>9 DEF vars, run, world, RunTypeOK, WorldTypeOK
<1> QED
  BY <1>1, <1>2, <1>3, <1>4, <1>5, <1>6, <1>7, <1>8, <1>9 DEF Next, SeederStep

\* Seeder keeps to its types.
THEOREM TypeCorrect == Spec => []TypeOK
BY TypeInit, TypeStep, PTL DEF Spec
-----------------------------------------------------------------------------
(* At most one copy.                                                       *)

LEMMA ReplyMeaning ==
    ASSUME NEW c \in Collection, NEW where \in SUBSET Id, NEW style \in NotFoundStyle,
           NEW r \in GetReplies(c, where, style) \union GetFaults
    PROVE  /\ r.body = "other" => Present(c) \intersect where = {}
           /\ r.body = "item" => r.id \in Present(c) \intersect where
BY ServiceAssumption
   DEF GetReplies, GetFaults, NotFoundReply, NotFoundStyle, Failed, Present

\* What UniqueInv asks of the request a strategy sends next.
Sound(m, i) ==
    /\ i # NoId => ~KnowsId(cfg.strategy)
    /\ m = "POST" /\ Recognises(cur) =>
         KnowsId(cfg.strategy) \/ cfg.postIsPut \/ Present(store[cur]) = {}

SoundlyGoes(code) ==
    \/ Return \/ ReturnErr
    \/ \E m \in Method, i \in Id \union {NoId} : Sound(m, i) /\ Send(m, i, code)

LEMMA AfterGetSound ==
    ASSUME TypeOK, pc = "GET",
           NEW r \in GetReplies(store[cur], Where(cfg.strategy), cfg.notFound) \union GetFaults,
           AfterGet(r)
    PROVE  SoundlyGoes(r.code)
<1>1. pc \in Method /\ {"POST", "PUT", "PATCH", "DELETE"} \subseteq Method
  BY DEF Method
<1>2. /\ cur \in Action /\ cfg \in ActionConfig
      /\ store[cur] \in Collection /\ Where(cfg.strategy) \in SUBSET Id
      /\ cfg.notFound \in NotFoundStyle
  BY <1>1, CallArguments DEF ActionConfig
<1>3. r \in Reply /\ NoId \in Id \union {NoId}
  BY <1>2, ReplyType
<1>4. Found(r) \in Id \union {NoId}
  BY <1>3 DEF Found, Reply
<1>5. /\ r.body = "other" => Present(store[cur]) \intersect Where(cfg.strategy) = {}
      /\ r.body = "item" => r.id # NoId
  <2>1. /\ r.body = "other" => Present(store[cur]) \intersect Where(cfg.strategy) = {}
        /\ r.body = "item" => r.id \in Present(store[cur]) \intersect Where(cfg.strategy)
    BY <1>2, ReplyMeaning
  <2> QED
    BY <1>2, <2>1, ServiceAssumption
<1>6. Recognises(cur) => KnowsId(cfg.strategy) \/ cfg.expr
  BY DEF Recognises, cfg
\* A search that comes up empty has seen that there is nothing.
<1>7. ASSUME ~KnowsId(cfg.strategy), ~FindFails(r), Found(r) = NoId
      PROVE  Sound("POST", NoId)
  <2>1. CASE ~cfg.expr
    BY <1>6, <1>7, <2>1 DEF Sound
  <2>2. CASE cfg.expr
    <3>1. r.body = "other"
      BY <1>3, <1>5, <1>7, <2>2 DEF FindFails, Found, Reply, Body
    <3>2. Present(store[cur]) = {}
      BY <1>5, <1>7, <3>1 DEF Where, Present
    <3> QED
      BY <3>2 DEF Sound
  <2> QED
    BY <2>1, <2>2
<1>8. KnowsId(cfg.strategy) => Sound("POST", NoId) /\ Sound("PUT", NoId)
  BY DEF Sound
<1>9. ~KnowsId(cfg.strategy) => \A m \in {"PUT", "PATCH", "DELETE"} : Sound(m, Found(r))
  BY DEF Sound
<1>10. CASE cfg.strategy = "GET/POST"
  BY <1>1, <1>3, <1>8, <1>10 DEF AfterGet, GetPost, KnowsId, SoundlyGoes
<1>11. CASE cfg.strategy = "FIND/POST"
  <2>1. ~KnowsId(cfg.strategy) /\ FindPost(r)
    BY <1>11 DEF AfterGet, KnowsId
  <2>2. cfg.postIsPut => Sound("POST", NoId)
    BY DEF Sound
  <2> QED
    BY <1>1, <1>3, <1>7, <2>1, <2>2 DEF FindPost, SoundlyGoes
<1>12. CASE cfg.strategy \in {"FIND/PUT/POST", "FIND/PATCH/POST"}
  <2>1. ~KnowsId(cfg.strategy) /\ \E m \in {"PUT", "PATCH"} : FindUpdatePost(r, m)
    BY <1>12 DEF AfterGet, KnowsId, FindPutPost, FindPatchPost
  <2> QED
    BY <1>1, <1>3, <1>4, <1>7, <1>9, <2>1 DEF FindUpdatePost, SoundlyGoes
<1>13. CASE cfg.strategy = "FIND/DELETE/POST"
  <2>1. ~KnowsId(cfg.strategy) /\ FindDeletePost(r)
    BY <1>13 DEF AfterGet, KnowsId
  <2> QED
    BY <1>1, <1>3, <1>4, <1>7, <1>9, <2>1 DEF FindDeletePost, SoundlyGoes
<1>14. CASE cfg.strategy = "GET/PUT/POST"
  BY <1>1, <1>3, <1>8, <1>14 DEF AfterGet, GetPutPost, KnowsId, SoundlyGoes
<1> QED
  BY <1>10, <1>11, <1>12, <1>13, <1>14 DEF AfterGet

LEMMA WrittenCopies ==
    ASSUME TypeOK, UniqueInv, pc \in Method \ {"GET"},
           NEW x \in Effects \union WriteFaults(store[cur], Effects)
    PROVE  /\ KnowsId(cfg.strategy) => Present(x.store) \subseteq {KnownId}
           /\ cur \notin raced /\ Recognises(cur) => AtMostOne(x.store)
<1>1. /\ cur \in Action /\ cfg \in ActionConfig /\ store[cur] \in Collection
      /\ Where(cfg.strategy) \in SUBSET Id /\ PathId \in Id
      /\ Payload \in Content \ {"absent"}
  BY CallArguments
<1>2. /\ KnowsId(cfg.strategy) => Present(store[cur]) \subseteq {KnownId}
      /\ cur \notin raced /\ Recognises(cur) => AtMostOne(store[cur])
  BY <1>1 DEF UniqueInv, KnownIdOnly, NoDuplicates, cfg
<1>3. KnowsId(cfg.strategy) => PathId = KnownId
  BY DEF UniqueInv, FoundBySearch, PathId
<1>4. ASSUME NEW y \in Effects
      PROVE  \/ Present(y.store) \subseteq Present(store[cur])
             \/ KnowsId(cfg.strategy) /\ Present(y.store) \subseteq {KnownId}
             \/ /\ ~KnowsId(cfg.strategy)
                /\ cur \notin raced /\ Recognises(cur) =>
                     \E i \in Id : Present(y.store) = {i}
  <2>1. CASE pc = "PUT"
    <3> DEFINE creates == cfg.putCreates /\ KnowsId(cfg.strategy)
    <3>1. y \in Update(store[cur], PathId, Payload, creates) /\ creates \in BOOLEAN
      BY <1>1, <1>4, <2>1 DEF Effects, ActionConfig, KnowsId
    <3>2. creates => KnowsId(cfg.strategy)
      OBVIOUS
    <3> HIDE DEF creates
    <3> QED
      BY <1>1, <1>2, <1>3, <3>1, <3>2, UpdateEffect
  <2>2. CASE pc = "PATCH"
    <3> DEFINE creates == FALSE
    <3>1. y \in Update(store[cur], PathId, Payload, creates) /\ creates \in BOOLEAN
      BY <1>4, <2>2 DEF Effects
    <3>2. ~creates
      OBVIOUS
    <3> HIDE DEF creates
    <3> QED
      BY <1>1, <3>1, <3>2, UpdateEffect
  <2>3. CASE pc = "DELETE"
    BY <1>1, <1>4, <2>3, DeleteEffect DEF Effects
  <2>4. CASE pc = "POST"
    <3> DEFINE upserts == cfg.postIsPut \/ KnowsId(cfg.strategy)
    <3>1. /\ y \in Create(store[cur], Where(cfg.strategy), Payload, upserts)
          /\ upserts \in BOOLEAN
      BY <1>1, <1>4, <2>4 DEF Effects, ActionConfig, KnowsId
    <3>2. upserts <=> cfg.postIsPut \/ KnowsId(cfg.strategy)
      OBVIOUS
    <3> HIDE DEF upserts
    <3>3. \/ Present(y.store) = Present(store[cur])
          \/ /\ \E i \in Where(cfg.strategy) :
                  Present(y.store) = Present(store[cur]) \union {i}
             /\ upserts => Present(store[cur]) \intersect Where(cfg.strategy) = {}
      BY <1>1, <3>1, CreateEffect
    <3>4. CASE KnowsId(cfg.strategy)
      BY <1>2, <3>3, <3>4 DEF Where
    <3>5. CASE ~KnowsId(cfg.strategy)
      <4>1. cur \notin raced /\ Recognises(cur) => cfg.postIsPut \/ Present(store[cur]) = {}
        BY <2>4, <3>5 DEF UniqueInv, PostFindsNone
      <4>2. Where(cfg.strategy) = Id /\ Present(store[cur]) \subseteq Id
        BY <3>5 DEF Where, Present
      <4> QED
        BY <3>2, <3>3, <3>5, <4>1, <4>2
    <3> QED
      BY <3>4, <3>5
  <2> QED
    BY <2>1, <2>2, <2>3, <2>4 DEF Method
<1>5. x.store = store[cur] \/ \E y \in Effects : x.store = y.store
  BY <1>1, EffectsType, FaultEffect
<1> QED
  BY <1>2, <1>4, <1>5 DEF AtMostOne
LEMMA UniqueInit == Init => UniqueInv
<1> SUFFICES ASSUME Init PROVE UniqueInv
  OBVIOUS
<1>1. \A a \in Action : Present(store[a]) \subseteq {KnownId}
  BY DEF Init
<1> QED
  BY <1>1 DEF Init, UniqueInv, KnownIdOnly, FoundBySearch, PostFindsNone, NoDuplicates,
              AtMostOne

\* The steps that leave every collection and every request alone.
LEMMA UniqueKept ==
    ASSUME UniqueInv, UNCHANGED <<job, store, raced>>, foundId' \in {foundId, NoId},
           \/ pc' # "POST" /\ (foundId' # NoId => UNCHANGED cur)
           \/ UNCHANGED <<pc, cur, foundId>>
    PROVE  UniqueInv'
<1>1. KnownIdOnly' /\ NoDuplicates'
  BY DEF UniqueInv, KnownIdOnly, NoDuplicates, Recognises
<1>2. FoundBySearch'
  BY DEF UniqueInv, FoundBySearch, cfg
<1>3. PostFindsNone'
  BY DEF UniqueInv, PostFindsNone, Recognises, cfg
<1> QED
  BY <1>1, <1>2, <1>3 DEF UniqueInv

LEMMA UniqueGet ==
    ASSUME TypeOK, UniqueInv, get
    PROVE  UniqueInv'
<1>1. PICK r \in GetReplies(store[cur], Where(cfg.strategy), cfg.notFound) \union GetFaults :
        AfterGet(r)
  BY GetStep
<1>2. UNCHANGED <<job, store, raced>> /\ pc = "GET" /\ cur \in Action
  BY GetStep, CallArguments
<1>3. SoundlyGoes(r.code)
  BY <1>1, <1>2, AfterGetSound
<1>4. CASE Return \/ ReturnErr
  BY <1>2, <1>4, UniqueKept DEF Return, ReturnErr, EndAction
<1>5. CASE \E m \in Method, i \in Id \union {NoId} : Sound(m, i) /\ Send(m, i, r.code)
  <2>1. PICK m \in Method, i \in Id \union {NoId} : Sound(m, i) /\ Send(m, i, r.code)
    BY <1>5
  <2>2. KnownIdOnly' /\ NoDuplicates'
    BY <1>2 DEF UniqueInv, KnownIdOnly, NoDuplicates, Recognises
  <2>3. FoundBySearch'
    BY <1>2, <2>1, SeederAssumption DEF Sound, Send, FoundBySearch, cfg
  <2>4. PostFindsNone'
    BY <1>2, <2>1 DEF Sound, Send, PostFindsNone, Recognises, cfg
  <2> QED
    BY <2>2, <2>3, <2>4 DEF UniqueInv
<1> QED
  BY <1>3, <1>4, <1>5 DEF SoundlyGoes

LEMMA UniqueWrite ==
    ASSUME TypeOK, UniqueInv, put \/ patch \/ delete \/ post
    PROVE  UniqueInv'
<1>1. PICK x \in Effects \union WriteFaults(store[cur], Effects) :
        store' = [store EXCEPT ![cur] = x.store] /\ AfterWrite(x.code)
  BY WriteStep
<1>2. /\ pc \in Method \ {"GET"} /\ UNCHANGED <<job, raced>>
      /\ cur \in Action /\ store \in [Action -> Collection] /\ store[cur] \in Collection
      /\ PathId \in Id
  BY WriteStep, CallArguments DEF TypeOK, WorldTypeOK
<1>3. /\ KnowsId(cfg.strategy) => Present(x.store) \subseteq {KnownId}
      /\ cur \notin raced /\ Recognises(cur) => AtMostOne(x.store)
  BY <1>2, WrittenCopies
<1>4. KnownIdOnly'
  BY <1>1, <1>2, <1>3 DEF UniqueInv, KnownIdOnly, cfg
<1>5. NoDuplicates'
  BY <1>1, <1>2, <1>3 DEF UniqueInv, NoDuplicates, Recognises
\* What the write sends next, if anything.
<1>6. \/ Return \/ ReturnErr
      \/ KnowsId(cfg.strategy) /\ Send("POST", NoId, x.code)
      \/ pc = "DELETE" /\ x.code <= 299 /\ Send("POST", foundId, x.code)
  <2>1. x.code \in Nat
    BY <1>2, EffectsType, FaultEffect DEF EffectType
  <2> QED
    BY <1>1, <2>1 DEF AfterWrite, PutPost, ReturnCode, AfterDelete, IsError, KnowsId
<1>7. CASE Return \/ ReturnErr
  BY <1>4, <1>5, <1>7
     DEF UniqueInv, FoundBySearch, PostFindsNone, Return, ReturnErr, EndAction
<1>8. CASE KnowsId(cfg.strategy) /\ Send("POST", NoId, x.code)
  BY <1>2, <1>4, <1>5, <1>8 DEF UniqueInv, FoundBySearch, PostFindsNone, Send, cfg
<1>9. CASE pc = "DELETE" /\ x.code <= 299 /\ Send("POST", foundId, x.code)
  <2>1. x \in Delete(store[cur], PathId)
    BY <1>2, <1>9, EffectsType, FaultEffect DEF Effects, EffectType
  <2>2. PathId \in Present(store[cur]) /\ Present(x.store) = Present(store[cur]) \ {PathId}
    BY <1>2, <1>9, <2>1, DeleteEffect
  <2>3. cur \notin raced /\ Recognises(cur) => Present(x.store) = {}
    BY <1>2, <2>2 DEF UniqueInv, NoDuplicates, AtMostOne
  <2>4. PostFindsNone'
    BY <1>1, <1>2, <1>9, <2>3 DEF PostFindsNone, Recognises, Send, cfg
  <2>5. FoundBySearch'
    BY <1>2, <1>9 DEF UniqueInv, FoundBySearch, Send, cfg
  <2> QED
    BY <1>4, <1>5, <2>4, <2>5 DEF UniqueInv
<1> QED
  BY <1>6, <1>7, <1>8, <1>9

LEMMA UniqueDrift ==
    ASSUME TypeOK, UniqueInv, NEW a \in Action, Drift(a)
    PROVE  UniqueInv'
<1>1. /\ UNCHANGED <<job, pc, cur, foundId>>
      /\ pc = "POST" => cur \in Action
  BY DEF Drift, run, TypeOK, RunTypeOK, Method
<1>2. CASE \E i \in Present(store[a]), s \in {"absent", "old"} :
             store' = [store EXCEPT ![a] = [store[a] EXCEPT ![i] = s]] /\ UNCHANGED raced
  <2>1. \A b \in Action : Present(store'[b]) \subseteq Present(store[b])
    BY <1>2 DEF TypeOK, WorldTypeOK, Collection, Present
  <2>2. KnownIdOnly' /\ FoundBySearch'
    BY <1>1, <2>1 DEF UniqueInv, KnownIdOnly, FoundBySearch, cfg
  <2>3. NoDuplicates'
    BY <1>1, <1>2, <2>1 DEF UniqueInv, NoDuplicates, AtMostOne, Recognises
  <2>4. PostFindsNone'
    <3>1. SUFFICES ASSUME PostFindsNone, pc = "POST", cur \in Action, cur \notin raced,
                          Recognises(cur)
                   PROVE  KnowsId(cfg.strategy) \/ cfg.postIsPut \/ Present(store'[cur]) = {}
      BY <1>1, <1>2 DEF UniqueInv, PostFindsNone, Recognises, cfg
    <3> QED
      BY <2>1, <3>1 DEF PostFindsNone
  <2> QED
    BY <2>2, <2>3, <2>4 DEF UniqueInv
<1>3. CASE /\ Present(store[a]) = {}
           /\ \E i \in Where(job.act[a].strategy) :
                store' = [store EXCEPT ![a] = [store[a] EXCEPT ![i] = "old"]]
           /\ raced' = IF cur = a /\ pc = "POST" THEN raced \union {a} ELSE raced
  <2>1. PICK i \in Where(job.act[a].strategy) :
          store' = [store EXCEPT ![a] = [store[a] EXCEPT ![i] = "old"]]
    BY <1>3
  <2>2. /\ \A b \in Action \ {a} : store'[b] = store[b]
        /\ Present(store'[a]) \subseteq {i}
    BY <1>3, <2>1 DEF TypeOK, WorldTypeOK, Collection, Present
  <2>3. KnownIdOnly'
    BY <1>1, <2>2 DEF UniqueInv, KnownIdOnly, Where
  <2>4. NoDuplicates'
    <3>1. raced \subseteq raced'
      BY <1>3
    <3>2. AtMostOne(store'[a])
      BY <2>2 DEF AtMostOne
    <3> QED
      BY <1>1, <2>2, <3>1, <3>2 DEF UniqueInv, NoDuplicates, Recognises
  <2>5. FoundBySearch' /\ PostFindsNone'
    <3>1. FoundBySearch'
      BY <1>1 DEF UniqueInv, FoundBySearch, cfg
    <3>2. CASE cur = a
      <4>1. pc = "POST" => cur' \in raced'
        BY <1>1, <1>3, <3>2
      <4> QED
        BY <1>1, <3>1, <4>1 DEF PostFindsNone
    <3>3. CASE cur # a
      <4>1. raced' = raced
        BY <1>3, <3>3
      <4>2. pc = "POST" => store'[cur] = store[cur]
        BY <1>1, <2>2, <3>3
      <4> QED
        BY <1>1, <3>1, <4>1, <4>2 DEF UniqueInv, PostFindsNone, Recognises, cfg
    <3> QED
      BY <3>1, <3>2, <3>3
  <2> QED
    BY <2>3, <2>4, <2>5 DEF UniqueInv
<1> QED
  BY <1>2, <1>3 DEF Drift

LEMMA UniqueStep ==
    ASSUME TypeOK, UniqueInv, [Next]_vars
    PROVE  UniqueInv'
<1>1. CASE get
  BY <1>1, UniqueGet
<1>2. CASE put \/ patch \/ delete \/ post
  BY <1>2, UniqueWrite
<1>3. CASE Execute \/ ExecuteNoAuth
  BY <1>3, UniqueKept DEF Execute, ExecuteNoAuth, BeginRun
<1>4. CASE \E a \in Action : performAction(a)
  <2>1. PICK a \in Action : performAction(a)
    BY <1>4
  <2>2. foundId = NoId
    BY <2>1 DEF performAction, UniqueInv, FoundBySearch, TypeOK, RunTypeOK
  <2>3. KnownIdOnly' /\ NoDuplicates'
    BY <2>1 DEF performAction, UniqueInv, KnownIdOnly, NoDuplicates, Recognises
  <2>4. FoundBySearch'
    BY <2>1, <2>2 DEF performAction, FoundBySearch
  <2>5. PostFindsNone'
    BY <2>1 DEF performAction, FirstMethod, PostFindsNone, Recognises
  <2> QED
    BY <2>3, <2>4, <2>5 DEF UniqueInv
<1>5. CASE \E a \in Action : SkipUnknown(a)
  BY <1>5, UniqueKept DEF SkipUnknown, world
<1>6. CASE ExecuteReturns
  BY <1>6, UniqueKept DEF ExecuteReturns, world
<1>7. CASE Crash
  BY <1>7, UniqueKept DEF Crash
<1>8. CASE \E a \in Action : Drift(a)
  BY <1>8, UniqueDrift
<1>9. CASE UNCHANGED vars
  BY <1>9, UniqueKept DEF vars, run, world
<1> QED
  BY <1>1, <1>2, <1>3, <1>4, <1>5, <1>6, <1>7, <1>8, <1>9 DEF Next, SeederStep

\* The seeder never makes a second copy of an item its strategy recognises,
\* except in a race with somebody else's creation.
THEOREM NeverDuplicates == Spec => []NoDuplicates
<1>1. TypeOK /\ UniqueInv /\ [Next]_vars => (TypeOK /\ UniqueInv)'
  BY TypeStep, UniqueStep
<1>2. UniqueInv => NoDuplicates
  BY DEF UniqueInv
<1> QED
  BY TypeInit, UniqueInit, <1>1, <1>2, PTL DEF Spec
-----------------------------------------------------------------------------
(* Success means seeded.                                                   *)

\* The error list is empty for an action after its end exactly if it left no
\* error, and the doubling never makes or loses one.
LEMMA AppendErrsMeaning ==
    ASSUME errs \in [Action -> Nat], raw \in BOOLEAN, cur \in Action,
           NEW f \in BOOLEAN, NEW a \in Action, a = cur => errs[a] = 0
    PROVE  AppendErrs(f)[a] = 0 <=> errs[a] = 0 /\ (a = cur => ~raw /\ ~f)
<1> DEFINE own == (IF raw THEN 1 ELSE 0) + (IF f THEN 1 ELSE 0)
           out == [errs EXCEPT ![cur] = @ + own]
<1>1. own \in Nat /\ (own = 0 <=> ~raw /\ ~f)
  OBVIOUS
<1>2. AppendErrs(f) = IF \E b \in Action : out[b] > 0
                      THEN [b \in Action |-> errs[b] + out[b]] ELSE errs
  BY DEF AppendErrs
<1> HIDE DEF own
<1>3. out \in [Action -> Nat] /\ out[a] = IF a = cur THEN errs[a] + own ELSE errs[a]
  BY <1>1
<1> HIDE DEF out
<1> QED
  BY <1>1, <1>2, <1>3

\* How a call ends when it ends well.
EndsWell(a) == Return /\ (raw \/ job.act[a].strategy = "GET/POST" \/ SeededIn(a, store'[a]))

LEMMA CallEnds ==
    ASSUME TypeOK, NEW a \in Action, a = cur, get \/ put \/ patch \/ delete \/ post
    PROVE  \/ EndsWell(a) \/ ReturnErr
           \/ \E m \in Method, i \in Id \union {NoId}, code \in Nat : Send(m, i, code)
<1>1. CASE get
  <2>1. PICK r \in GetReplies(store[cur], Where(cfg.strategy), cfg.notFound) \union GetFaults :
          AfterGet(r) /\ r \in Reply /\ r.code \in Nat
    BY <1>1, GetStep
  <2>2. store' = store /\ pc \in Method
    BY <1>1, GetStep
  <2>3. CASE cfg.strategy = "GET/POST"
    BY <2>1, <2>3, AfterGetGoes DEF Goes, EndsWell, cfg
  <2>4. CASE cfg.strategy = "FIND/POST"
    <3>1. FindPost(r)
      BY <2>1, <2>4 DEF AfterGet
    <3>2. ASSUME Found(r) # NoId, ~cfg.postIsPut
          PROVE  SeededIn(a, store'[a])
      <4>1. r.body = "item"
        BY <3>2 DEF Found
      <4>2. r.id \in Present(store[cur])
        BY <2>2, <4>1, CallArguments, ReplyMeaning DEF ActionConfig
      <4> QED
        BY <2>2, <2>4, <3>2, <4>2 DEF SeededIn, KeepsExisting, cfg
    <3> QED
      BY <2>1, <3>1, <3>2 DEF FindPost, EndsWell, Method
  <2>5. CASE cfg.strategy \notin {"GET/POST", "FIND/POST"}
    <3>1. Found(r) \in Id \union {NoId} /\ {"POST", "PUT", "PATCH", "DELETE"} \subseteq Method
      BY <2>1 DEF Found, Reply, Method
    <3>2. (\E m \in {"PUT", "PATCH"} : FindUpdatePost(r, m)) \/ FindDeletePost(r) \/ GetPutPost(r)
      BY <2>1, <2>5 DEF AfterGet, FindPutPost, FindPatchPost
    <3> QED
      BY <2>1, <3>1, <3>2 DEF FindUpdatePost, FindDeletePost, GetPutPost
  <2> QED
    BY <2>3, <2>4, <2>5
<1>2. CASE put \/ patch \/ delete \/ post
  <2>1. PICK x \in Effects \union WriteFaults(store[cur], Effects) :
          store' = [store EXCEPT ![cur] = x.store] /\ AfterWrite(x.code)
    BY <1>2, WriteStep
  <2>2. /\ pc \in Method \ {"GET"} /\ store \in [Action -> Collection]
        /\ x.code \in Nat /\ (x.code <= 299 => x \in Effects)
    BY <1>2, WriteStep, CallArguments, EffectsType, FaultEffect
       DEF EffectType, TypeOK, WorldTypeOK
  <2>3. store'[a] = x.store
    BY <2>1, <2>2
  <2>4. ASSUME x.code <= 299, pc # "DELETE", ~raw
        PROVE  SeededIn(a, store'[a])
    <3>1. Payload = "new"
      BY <2>4 DEF Payload
    <3>2. \E i \in Id : x.store[i] = "new"
      <4>1. CASE pc \in {"PUT", "PATCH"}
        <5> DEFINE creates == IF pc = "PUT" THEN cfg.putCreates /\ KnowsId(cfg.strategy) ELSE FALSE
        <5>1. x \in Update(store[cur], PathId, Payload, creates) /\ creates \in BOOLEAN
          BY <2>2, <2>4, <4>1, CallArguments DEF Effects, ActionConfig, KnowsId
        <5> HIDE DEF creates
        <5> QED
          BY <2>2, <2>4, <3>1, <5>1, CallArguments, UpdateEffect
      <4>2. CASE pc = "POST"
        <5> DEFINE upserts == cfg.postIsPut \/ KnowsId(cfg.strategy)
        <5>1. /\ x \in Create(store[cur], Where(cfg.strategy), Payload, upserts)
              /\ upserts \in BOOLEAN
          BY <2>2, <2>4, <4>2, CallArguments DEF Effects, ActionConfig, KnowsId
        <5> HIDE DEF upserts
        <5> QED
          BY <2>2, <2>4, <3>1, <5>1, CallArguments, CreateEffect
      <4> QED
        BY <2>2, <2>4, <4>1, <4>2 DEF Method
    <3> QED
      BY <2>3, <3>2 DEF SeededIn, Present
  <2> QED
    BY <1>2, <2>1, <2>2, <2>4, WriteStep
       DEF AfterWrite, PutPost, ReturnCode, AfterDelete, IsError, EndsWell, Method,
           TypeOK, RunTypeOK
<1> QED
  BY <1>1, <1>2
LEMMA SuccessInit == Init => SuccessInv
BY DEF Init, SuccessInv, CurInv, PassedInv, SucceededVouched, OkInv

LEMMA SuccessEnd ==
    ASSUME TypeOK, SuccessInv, NEW f \in BOOLEAN, EndAction(f), pc \in Method,
           UNCHANGED <<job, touched>>,
           \E c \in Collection : store' = [store EXCEPT ![cur] = c],
           ~f /\ ~raw => job.act[cur].strategy = "GET/POST" \/ SeededIn(cur, store'[cur])
    PROVE  SuccessInv'
<1>1. /\ cur \in Action /\ cur \notin todo /\ job.act[cur].strategy \in Known
      /\ errs[cur] = 0 /\ cur \notin succeeded
  BY CallArguments DEF SuccessInv, CurInv, PassedInv, TypeOK, RunTypeOK, Method, cfg
<1>2. \A a \in Action : errs'[a] = 0 <=> errs[a] = 0 /\ (a = cur => ~raw /\ ~f)
  BY <1>1, AppendErrsMeaning DEF EndAction, TypeOK, RunTypeOK
<1>3. \A a \in Action : a \in succeeded' <=> a \in succeeded \/ (a = cur /\ ~f /\ ~raw)
  BY <1>1 DEF EndAction
<1>4. todo' = todo /\ cur' = NoAction /\ result' = result
  BY DEF EndAction
<1>5. PassedInv'
  BY <1>1, <1>2, <1>3, <1>4, SeederAssumption DEF SuccessInv, PassedInv
<1>6. SucceededVouched'
  <2>1. SUFFICES ASSUME NEW a \in succeeded' \ touched
                 PROVE  Vouched(a)'
    BY DEF SucceededVouched
  <2>2. a \in Action
    BY <1>1 DEF EndAction, TypeOK, RunTypeOK
  <2>3. CASE a = cur
    BY <1>1, <1>3, <2>2, <2>3 DEF Vouched, Seeded, SeededIn, KeepsExisting
  <2>4. CASE a # cur
    <3>1. a \in succeeded /\ store'[a] = store[a]
      BY <1>3, <2>2, <2>4 DEF TypeOK, WorldTypeOK
    <3> QED
      BY <3>1 DEF SuccessInv, SucceededVouched, Vouched, Seeded, SeededIn, KeepsExisting
  <2> QED
    BY <2>3, <2>4
<1>7. CurInv' /\ OkInv'
  BY <1>4 DEF SuccessInv, CurInv, OkInv, Method
<1> QED
  BY <1>5, <1>6, <1>7 DEF SuccessInv

LEMMA SuccessCall ==
    ASSUME TypeOK, SuccessInv, get \/ put \/ patch \/ delete \/ post
    PROVE  SuccessInv'
<1>1. /\ cur \in Action /\ pc \in Method /\ UNCHANGED <<job, touched>>
      /\ store \in [Action -> Collection]
      /\ \E c \in Collection : store' = [store EXCEPT ![cur] = c]
  BY CallStep DEF TypeOK, WorldTypeOK
<1>2. CASE EndsWell(cur)
  BY <1>1, <1>2, SuccessEnd DEF EndsWell, Return
<1>3. CASE ReturnErr
  BY <1>1, <1>3, SuccessEnd DEF ReturnErr
<1>4. CASE \E m \in Method, i \in Id \union {NoId}, code \in Nat : Send(m, i, code)
  <2>1. /\ UNCHANGED <<cur, todo, errs, result, succeeded>> /\ pc' \in Method
    BY <1>4 DEF Send
  <2>2. CurInv' /\ PassedInv' /\ OkInv'
    BY <1>1, <2>1 DEF SuccessInv, CurInv, PassedInv, OkInv, cfg, HasErrs, Method
  <2>3. SucceededVouched'
    <3>1. \A a \in succeeded : a \in Action /\ a # cur
      BY <1>1 DEF SuccessInv, PassedInv, TypeOK, RunTypeOK
    <3>2. \A a \in succeeded : store'[a] = store[a]
      BY <1>1, <3>1
    <3> QED
      BY <1>1, <2>1, <3>2
         DEF SuccessInv, SucceededVouched, Vouched, Seeded, SeededIn, KeepsExisting
  <2> QED
    BY <2>2, <2>3 DEF SuccessInv
<1> QED
  BY <1>1, <1>2, <1>3, <1>4, CallEnds

\* Steps that touch neither the collections nor the verdicts on actions.
LEMMA SuccessKept ==
    ASSUME SuccessInv, UNCHANGED <<job, store, touched, errs, succeeded>>,
           CurInv', PassedInv', OkInv'
    PROVE  SuccessInv'
BY DEF SuccessInv, SucceededVouched, Vouched, Seeded, SeededIn, KeepsExisting

LEMMA SuccessStep ==
    ASSUME TypeOK, SuccessInv, [Next]_vars
    PROVE  SuccessInv'
<1>1. CASE get \/ put \/ patch \/ delete \/ post
  BY <1>1, SuccessCall
<1>2. CASE Execute \/ ExecuteNoAuth
  <2>1. /\ todo' = Action /\ succeeded' = {} /\ errs' = [a \in Action |-> 0]
        /\ result' # "ok" /\ UNCHANGED <<job, cur>> /\ cur = NoAction
    BY <1>2 DEF Execute, ExecuteNoAuth, BeginRun, TypeOK, RunTypeOK
  <2> QED
    BY <2>1 DEF SuccessInv, CurInv, PassedInv, SucceededVouched, OkInv
<1>3. CASE \E a \in Action : performAction(a)
  <2>1. PICK a \in Action : performAction(a)
    BY <1>3
  <2>2. cur = NoAction /\ result # "ok" /\ a # NoAction
    BY <2>1, SeederAssumption DEF performAction, TypeOK, RunTypeOK, SuccessInv, OkInv
  <2>3. CurInv' /\ OkInv'
    BY <2>1, <2>2 DEF performAction, CurInv, OkInv, cfg
  <2>4. PassedInv'
    BY <2>1, <2>2, SeederAssumption DEF performAction, AtHead, SuccessInv, PassedInv
  <2> QED
    BY <2>1, <2>3, <2>4, SuccessKept DEF performAction
<1>4. CASE \E a \in Action : SkipUnknown(a)
  <2>1. PICK a \in Action : SkipUnknown(a)
    BY <1>4
  <2>2. CurInv' /\ PassedInv' /\ OkInv'
    BY <2>1, SeederAssumption
       DEF SkipUnknown, AtHead, SuccessInv, CurInv, PassedInv, OkInv, cfg
  <2> QED
    BY <2>1, <2>2, SuccessKept DEF SkipUnknown, world
<1>5. CASE ExecuteReturns
  <2>1. CurInv' /\ PassedInv'
    BY <1>5 DEF ExecuteReturns, SuccessInv, CurInv, PassedInv, cfg
  <2>2. OkInv'
    BY <1>5 DEF ExecuteReturns, OkInv, Stopped, HasErrs
  <2> QED
    BY <1>5, <2>1, <2>2, SuccessKept DEF ExecuteReturns, world
<1>6. CASE Crash
  BY <1>6 DEF Crash, SuccessInv, CurInv, PassedInv, SucceededVouched, OkInv
<1>7. CASE \E a \in Action : Drift(a)
  <2>1. PICK a \in Action : Drift(a)
    BY <1>7
  <2>2. /\ UNCHANGED <<job, pc, cur, todo, errs, result, succeeded>>
        /\ touched' = touched \union {a}
        /\ \A b \in Action \ {a} : store'[b] = store[b]
    BY <2>1 DEF Drift, run, TypeOK, WorldTypeOK
  <2>3. CurInv' /\ PassedInv' /\ OkInv'
    BY <2>2 DEF SuccessInv, CurInv, PassedInv, OkInv, cfg, HasErrs
  <2>4. SucceededVouched'
    BY <2>2 DEF TypeOK, RunTypeOK, SuccessInv, SucceededVouched, Vouched, Seeded,
                SeededIn, KeepsExisting
  <2> QED
    BY <2>3, <2>4 DEF SuccessInv
<1>8. CASE UNCHANGED vars
  <2>1. CurInv' /\ PassedInv' /\ OkInv'
    BY <1>8 DEF vars, run, SuccessInv, CurInv, PassedInv, OkInv, cfg, HasErrs
  <2> QED
    BY <1>8, <2>1, SuccessKept DEF vars, run, world
<1> QED
  BY <1>1, <1>2, <1>3, <1>4, <1>5, <1>6, <1>7, <1>8 DEF Next, SeederStep

\* When Execute returns nil, every item is as the definition wants it, unless
\* others changed it since the run began.
THEOREM SuccessIsTrue == Spec => []SuccessMeansSeeded
<1>1. TypeOK /\ SuccessInv /\ [Next]_vars => (TypeOK /\ SuccessInv)'
  BY TypeStep, SuccessStep
<1>2. TypeOK /\ SuccessInv => SuccessMeansSeeded
  <2> SUFFICES ASSUME TypeOK, SuccessInv, result = "ok", NEW a \in Action \ touched,
                      job.act[a].strategy \in Known
               PROVE  Vouched(a)
    BY DEF SuccessMeansSeeded
  <2>1. a \notin todo /\ a # cur /\ errs[a] = 0
    BY SeederAssumption DEF SuccessInv, OkInv, HasErrs, TypeOK, RunTypeOK
  <2> QED
    BY <2>1 DEF SuccessInv, PassedInv, SucceededVouched
<1> QED
  BY TypeInit, SuccessInit, <1>1, <1>2, PTL DEF Spec

\* Every action the loop has passed succeeded or has its errors in the list.
THEOREM ErrorsAreComplete == Spec => []ErrorsComplete
<1>1. TypeOK /\ SuccessInv /\ [Next]_vars => (TypeOK /\ SuccessInv)'
  BY TypeStep, SuccessStep
<1>2. TypeOK /\ SuccessInv => ErrorsComplete
  BY SeederAssumption DEF TypeOK, RunTypeOK, SuccessInv, PassedInv, OkInv, ErrorsComplete
<1> QED
  BY TypeInit, SuccessInit, <1>1, <1>2, PTL DEF Spec
=============================================================================
