----------------------------- MODULE RestService -----------------------------
(***************************************************************************)
(* The remote REST service the seeder talks to, as far as the seeder's     *)
(* strategies assume anything of it.  It is external: nothing under src/   *)
(* implements it, every definition is what seeder/rest.go and              *)
(* seeder/seederstrategies.go rely on.                                     *)
(*                                                                         *)
(* Each action of a run owns one collection.  A collection maps an item id *)
(* to the content of the copy of "the item to be seeded" stored under it:  *)
(*   absent - no such copy          old - somebody else's settings         *)
(*   new    - the action's payload  raw - the action's payload with a      *)
(*                                        ConfigManager token left in it   *)
(***************************************************************************)
EXTENDS Integers

CONSTANTS
    Id,          \* ids the service hands out
    KnownId,     \* the id a user put in an endpoint suffix
    NoId,        \* Action.foundId = ""
    ErrorCodes   \* status codes of failed calls; NetworkError is one of them

NetworkError == 999   \* the code do() gives a call without a usable answer

\* That of a successful one.  No strategy tells one 2XX from another; this is the
\* last that do() lets pass.
Success == 299

ASSUME ServiceAssumption ==
    /\ KnownId \in Id
    /\ NoId \notin Id
    /\ ErrorCodes \subseteq 300..NetworkError
    /\ NetworkError \in ErrorCodes

Content == {"absent", "old", "new", "raw"}
Collection == [Id -> Content]
Present(c) == {i \in Id : c[i] # "absent"}

\* What a GET can carry: the item, a document without it, nothing, or a
\* document the path expression cannot be evaluated on.
Body == {"item", "other", "empty", "bad"}
Reply == [code : Int, body : Body, id : Id \union {NoId}]
Failed(code) == [code |-> code, body |-> "empty", id |-> NoId]

(***************************************************************************)
(* The three ways services say "no such item" to a GET: a 4XX, a document  *)
(* that does not list it, or a 2XX without a body.                         *)
(***************************************************************************)
NotFoundStyle == {"status", "document", "nobody"}

NotFoundReply(style) ==
    IF style = "status"
    THEN Failed(404)
    ELSE [code |-> Success, body |-> IF style = "document" THEN "other" ELSE "empty", id |-> NoId]

\* The answers of a service in order to a GET that looks through `where`.
GetReplies(c, where, style) ==
    LET hits == Present(c) \intersect where IN
    IF hits = {} THEN {NotFoundReply(style)}
                 ELSE {[code |-> Success, body |-> "item", id |-> i] : i \in hits}

\* The answers of a GET that goes wrong: any error code, or a document that
\* is not what the path expression expects.
GetFaults == {Failed(e) : e \in ErrorCodes}
               \union {[code |-> Success, body |-> "bad", id |-> NoId]}

(***************************************************************************)
(* What a write leaves behind and the code it is answered with.  `creates` *)
(* says whether PUT on an unknown id creates it.                           *)
(***************************************************************************)
Effect(c, code) == [store |-> c, code |-> code]

Update(c, i, content, creates) ==
    IF i \in Present(c) \/ creates THEN {Effect([c EXCEPT ![i] = content], Success)}
                                   ELSE {Effect(c, 404)}

Delete(c, i) ==
    IF i \in Present(c) THEN {Effect([c EXCEPT ![i] = "absent"], Success)}
                        ELSE {Effect(c, 404)}

\* POST makes a copy under a fresh id of `where`.  A service may also refuse
\* a copy of an item it has, or, if `upserts`, must update that item instead.
Create(c, where, content, upserts) ==
    LET hits  == Present(c) \intersect where
        slots == IF hits # {} /\ upserts THEN hits ELSE where \ Present(c)
    IN  {Effect([c EXCEPT ![i] = content], Success) : i \in slots}
          \union IF hits # {} /\ ~upserts THEN {Effect(c, 409)} ELSE {}

\* A faulty write: refused with a 3XX or 4XX, or answered with a 5XX or not at
\* all, in which case the service may have applied it or not.
WriteFaults(c, effects) ==
    {Effect(c, e) : e \in ErrorCodes}
      \union {Effect(x.store, e) : x \in effects, e \in {f \in ErrorCodes : f >= 500}}
=============================================================================
