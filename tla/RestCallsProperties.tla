------------------------ MODULE RestCallsProperties -------------------------
(***************************************************************************)
(* What is claimed of RestCalls.                                           *)
(***************************************************************************)
EXTENDS RestCalls

Variables == [Name -> Value]

TextTypeOK ==
    /\ env \in Variables
    /\ variables \in [Worker -> Variables] /\ runtimeVars \in [Worker -> Variables]
    /\ payload \in [Worker -> Variables] /\ path \in [Worker -> Variables]
    /\ unset \in [Worker -> SUBSET Name]
    /\ \A w \in Worker : object[w] \in [DOMAIN Seed(w) -> Variables]

RunTypeOK ==
    /\ at \in [Worker -> [pc : Steps, act : Nat, method : Method, n : Nat,
                          text : {"payload", "path"}]]
    /\ \A w \in Worker : at[w].pc # "idle" => at[w].act \in DOMAIN Seed(w)
    /\ failed \subseteq Worker /\ denied \subseteq Worker
    /\ result \in [Worker -> {"none", "ok", "error"}]
    /\ faults \in Nat

AuthTypeOK ==
    /\ header \in [Worker -> Header]
    /\ currentToken \in [Worker -> [AuthName -> Credential \union {NoCredential}]]

\* The type invariant of RestCalls.
TypeOK == TextTypeOK /\ RunTypeOK /\ AuthTypeOK

-----------------------------------------------------------------------------
(* Templating.                                                             *)

\* The names a worker's runs ever set, and those nobody else's do.
Sets(w) == UNION {Seed(w)[i].variables \union Seed(w)[i].runtimeVars : i \in DOMAIN Seed(w)}
Private(w) == {k \in Name : \A v \in Worker \ {w} : k \notin Sets(v)}

\* What a name stands for in a text of w's current action: what the run has
\* captured under it, or else what the action declares.
Meant(w, k) ==
    IF runtimeVars[w][k] # NoValue THEN runtimeVars[w][k] ELSE Given(w, at[w].act)[k]

\* What action n may find under a name for which the run has no value: the declaration
\* of the nearest action before, or else what an earlier run of this resource left
\* behind or what the process was started with.
Left(w, n, k, v) ==
    LET before == {i \in 1..(n - 1) : k \in Seed(w)[i].variables} IN
    IF before # {}
    THEN \E i \in before : v = From(w, i, "variables") /\ \A j \in before : j <= i
    ELSE v = NewEnv[k] \/ (v \in Origin /\ v.by = w /\ v.run = "earlier")

Filled(w, k, v) == IF Meant(w, k) # NoValue THEN v = Meant(w, k) ELSE Left(w, at[w].act, k, v)

\* The environment is shared with all the other runs and nothing is ever taken
\* out of it again.  What a text is filled with under a name that no other
\* resource sets is, in this order: what this run captured; what the action
\* declares; what the nearest action before it declared; and only where the run
\* has no value at all, what an earlier run left or the shell gave.  So a value
\* of this run never loses against an older one, whatever others do meanwhile.
OwnValues ==
    [][\A w \in Worker : Expand(w) =>
         \A k \in Private(w) :
            /\ at[w].text = "payload" /\ k \in cur(w).payload => Filled(w, k, payload'[w][k])
            /\ at[w].text = "path" /\ k \in cur(w).path => Filled(w, k, path'[w][k])]_vars

-----------------------------------------------------------------------------
(* Authentication.                                                         *)

Wanted(w) ==
    LET a == auth(w)
        n == cur(w).authMapRef
    IN [k \in HeaderKey |-> IF Protects(a) /\ k = a.key
                            THEN IF Fetches(a) THEN Token(n, at[w].act, at[w].n) ELSE Permanent(n)
                            ELSE NoCredential]

\* The requests of an action share one header map, and a strategy object keeps
\* the token it fetched last, and yet: what is sent with a request is the
\* credential of its action's own entry, a token being one fetched for this very
\* request, and nothing else under any key.
CredentialIsOwn ==
    \A w \in Worker : at[w].pc = "send" /\ ~Refused(header[w]) => header[w] = Wanted(w)

\* A token exchange that fails is only logged (rest.go:261-263), and yet a run
\* in which one failed never reports success.
NilMeansAuthenticated ==
    \A w \in Worker : result[w] = "ok" => w \notin denied

-----------------------------------------------------------------------------
(* Inductive strengthenings (RestCallsProofs).                             *)

\* A run holds values of its own only, under names it sets.
Holds(w) ==
    \A k \in Name : \A v \in {variables[w][k], runtimeVars[w][k]} :
        v # NoValue => v \in Origin /\ v.by = w /\ k \in Sets(w)

\* The map of the action has what the action declares, but for what the run has
\* captured; once it was extended it has that too.
Declares(w) ==
    at[w].pc # "idle" =>
      \A k \in Name : runtimeVars[w][k] = NoValue => variables[w][k] = Given(w, at[w].act)[k]
Extended(w) ==
    at[w].pc = "templating" => \A k \in Name : variables[w][k] = Meant(w, k)

OwnOf(w) == Holds(w) /\ Declares(w) /\ Extended(w) /\ unset[w] \subseteq Entries(variables[w])
OwnInv == \A w \in Worker : OwnOf(w)

\* Between two texts, too, the environment has under a private name what the last
\* text set; what no text of the action sets is as the actions before left it.
Remains(w) ==
    /\ at[w].pc # "templating" => unset[w] = {}
    /\ \A k \in Private(w) :
         /\ env[k] = NewEnv[k] \/ (env[k] \in Origin /\ env[k].by = w)
         /\ at[w].pc # "idle" =>
              IF variables[w][k] = NoValue THEN Left(w, at[w].act, k, env[k])
              ELSE k \notin unset[w] => env[k] = variables[w][k]
RemainsInv == \A w \in Worker : Remains(w)

\* Until its credential is set, a request's header has at most the one of the
\* action's last request, under the same key; from then on it is the one wanted.
Clean(w) ==
    at[w].pc \in {"templating", "request", "auth"} =>
      \A k \in HeaderKey : header[w][k] # NoCredential => Protects(auth(w)) /\ k = auth(w).key
Sent(w) == at[w].pc = "send" /\ ~Refused(header[w]) => header[w] = Wanted(w)
AuthInv == \A w \in Worker : Clean(w) /\ Sent(w)

\* An exchange that failed leaves a header net/http refuses, so that an error follows.
Denied(w) ==
    /\ w \in denied => w \in failed \/ (at[w].pc = "send" /\ Refused(header[w]))
    /\ result[w] = "ok" => w \notin failed /\ at[w].pc = "idle"
DeniedInv == \A w \in Worker : Denied(w)

-----------------------------------------------------------------------------
(* What a comment says and the code does not do.                           *)

\* Variables are "injected from inside RestAction into the local context"
\* (rest.go:419-421): what an action declares is what its texts are filled with,
\* or what its run captured under that name.
LocalContext ==
    [][\A w \in Worker : Expand(w) =>
         \A k \in cur(w).variables :
            /\ at[w].text = "payload" /\ k \in cur(w).payload => payload'[w][k] = Meant(w, k)
            /\ at[w].text = "path" /\ k \in cur(w).path => path'[w][k] = Meant(w, k)]_vars
=============================================================================
