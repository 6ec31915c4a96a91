----------------------------- MODULE Templating -----------------------------
(***************************************************************************)
(* Templating (seeder/rest.go) as operators on values.  A map of variables *)
(* and the environment of the process are functions on Name with NoValue   *)
(* where they have no entry; a template is the set of names it mentions.   *)
(***************************************************************************)
CONSTANTS
    Name,      \* names of variables
    NoValue

Entries(map) == {k \in Name : map[k] # NoValue}

\* A bug: the action's own variables win over captured ones.
BugExtend(variables, captured) ==
    [k \in Name |-> IF variables[k] # NoValue THEN variables[k] ELSE captured[k]]

\* TemplateWithVars: what was captured so far wins.
Extend(variables, captured) ==
    [k \in Name |-> IF captured[k] # NoValue THEN captured[k] ELSE variables[k]]

\* A bug: what is in the environment already is kept.
BugSetenv(e, k, v) == [e EXCEPT ![k] = IF e[k] = NoValue THEN v ELSE @]

\* One turn of templatePayload's loop: os.Setenv.
Setenv(e, k, v) == [e EXCEPT ![k] = v]

\* A bug: the result has no place for names the template does not mention.
BugSubstitute(e, template) == [k \in template |-> e[k]]

\* The rest of it: envsubst reads the environment at once.  A name without an
\* entry yields nothing, and no error.
Substitute(e, template) == [k \in Name |-> IF k \in template THEN e[k] ELSE NoValue]

\* findRuntimeVars: `found` are the names whose path expression yields anything.
findRuntimeVars(captured, found, v) ==
    [k \in Name |-> IF k \in found THEN v ELSE captured[k]]
=============================================================================
