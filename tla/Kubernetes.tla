----------------------------- MODULE Kubernetes -----------------------------
(***************************************************************************)
(* Kubernetes as far as both controllers rely on it: the API server, and   *)
(* the informer that watches it.  External: a service and a library, not   *)
(* under src/.  A revision numbers every write; a spec is named after the  *)
(* revision that wrote it.                                                 *)
(***************************************************************************)
EXTENDS WorkQueue, Integers

CONSTANTS NoObject

Message == {"", "ok", "failed"}
RestStrategy == [spec : Nat, generation : Nat, resourceVersion : Nat, status : Message]
ObjectOrNone == RestStrategy \union {NoObject}
ASSUME NoObjectAssumption == NoObject \notin RestStrategy

VARIABLES
    server,    \* the resources
    revision,  \* of the last write
    watch,     \* for each key, the states of it the informer has yet to see
    cache      \* the informer's store

k8s == <<server, revision>>

KubernetesTypeOK ==
    /\ server \in [Key -> ObjectOrNone]
    /\ revision \in Nat
    /\ watch \in [Key -> Seq(ObjectOrNone)]
    /\ cache \in [Key -> ObjectOrNone]

Cluster ==
    /\ revision = 1
    /\ server \in [Key -> {NoObject, [spec |-> 1, generation |-> 1,
                                     resourceVersion |-> 1, status |-> ""]}]
    /\ watch = [k \in Key |-> <<server[k]>>]
    /\ cache = [k \in Key |-> NoObject]

Store(k, obj) ==
    /\ server' = [server EXCEPT ![k] = obj]
    /\ revision' = revision + 1
    /\ watch' = [watch EXCEPT ![k] = Append(@, obj)]

\* A user creates, edits, relabels or deletes the resource.
Edit(k) ==
    LET o == server[k]
        n == revision + 1
    IN \/ o = NoObject /\ Store(k, [spec |-> n, generation |-> 1,
                                    resourceVersion |-> n, status |-> ""])
       \/ o # NoObject /\ Store(k, [o EXCEPT !.spec = n, !.generation = @ + 1,
                                             !.resourceVersion = n])
       \* labels or annotations: not the generation
       \/ o # NoObject /\ Store(k, [o EXCEPT !.resourceVersion = n])
       \/ o # NoObject /\ Store(k, NoObject)

\* The API server takes a status only for the version it was made from.
Fresh(k, copy) == server[k] # NoObject /\ server[k].resourceVersion = copy.resourceVersion

\* The informer sees the oldest of what it has not seen.
See(k) ==
    /\ watch[k] # <<>>
    /\ cache' = [cache EXCEPT ![k] = Head(watch[k])]
    /\ watch' = [watch EXCEPT ![k] = Tail(@)]

\* What was not seen is lost and the informer lists again.
List == watch' = [k \in Key |-> <<server[k]>>]
=============================================================================
