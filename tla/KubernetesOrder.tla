--------------------------- MODULE KubernetesOrder ---------------------------
(***************************************************************************)
(* What is to be seen of a resource, what a controller may know of it in   *)
(* which order, and the order of its queue.  The copies its workers have   *)
(* and the spec it seeded last are parameters: the controllers keep them   *)
(* differently.                                                            *)
(***************************************************************************)
EXTENDS Kubernetes

\* What its author sees of a resource: which spec it asks for, and its status.
Asked == [k \in Key |-> IF server[k] = NoObject THEN 0 ELSE server[k].spec]
Reported == [k \in Key |-> IF server[k] = NoObject THEN "" ELSE server[k].status]

\* The states of a resource that are still to be acted on.
Ahead(k) == ({server[k], cache[k]} \union {watch[k][i] : i \in DOMAIN watch[k]}) \ {NoObject}

\* One resource version, one spec.
VersionsOf(k, copies) ==
    /\ \A o, p \in Ahead(k) \union copies :
          o.resourceVersion = p.resourceVersion => o.spec = p.spec
    /\ \A o \in Ahead(k) \union copies : o.resourceVersion <= revision

\* What was seeded, the copies, what the informer has and what it has yet to see
\* are in the order the specs were written in.
SpecOrderOf(k, copies, seeded) ==
    /\ seeded <= revision
    /\ \A o \in Ahead(k) : seeded <= o.spec
    /\ \A c \in copies, o \in Ahead(k) : c.spec <= o.spec
    /\ \A o \in Ahead(k) \union copies : 0 < o.spec /\ o.spec <= revision
    /\ cache[k] # NoObject => \A o \in Ahead(k) : cache[k].spec <= o.spec
WatchInOrder(k) ==
    /\ \A i, j \in DOMAIN watch[k] :
          i <= j /\ watch[k][i] # NoObject /\ watch[k][j] # NoObject =>
            watch[k][i].spec <= watch[k][j].spec
    /\ \A i \in DOMAIN watch[k] :
          watch[k][i] # NoObject /\ server[k] # NoObject => watch[k][i].spec <= server[k].spec

\* The keys a queue hands out are to be processed, are with nobody, and are
\* handed out once.
WellOrdered(q) ==
    /\ \A i \in DOMAIN q.order : q.order[i] \in q.dirty /\ q.order[i] \notin q.processing
    /\ \A i, j \in DOMAIN q.order : q.order[i] = q.order[j] => i = j
=============================================================================
