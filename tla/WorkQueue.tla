----------------------------- MODULE WorkQueue ------------------------------
(***************************************************************************)
(* client-go's work queue, as far as the controller relies on it.  It is   *)
(* external: a library, not under src/.  A queue is a record               *)
(*   order      - the keys a worker can get, oldest first                  *)
(*   dirty      - the keys that have to be processed (again)               *)
(*   processing - the keys between Get and Done                            *)
(*   down       - ShutDown was called                                      *)
(***************************************************************************)
EXTENDS Sequences

CONSTANTS Key

Queue == [order : Seq(Key), dirty : SUBSET Key, processing : SUBSET Key, down : BOOLEAN]

EmptyQueue == [order |-> <<>>, dirty |-> {}, processing |-> {}, down |-> FALSE]

\* A key that is being processed waits for its Done.
Add(q, k) ==
    IF q.down \/ k \in q.dirty THEN q
    ELSE [q EXCEPT !.dirty = @ \union {k},
                   !.order = IF k \in q.processing THEN @ ELSE Append(@, k)]

\* Get blocks while `order` is empty.
Get(q) ==
    LET k == Head(q.order) IN
    [q EXCEPT !.order = Tail(@), !.dirty = @ \ {k}, !.processing = @ \union {k}]

Done(q, k) ==
    [q EXCEPT !.processing = @ \ {k},
              !.order = IF k \in q.dirty THEN Append(@, k) ELSE @]

\* Keys still in the queue are handed out, new ones are not taken.
ShutDown(q) == [q EXCEPT !.down = TRUE]
=============================================================================
