------------------------------ MODULE SeedJob -------------------------------
(***************************************************************************)
(* What a run of the seeder promises, with nothing about HTTP in it.       *)
(* The actions are performed one at a time, each at most once; an action   *)
(* counts as done only at a moment when its item really is as it should    *)
(* be; the run's verdict is "ok" only if none failed and none is left      *)
(* over; with failFast nothing begins after a failure.                     *)
(***************************************************************************)
CONSTANTS Action

VARIABLES
    failFast,   \* whether the run stops at the first failure
    outcome,    \* of each action in this run
    seeded,     \* the actions whose item is as the definition wants it
    verdict     \* of the last run; "running" during one

vars == <<failFast, outcome, seeded, verdict>>

Outcome == {"pending", "active", "ok", "failed", "skipped"}
AllPending == [a \in Action |-> "pending"]
Having(o) == {a \in Action : outcome[a] = o}

Init ==
    /\ failFast \in BOOLEAN
    /\ outcome = AllPending
    /\ seeded \in SUBSET Action
    /\ verdict = "none"

Begin ==
    /\ verdict # "running"
    /\ verdict' = "running" /\ outcome' = AllPending
    /\ UNCHANGED <<failFast, seeded>>

Halted == failFast /\ Having("failed") # {}

Take(a, o) ==
    /\ verdict = "running" /\ ~Halted
    /\ Having("active") = {} /\ outcome[a] = "pending"
    /\ outcome' = [outcome EXCEPT ![a] = o]
    /\ UNCHANGED <<failFast, seeded, verdict>>

\* The active action changes its own item and no other, and may then end.
Work(a) ==
    /\ verdict = "running" /\ outcome[a] = "active"
    /\ \E s \in BOOLEAN, o \in {"active", "ok", "failed"} :
         /\ o = "ok" => s
         /\ seeded' = IF s THEN seeded \union {a} ELSE seeded \ {a}
         /\ outcome' = [outcome EXCEPT ![a] = o]
    /\ UNCHANGED <<failFast, verdict>>

End ==
    /\ verdict = "running" /\ Having("active") = {}
    /\ Having("pending") = {} \/ Halted
    /\ verdict' = IF Having("failed") = {} THEN "ok" ELSE "error"
    /\ UNCHANGED <<failFast, outcome, seeded>>

\* A run that cannot begin, and one that is cut off.
Refuse == /\ verdict # "running" /\ verdict' = "error" /\ outcome' = AllPending
          /\ UNCHANGED <<failFast, seeded>>
Abort  == /\ verdict = "running" /\ verdict' = "none" /\ outcome' = AllPending
          /\ UNCHANGED <<failFast, seeded>>

\* Somebody else changes an item.
Outside(a) == /\ \/ seeded' = seeded \union {a}
                 \/ seeded' = seeded \ {a}
              /\ UNCHANGED <<failFast, outcome, verdict>>

Next == \/ Begin \/ End \/ Refuse \/ Abort
        \/ \E a \in Action : \/ Take(a, "active") \/ Take(a, "skipped")
                             \/ Work(a) \/ Outside(a)

Spec == Init /\ [][Next]_vars
=============================================================================
