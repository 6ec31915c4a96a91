---------------------------- MODULE DesiredState ----------------------------
(***************************************************************************)
(* What a controller promises the author of a custom resource, with no     *)
(* queue, watch or worker in it.  Specs are numbered in the order they     *)
(* are written.  The services are only ever brought from an older spec to  *)
(* a newer one that was really asked for, and a report changes only to the *)
(* outcome of a run of the very spec it stands beside.                     *)
(***************************************************************************)
EXTENDS Naturals

CONSTANTS Key

VARIABLES
    desired,   \* for each resource: the spec it asks for, 0 without one
    report,    \* what its status says
    applied,   \* the spec seeded last, and how much of it is in place
    ended      \* runs that ended and have not reported: <<spec, outcome>>

vars == <<desired, report, applied, ended>>

Outcome == {"ok", "failed"}
Nothing == [spec |-> 0, state |-> "partial"]

Init ==
    /\ desired \in [Key -> {0, 1}]
    /\ report = [k \in Key |-> ""]
    /\ applied = [k \in Key |-> Nothing]
    /\ ended = [k \in Key |-> {}]

\* A new resource has no report, an edited one keeps what it has.
Ask(k) ==
    /\ LET s == desired'[k] IN
         /\ s \in Nat /\ s > desired[k] /\ s > applied[k].spec
         /\ desired' = [desired EXCEPT ![k] = s]
    /\ report' = IF desired[k] = 0 THEN [report EXCEPT ![k] = ""] ELSE report
    /\ UNCHANGED <<applied, ended>>

Withdraw(k) ==
    /\ desired' = [desired EXCEPT ![k] = 0]
    /\ report' = [report EXCEPT ![k] = ""]
    /\ UNCHANGED <<applied, ended>>

\* A run begins with a spec, current or not, that is no older than the last.
Apply(k) ==
    /\ LET s == applied'[k].spec IN
         /\ s \in Nat \ {0} /\ s >= applied[k].spec
         /\ desired[k] # 0 => s <= desired[k]
         /\ applied' = [applied EXCEPT ![k] = IF @.spec = s THEN @
                                             ELSE [spec |-> s, state |-> "partial"]]
    /\ UNCHANGED <<desired, report, ended>>

\* A run ends well only with everything in place.
Finish(k) ==
    /\ \E o \in Outcome, t \in {"partial", "whole"} :
         /\ o = "ok" => t = "whole"
         /\ applied' = [applied EXCEPT ![k].state = t]
         /\ ended' = [ended EXCEPT ![k] = @ \union {<<applied[k].spec, o>>}]
    /\ UNCHANGED <<desired, report>>

\* The report of a run, if the resource still asks for what was run.
Report(k) ==
    /\ \E e \in ended[k] :
         /\ ended' = [ended EXCEPT ![k] = @ \ {e}]
         /\ \/ e[1] = desired[k] /\ report' = [report EXCEPT ![k] = e[2]]
            \/ UNCHANGED report
    /\ UNCHANGED <<desired, applied>>

\* Somebody undoes what was seeded; the controller dies.
Damage(k) ==
    /\ applied' = [applied EXCEPT ![k].state = "partial"]
    /\ UNCHANGED <<desired, report, ended>>
Die == ended' = [k \in Key |-> {}] /\ UNCHANGED <<desired, report, applied>>

Next ==
    \/ \E k \in Key : Ask(k) \/ Withdraw(k) \/ Apply(k) \/ Finish(k) \/ Report(k) \/ Damage(k)
    \/ Die

Spec == Init /\ [][Next]_vars
=============================================================================
