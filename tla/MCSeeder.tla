------------------------------ MODULE MCSeeder -------------------------------
(***************************************************************************)
(* Instances of Seeder for TLC: sets of configurations for CONSTANT Config.*)
(***************************************************************************)
EXTENDS SeederProperties

CONSTANTS a1, a2, a3, i1, i2

C(s, o, e, p, n, u) == [strategy |-> s, order |-> o, expr |-> e, postIsPut |-> p,
                        notFound |-> n, putCreates |-> u]

\* Every strategy with every option that concerns it, unordered.
EveryConfig ==
    {C(s, NoOrder, e, p, n, u) : s \in Strategies, e \in BOOLEAN, p \in BOOLEAN,
                                 n \in NotFoundStyle, u \in BOOLEAN}
Matters(c) ==
    /\ c.postIsPut => c.strategy = "FIND/POST"
    /\ c.expr => ~KnowsId(c.strategy) /\ c.strategy \notin {"POST", "FIND/DELETE"}
    /\ c.putCreates => KnowsId(c.strategy) /\ c.strategy # "GET/POST"
    /\ c.notFound = "document" \/ c.strategy \notin {"PUT", "POST", "PUT/POST", "FIND/DELETE"}
AllConfigs == {c \in EveryConfig : Matters(c)}

\* For the list: PUT in each order, a strategy that needs several requests, one
\* that fails for good and one the program does not know.
ListConfigs ==
    {C("PUT", o, FALSE, FALSE, "document", TRUE) : o \in {1, 1000, NoOrder}}
      \union {C("FIND/DELETE/POST", NoOrder, TRUE, FALSE, "document", FALSE),
              C("GET/POST", 1, FALSE, FALSE, "status", FALSE),
              C("FIND/DELETE", NoOrder, TRUE, FALSE, "document", FALSE)}
=============================================================================
