---------------------------- MODULE MCRestCalls -----------------------------
(***************************************************************************)
(* Resources in one process.  The first two share the name "x"; "id" is    *)
(* set by the first only: its first action captures what the second one    *)
(* declares, and both the first and the third mention it undeclared.  The  *)
(* other resources are there for what ends the whole process.              *)
(***************************************************************************)
EXTENDS RestCallsProperties

MCName == {"x", "id"}
MCHeaderKey == {"", "Authorization", "X-Token"}
MCWorker == {"w1", "w2", "w3", "w4"}

Entry(n, t, h, d) == [name |-> n, type |-> t, header |-> h, detail |-> d]
Act(vs, body, url, captures, ref, ms, address) ==
    [variables |-> vs, payload |-> body, path |-> url, runtimeVars |-> captures,
     authMapRef |-> ref, methods |-> ms, endpoint |-> address]

\* The second entry named "a" is the one that counts; nobody has a "c".
MCAuth(w) ==
    IF w = "w1" THEN <<Entry("a", "BasicAuth", "", "whole"), Entry("a", "CustomToToken", "X-Token", "whole"),
                       Entry("b", "StaticToken", "X-Token", "whole")>>
    ELSE IF w = "w2" THEN <<Entry("a", "OAuthClientCredentials", "", "whole"),
                            Entry("b", "CustomToToken", "", "bad url")>>
    ELSE IF w = "w3" THEN <<Entry("a", "OAuthPassCredentials", "", "none")>> ELSE <<>>

MCSeed(w) ==
    IF w = "w1"
    THEN <<Act({"x"}, {"x", "id"}, {}, {"id"}, "a", {"GET", "PATCH", "POST"}, "good"),
           Act({"id"}, {"x"}, {"id"}, {}, "b", {"GET", "DELETE", "POST"}, "good"),
           Act({}, {}, {"id"}, {}, "c", {"POST"}, "good")>>
    ELSE IF w = "w2"
    THEN <<Act({"x"}, {"x"}, {}, {}, "a", {"PUT", "POST"}, "good"),
           Act({}, {"id"}, {}, {}, "c", {"GET", "POST"}, "bad"),
           Act({}, {}, {}, {}, "c", {"POST"}, "good"),
           Act({}, {}, {}, {}, "b", {"POST"}, "good")>>
    ELSE <<Act({}, {}, {}, {}, "c", {"POST"}, "bad")>>

MCDefinition == [w \in MCWorker |-> [auth |-> MCAuth(w), seed |-> MCSeed(w)]]
=============================================================================
