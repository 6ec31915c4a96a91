-------------------------------- MODULE Auth --------------------------------
(***************************************************************************)
(* The auth strategies (seeder/auth.go, setAuthHeader of rest.go) as       *)
(* operators on values.  A header maps keys to what is sent under them.  A *)
(* credential names the entry of the definition it stems from; a token     *)
(* also the request it was fetched for.                                    *)
(***************************************************************************)
EXTENDS Naturals, Sequences

CONSTANTS
    AuthName,      \* names of entries
    HeaderKey,     \* keys a header may have
    NoCredential,  \* nothing under a key
    Blank          \* the prefix and the value of an empty token

ASSUME AuthAssumption == /\ {"", "Authorization"} \subseteq HeaderKey
                         /\ NoCredential # Blank

OAuthTypes == {"OAuthClientCredentials", "OAuthPassCredentials"}
AuthType == OAuthTypes \union {"NoAuth", "BasicAuth", "CustomToToken", "StaticToken", "unknown"}

\* An entry.  `header` is custom.headerKey, or the username of a StaticToken;
\* `detail` says what of the oauth or custom section is there.
AuthConfig == [name : AuthName, type : AuthType, header : HeaderKey,
               detail : {"whole", "bad url", "none"}]

Credential == [entry : AuthName, act : Nat, request : Nat]
Permanent(n) == [entry |-> n, act |-> 0, request |-> 0]
Token(n, i, j) == [entry |-> n, act |-> i, request |-> j]
ASSUME CredentialAssumption == NoCredential \notin Credential /\ Blank \notin Credential

Header == [HeaderKey -> Credential \union {NoCredential, Blank}]

\* A fresh header for each action.  What the user puts there is left out.
WithHeader == [k \in HeaderKey |-> NoCredential]

(***************************************************************************)
(* From the list of a definition to the strategies: the last entry of a    *)
(* name counts, an unknown type is as good as none, what a reference does  *)
(* not find is an auth without a strategy.                                 *)
(***************************************************************************)
Named(list, n) == {i \in DOMAIN list : list[i].name = n}

AuthMap(list, n) == list[CHOOSE i \in Named(list, n) : \A j \in Named(list, n) : j <= i]

\* NewCustomFlowAuth with its setters: an empty key leaves the default.
CustomFlowAuth(c) == [strategy |-> "CustomToToken", detail |-> c.detail,
                      key |-> IF c.header = "" THEN "Authorization" ELSE c.header]

Plain(strategy) == [strategy |-> strategy, detail |-> "whole", key |-> "Authorization"]

NewAuth(c) ==
    IF c.type = "CustomToToken" THEN CustomFlowAuth(c)
    ELSE IF c.type = "StaticToken" THEN [Plain(c.type) EXCEPT !.key = c.header]
    ELSE IF c.type \in OAuthTypes THEN [Plain(c.type) EXCEPT !.detail = c.detail]
    ELSE IF c.type = "BasicAuth" THEN Plain(c.type)
    ELSE Plain("NoAuth")

Strategy(list, n) ==
    IF Named(list, n) = {} THEN Plain("") ELSE NewAuth(AuthMap(list, n))

\* NewAuth dereferences the section of each entry whose type has one.
NewAuthPanics(list) ==
    \E n \in AuthName : Named(list, n) # {} /\ Strategy(list, n).detail = "none"

-----------------------------------------------------------------------------
Fetches(a) == a.strategy \in OAuthTypes \union {"CustomToToken"}
Protects(a) == Fetches(a) \/ a.strategy \in {"BasicAuth", "StaticToken"}

\* What a token's exchange can come to.  It is the same for the fetches of the
\* OAuth library, which panic one step later.
customTokenExchange(a) == IF a.detail = "bad url" THEN {"panic"} ELSE {"token", "failure"}

\* Bugs: a token once fetched is used again; a failed exchange leaves the header.
BugToken(cached, fetched) == IF cached = NoCredential THEN fetched ELSE cached
BugWithoutToken(h) == h

\* CustomFlowAuth.Token after a successful exchange: the token that is cached
\* is the one just fetched.
FreshToken(cached, fetched) == fetched

\* The header of an empty CustomTokenResponse: its key is empty as well.
WithoutToken(h) == [h EXCEPT ![""] = Blank]

WithCredential(h, a, c) == [h EXCEPT ![a.key] = c]

\* net/http refuses to send a header with an empty key.
Refused(h) == h[""] # NoCredential
=============================================================================
