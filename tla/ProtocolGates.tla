--------------------------- MODULE ProtocolGates ---------------------------
(***************************************************************************)
(* The checks in front of the OpenID library (protocolGates and what it    *)
(* calls in internal/idp/server.go), and the wrapper around its userinfo   *)
(* answer.  A client drafts a request: a well-formed one of an endpoint,   *)
(* changed in a few places.  The gates then refuse it or hand it on.       *)
(*                                                                         *)
(* A parameter may come in the query, in the body, or several times, and   *)
(* the library may take any occurrence: what matters is whether the gates  *)
(* decided on the value the library uses.  /authorize/callback is gated by *)
(* LoginFlow's callbackGate.                                               *)
(***************************************************************************)
EXTENDS Integers, Sequences, SequencesExt

CONSTANTS
    SPAClients,
    ServiceClients,
    Origins,    \* SPA client -> its configured origins
    MaxEdits,   \* how far a draft is from a well-formed request
    MaxWrites   \* how often the library writes to a userinfo answer

\* Validate takes an origin only with scheme and host, and none is empty.
ASSUME OriginsAssumption == \A c \in SPAClients : "" \notin Origins[c]

VARIABLES
    request,
    edits,
    verdict,   \* "draft", "library" (the gates let it pass), "refused" or "answered"
    capture,   \* the responseCapture of a userinfo call
    written,   \* history: the calls the library made on it
    answer     \* what went out for a userinfo call

gateVars == <<request, edits, verdict, capture, written, answer>>

----------------------------------------------------------------------------
(* Requests. *)

Paths == {"/authorize", "/oauth/token", "/oauth/introspect", "/revoke",
          "/userinfo", "/end_session", "/keys", "/device_authorization", "/other"}
Methods == {"GET", "POST", "HEAD", "PUT"}

\* Values that stand for texts: their length and the characters they use.
Texts == [v42 |-> [length |-> 42, alphabet |-> "base64url"],
          v43 |-> [length |-> 43, alphabet |-> "base64url"],
          v43dot |-> [length |-> 43, alphabet |-> "unreserved"],
          v43bad |-> [length |-> 43, alphabet |-> "other"],
          v128 |-> [length |-> 128, alphabet |-> "unreserved"],
          v129 |-> [length |-> 129, alphabet |-> "base64url"]]

\* Scope strings and the scopes in them; a SPA may ask for openid and read.
ScopeLists == [openid |-> {"openid"}, openidread |-> {"openid", "read"},
               read |-> {"read"}, openidadmin |-> {"openid", "admin"}]
AllowedScopes == {"openid", "read"}

\* state stands for nonce too, token for code and refresh_token, and
\* client_assertion for its type.
Values == [
    client_id |-> SPAClients \cup ServiceClients \cup {"", "unknown"},
    response_type |-> {"code", "token"},
    response_mode |-> {"", "query", "fragment"},
    scope |-> DOMAIN ScopeLists,
    redirect_uri |-> {"registered", "foreign"},
    code_challenge |-> DOMAIN Texts,
    code_challenge_method |-> {"S256", "plain"},
    state |-> {"short", "long"},
    grant_type |-> {"authorization_code", "refresh_token", "client_credentials"},
    code_verifier |-> DOMAIN Texts,
    client_secret |-> {"", "secret"},
    client_assertion |-> {"jwt"},
    token |-> {"t1", "t2"},
    id_token_hint |-> {"", "blank", "hint"}]
Params == DOMAIN Values

\* Authorization: none, another scheme, Basic with an empty part, or Basic.
Authorizations == {"none", "bearer", "partial", "basic"}

NoParams == [p \in Params |-> <<>>]
Draft(path, method, authorization, params) ==
    [path |-> path, method |-> method, authorization |-> authorization,
     query |-> IF method = "GET" THEN params ELSE NoParams,
     body |-> IF method = "GET" THEN NoParams ELSE params,
     oversize |-> FALSE, malformed |-> FALSE, origin |-> "", owner |-> "none"]
With(values) == [p \in Params |->
    IF p \in DOMAIN values THEN <<values[p]>> ELSE <<>>]

\* Only a userinfo request says whose token it carries.
UserinfoDraft(method, c) ==
    [Draft("/userinfo", method, "bearer", NoParams) EXCEPT !.owner = c]

WellFormed ==
    {Draft("/authorize", method, "none",
        With([client_id |-> c, response_type |-> "code", scope |-> "openidread",
              redirect_uri |-> "registered", code_challenge |-> "v43",
              code_challenge_method |-> "S256"])) :
        method \in {"GET", "POST"}, c \in SPAClients}
    \cup {Draft("/oauth/token", "POST", "none",
        With([grant_type |-> "authorization_code", client_id |-> c,
              code_verifier |-> "v43", redirect_uri |-> "registered"])) : c \in SPAClients}
    \cup {Draft("/oauth/token", "POST", "basic",
        With([grant_type |-> "client_credentials", scope |-> "read"]))}
    \cup {Draft(path, "POST", "basic", With([token |-> "t1"])) :
        path \in {"/oauth/introspect", "/revoke"}}
    \cup {Draft("/revoke", "POST", "none", With([token |-> "t1", client_id |-> c])) :
        c \in SPAClients}
    \cup {UserinfoDraft(method, c) : method \in {"GET", "POST"}, c \in SPAClients}
    \cup {Draft("/end_session", method, "none", With([id_token_hint |-> "hint"])) :
        method \in {"GET", "POST"}}
    \cup {Draft(path, "GET", "none", NoParams) :
        path \in {"/keys", "/device_authorization", "/other"}}

----------------------------------------------------------------------------
(* What net/http makes of a request. *)

\* ParseForm reads a body only for POST, PUT and PATCH.
ReadsBody(r) == r.method \in {"POST", "PUT"}

\* r.Form: the values of the body come before those of the query.
Form(r) == [p \in Params |-> (IF ReadsBody(r) THEN r.body[p] ELSE <<>>) \o r.query[p]]

Exists(form, p) == form[p] # <<>>
Get(form, p) == IF Exists(form, p) THEN Head(form[p]) ELSE ""

----------------------------------------------------------------------------
(* The gates, each true of the requests it lets pass; which status a       *)
(* refusal has is left out.                                                *)

providerEndpointMethods(path) ==
    CASE path \in {"/authorize", "/userinfo", "/end_session"} -> {"GET", "POST"}
      [] path \in {"/oauth/token", "/oauth/introspect", "/revoke"} -> {"POST"}
      [] path = "/keys" -> {"GET", "HEAD"}
      [] OTHER -> Methods

\* MaxBytesReader is put in front of these bodies.
Limited(r) ==
    r.method = "POST" /\ r.path \in {"/authorize", "/oauth/token",
        "/oauth/introspect", "/revoke", "/userinfo", "/end_session"}

\* The gate of the endpoint calls ParseForm.
Parses(r) ==
    \/ r.path \in {"/authorize", "/oauth/token", "/oauth/introspect", "/revoke",
                   "/end_session"}
    \/ r.path = "/userinfo" /\ r.method = "POST"

ParseForm(r) ==
    ~r.malformed /\ ~(Limited(r) /\ ReadsBody(r) /\ r.oversize)

\* Mutant: only the body is searched for repeated parameters.
RepeatedInBody(r, parameters) == \E p \in parameters : Len(r.body[p]) > 1

Repeated(r, parameters) == \E p \in parameters : Len(Form(r)[p]) > 1

validS256CodeChallenge(value) ==
    /\ value # ""
    /\ Texts[value].length = 43
    /\ Texts[value].alphabet = "base64url"

validCodeVerifier(value) ==
    /\ value # ""
    /\ Texts[value].length >= 43
    /\ Texts[value].length <= 128
    /\ Texts[value].alphabet \in {"base64url", "unreserved"}

authorizeGate(r) ==
    LET form == Form(r)
        scopes == IF Exists(form, "scope") THEN ScopeLists[Get(form, "scope")] ELSE {}
    IN  /\ ~Repeated(r, {"client_id", "response_type", "response_mode", "scope",
                         "redirect_uri", "code_challenge",
                         "code_challenge_method", "state"})
        /\ Get(form, "state") # "long"
        /\ Get(form, "client_id") \in SPAClients =>
              /\ Get(form, "redirect_uri") = "registered"
              /\ Get(form, "response_type") = "code"
              /\ Get(form, "response_mode") \in {"", "query"}
              /\ "openid" \in scopes
              /\ scopes \subseteq AllowedScopes
              /\ validS256CodeChallenge(Get(form, "code_challenge"))
              /\ Get(form, "code_challenge_method") = "S256"

\* BasicAuth with a nonempty id and secret.
BasicAuth(r) == r.authorization = "basic"

tokenGate(r) ==
    LET form == Form(r)
        grant == Get(form, "grant_type")
    IN  /\ ~Repeated(r, {"grant_type", "client_id", "client_secret",
                         "redirect_uri", "code_verifier", "token", "scope"})
        /\ grant = "authorization_code" => validCodeVerifier(Get(form, "code_verifier"))
        /\ grant = "client_credentials" =>
              /\ \A p \in {"client_id", "client_secret", "client_assertion"} :
                    ~Exists(form, p)
              /\ BasicAuth(r)

\* Mutant: a client_id beside Basic authentication is let through.
MutationGateMixed(r) ==
    LET form == Form(r)
    IN  /\ \A p \in {"client_secret", "client_assertion"} : ~Exists(form, p)
        /\ \/ BasicAuth(r)
           \/ r.path = "/revoke" /\ Get(form, "client_id") \in SPAClients

mutationClientAuthenticationGate(r) ==
    LET form == Form(r)
    IN  /\ \A p \in {"client_secret", "client_assertion"} : ~Exists(form, p)
        /\ IF Exists(form, "client_id")
           THEN /\ r.path = "/revoke"
                /\ r.authorization = "none"
                /\ Get(form, "client_id") \in SPAClients
           ELSE BasicAuth(r)

\* id_token_hint may be there and hold nothing but spaces.
endSessionGate(r) ==
    /\ ~Repeated(r, {"id_token_hint", "state", "client_id"})
    /\ Get(Form(r), "id_token_hint") \notin {"", "blank"}

protocolGates(r) ==
    /\ r.path # "/device_authorization"
    /\ r.method \in providerEndpointMethods(r.path)
    /\ Parses(r) => ParseForm(r)
    /\ r.path = "/authorize" => authorizeGate(r)
    /\ r.path = "/oauth/token" => tokenGate(r)
    /\ r.path \in {"/oauth/introspect", "/revoke"} =>
          /\ ~Repeated(r, {"token", "client_id", "client_secret"})
          /\ mutationClientAuthenticationGate(r)
    /\ r.path = "/end_session" => endSessionGate(r)

----------------------------------------------------------------------------
(* The userinfo answer. *)

\* Mutant: an origin of any client of the realm will do.
originOfRealm(r) ==
    r.origin = "" \/ r.origin \in UNION {Origins[c] : c \in SPAClients}

\* SetUserinfoFromToken refuses an origin its token's client does not have.
originAllowed(r) == r.origin = "" \/ r.origin \in Origins[r.owner]

\* The realm's CORS policy knows the origins of all its clients.
configuredOrigins == UNION {Origins[c] : c \in SPAClients}

NoCapture == [status |-> 0, header |-> {}, body |-> <<>>]

WriteHeader(c, status) == IF c.status = 0 THEN [c EXCEPT !.status = status] ELSE c
Write(c, data) ==
    [c EXCEPT !.status = IF @ = 0 THEN 200 ELSE @, !.body = Append(@, data)]

userinfoResponse(c) ==
    IF c.status \in {401, 403}
    THEN [status |-> 401, header |-> {"challenge"}, body |-> <<"invalid_token">>]
    ELSE [c EXCEPT !.status = IF @ = 0 THEN 200 ELSE @]

----------------------------------------------------------------------------
(* Behaviour. *)

Init ==
    /\ request \in WellFormed
    /\ edits = 0
    /\ verdict = "draft"
    /\ capture = NoCapture
    /\ written = <<>>
    /\ answer = NoCapture

\* A parameter is dropped from the query or the body, or given another value.
ParameterChange(r, p) ==
    {[r EXCEPT !.query[p] = <<>>], [r EXCEPT !.body[p] = <<>>]}
    \cup {[r EXCEPT !.query[p] = Append(@, v)] : v \in Values[p]}
    \cup {[r EXCEPT !.body[p] = Append(@, v)] : v \in Values[p]}

HeadChange(r) ==
    {[r EXCEPT !.method = m] : m \in Methods}
    \cup {[r EXCEPT !.authorization = a] : a \in Authorizations}
    \cup {[r EXCEPT !.origin = o] : o \in configuredOrigins \cup {"foreign"}}
    \cup {[r EXCEPT !.oversize = TRUE], [r EXCEPT !.malformed = TRUE]}

Change(r) == HeadChange(r) \cup UNION {ParameterChange(r, p) : p \in Params}

Edit ==
    /\ verdict = "draft"
    /\ edits < MaxEdits
    /\ request' \in Change(request)
    /\ edits' = edits + 1
    /\ UNCHANGED <<verdict, capture, written, answer>>

Send ==
    /\ verdict = "draft"
    /\ verdict' = IF protocolGates(request) THEN "library" ELSE "refused"
    /\ UNCHANGED <<request, edits, capture, written, answer>>

\* The library writes its userinfo answer: the claims only if the store gave
\* them.
LibraryWrites ==
    /\ verdict = "library"
    /\ request.path = "/userinfo"
    /\ Len(written) < MaxWrites
    /\ \/ capture' = [capture EXCEPT !.header = @ \cup {"type"}] /\ UNCHANGED written
       \/ \E status \in {200, 401, 403, 500} :
            /\ capture' = WriteHeader(capture, status)
            /\ written' = Append(written, [status |-> status, data |-> "none"])
       \/ \E data \in {"error"} \cup (IF originAllowed(request) THEN {"claims"} ELSE {}) :
            /\ capture' = Write(capture, data)
            /\ written' = Append(written, [status |-> 0, data |-> data])
    /\ UNCHANGED <<request, edits, verdict, answer>>

Respond ==
    /\ verdict = "library"
    /\ request.path = "/userinfo"
    /\ answer' = userinfoResponse(capture)
    /\ verdict' = "answered"
    /\ UNCHANGED <<request, edits, capture, written>>

Next == Edit \/ Send \/ LibraryWrites \/ Respond

Spec == Init /\ [][Next]_gateVars

----------------------------------------------------------------------------
(* Properties. *)

Passed == verdict = "library"

\* The values the library may take a parameter to have.
Taken(p) == IF Exists(Form(request), p) THEN Range(Form(request)[p]) ELSE {""}

\* Whichever occurrence of a parameter the library uses, what reaches it
\* meets what README.md makes mandatory: for a SPA a registered redirect, the
\* code flow in the query, openid within the allow-list and S256 PKCE; for a
\* code exchange a verifier RFC 7636 allows; for a logout a hint.  And no form
\* was read from a body above 64 KiB, whatever the method.
MandatoryParametersHold ==
    Passed =>
        /\ request.path = "/authorize" /\ Taken("client_id") \cap SPAClients # {} =>
              /\ Taken("redirect_uri") = {"registered"}
              /\ Taken("response_type") = {"code"}
              /\ Taken("response_mode") \subseteq {"", "query"}
              /\ \A v \in Taken("scope") : v # "" /\ "openid" \in ScopeLists[v]
                                             /\ ScopeLists[v] \subseteq AllowedScopes
              /\ Taken("code_challenge") = {"v43"}
              /\ Taken("code_challenge_method") = {"S256"}
        /\ request.path = "/oauth/token" /\ "authorization_code" \in Taken("grant_type") =>
              Taken("code_verifier") \subseteq {"v43", "v43dot", "v128"}
        /\ request.path = "/end_session" => Taken("id_token_hint") = {"hint"}
        /\ Parses(request) /\ ReadsBody(request) => ~request.oversize

\* Introspection, revocation and client credentials reach the library with
\* one client identity: Basic and nothing in the form or the query, or, for
\* a revocation, the client_id of a SPA and no Authorization at all.
OneClientIdentity ==
    Passed /\ ( \/ request.path \in {"/oauth/introspect", "/revoke"}
               \/ /\ request.path = "/oauth/token"
                  /\ "client_credentials" \in Taken("grant_type") ) =>
        /\ ~Exists(Form(request), "client_secret")
        /\ ~Exists(Form(request), "client_assertion")
        /\ \/ request.authorization = "basic" /\ ~Exists(Form(request), "client_id")
           \/ /\ request.path = "/revoke"
              /\ request.authorization = "none"
              /\ \E c \in SPAClients : Form(request)["client_id"] = <<c>>

\* What net/http would have sent had the library written to it directly: the
\* first status, and what was written as data, all of it in its order.
DirectStatus ==
    IF written = <<>> \/ written[1].status = 0 THEN 200 ELSE written[1].status
DataWrites(writes) == {i \in DOMAIN writes : writes[i].data # "none"}
DataInOrder(writes, body) ==
    \E place \in [DataWrites(writes) -> DOMAIN body] :
        /\ \A i \in DataWrites(writes) : body[place[i]] = writes[i].data
        /\ \A i, j \in DataWrites(writes) : i < j => place[i] < place[j]
        /\ \A k \in DOMAIN body : \E i \in DataWrites(writes) : place[i] = k

\* A refused token looks the same whatever the library wrote about it, and
\* every other userinfo answer is passed on unchanged.  Claims reach only
\* pages of the client that owns the token, although the realm's CORS policy
\* lets the pages of all its clients read answers.
UserinfoAnswers ==
    verdict = "answered" =>
        /\ IF DirectStatus \in {401, 403}
           THEN answer = [status |-> 401, header |-> {"challenge"},
                          body |-> <<"invalid_token">>]
           ELSE /\ answer.status = DirectStatus
                /\ DataInOrder(written, answer.body)
                /\ answer.header = capture.header
        /\ "claims" \in Range(answer.body) /\ request.origin \in configuredOrigins =>
              request.origin \in Origins[request.owner]

============================================================================
