------------------------ MODULE ProtocolGatesProofs ------------------------
(***************************************************************************)
(* What the gates let pass, for any number of changes to a request and any *)
(* set of clients.  The gates look a parameter up once and the library may *)
(* use another occurrence, so the proof rests on one fact: of a parameter  *)
(* that is not repeated, in body and query together, every occurrence is   *)
(* the one the gate decided on (TakenIsGet).                               *)
(***************************************************************************)
EXTENDS ProtocolGates, SequenceTheorems, TLAPS

\* The parameters of a query or a body: any number of values of each.
Fields == {f \in [Params -> UNION {Seq(Values[p]) : p \in Params}] :
              \A p \in Params : f[p] \in Seq(Values[p])}

Requests == [path : Paths, method : Methods, authorization : Authorizations,
             query : Fields, body : Fields, oversize : BOOLEAN, malformed : BOOLEAN,
             origin : configuredOrigins \cup {"", "foreign"},
             owner : SPAClients \cup {"none"}]

\* A request is well typed, and what reached the library passed the gates and
\* has not changed since.
GatesInv ==
    /\ request \in Requests
    /\ Passed => protocolGates(request)

----------------------------------------------------------------------------
(* Forms. *)

\* A form holds values of its parameters only.
LEMMA FormValues ==
    ASSUME NEW r \in Requests, NEW p \in Params
    PROVE  Form(r)[p] \in Seq(Values[p])
<1>1. r.query[p] \in Seq(Values[p]) /\ r.body[p] \in Seq(Values[p])
  BY DEF Requests, Fields
<1>2. (IF ReadsBody(r) THEN r.body[p] ELSE <<>>) \in Seq(Values[p])
  <2>1. <<>> \in Seq(Values[p])
    BY EmptySeq
  <2>2. QED
    BY <1>1, <2>1
<1>3. Form(r)[p] = (IF ReadsBody(r) THEN r.body[p] ELSE <<>>) \o r.query[p]
  BY DEF Form
<1>4. QED
  BY <1>1, <1>2, <1>3, ConcatProperties

\* A sequence of at most one value is empty or that value alone.
LEMMA AtMostOne ==
    ASSUME NEW S, NEW s \in Seq(S), ~(Len(s) > 1), s # <<>>
    PROVE  /\ s = <<Head(s)>> /\ Head(s) \in S
           /\ Range(s) = {Head(s)}
<1>1. Len(s) = 1 /\ DOMAIN s = {1} /\ s[1] \in S
  <2>1. Len(s) \in Nat /\ Len(s) # 0 /\ DOMAIN s = 1 .. Len(s)
    BY EmptySeq, LenProperties
  <2>2. Len(s) = 1
    BY <2>1
  <2>3. QED
    BY <2>1, <2>2, ElementOfSeq
<1>2. Head(s) = s[1]
  BY <1>1
<1>3. s = <<s[1]>>
  BY <1>1
<1>4. Range(s) = {s[1]}
  BY <1>1 DEF Range
<1>5. QED
  BY <1>1, <1>2, <1>3, <1>4

\* Whichever occurrence of a parameter that is not repeated the library takes,
\* it takes the one the gate looked at.
LEMMA TakenIsGet ==
    ASSUME request \in Requests, NEW p \in Params, NEW P, p \in P,
           ~Repeated(request, P)
    PROVE  /\ Taken(p) = {Get(Form(request), p)}
           /\ Exists(Form(request), p) =>
                 /\ Get(Form(request), p) \in Values[p]
                 /\ Form(request)[p] = <<Get(Form(request), p)>>
<1> DEFINE s == Form(request)[p]
<1>1. s \in Seq(Values[p])
  BY FormValues
<1>2. ~(Len(s) > 1)
  BY DEF Repeated
<1>3. CASE s = <<>>
  BY <1>3 DEF Taken, Exists, Get
<1>4. CASE s # <<>>
  <2>1. Get(Form(request), p) = Head(s)
    BY <1>4 DEF Get, Exists
  <2>2. Taken(p) = Range(s)
    BY <1>4 DEF Taken, Exists
  <2>3. s = <<Head(s)>> /\ Head(s) \in Values[p] /\ Range(s) = {Head(s)}
    BY <1>1, <1>2, <1>4, AtMostOne
  <2>4. QED
    BY <2>1, <2>2, <2>3
<1>5. QED
  BY <1>3, <1>4

----------------------------------------------------------------------------
(* The invariant. *)

\* The values the parameters of a well-formed request have.
LEMMA ParamValues ==
    /\ {"client_id", "response_type", "scope", "redirect_uri", "code_challenge",
        "code_challenge_method", "grant_type", "code_verifier", "token",
        "id_token_hint"} \subseteq Params
    /\ SPAClients \subseteq Values["client_id"]
    /\ "code" \in Values["response_type"]
    /\ "openidread" \in Values["scope"] /\ "read" \in Values["scope"]
    /\ "registered" \in Values["redirect_uri"]
    /\ "v43" \in Values["code_challenge"]
    /\ "S256" \in Values["code_challenge_method"]
    /\ "authorization_code" \in Values["grant_type"]
    /\ "client_credentials" \in Values["grant_type"]
    /\ "v43" \in Values["code_verifier"]
    /\ "t1" \in Values["token"]
    /\ "hint" \in Values["id_token_hint"]
BY DEF Values, Params, Texts, ScopeLists

\* A function from the parameters to such sequences is a query or a body.
LEMMA FieldsOK ==
    ASSUME NEW f, f = [p \in Params |-> f[p]],
           \A p \in Params : f[p] \in Seq(Values[p])
    PROVE  f \in Fields
BY DEF Fields

\* One value is a sequence.
LEMMA OneValue == ASSUME NEW S, NEW v \in S PROVE <<v>> \in Seq(S)
OBVIOUS

\* One value of each of some parameters is a query or a body.
LEMMA WithOK ==
    ASSUME NEW values, \A p \in DOMAIN values : p \in Params /\ values[p] \in Values[p]
    PROVE  With(values) \in Fields
<1>1. \A p \in Params : With(values)[p] \in Seq(Values[p])
  <2> SUFFICES ASSUME NEW p \in Params PROVE With(values)[p] \in Seq(Values[p])
    OBVIOUS
  <2>1. <<>> \in Seq(Values[p])
    BY EmptySeq
  <2>2. ASSUME p \in DOMAIN values PROVE <<values[p]>> \in Seq(Values[p])
    <3>1. values[p] \in Values[p]
      BY <2>2
    <3>2. QED
      BY <3>1, OneValue
  <2>3. With(values)[p] = IF p \in DOMAIN values THEN <<values[p]>> ELSE <<>>
    BY DEF With
  <2>4. QED
    BY <2>1, <2>2, <2>3
<1>2. With(values) = [p \in Params |-> With(values)[p]]
  BY DEF With
<1>3. QED
  BY <1>1, <1>2, FieldsOK

\* No parameters at all is one, too.
LEMMA NoParamsOK == NoParams \in Fields
<1>1. NoParams = [p \in Params |-> NoParams[p]]
  BY DEF NoParams
<1>2. \A p \in Params : NoParams[p] \in Seq(Values[p])
  BY EmptySeq DEF NoParams
<1>3. QED
  BY <1>1, <1>2, FieldsOK

\* A draft of such parameters is well typed.
LEMMA DraftOK ==
    ASSUME NEW path \in Paths, NEW method \in Methods,
           NEW authorization \in Authorizations, NEW params \in Fields
    PROVE  Draft(path, method, authorization, params) \in Requests
BY NoParamsOK DEF Requests, Draft

\* Every draft a client starts from is well typed.
LEMMA WellFormedOK == WellFormed \subseteq Requests
<1>1. ASSUME NEW c \in SPAClients
      PROVE  With([client_id |-> c, response_type |-> "code", scope |-> "openidread",
              redirect_uri |-> "registered", code_challenge |-> "v43",
              code_challenge_method |-> "S256"]) \in Fields
  <2> DEFINE v == [client_id |-> c, response_type |-> "code", scope |-> "openidread",
              redirect_uri |-> "registered", code_challenge |-> "v43",
              code_challenge_method |-> "S256"]
  <2>1. \A p \in DOMAIN v : p \in Params /\ v[p] \in Values[p]
    BY ParamValues
  <2>2. QED
    BY <2>1, WithOK
<1>2. ASSUME NEW c \in SPAClients
      PROVE  With([grant_type |-> "authorization_code", client_id |-> c,
              code_verifier |-> "v43", redirect_uri |-> "registered"]) \in Fields
  <2> DEFINE v == [grant_type |-> "authorization_code", client_id |-> c,
              code_verifier |-> "v43", redirect_uri |-> "registered"]
  <2>1. \A p \in DOMAIN v : p \in Params /\ v[p] \in Values[p]
    BY ParamValues
  <2>2. QED
    BY <2>1, WithOK
<1>3. With([grant_type |-> "client_credentials", scope |-> "read"]) \in Fields
  <2> DEFINE v == [grant_type |-> "client_credentials", scope |-> "read"]
  <2>1. \A p \in DOMAIN v : p \in Params /\ v[p] \in Values[p]
    BY ParamValues
  <2>2. QED
    BY <2>1, WithOK
<1>4. With([token |-> "t1"]) \in Fields
  <2> DEFINE v == [token |-> "t1"]
  <2>1. \A p \in DOMAIN v : p \in Params /\ v[p] \in Values[p]
    BY ParamValues
  <2>2. QED
    BY <2>1, WithOK
<1>5. ASSUME NEW c \in SPAClients
      PROVE  With([token |-> "t1", client_id |-> c]) \in Fields
  <2> DEFINE v == [token |-> "t1", client_id |-> c]
  <2>1. \A p \in DOMAIN v : p \in Params /\ v[p] \in Values[p]
    BY ParamValues
  <2>2. QED
    BY <2>1, WithOK
<1>6. With([id_token_hint |-> "hint"]) \in Fields
  <2> DEFINE v == [id_token_hint |-> "hint"]
  <2>1. \A p \in DOMAIN v : p \in Params /\ v[p] \in Values[p]
    BY ParamValues
  <2>2. QED
    BY <2>1, WithOK
<1>7. ASSUME NEW method \in {"GET", "POST"}, NEW c \in SPAClients
      PROVE  UserinfoDraft(method, c) \in Requests
  <2>1. Draft("/userinfo", method, "bearer", NoParams) \in Requests
    BY NoParamsOK, DraftOK DEF Paths, Methods, Authorizations
  <2>2. QED
    BY <2>1 DEF UserinfoDraft, Requests
<1>8. QED
  <2> DEFINE
        A == {Draft("/authorize", method, "none",
                With([client_id |-> c, response_type |-> "code", scope |-> "openidread",
                      redirect_uri |-> "registered", code_challenge |-> "v43",
                      code_challenge_method |-> "S256"])) :
                method \in {"GET", "POST"}, c \in SPAClients}
        B == {Draft("/oauth/token", "POST", "none",
                With([grant_type |-> "authorization_code", client_id |-> c,
                      code_verifier |-> "v43", redirect_uri |-> "registered"])) :
                c \in SPAClients}
        C == {Draft("/oauth/token", "POST", "basic",
                With([grant_type |-> "client_credentials", scope |-> "read"]))}
        D == {Draft(path, "POST", "basic", With([token |-> "t1"])) :
                path \in {"/oauth/introspect", "/revoke"}}
        E == {Draft("/revoke", "POST", "none", With([token |-> "t1", client_id |-> c])) :
                c \in SPAClients}
        F == {UserinfoDraft(method, c) : method \in {"GET", "POST"}, c \in SPAClients}
        G == {Draft("/end_session", method, "none", With([id_token_hint |-> "hint"])) :
                method \in {"GET", "POST"}}
        H == {Draft(path, "GET", "none", NoParams) :
                path \in {"/keys", "/device_authorization", "/other"}}
  <2>1. WellFormed = A \cup B \cup C \cup D \cup E \cup F \cup G \cup H
    BY DEF WellFormed
  <2>2. A \subseteq Requests
    <3>1. "/authorize" \in Paths /\ "none" \in Authorizations
          /\ "GET" \in Methods /\ "POST" \in Methods
      BY DEF Paths, Methods, Authorizations
    <3>2. ASSUME NEW c \in SPAClients, NEW method \in {"GET", "POST"}
          PROVE  Draft("/authorize", method, "none",
                   With([client_id |-> c, response_type |-> "code", scope |-> "openidread",
                         redirect_uri |-> "registered", code_challenge |-> "v43",
                         code_challenge_method |-> "S256"])) \in Requests
      BY <1>1, <3>1, DraftOK
    <3>3. ASSUME NEW r \in A PROVE r \in Requests
      <4>1. PICK method \in {"GET", "POST"}, c \in SPAClients :
              r = Draft("/authorize", method, "none",
                    With([client_id |-> c, response_type |-> "code", scope |-> "openidread",
                          redirect_uri |-> "registered", code_challenge |-> "v43",
                          code_challenge_method |-> "S256"]))
        OBVIOUS
      <4>2. QED
        BY <3>2, <4>1
    <3>4. QED
      BY <3>3
  <2>3. B \subseteq Requests
    BY <1>2, DraftOK DEF Paths, Methods, Authorizations
  <2>4. C \subseteq Requests
    BY <1>3, DraftOK DEF Paths, Methods, Authorizations
  <2>5. D \subseteq Requests
    BY <1>4, DraftOK DEF Paths, Methods, Authorizations
  <2>6. E \subseteq Requests
    BY <1>5, DraftOK DEF Paths, Methods, Authorizations
  <2>7. F \subseteq Requests
    BY <1>7
  <2>8. G \subseteq Requests
    BY <1>6, DraftOK DEF Paths, Methods, Authorizations
  <2>9. H \subseteq Requests
    BY NoParamsOK, DraftOK DEF Paths, Methods, Authorizations
  <2> HIDE DEF A, B, C, D, E, F, G, H
  <2>10. QED
    BY <2>1, <2>2, <2>3, <2>4, <2>5, <2>6, <2>7, <2>8, <2>9

\* So is every change of it.
LEMMA ChangeOK == ASSUME NEW r \in Requests PROVE Change(r) \subseteq Requests
<1>1. ASSUME NEW f \in Fields, NEW p \in Params
      PROVE  [f EXCEPT ![p] = <<>>] \in Fields
  <2> DEFINE g == [f EXCEPT ![p] = <<>>]
  <2>1. \A q \in Params : g[q] = IF q = p THEN <<>> ELSE f[q]
    BY DEF Fields
  <2>2. \A q \in Params : <<>> \in Seq(Values[q]) /\ f[q] \in Seq(Values[q])
    BY EmptySeq DEF Fields
  <2>3. g = [q \in Params |-> g[q]]
    BY DEF Fields
  <2>4. QED
    BY <2>1, <2>2, <2>3, FieldsOK
<1>2. ASSUME NEW f \in Fields, NEW p \in Params, NEW v \in Values[p]
      PROVE  [f EXCEPT ![p] = Append(@, v)] \in Fields
  <2> DEFINE g == [f EXCEPT ![p] = Append(@, v)]
  <2>1. \A q \in Params : g[q] = IF q = p THEN Append(f[p], v) ELSE f[q]
    BY DEF Fields
  <2>2. \A q \in Params : f[q] \in Seq(Values[q])
    BY DEF Fields
  <2>3. Append(f[p], v) \in Seq(Values[p])
    BY <2>2, AppendProperties
  <2>4. g = [q \in Params |-> g[q]]
    BY DEF Fields
  <2>5. QED
    BY <2>1, <2>2, <2>3, <2>4, FieldsOK
<1>3. ASSUME NEW p \in Params
      PROVE  /\ [r EXCEPT !.query[p] = <<>>] \in Requests
             /\ [r EXCEPT !.body[p] = <<>>] \in Requests
  BY <1>1 DEF Requests
<1>4. ASSUME NEW p \in Params, NEW v \in Values[p]
      PROVE  /\ [r EXCEPT !.query[p] = Append(@, v)] \in Requests
             /\ [r EXCEPT !.body[p] = Append(@, v)] \in Requests
  BY <1>2 DEF Requests
<1>5. /\ \A m \in Methods : [r EXCEPT !.method = m] \in Requests
      /\ \A a \in Authorizations : [r EXCEPT !.authorization = a] \in Requests
      /\ \A o \in configuredOrigins \cup {"foreign"} : [r EXCEPT !.origin = o] \in Requests
      /\ [r EXCEPT !.oversize = TRUE] \in Requests
      /\ [r EXCEPT !.malformed = TRUE] \in Requests
  BY DEF Requests
<1>6. ASSUME NEW p \in Params PROVE ParameterChange(r, p) \subseteq Requests
  <2> DEFINE A == {[r EXCEPT !.query[p] = <<>>], [r EXCEPT !.body[p] = <<>>]}
             B == {[r EXCEPT !.query[p] = Append(@, v)] : v \in Values[p]}
             C == {[r EXCEPT !.body[p] = Append(@, v)] : v \in Values[p]}
  <2>1. ParameterChange(r, p) = A \cup B \cup C
    BY DEF ParameterChange
  <2>2. A \subseteq Requests
    BY <1>3, Zenon
  <2>3. \A v \in Values[p] : [r EXCEPT !.query[p] = Append(@, v)] \in Requests
    BY <1>4
  <2>4. B \subseteq Requests
    BY <2>3, Zenon
  <2>5. \A v \in Values[p] : [r EXCEPT !.body[p] = Append(@, v)] \in Requests
    BY <1>4
  <2>6. C \subseteq Requests
    BY <2>5, Zenon
  <2> HIDE DEF A, B, C
  <2>7. QED
    BY <2>1, <2>2, <2>4, <2>6
<1>7. HeadChange(r) \subseteq Requests
  BY <1>5, Zenon DEF HeadChange
<1>8. QED
  BY <1>6, <1>7, Zenon DEF Change

\* The clients change only drafts, and what reached the library stays as the
\* gates saw it.
LEMMA GatesInvariant == Spec => []GatesInv
<1>1. Init => GatesInv
  BY WellFormedOK DEF Init, GatesInv, Passed
<1>2. GatesInv /\ [Next]_gateVars => GatesInv'
  <2> SUFFICES ASSUME GatesInv, [Next]_gateVars PROVE GatesInv'
    OBVIOUS
  <2>1. CASE Edit
    BY <2>1, ChangeOK DEF Edit, GatesInv, Passed
  <2>2. CASE Send
    BY <2>2 DEF Send, GatesInv, Passed
  <2>3. CASE LibraryWrites
    BY <2>3 DEF LibraryWrites, GatesInv, Passed
  <2>4. CASE Respond
    BY <2>4 DEF Respond, GatesInv, Passed
  <2>5. CASE UNCHANGED gateVars
    BY <2>5 DEF gateVars, GatesInv, Passed
  <2>6. QED
    BY <2>1, <2>2, <2>3, <2>4, <2>5 DEF Next
<1>3. QED
  BY <1>1, <1>2, PTL DEF Spec

----------------------------------------------------------------------------
(* What the gates decided holds of whatever the library takes. *)

\* Texts the two PKCE checks accept.
LEMMA ProofKeys ==
    /\ \A v \in DOMAIN Texts : validS256CodeChallenge(v) => v = "v43"
    /\ \A v \in DOMAIN Texts : validCodeVerifier(v) => v \in {"v43", "v43dot", "v128"}
    /\ ~validS256CodeChallenge("") /\ ~validCodeVerifier("")
    /\ "" \notin DOMAIN ScopeLists
<1> DEFINE T == {"v42", "v43", "v43dot", "v43bad", "v128", "v129"}
<1>a. /\ DOMAIN Texts = T
      /\ Texts["v42"].length = 42 /\ Texts["v129"].length = 129
      /\ Texts["v128"].length = 128 /\ Texts["v43dot"].alphabet = "unreserved"
      /\ Texts["v43bad"].alphabet = "other"
  BY DEF Texts
<1>1. \A v \in DOMAIN Texts : validS256CodeChallenge(v) => v = "v43"
  <2> SUFFICES ASSUME NEW v \in T, validS256CodeChallenge(v) PROVE v = "v43"
    BY <1>a
  <2>1. Texts[v].length = 43 /\ Texts[v].alphabet = "base64url"
    BY DEF validS256CodeChallenge
  <2>2. QED
    BY <1>a, <2>1
<1>2. \A v \in DOMAIN Texts : validCodeVerifier(v) => v \in {"v43", "v43dot", "v128"}
  <2> SUFFICES ASSUME NEW v \in T, validCodeVerifier(v)
               PROVE  v \in {"v43", "v43dot", "v128"}
    BY <1>a
  <2>1. /\ Texts[v].length >= 43 /\ Texts[v].length <= 128
        /\ Texts[v].alphabet \in {"base64url", "unreserved"}
    BY DEF validCodeVerifier
  <2>2. QED
    BY <1>a, <2>1
<1>3. ~validS256CodeChallenge("") /\ ~validCodeVerifier("")
  BY DEF validS256CodeChallenge, validCodeVerifier
<1>4. "" \notin DOMAIN ScopeLists
  BY DEF ScopeLists
<1>5. QED
  BY <1>1, <1>2, <1>3, <1>4

\* An authorization request of a SPA reaches the library only with what
\* README.md makes mandatory, in whichever occurrence the library takes.
LEMMA AuthorizationMandatory ==
    ASSUME request \in Requests, authorizeGate(request),
           Taken("client_id") \cap SPAClients # {}
    PROVE  /\ Taken("redirect_uri") = {"registered"}
           /\ Taken("response_type") = {"code"}
           /\ Taken("response_mode") \subseteq {"", "query"}
           /\ \A v \in Taken("scope") : v # "" /\ "openid" \in ScopeLists[v]
                                          /\ ScopeLists[v] \subseteq AllowedScopes
           /\ Taken("code_challenge") = {"v43"}
           /\ Taken("code_challenge_method") = {"S256"}
<1> DEFINE P == {"client_id", "response_type", "response_mode", "scope",
                 "redirect_uri", "code_challenge", "code_challenge_method", "state"}
           form == Form(request)
<1>1. ~Repeated(request, P)
  BY DEF authorizeGate
<1>2. \A p \in P : p \in Params /\ Taken(p) = {Get(form, p)}
  <2>1. P \subseteq Params
    BY DEF Params, Values
  <2>2. QED
    BY <1>1, <2>1, TakenIsGet
<1>3. Get(form, "client_id") \in SPAClients
  BY <1>2
<1>4. /\ Get(form, "redirect_uri") = "registered"
      /\ Get(form, "response_type") = "code"
      /\ Get(form, "response_mode") \in {"", "query"}
      /\ validS256CodeChallenge(Get(form, "code_challenge"))
      /\ Get(form, "code_challenge_method") = "S256"
  BY <1>3 DEF authorizeGate
<1>5. /\ Exists(form, "scope") /\ Get(form, "scope") # ""
      /\ "openid" \in ScopeLists[Get(form, "scope")]
      /\ ScopeLists[Get(form, "scope")] \subseteq AllowedScopes
  <2>1. Exists(form, "scope")
    BY <1>3 DEF authorizeGate
  <2>2. Get(form, "scope") \in DOMAIN ScopeLists
    <3>1. Values["scope"] = DOMAIN ScopeLists
      BY DEF Values
    <3>2. QED
      BY <1>1, <1>2, <2>1, <3>1, TakenIsGet
  <2>3. QED
    BY <1>3, <2>1, <2>2, ProofKeys DEF authorizeGate
<1>6. Get(form, "code_challenge") = "v43"
  <2>1. Exists(form, "code_challenge")
    BY <1>4, ProofKeys DEF Get
  <2>2. Values["code_challenge"] = DOMAIN Texts
    BY DEF Values
  <2>3. QED
    <3>1. Get(form, "code_challenge") \in Values["code_challenge"]
      BY <1>1, <1>2, <2>1, TakenIsGet
    <3>2. QED
      BY <1>4, <2>2, <3>1, ProofKeys
<1>7. QED
  <2> HIDE DEF form
  <2>1. QED
    BY <1>2, <1>4, <1>5, <1>6

\* A code exchange brings a verifier RFC 7636 allows.
LEMMA ExchangeMandatory ==
    ASSUME request \in Requests, tokenGate(request),
           "authorization_code" \in Taken("grant_type")
    PROVE  Taken("code_verifier") \subseteq {"v43", "v43dot", "v128"}
<1> DEFINE P == {"grant_type", "client_id", "client_secret",
                 "redirect_uri", "code_verifier", "token", "scope"}
           form == Form(request)
<1>1. ~Repeated(request, P)
  BY DEF tokenGate
<1>2. \A p \in P : p \in Params /\ Taken(p) = {Get(form, p)}
  <2>1. P \subseteq Params
    BY DEF Params, Values
  <2>2. QED
    BY <1>1, <2>1, TakenIsGet
<1>3. validCodeVerifier(Get(form, "code_verifier"))
  BY <1>2 DEF tokenGate
<1>4. Exists(form, "code_verifier")
  BY <1>3, ProofKeys DEF Get
<1>5. Values["code_verifier"] = DOMAIN Texts
  BY DEF Values
<1>6. Get(form, "code_verifier") \in DOMAIN Texts
  BY <1>1, <1>2, <1>4, <1>5, TakenIsGet
<1>7. QED
  BY <1>2, <1>3, <1>6, ProofKeys

\* A logout brings a hint.
LEMMA LogoutMandatory ==
    ASSUME request \in Requests, endSessionGate(request)
    PROVE  Taken("id_token_hint") = {"hint"}
<1> DEFINE P == {"id_token_hint", "state", "client_id"}
           form == Form(request)
<1>1. ~Repeated(request, P) /\ Get(form, "id_token_hint") \notin {"", "blank"}
  BY DEF endSessionGate
<1>2. "id_token_hint" \in Params /\ Values["id_token_hint"] = {"", "blank", "hint"}
  BY DEF Params, Values
<1>3. Exists(form, "id_token_hint")
  BY <1>1 DEF Get
<1>4. /\ Get(form, "id_token_hint") \in Values["id_token_hint"]
      /\ Taken("id_token_hint") = {Get(form, "id_token_hint")}
  <2>1. "id_token_hint" \in P
    OBVIOUS
  <2> HIDE DEF P
  <2>2. QED
    BY <1>1, <1>2, <1>3, <2>1, TakenIsGet
<1>5. Get(form, "id_token_hint") = "hint"
  BY <1>1, <1>2, <1>4
<1>6. QED
  BY <1>4, <1>5

\* A request that passed had the method of its endpoint, so a body read for it
\* was limited.
LEMMA BodiesLimited ==
    ASSUME request \in Requests, protocolGates(request),
           Parses(request), ReadsBody(request)
    PROVE  ~request.oversize
BY DEF protocolGates, Parses, ReadsBody, ParseForm, Limited, providerEndpointMethods

\* For any clients and any number of changes to a request, what the gates
\* decided holds of every value the library may take.
THEOREM MandatoryHold == Spec => []MandatoryParametersHold
<1>1. GatesInv => MandatoryParametersHold
  <2> SUFFICES ASSUME GatesInv, Passed
               PROVE  MandatoryParametersHold
    BY DEF MandatoryParametersHold
  <2>1. request \in Requests /\ protocolGates(request)
    BY DEF GatesInv
  <2>2. request.path = "/authorize" => authorizeGate(request)
    BY <2>1 DEF protocolGates
  <2>3. request.path = "/oauth/token" => tokenGate(request)
    BY <2>1 DEF protocolGates
  <2>4. request.path = "/end_session" => endSessionGate(request)
    BY <2>1 DEF protocolGates
  <2>5. QED
    BY <2>1, <2>2, <2>3, <2>4, AuthorizationMandatory, ExchangeMandatory,
       LogoutMandatory, BodiesLimited DEF MandatoryParametersHold
<1>2. QED
  BY <1>1, GatesInvariant, PTL

\* Whoever the library takes the client to be, it is the one the gate admitted.
THEOREM OneIdentity == Spec => []OneClientIdentity
<1>1. GatesInv => OneClientIdentity
  <2> SUFFICES ASSUME GatesInv, Passed,
                      \/ request.path \in {"/oauth/introspect", "/revoke"}
                      \/ /\ request.path = "/oauth/token"
                         /\ "client_credentials" \in Taken("grant_type")
               PROVE  /\ ~Exists(Form(request), "client_secret")
                      /\ ~Exists(Form(request), "client_assertion")
                      /\ \/ /\ request.authorization = "basic"
                            /\ ~Exists(Form(request), "client_id")
                         \/ /\ request.path = "/revoke"
                            /\ request.authorization = "none"
                            /\ \E c \in SPAClients : Form(request)["client_id"] = <<c>>
    BY DEF OneClientIdentity
  <2>1. request \in Requests /\ protocolGates(request)
    BY DEF GatesInv
  <2>2. CASE request.path \in {"/oauth/introspect", "/revoke"}
    <3>1. /\ ~Repeated(request, {"token", "client_id", "client_secret"})
          /\ mutationClientAuthenticationGate(request)
      BY <2>1, <2>2 DEF protocolGates
    <3>2. "client_id" \in Params
      BY DEF Params, Values
    <3>3. Exists(Form(request), "client_id") =>
            Form(request)["client_id"] = <<Get(Form(request), "client_id")>>
      BY <2>1, <3>1, <3>2, TakenIsGet
    <3>4. QED
      BY <3>1, <3>3 DEF mutationClientAuthenticationGate, BasicAuth
  <2>3. CASE request.path = "/oauth/token" /\ "client_credentials" \in Taken("grant_type")
    <3>1. tokenGate(request)
      BY <2>1, <2>3 DEF protocolGates
    <3>2. Taken("grant_type") = {Get(Form(request), "grant_type")}
      <4>1. ~Repeated(request, {"grant_type", "client_id", "client_secret",
                                "redirect_uri", "code_verifier", "token", "scope"})
        BY <3>1 DEF tokenGate
      <4>2. "grant_type" \in Params
        BY DEF Params, Values
      <4>3. QED
        BY <2>1, <4>1, <4>2, TakenIsGet
    <3>3. QED
      BY <2>3, <3>1, <3>2 DEF tokenGate, BasicAuth
  <2>4. QED
    BY <2>2, <2>3
<1>2. QED
  BY <1>1, GatesInvariant, PTL

----------------------------------------------------------------------------
(* The userinfo answer. *)

Data == {"error", "claims"}
Writes == {w \in [status : {0, 200, 401, 403, 500}, data : Data \cup {"none"}] :
              w.status = 0 <=> w.data # "none"}
Captures == [status : {0, 200, 401, 403, 500}, header : SUBSET {"type"}, body : Seq(Data)]

\* The capture holds what the library's writes amount to, with claims only if
\* the origin is allowed; nothing is written before the gates let the request
\* pass, and what went out is the response made of the capture.
AnswerInv ==
    /\ written \in Seq(Writes)
    /\ capture \in Captures
    /\ capture.status = IF written = <<>> THEN 0 ELSE DirectStatus
    /\ DataInOrder(written, capture.body)
    /\ "claims" \in Range(capture.body) => originAllowed(request)
    /\ verdict = "draft" => written = <<>> /\ capture = NoCapture
    /\ verdict = "answered" => answer = userinfoResponse(capture)

\* One more element at the end of a sequence.
LEMMA AppendOne ==
    ASSUME NEW S, NEW s \in Seq(S), NEW x \in S
    PROVE  /\ Append(s, x) \in Seq(S) /\ Append(s, x) # <<>>
           /\ DOMAIN s = 1 .. Len(s) /\ DOMAIN Append(s, x) = 1 .. Len(s) + 1
           /\ Len(s) \in Nat
           /\ Append(s, x)[Len(s) + 1] = x
           /\ \A i \in 1 .. Len(s) : Append(s, x)[i] = s[i]
BY AppendProperties, LenProperties

\* Data that is written follows the data that went out before.
LEMMA DirectData ==
    ASSUME NEW writes \in Seq(Writes), NEW body \in Seq(Data),
           DataInOrder(writes, body), NEW data \in Data
    PROVE  DataInOrder(Append(writes, [status |-> 0, data |-> data]), Append(body, data))
<1> DEFINE w == [status |-> 0, data |-> data]
           more == Append(writes, w)
           W == DataWrites(writes)
           V == DataWrites(more)
           n == Len(writes)
           m == Len(body)
           b == Append(body, data)
<1>1. w \in Writes
  BY DEF Writes, Data
<1>2. /\ DOMAIN writes = 1 .. n /\ DOMAIN more = 1 .. n + 1 /\ n \in Nat
      /\ more[n + 1] = w /\ \A i \in 1 .. n : more[i] = writes[i]
  BY <1>1, AppendOne
<1>3. /\ DOMAIN body = 1 .. m /\ DOMAIN b = 1 .. m + 1 /\ m \in Nat
      /\ b[m + 1] = data /\ \A k \in 1 .. m : b[k] = body[k]
  BY AppendOne
<1>4. W \subseteq 1 .. n /\ V = W \cup {n + 1}
  BY <1>2 DEF Data, DataWrites
<1>5. PICK place \in [W -> DOMAIN body] :
        /\ \A i \in W : body[place[i]] = writes[i].data
        /\ \A i, j \in W : i < j => place[i] < place[j]
        /\ \A k \in DOMAIN body : \E i \in W : place[i] = k
  BY Zenon DEF DataInOrder
<1> DEFINE next == [i \in V |-> IF i = n + 1 THEN m + 1 ELSE place[i]]
<1>6. \A i \in V : next[i] = IF i = n + 1 THEN m + 1 ELSE place[i]
  OBVIOUS
<1>7. next = [i \in V |-> next[i]]
  OBVIOUS
<1>8. b = Append(body, data) /\ w.data = data
  OBVIOUS
<1>9. DataInOrder(more, b) <=>
         \E f \in [V -> DOMAIN b] :
            /\ \A i \in V : b[f[i]] = more[i].data
            /\ \A i, j \in V : i < j => f[i] < f[j]
            /\ \A k \in DOMAIN b : \E i \in V : f[i] = k
  BY Zenon DEF DataInOrder
<1> HIDE DEF W, V, n, m, b, w, more, next
<1>10. \A i \in W : place[i] \in 1 .. m /\ i \in 1 .. n
  BY <1>3, <1>4, <1>5
<1>11. \A i \in W : next[i] = place[i] /\ i \in V
  BY <1>2, <1>4, <1>6, <1>10
<1>12. next[n + 1] = m + 1 /\ n + 1 \in V
  BY <1>4, <1>6
<1>13. next \in [V -> DOMAIN b]
  <2>1. \A i \in V : next[i] \in 1 .. m + 1
    BY <1>3, <1>4, <1>10, <1>11, <1>12
  <2>2. QED
    BY <1>3, <1>7, <2>1
<1>14. ASSUME NEW i \in V PROVE b[next[i]] = more[i].data
  <2>1. CASE i \in W
    BY <1>2, <1>3, <1>5, <1>10, <1>11, <2>1
  <2>2. CASE i = n + 1
    BY <1>2, <1>3, <1>8, <1>12, <2>2
  <2>3. QED
    BY <1>4, <2>1, <2>2
<1>15. ASSUME NEW i \in V, NEW j \in V, i < j PROVE next[i] < next[j]
  <2>1. CASE i \in W /\ j \in W
    BY <1>5, <1>11, <1>15, <2>1
  <2>2. CASE i \in W /\ j = n + 1
    BY <1>3, <1>10, <1>11, <1>12, <2>2
  <2>3. CASE i = n + 1
    BY <1>2, <1>4, <1>10, <1>15, <2>3
  <2>4. QED
    BY <1>4, <2>1, <2>2, <2>3
<1>16. ASSUME NEW k \in DOMAIN b PROVE \E i \in V : next[i] = k
  <2>1. CASE k = m + 1
    BY <1>12, <2>1
  <2>2. CASE k \in 1 .. m
    <3>1. PICK i \in W : place[i] = k
      BY <1>3, <1>5, <2>2
    <3>2. QED
      BY <1>11, <3>1
  <2>3. QED
    BY <1>3, <2>1, <2>2
<1>17. DataInOrder(more, b)
  BY <1>9, <1>13, <1>14, <1>15, <1>16
<1>18. QED
  BY <1>17 DEF more, b, w

\* A status that is written adds nothing to the body.
LEMMA DirectHead ==
    ASSUME NEW writes \in Seq(Writes), NEW body,
           DataInOrder(writes, body), NEW status \in {200, 401, 403, 500}
    PROVE  DataInOrder(Append(writes, [status |-> status, data |-> "none"]), body)
<1> DEFINE w == [status |-> status, data |-> "none"]
           more == Append(writes, w)
<1>1. w \in Writes
  BY DEF Writes, Data
<1>2. /\ DOMAIN writes = 1 .. Len(writes)
      /\ DOMAIN more = 1 .. Len(writes) + 1 /\ Len(writes) \in Nat
      /\ more[Len(writes) + 1] = w
      /\ \A i \in 1 .. Len(writes) : more[i] = writes[i]
  BY <1>1, AppendOne
<1>3. w.data = "none"
  OBVIOUS
<1> HIDE DEF w, more
<1>4. DataWrites(more) = DataWrites(writes)
  BY <1>2, <1>3 DEF DataWrites
<1>5. \A i \in DataWrites(writes) : more[i] = writes[i]
  BY <1>2 DEF DataWrites
<1>6. DataInOrder(more, body)
  BY <1>4, <1>5 DEF DataInOrder
<1>7. QED
  BY <1>6 DEF more, w

\* The first write decides the status for good.
LEMMA StatusKept ==
    ASSUME written \in Seq(Writes), NEW w \in Writes, written' = Append(written, w)
    PROVE  /\ written' \in Seq(Writes) /\ written' # <<>>
           /\ written # <<>> => DirectStatus' = DirectStatus
           /\ written = <<>> => DirectStatus' = IF w.status = 0 THEN 200 ELSE w.status
<1>1. /\ Append(written, w) \in Seq(Writes) /\ Append(written, w) # <<>>
      /\ Len(written) \in Nat /\ Append(written, w)[Len(written) + 1] = w
      /\ \A i \in 1 .. Len(written) : Append(written, w)[i] = written[i]
  BY AppendOne
<1>2. CASE written = <<>>
  <2>1. Len(written) = 0
    BY <1>2, EmptySeq
  <2>2. written'[1] = w
    BY <1>1, <2>1
  <2>3. QED
    BY <1>1, <1>2, <2>2 DEF DirectStatus
<1>3. CASE written # <<>>
  <2>1. Len(written) # 0
    BY <1>3, EmptySeq
  <2>2. written'[1] = written[1]
    BY <1>1, <2>1
  <2>3. QED
    BY <1>1, <1>3, <2>2 DEF DirectStatus
<1>4. QED
  BY <1>2, <1>3

\* A write of the library keeps it: WriteHeader and Write take only the first
\* status, and Write appends.
LEMMA WritesAnswer ==
    ASSUME AnswerInv, LibraryWrites PROVE AnswerInv'
<1>1. verdict = "library" /\ UNCHANGED <<request, verdict, answer>>
  BY DEF LibraryWrites
<1>2. /\ written \in Seq(Writes) /\ capture \in Captures
      /\ capture.status = IF written = <<>> THEN 0 ELSE DirectStatus
      /\ DataInOrder(written, capture.body)
      /\ "claims" \in Range(capture.body) => originAllowed(request)
  BY DEF AnswerInv
<1>3. written # <<>> => DirectStatus \in {200, 401, 403, 500}
  <2>1. written # <<>> => written[1] \in Writes
    BY <1>2, EmptySeq, LenProperties, ElementOfSeq
  <2>2. QED
    BY <2>1 DEF DirectStatus, Writes
<1>4. originAllowed(request)' = originAllowed(request)
  BY <1>1 DEF originAllowed
<1>5. CASE capture' = [capture EXCEPT !.header = @ \cup {"type"}] /\ UNCHANGED written
  <2>1. /\ capture' = [status |-> capture.status, header |-> capture.header \cup {"type"},
                       body |-> capture.body]
        /\ capture.header \cup {"type"} \subseteq {"type"}
    BY <1>2, <1>5 DEF Captures
  <2>2. /\ capture' \in Captures /\ capture'.status = capture.status
        /\ capture'.body = capture.body
    BY <1>2, <2>1 DEF Captures
  <2>3. DirectStatus' = DirectStatus
    BY <1>5 DEF DirectStatus
  <2>4. QED
    BY <1>1, <1>2, <1>4, <1>5, <2>2, <2>3 DEF AnswerInv
<1>6. ASSUME NEW status \in {200, 401, 403, 500},
             capture' = WriteHeader(capture, status),
             written' = Append(written, [status |-> status, data |-> "none"])
      PROVE  AnswerInv'
  <2> DEFINE w == [status |-> status, data |-> "none"]
  <2>1. w \in Writes /\ w.status = status
    BY DEF Writes, Data
  <2>2. /\ capture' \in Captures /\ capture'.body = capture.body
        /\ capture'.status = IF capture.status = 0 THEN status ELSE capture.status
    <3>1. CASE capture.status = 0
      <4>1. capture' = [capture EXCEPT !.status = status]
        BY <1>6, <3>1 DEF WriteHeader
      <4>2. QED
        BY <1>2, <3>1, <4>1 DEF Captures
    <3>2. CASE capture.status # 0
      BY <1>2, <1>6, <3>2 DEF WriteHeader
    <3>3. QED
      BY <3>1, <3>2
  <2>3. DataInOrder(written', capture'.body)
    BY <1>2, <1>6, <2>2, DirectHead
  <2> HIDE DEF w
  <2>4. /\ written' \in Seq(Writes) /\ written' # <<>>
        /\ written # <<>> => DirectStatus' = DirectStatus
        /\ written = <<>> => DirectStatus' = IF w.status = 0 THEN 200 ELSE w.status
    BY <1>2, <1>6, <2>1, StatusKept DEF w
  <2>5. capture'.status = DirectStatus'
    BY <1>2, <1>3, <2>1, <2>2, <2>4
  <2>6. QED
    BY <1>1, <1>2, <1>4, <2>2, <2>3, <2>4, <2>5 DEF AnswerInv
<1>7. ASSUME NEW data \in Data, data = "claims" => originAllowed(request),
             capture' = Write(capture, data),
             written' = Append(written, [status |-> 0, data |-> data])
      PROVE  AnswerInv'
  <2> DEFINE w == [status |-> 0, data |-> data]
             b == Append(capture.body, data)
  <2>1. w \in Writes /\ w.status = 0
    BY DEF Writes, Data
  <2>2. capture.body \in Seq(Data)
    BY <1>2 DEF Captures
  <2>3. /\ b \in Seq(Data) /\ DOMAIN b = 1 .. Len(capture.body) + 1
        /\ DOMAIN capture.body = 1 .. Len(capture.body)
        /\ Len(capture.body) \in Nat /\ b[Len(capture.body) + 1] = data
        /\ \A i \in 1 .. Len(capture.body) : b[i] = capture.body[i]
    BY <2>2, AppendOne
  <2>4. DataInOrder(written', b)
    BY <1>2, <1>7, <2>2, DirectData
  <2>5. /\ capture' = [status |-> IF capture.status = 0 THEN 200 ELSE capture.status,
                       header |-> capture.header, body |-> b]
    BY <1>2, <1>7 DEF Captures, Write
  <2> HIDE DEF w, b
  <2>6. /\ capture' \in Captures /\ capture'.body = b
        /\ capture'.status = IF capture.status = 0 THEN 200 ELSE capture.status
    BY <1>2, <2>3, <2>5 DEF Captures
  <2>7. /\ written' \in Seq(Writes) /\ written' # <<>>
        /\ written # <<>> => DirectStatus' = DirectStatus
        /\ written = <<>> => DirectStatus' = IF w.status = 0 THEN 200 ELSE w.status
    BY <1>2, <1>7, <2>1, StatusKept DEF w
  <2>8. capture'.status = DirectStatus'
    BY <1>2, <1>3, <2>1, <2>6, <2>7
  <2>9. "claims" \in Range(b) => originAllowed(request)
    <3>1. Range(b) = Range(capture.body) \cup {data}
      BY <2>3 DEF Range
    <3>2. QED
      BY <1>2, <1>7, <3>1
  <2>10. QED
    BY <1>1, <1>4, <2>4, <2>6, <2>7, <2>8, <2>9 DEF AnswerInv
<1>8. CASE \E status \in {200, 401, 403, 500} :
            /\ capture' = WriteHeader(capture, status)
            /\ written' = Append(written, [status |-> status, data |-> "none"])
  <2>1. PICK status \in {200, 401, 403, 500} :
            /\ capture' = WriteHeader(capture, status)
            /\ written' = Append(written, [status |-> status, data |-> "none"])
    BY <1>8, Zenon
  <2>2. QED
    BY <1>6, <2>1
<1>9. CASE \E data \in {"error"} \cup (IF originAllowed(request) THEN {"claims"} ELSE {}) :
            /\ capture' = Write(capture, data)
            /\ written' = Append(written, [status |-> 0, data |-> data])
  <2>1. PICK data \in {"error"} \cup (IF originAllowed(request) THEN {"claims"} ELSE {}) :
            /\ capture' = Write(capture, data)
            /\ written' = Append(written, [status |-> 0, data |-> data])
    BY <1>9, Zenon
  <2>2. data \in Data /\ (data = "claims" => originAllowed(request))
    BY DEF Data
  <2>3. QED
    BY <1>7, <2>1, <2>2, Zenon
<1>10. QED
  BY <1>5, <1>8, <1>9, Zenon DEF LibraryWrites

\* Nothing else changes the capture, and a draft is changed before there is one.
LEMMA AnswerInvariant == Spec => []AnswerInv
<1>1. Init => AnswerInv
  <2> SUFFICES ASSUME Init PROVE AnswerInv
    OBVIOUS
  <2>1. written = <<>> /\ capture = NoCapture /\ verdict = "draft"
    BY DEF Init
  <2>2. /\ NoCapture \in Captures /\ NoCapture.status = 0 /\ NoCapture.body = <<>>
    BY EmptySeq DEF NoCapture, Captures, Data
  <2>3. DOMAIN <<>> = {} /\ <<>> \in Seq(Writes)
    BY EmptySeq
  <2>4. DataInOrder(<<>>, <<>>)
    <3>1. DataWrites(<<>>) = {}
      BY <2>3 DEF DataWrites
    <3>2. [i \in {} |-> 0] \in [DataWrites(<<>>) -> DOMAIN <<>>]
      BY <2>3, <3>1
    <3>3. QED
      BY <2>3, <3>1, <3>2, Zenon DEF DataInOrder
  <2>5. Range(<<>>) = {}
    BY <2>3 DEF Range
  <2>6. QED
    BY <2>1, <2>2, <2>3, <2>4, <2>5 DEF AnswerInv
<1>2. AnswerInv /\ [Next]_gateVars => AnswerInv'
  <2> SUFFICES ASSUME AnswerInv, [Next]_gateVars PROVE AnswerInv'
    OBVIOUS
  <2>1. CASE Edit
    <3>1. /\ written = <<>> /\ capture = NoCapture /\ verdict = "draft"
          /\ UNCHANGED <<verdict, capture, written, answer>>
      BY <2>1 DEF Edit, AnswerInv
    <3>2. Range(capture.body) = {}
      BY <3>1, EmptySeq DEF NoCapture, Range
    <3>3. DirectStatus' = DirectStatus
      BY <3>1 DEF DirectStatus
    <3>4. QED
      BY <3>1, <3>2, <3>3 DEF AnswerInv
  <2>2. CASE Send
    <3>1. /\ UNCHANGED <<request, capture, written, answer>>
          /\ verdict' \in {"library", "refused"}
      BY <2>2 DEF Send
    <3>2. DirectStatus' = DirectStatus /\ originAllowed(request)' = originAllowed(request)
      BY <3>1 DEF DirectStatus, originAllowed
    <3>3. QED
      BY <3>1, <3>2 DEF AnswerInv
  <2>3. CASE LibraryWrites
    BY <2>3, WritesAnswer
  <2>4. CASE Respond
    <3>1. /\ UNCHANGED <<request, capture, written>> /\ verdict' = "answered"
          /\ answer' = userinfoResponse(capture)
      BY <2>4 DEF Respond
    <3>2. DirectStatus' = DirectStatus /\ originAllowed(request)' = originAllowed(request)
      BY <3>1 DEF DirectStatus, originAllowed
    <3>3. QED
      BY <3>1, <3>2 DEF AnswerInv
  <2>5. CASE UNCHANGED gateVars
    <3>1. UNCHANGED <<request, verdict, capture, written, answer>>
      BY <2>5 DEF gateVars
    <3>2. DirectStatus' = DirectStatus /\ originAllowed(request)' = originAllowed(request)
      BY <3>1 DEF DirectStatus, originAllowed
    <3>3. QED
      BY <3>1, <3>2 DEF AnswerInv
  <2>6. QED
    BY <2>1, <2>2, <2>3, <2>4, <2>5 DEF Next
<1>3. QED
  BY <1>1, <1>2, PTL DEF Spec

\* A userinfo answer is what the library wrote, whatever the order and number of
\* its writes, but for refusals, which all look the same; claims reach only
\* pages of the client that owns the token.
THEOREM UserinfoHolds == Spec => []UserinfoAnswers
<1>1. GatesInv /\ AnswerInv => UserinfoAnswers
  <2> SUFFICES ASSUME GatesInv, AnswerInv, verdict = "answered"
               PROVE  UserinfoAnswers
    BY DEF UserinfoAnswers
  <2>1. /\ answer = userinfoResponse(capture) /\ capture \in Captures
        /\ capture.status = IF written = <<>> THEN 0 ELSE DirectStatus
        /\ DataInOrder(written, capture.body)
        /\ "claims" \in Range(capture.body) => originAllowed(request)
    BY DEF AnswerInv
  <2>2. written = <<>> => DirectStatus = 200
    BY DEF DirectStatus
  <2>3. CASE DirectStatus \in {401, 403}
    <3>1. answer = [status |-> 401, header |-> {"challenge"}, body |-> <<"invalid_token">>]
      BY <2>1, <2>2, <2>3 DEF userinfoResponse
    <3>2. "claims" \notin Range(answer.body)
      <4>1. answer.body = <<"invalid_token">>
        BY <3>1
      <4>2. QED
        BY <4>1 DEF Range
    <3>3. QED
      BY <2>3, <3>1, <3>2 DEF UserinfoAnswers
  <2>4. CASE DirectStatus \notin {401, 403}
    <3>1. answer = [capture EXCEPT !.status = IF @ = 0 THEN 200 ELSE @]
      BY <2>1, <2>2, <2>4 DEF userinfoResponse
    <3>2. /\ answer.body = capture.body /\ answer.header = capture.header
          /\ answer.status = IF capture.status = 0 THEN 200 ELSE capture.status
      BY <2>1, <3>1 DEF Captures
    <3>3. capture.status = 0 => written = <<>>
      <4>1. written # <<>> => DirectStatus # 0
        <5>1. written \in Seq(Writes)
          BY DEF AnswerInv
        <5>2. written # <<>> => written[1] \in Writes
          BY <5>1, EmptySeq, LenProperties, ElementOfSeq
        <5>3. QED
          BY <5>2 DEF DirectStatus, Writes
      <4>2. QED
        BY <2>1, <4>1
    <3>4. answer.status = DirectStatus
      BY <2>1, <2>2, <3>2, <3>3
    <3>5. "claims" \in Range(answer.body) /\ request.origin \in configuredOrigins =>
              request.origin \in Origins[request.owner]
      <4>1. "" \notin configuredOrigins
        BY OriginsAssumption, Zenon DEF configuredOrigins
      <4>2. QED
        BY <2>1, <3>2, <4>1, Zenon DEF originAllowed
    <3>6. QED
      BY <2>1, <2>4, <3>2, <3>4, <3>5 DEF UserinfoAnswers
  <2>5. QED
    BY <2>3, <2>4
<1>2. QED
  BY <1>1, GatesInvariant, AnswerInvariant, PTL

============================================================================
