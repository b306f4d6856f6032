--------------------------- MODULE TokenEndpoint ---------------------------
(***************************************************************************)
(* The endpoints of a realm that create, rotate, revoke and answer for     *)
(* tokens: /oauth/token, /revoke, /end_session, /oauth/introspect and      *)
(* /userinfo.  Each request is served by a goroutine (a thread here) that  *)
(* calls the store's methods one after the other; every method is atomic   *)
(* and the calls of different threads interleave.  The order of a          *)
(* handler's calls is that of the OpenID provider library the server       *)
(* mounts, which is not part of the repository.                            *)
(***************************************************************************)
EXTENDS Store

CONSTANTS
    Threads,    \* the requests the server works on at the same time
    Sessions,   \* sign-ins completed before the model starts
    Grants,     \* the scope sets a sign-in may have been granted
    MaxCalls,   \* bound on the requests served by a thread
    MaxLogouts  \* bound on the sessions ended

VARIABLES
    calls,          \* thread -> where its request stands and what it holds
    started,        \* how many bounded requests have begun
    audienceTaken,  \* AuthRequests whose accessAudienceReturned is set
    responses,      \* history: the audiences put in the tokens of exchanges
    redeemed,       \* history: <<authorization request, access id>> created
    logouts         \* history: what existed when a session was ended

tokenVars == <<calls, started, audienceTaken, responses, redeemed, logouts>>
vars == <<store, now, slots, serial, tokenVars>>

ASSUME CallsAssumption ==
    /\ MaxCalls \in Nat
    /\ MaxLogouts \in Nat
    /\ Sessions \in Nat
    /\ IsFiniteSet(Threads)
    /\ Grants \subseteq SUBSET Scopes

\* Where a thread stands between two calls of store methods.
Stages == {"idle", "codeFound", "created", "signed", "finishing",
           "refreshFound", "revoking", "hashing", "authorized"}

Call ==
    [stage: Stages, auth: Nat, client: Clients \cup {NoID},
     subject: Subjects \cup {NoID}, scopes: SUBSET Scopes,
     token: Nat, family: Nat, deadline: Nat]

Idle == [stage |-> "idle", auth |-> 0, client |-> NoID, subject |-> NoID,
         scopes |-> {}, token |-> 0, family |-> 0, deadline |-> 0]

\* The op.TokenRequest a call passes to the store.
RequestOf(call) ==
    [auth |-> call.auth, client |-> call.client, subject |-> call.subject,
     scopes |-> call.scopes]

Logout == [subject: Users, client: SPAClients, access: Nat, family: Nat,
           requests: SUBSET Nat]
Audiences == {"resource", "client", "unsigned"}
Response == [auth: Nat, access: Audiences, id: Audiences]

----------------------------------------------------------------------------
(* The sign-ins that precede: each is a completed request with its code. *)

SignedIn(i, client, user, scopes) ==
    [id |-> i, client |-> client, subject |-> user,
     scopes |-> Granted(client, user, scopes), expires |-> 1 + AuthTTL,
     authTime |-> 1, done |-> TRUE, code |-> i, secret |-> 0]

SavedCode(i) ==
    [code |-> i, requestID |-> i, expires |-> 1 + AuthTTL, reserved |-> FALSE]

Init ==
    /\ \E client \in [1 .. Sessions -> SPAClients],
          user \in [1 .. Sessions -> Users],
          scopes \in [1 .. Sessions -> Grants] :
        store = [NewStore EXCEPT
            !.authRequests = {SignedIn(i, client[i], user[i], scopes[i]) :
                              i \in 1 .. Sessions},
            !.codes = {SavedCode(i) : i \in 1 .. Sessions},
            !.nextExpiry = IF Sessions = 0 THEN 0 ELSE 1 + AuthTTL]
    /\ now = 1
    /\ slots = 0
    /\ serial = [request |-> Sessions, code |-> Sessions, access |-> 0,
                 refresh |-> 0, family |-> 0, secret |-> Sessions]
    /\ calls = [th \in Threads |-> Idle]
    /\ started = 0
    /\ audienceTaken = {}
    /\ responses = {}
    /\ redeemed = {}
    /\ logouts = {}

\* A request enters the server on an idle thread.
Begin(th) ==
    /\ calls[th].stage = "idle"
    /\ started < MaxCalls
    /\ started' = started + 1

\* The thread answers and is free again.
Return(th) == calls' = [calls EXCEPT ![th] = Idle]

At(th, stage) == calls[th].stage = stage
Advance(th, stage) == calls' = [calls EXCEPT ![th].stage = stage]

----------------------------------------------------------------------------
(* Authorization code grant. *)

\* AuthRequestByCode, then the library's comparison of the client, the
\* redirect URI and the PKCE verifier with those of the request, which may
\* refuse what the store found.
ExchangeLookup(th, code) ==
    /\ Begin(th)
    /\ store' = Pruned
    /\ \/ \E r \in AuthRequestByCode(Pruned, now, code) :
            calls' = [calls EXCEPT ![th] =
                [Idle EXCEPT !.stage = "codeFound", !.auth = r.id,
                    !.client = r.client, !.subject = r.subject,
                    !.scopes = r.scopes, !.deadline = r.expires]]
       \/ Return(th)
    /\ UNCHANGED <<now, slots, serial, audienceTaken, responses, redeemed, logouts>>

\* CreateAccessAndRefreshTokens when offline_access was granted, and
\* CreateAccessToken otherwise; both reserve the code or refuse.
ExchangeCreate(th) ==
    LET request == RequestOf(calls[th])
        id == serial.access + 1
    IN  /\ At(th, "codeFound")
        /\ reserveOK(Pruned, request)
        /\ \/ /\ "offline_access" \in request.scopes
              /\ store' = CreateFamily(Pruned, now, serial.family + 1,
                                       serial.refresh + 1, id, request)
              /\ serial' = [serial EXCEPT !.access = @ + 1, !.refresh = @ + 1,
                                          !.family = @ + 1]
           \/ /\ "offline_access" \notin request.scopes
              /\ store' = CreateAccessToken(Pruned, now, id, request)
              /\ serial' = [serial EXCEPT !.access = @ + 1]
        /\ redeemed' = redeemed \cup {<<request.auth, id>>}
        /\ Advance(th, "created")
        /\ UNCHANGED <<now, slots, started, audienceTaken, responses, logouts>>

ExchangeRefused(th) ==
    /\ At(th, "codeFound")
    /\ ~reserveOK(Pruned, RequestOf(calls[th]))
    /\ store' = Pruned
    /\ Return(th)
    /\ UNCHANGED <<now, slots, serial, started, audienceTaken, responses, redeemed, logouts>>

\* AuthRequest.GetAudience: the first caller gets the resource audiences,
\* a later one the client id.  The flag is on the shared request object.
GetAudience(auth) == IF auth \in audienceTaken THEN "client" ELSE "resource"

\* Mutant: GetAudience forgets to set the flag.
SignAccessTokenUnmarked(th) ==
    /\ calls[th].stage = "created"
    /\ responses' = responses \cup {[auth |-> calls[th].auth,
           access |-> GetAudience(calls[th].auth), id |-> "unsigned"]}
    /\ Advance(th, "signed")
    /\ UNCHANGED <<store, now, slots, serial, started, audienceTaken, redeemed, logouts>>

\* The access JWT is signed before the ID token; each asks for its audience.
SignAccessToken(th) ==
    LET auth == calls[th].auth
    IN  /\ At(th, "created")
        /\ responses' = responses \cup
               {[auth |-> auth, access |-> GetAudience(auth), id |-> "unsigned"]}
        /\ audienceTaken' = audienceTaken \cup {auth}
        /\ Advance(th, "signed")
        /\ UNCHANGED <<store, now, slots, serial, started, redeemed, logouts>>

SignIDToken(th) ==
    LET auth == calls[th].auth
    IN  /\ At(th, "signed")
        /\ responses' = {IF p.auth = auth THEN [p EXCEPT !.id = GetAudience(auth)]
                         ELSE p : p \in responses}
        /\ audienceTaken' = audienceTaken \cup {auth}
        /\ Advance(th, "finishing")
        /\ UNCHANGED <<store, now, slots, serial, started, redeemed, logouts>>

\* DeleteAuthRequest; its failure turns the answer into an error.
ExchangeFinish(th) ==
    /\ At(th, "finishing")
    /\ store' = IF DeleteAuthRequestOK(store, calls[th].auth)
                THEN DeleteAuthRequest(store, calls[th].auth)
                ELSE store
    /\ Return(th)
    /\ UNCHANGED <<now, slots, serial, started, audienceTaken, responses, redeemed, logouts>>

----------------------------------------------------------------------------
(* Refresh token grant. *)

\* TokenRequestByRefreshToken copies the record.  The library compares the
\* client and lets the request narrow the scopes (SetCurrentScopes).
RefreshLookup(th, token) ==
    /\ Begin(th)
    /\ \/ \E r \in TokenRequestByRefreshToken(Pruned, now, token),
             scopes \in SUBSET Scopes :
            /\ scopes # {} => scopes \subseteq r.scopes
            /\ store' = Pruned
            /\ calls' = [calls EXCEPT ![th] =
                [Idle EXCEPT !.stage = "refreshFound", !.client = r.client,
                    !.subject = r.subject, !.token = token, !.family = r.family,
                    !.scopes = IF scopes = {} THEN r.scopes ELSE scopes]]
       \/ /\ store' = revokeFamilyLocked(Pruned,
                          {r.family : r \in Replayed(Pruned, token)})
          /\ Return(th)
    /\ UNCHANGED <<now, slots, serial, audienceTaken, responses, redeemed, logouts>>

RefreshRotate(th) ==
    LET call == calls[th]
        id == serial.access + 1
    IN  /\ At(th, "refreshFound")
        /\ \E old \in Rotatable(Pruned, now, call.token, call.client) :
            store' = RotateToken(Pruned, now, old, serial.refresh + 1, id,
                                 RequestOf(call))
        /\ serial' = [serial EXCEPT !.access = @ + 1, !.refresh = @ + 1]
        /\ Return(th)
        /\ UNCHANGED <<now, slots, started, audienceTaken, responses, redeemed, logouts>>

\* Mutant: a refused rotation is tried again for ever.
RefreshRetried(th) ==
    /\ calls[th].stage = "refreshFound"
    /\ Rotatable(Pruned, now, calls[th].token, calls[th].client) = {}
    /\ store' = Pruned
    /\ UNCHANGED <<now, slots, serial, tokenVars>>

\* The token was rotated, or its family ended, since the lookup.
RefreshRefused(th) ==
    LET call == calls[th]
    IN  /\ At(th, "refreshFound")
        /\ Rotatable(Pruned, now, call.token, call.client) = {}
        /\ store' = revokeFamilyLocked(Pruned,
                        {r.family : r \in Replayed(Pruned, call.token)})
        /\ Return(th)
        /\ UNCHANGED <<now, slots, serial, started, audienceTaken, responses, redeemed, logouts>>

----------------------------------------------------------------------------
(* Revocation and logout. *)

\* GetRefreshTokenInfo prunes.  Whatever it answers, the library goes on to
\* RevokeToken with the token as it came; family, 0 for none, is only read by
\* the properties.
RevokeLookup(th, client, token) ==
    LET held == TokenFamilies(Pruned, client, token)
    IN  /\ Begin(th)
        /\ store' = Pruned
        /\ \E family \in IF held = {} THEN {0} ELSE held :
              calls' = [calls EXCEPT ![th] =
                  [Idle EXCEPT !.stage = "revoking", !.client = client,
                               !.token = token, !.family = family]]
        /\ UNCHANGED <<now, slots, serial, audienceTaken, responses, redeemed, logouts>>

RevokeToken(th) ==
    /\ At(th, "revoking")
    /\ store' = RevokeRefreshToken(Pruned, calls[th].client, calls[th].token)
    /\ Return(th)
    /\ UNCHANGED <<now, slots, serial, started, audienceTaken, responses, redeemed, logouts>>

\* The submitted token is an access JWT: GetRefreshTokenInfo knows nothing of
\* it and the library passes its id to RevokeToken.
RevokeAccess(client, id) ==
    /\ store' = RevokeAccessToken(Pruned, client, id)
    /\ UNCHANGED <<now, slots, serial, tokenVars>>

\* The id_token_hint was verified: it names a subject and a client.
EndSession(user, client) ==
    /\ Cardinality(logouts) < MaxLogouts
    /\ store' = TerminateSession(Pruned, user, client)
    /\ logouts' = logouts \cup
           {[subject |-> user, client |-> client, access |-> serial.access,
             family |-> serial.family,
             requests |-> {r.id : r \in {x \in Pruned.authRequests :
                             x.done /\ x.subject = user /\ x.client = client}}]}
    /\ UNCHANGED <<now, slots, serial, calls, started, audienceTaken, responses, redeemed>>

----------------------------------------------------------------------------
(* Client credentials, introspection, userinfo. *)

\* AuthorizeClientIDSecret: compareCredential takes a slot or gives up.
CredentialsBegin(th, client) ==
    /\ Begin(th)
    /\ \/ /\ slots < HashSlots
          /\ slots' = slots + 1
          /\ calls' = [calls EXCEPT ![th] =
                [Idle EXCEPT !.stage = "hashing", !.client = client]]
       \/ /\ slots = HashSlots
          /\ Return(th)
          /\ UNCHANGED slots
    /\ UNCHANGED <<store, now, serial, audienceTaken, responses, redeemed, logouts>>

\* bcrypt is done: the deferred receive frees the slot in every case.
CredentialsEnd(th) ==
    /\ At(th, "hashing")
    /\ slots' = slots - 1
    /\ \/ /\ calls[th].client \in ServiceClients
          /\ Advance(th, "authorized")
       \/ Return(th)
    /\ UNCHANGED <<store, now, serial, started, audienceTaken, responses, redeemed, logouts>>

\* ClientCredentialsTokenRequest, then CreateAccessToken for the service.
ServiceToken(th, scopes) ==
    LET client == calls[th].client
        request == [auth |-> 0, client |-> client, subject |-> client,
                    scopes |-> scopes]
    IN  /\ At(th, "authorized")
        /\ ClientCredentialsTokenRequestOK(client, scopes)
        /\ store' = CreateAccessToken(Pruned, now, serial.access + 1, request)
        /\ serial' = [serial EXCEPT !.access = @ + 1]
        /\ Return(th)
        /\ UNCHANGED <<now, slots, started, audienceTaken, responses, redeemed, logouts>>

\* An authorized service revokes an access token.
ServiceRevoke(th, id) ==
    /\ At(th, "authorized")
    /\ store' = RevokeAccessToken(Pruned, calls[th].client, id)
    /\ Return(th)
    /\ UNCHANGED <<now, slots, serial, started, audienceTaken, responses, redeemed, logouts>>

\* An authorized service introspects a token (which prunes), or asks for
\* scopes that ClientCredentialsTokenRequest refuses (which does not).
ServiceQuery(th) ==
    /\ At(th, "authorized")
    /\ store' = Pruned \/ store' = store
    /\ Return(th)
    /\ UNCHANGED <<now, slots, serial, started, audienceTaken, responses, redeemed, logouts>>

\* Userinfo, and every other call that prunes and changes nothing else.
Query ==
    /\ store' = Pruned
    /\ UNCHANGED <<now, slots, serial, tokenVars>>

Advancing == Tick /\ UNCHANGED <<store, slots, serial, tokenVars>>

----------------------------------------------------------------------------
Finish(th) ==
    \/ ExchangeCreate(th)
    \/ ExchangeRefused(th)
    \/ SignAccessToken(th)
    \/ SignIDToken(th)
    \/ ExchangeFinish(th)
    \/ RefreshRotate(th)
    \/ RefreshRefused(th)
    \/ RevokeToken(th)
    \/ CredentialsEnd(th)
    \/ \E scopes \in SUBSET Scopes : ServiceToken(th, scopes)
    \/ \E id \in 1 .. serial.access : ServiceRevoke(th, id)
    \/ ServiceQuery(th)

Start(th) ==
    \/ \E code \in 1 .. serial.code : ExchangeLookup(th, code)
    \/ \E token \in 1 .. serial.refresh : RefreshLookup(th, token)
    \/ \E client \in SPAClients, token \in 1 .. serial.refresh :
            RevokeLookup(th, client, token)
    \/ \E client \in Clients : CredentialsBegin(th, client)

Next ==
    \/ \E th \in Threads : Start(th) \/ Finish(th)
    \/ \E client \in SPAClients, id \in 1 .. serial.access : RevokeAccess(client, id)
    \/ \E user \in Users, client \in SPAClients : EndSession(user, client)
    \/ Query
    \/ Advancing

Spec == Init /\ [][Next]_vars

\* A handler that began keeps running until it answers: no store method
\* waits for anything but the mutex, which every method releases.
Fairness == \A th \in Threads : WF_vars(Finish(th))
FairSpec == Spec /\ Fairness

----------------------------------------------------------------------------
(* Properties. *)

HandlerTypes ==
    /\ store \in StoreType
    /\ now \in Nat \ {0}
    /\ serial \in SerialType
    /\ calls \in [Threads -> Call]
    /\ started \in 0 .. MaxCalls
    /\ audienceTaken \subseteq Nat
    /\ responses \subseteq Response
    /\ redeemed \subseteq Nat \X Nat
    /\ logouts \subseteq Logout

TypeOK == HandlerTypes /\ slots \in 0 .. HashSlots

\* Introspection and userinfo compare no expiry and no revoked flag: they
\* rely on the record being gone.  Whatever they would call active now is
\* unexpired and of no revoked family.
AnswersAreLive ==
    \A subject \in Subjects, client \in Clients, id \in 1 .. serial.access :
        \A a \in SetIntrospectionFromToken(Pruned, id, subject, client)
                 \cup SetUserinfoFromToken(Pruned, id, subject) :
            now < a.expires /\ a.family \notin store.revoked

\* A family that was revoked (by replay, revocation or logout) leaves
\* nothing behind, and no call in flight brings any of it back.
RevokedFamilyIsGone ==
    /\ store.revoked \cap FamilyIDs(store) = {}
    /\ \A r \in store.refresh : r.family \notin store.revoked
    /\ \A a \in store.access : a.family \notin store.revoked

\* Rotation and its races leave a family one usable refresh token, and no
\* access record but the one issued with that token.
FamilyHoldsOnePair ==
    \A f \in store.families :
        LET usable == {r \in store.refresh : r.family = f.id /\ ~r.consumed}
        IN  \E r \in usable :
                /\ usable = {r}
                /\ \A a \in store.access : a.family = f.id => a.id = r.accessID

\* No refresh record outlives its family, and the index that expiry cleanup
\* follows (family.tokens) never misses a usable token.
RefreshIndexComplete ==
    \A r \in store.refresh : \E f \in store.families :
        /\ f.id = r.family
        /\ r.consumed \/ r.token \in f.tokens

\* Concurrent redemption of a code succeeds once.
CodeRedeemedOnce ==
    \A p, q \in redeemed : p[1] = q[1] => p = q

\* The exchange that won the code can lose its request to nothing but the
\* five minutes running out, so DeleteAuthRequest fails only then.
WinnerKeepsItsRequest ==
    \A th \in Threads :
        calls[th].stage \in {"created", "signed", "finishing"} =>
            \/ DeleteAuthRequestOK(store, calls[th].auth)
            \/ calls[th].deadline <= now

\* The flag behind GetAudience is on an object that concurrent exchanges
\* share: the access token still gets the resource audiences and the ID
\* token the client id.
AudienceOrder ==
    \A p \in responses : p.access = "resource" /\ p.id # "resource"

\* Once a session was ended, no access record and no family of it is seen
\* again, whatever refresh was in flight.
LogoutIsFinal ==
    \A l \in logouts :
        /\ \A a \in store.access :
              a.subject = l.subject /\ a.client = l.client =>
                  a.id > l.access /\ (a.family = 0 \/ a.family > l.family)
        /\ \A f \in store.families :
              f.subject = l.subject /\ f.client = l.client => f.id > l.family

\* What README.md says of /end_session, that it terminates provider state for
\* the subject and client: no sign-in of theirs that was complete at the
\* logout yields a token afterwards.
LogoutEndsSignIns ==
    \A l \in logouts, p \in redeemed : p[1] \in l.requests => p[2] <= l.access

\* A token carries no scope outside the client's allow-list, and no custom
\* scope its subject has no permission for, however often it was rotated.
TokenScopesAllowed ==
    \A a \in store.access :
        /\ a.scopes \subseteq AllowedScopes[a.client]
        /\ a.scopes \ StandardScopes \subseteq Permissions[a.subject]

\* Credential checks hold exactly the slots in use: none leaks.
Hashing == {th \in Threads : At(th, "hashing")}
SlotsBalanced == slots = Cardinality(Hashing)

\* A revocation ends the family of its refresh token even if the token was
\* rotated before it began or between its two calls.
RevocationIsFinal ==
    [][ \A th \in Threads :
          calls[th].stage = "revoking" /\ calls'[th].stage # "revoking" =>
              calls[th].family \notin FamilyIDs(store') ]_vars

\* What a thread may rely on between two calls of store methods.
CallReady(call) ==
    /\ call.stage \in {"codeFound", "created", "signed", "finishing"} => 0 < call.auth
    /\ call.stage \in {"codeFound", "refreshFound"} =>
          call.client \in Clients /\ call.subject \in Subjects
    /\ call.stage = "refreshFound" => call.auth = 0
    /\ call.stage = "authorized" => call.client \in ServiceClients

\* A redeemed code is reserved or gone.
RedeemedSpent == \A p \in redeemed : Spent(store, p[1])

\* The inductive invariant: what the handlers keep, whoever else takes slots,
\* and the slots they take themselves.
HandlerInv ==
    /\ HandlerTypes
    /\ Consistent(store, serial)
    /\ \A th \in Threads : CallReady(calls[th])
    /\ RedeemedSpent
    /\ CodeRedeemedOnce

IInv == HandlerInv /\ TypeOK /\ SlotsBalanced

\* Every request is answered.
CallsReturn == \A th \in Threads : ~At(th, "idle") ~> At(th, "idle")

============================================================================
