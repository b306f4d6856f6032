----------------------------- MODULE LoginFlow -----------------------------
(***************************************************************************)
(* Sign-in: /authorize, the hosted login form and /authorize/callback      *)
(* (internal/idp/server.go) over the store.  Browsers hold cookies, the    *)
(* server works on several requests at a time, and a credential check runs *)
(* outside the store's mutex, between two locked sections that each use a  *)
(* clock read before the lock was taken.                                   *)
(***************************************************************************)
EXTENDS Store

CONSTANTS
    Browsers,
    Threads,      \* the requests the server works on at the same time
    SelectMode,   \* login_mode is select: an identity is picked, no password
    Requested,    \* the scope sets clients ask for
    Hints,        \* the subjects /authorize may be told by an id_token_hint
    MaxRequests,  \* bound on the authorization requests
    MaxPosts      \* bound on the login submissions and callbacks

ASSUME LoginAssumption ==
    /\ SelectMode \in BOOLEAN
    /\ Requested \subseteq SUBSET Scopes
    /\ Hints \subseteq Users \cup {NoID}
    /\ MaxRequests \in Nat
    /\ MaxPosts \in Nat

VARIABLES
    calls,      \* thread -> where its request stands
    begun,      \* how many authorizations, and submissions, have begun
    csrf,       \* browser -> the requests it holds a CSRF cookie for
    jar,        \* browser -> its completion cookies, <<request, secret>>
    signers,    \* history: who completed a request, and from which browser
    delivered   \* history: the codes browsers were redirected with

loginVars == <<calls, begun, csrf, jar, signers, delivered>>
vars == <<store, now, slots, serial, loginVars>>

\* The state of a call: its stage, and what its handler has read.  since is
\* when the thread made its previous step: a clock read that precedes a lock
\* gives some time between then and now.
Idle == [stage |-> "idle", browser |-> NoID, request |-> 0, client |-> NoID,
         scopes |-> {}, user |-> NoID, found |-> FALSE, since |-> 0, secret |-> 0]

Init ==
    /\ store = NewStore
    /\ now = 1
    /\ slots = 0
    /\ serial = [request |-> 0, code |-> 0, access |-> 0, refresh |-> 0,
                 family |-> 0, secret |-> 0]
    /\ calls = [th \in Threads |-> Idle]
    /\ begun = [authorize |-> 0, post |-> 0]
    /\ csrf = [b \in Browsers |-> {}]
    /\ jar = [b \in Browsers |-> {}]
    /\ signers = {}
    /\ delivered = {}

At(th, stage) == calls[th].stage = stage
Return(th) == calls' = [calls EXCEPT ![th] = Idle]
ReadClock(th) == calls[th].since .. now
BeginPost(th) ==
    /\ At(th, "idle")
    /\ begun.post < MaxPosts
    /\ begun' = [begun EXCEPT !.post = @ + 1]

----------------------------------------------------------------------------
(* /authorize. *)

\* authorizeGate: a registered SPA client that asks for openid and for
\* nothing outside its allow-list.  (Other clients pass the gate and are
\* refused by the library.)
authorizeGate(client, scopes) ==
    /\ client \in SPAClients
    /\ "openid" \in scopes
    /\ scopes \subseteq AllowedScopes[client]

\* CreateAuthRequest refuses prompt=none before it does anything else.
Authorize(th, client, scopes) ==
    /\ At(th, "idle")
    /\ begun.authorize < MaxRequests
    /\ authorizeGate(client, scopes)
    /\ begun' = [begun EXCEPT !.authorize = @ + 1]
    /\ \/ calls' = [calls EXCEPT ![th] =
              [Idle EXCEPT !.stage = "authorizing", !.client = client,
                           !.scopes = scopes, !.since = now]]
       \/ Return(th)
    /\ UNCHANGED <<store, now, slots, serial, csrf, jar, signers, delivered>>

\* CreateAuthRequest reads the clock before it takes the lock.
AuthorizeCreate(th, t, hint) ==
    LET pruned == pruneLocked(store, t)
        id == serial.request + 1
    IN  /\ At(th, "authorizing")
        /\ Cardinality(pruned.authRequests) < maxPendingAuthRequests
        /\ store' = CreateAuthRequest(pruned, t, id, calls[th].client, hint,
                                      calls[th].scopes)
        /\ serial' = [serial EXCEPT !.request = id]
        /\ Return(th)
        /\ UNCHANGED <<now, slots, begun, csrf, jar, signers, delivered>>

\* Mutant: the capacity is checked before the prune.
AuthorizeRefusedEarly(th, t) ==
    /\ At(th, "authorizing")
    /\ Cardinality(store.authRequests) >= maxPendingAuthRequests
    /\ store' = pruneLocked(store, t)
    /\ Return(th)
    /\ UNCHANGED <<now, slots, serial, begun, csrf, jar, signers, delivered>>

AuthorizeRefused(th, t) ==
    /\ At(th, "authorizing")
    /\ Cardinality(pruneLocked(store, t).authRequests) >= maxPendingAuthRequests
    /\ store' = pruneLocked(store, t)
    /\ Return(th)
    /\ UNCHANGED <<now, slots, serial, begun, csrf, jar, signers, delivered>>

----------------------------------------------------------------------------
(* The hosted login form. *)

\* loginGET: the form and its CSRF cookie, while LoginInfo knows the request.
\* The id is any that a link may carry, 0 one that never existed.
loginGET(b, id) ==
    /\ store' = Pruned
    /\ csrf' = IF AuthRequestByID(Pruned, id) # {}
               THEN [csrf EXCEPT ![b] = @ \cup {id}] ELSE csrf
    /\ UNCHANGED <<now, slots, serial, calls, begun, jar, signers, delivered>>

\* loginPOST up to the CSRF comparison.  A browser without the cookie is
\* refused, and so is the form of an older cookie, which loginGET replaced.
loginPOST(th, b, id, user) ==
    /\ BeginPost(th)
    /\ store' = Pruned
    /\ \/ /\ AuthRequestByID(Pruned, id) # {}
          /\ id \in csrf[b]
          /\ calls' = [calls EXCEPT ![th] =
                [Idle EXCEPT !.stage = "submitted", !.browser = b,
                             !.request = id, !.user = user, !.since = now]]
       \/ Return(th)
    /\ UNCHANGED <<now, slots, serial, csrf, jar, signers, delivered>>

\* The first locked section of Authenticate.
AuthenticateLookup(th, t) ==
    LET pruned == pruneLocked(store, t)
        request == AuthRequestByID(pruned, calls[th].request)
    IN  /\ ~SelectMode
        /\ At(th, "submitted")
        /\ store' = pruned
        /\ IF \E r \in request : r.done
           THEN Return(th)
           ELSE calls' = [calls EXCEPT ![th].stage = "looked",
                                       ![th].found = request # {}]
        /\ UNCHANGED <<now, slots, serial, begun, csrf, jar, signers, delivered>>

\* compareCredential takes a slot, or the login is refused at once.
CompareBegin(th) ==
    /\ At(th, "looked")
    /\ \/ /\ slots < HashSlots
          /\ slots' = slots + 1
          /\ calls' = [calls EXCEPT ![th].stage = "hashing"]
       \/ /\ slots = HashSlots
          /\ Return(th)
          /\ UNCHANGED slots
    /\ UNCHANGED <<store, now, serial, begun, csrf, jar, signers, delivered>>

\* Mutant: a refused login keeps its slot.
CompareLeak(th, passwordOK) ==
    /\ At(th, "hashing")
    /\ IF calls[th].found /\ calls[th].user # NoID /\ passwordOK
       THEN /\ calls' = [calls EXCEPT ![th].stage = "compared", ![th].since = now]
            /\ slots' = slots - 1
       ELSE Return(th) /\ UNCHANGED slots
    /\ UNCHANGED <<store, now, serial, begun, csrf, jar, signers, delivered>>

\* bcrypt is done and the slot is free.  A request that was missing before,
\* an unknown user name and a wrong password are only reported now.
CompareEnd(th, passwordOK) ==
    /\ At(th, "hashing")
    /\ slots' = slots - 1
    /\ IF calls[th].found /\ calls[th].user # NoID /\ passwordOK
       THEN calls' = [calls EXCEPT ![th].stage = "compared", ![th].since = now]
       ELSE Return(th)
    /\ UNCHANGED <<store, now, serial, begun, csrf, jar, signers, delivered>>

\* Mutant: the second section trusts the first and does not prune.
CompleteUnpruned(th, t) ==
    LET call == calls[th]
    IN  /\ At(th, "compared") \/ (At(th, "submitted") /\ SelectMode)
        /\ call.user # NoID
        /\ \E r \in Completable(store, call.request) :
              store' = completeAuthenticationLocked(store, r, call.user, t)
        /\ calls' = [calls EXCEPT ![th].stage = "completed"]
        /\ signers' = signers \cup
               {[browser |-> call.browser, request |-> call.request,
                 user |-> call.user]}
        /\ UNCHANGED <<now, slots, serial, begun, csrf, jar, delivered>>

\* The second locked section of Authenticate, and all of SelectIdentity: the
\* request is looked up again, and may be gone or completed meanwhile.
CompleteAuthentication(th, t) ==
    LET pruned == pruneLocked(store, t)
        call == calls[th]
    IN  /\ At(th, "compared") \/ (At(th, "submitted") /\ SelectMode)
        /\ call.user # NoID
        /\ \E r \in Completable(pruned, call.request) :
              store' = completeAuthenticationLocked(pruned, r, call.user, t)
        /\ calls' = [calls EXCEPT ![th].stage = "completed"]
        /\ signers' = signers \cup
               {[browser |-> call.browser, request |-> call.request,
                 user |-> call.user]}
        /\ UNCHANGED <<now, slots, serial, begun, csrf, jar, delivered>>

\* Mutant: a request that was completed meanwhile counts as a success.
CompletionShared(th, t) ==
    LET pruned == pruneLocked(store, t)
    IN  /\ At(th, "compared") \/ (At(th, "submitted") /\ SelectMode)
        /\ Completable(pruned, calls[th].request) = {}
        /\ store' = pruned
        /\ calls' = [calls EXCEPT ![th].stage = "completed"]
        /\ UNCHANGED <<now, slots, serial, begun, csrf, jar, signers, delivered>>

CompletionRefused(th, t) ==
    LET pruned == pruneLocked(store, t)
    IN  /\ At(th, "compared") \/ (At(th, "submitted") /\ SelectMode)
        /\ calls[th].user = NoID \/ Completable(pruned, calls[th].request) = {}
        /\ store' = pruned
        /\ Return(th)
        /\ UNCHANGED <<now, slots, serial, begun, csrf, jar, signers, delivered>>

IssueSecret(th) ==
    LET request == {r \in AuthRequestByID(Pruned, calls[th].request) : r.done}
        secret == serial.secret + 1
    IN  /\ At(th, "completed")
        /\ \/ /\ \E r \in request : store' = IssueCompletionSecret(Pruned, r, secret)
              /\ serial' = [serial EXCEPT !.secret = secret]
              /\ calls' = [calls EXCEPT ![th].stage = "responding",
                                        ![th].secret = secret]
           \/ /\ request = {}
              /\ store' = Pruned
              /\ Return(th)
              /\ UNCHANGED serial
        /\ UNCHANGED <<now, slots, begun, csrf, jar, signers, delivered>>

\* The redirect sets the completion cookie and clears the CSRF cookie, unless
\* the answer is lost on its way.
LoginResponse(th) ==
    LET b == calls[th].browser
        id == calls[th].request
    IN  /\ At(th, "responding")
        /\ \/ /\ jar' = [jar EXCEPT ![b] = {c \in @ : c[1] # id}
                                          \cup {<<id, calls[th].secret>>}]
              /\ csrf' = [csrf EXCEPT ![b] = @ \ {id}]
           \/ UNCHANGED <<jar, csrf>>
        /\ Return(th)
        /\ UNCHANGED <<store, now, slots, serial, begun, signers, delivered>>

----------------------------------------------------------------------------
(* /authorize/callback. *)

\* callbackGate: the cookie's secret must be the one bound to the request.
callbackGate(th, b, id) ==
    /\ BeginPost(th)
    /\ \/ \E cookie \in jar[b] : \E r \in SecretMatches(Pruned, id, cookie[2]) :
            /\ cookie[1] = id
            /\ store' = ConsumeCompletionSecret(Pruned, r)
            /\ calls' = [calls EXCEPT ![th] =
                  [Idle EXCEPT !.stage = "proved", !.browser = b, !.request = id]]
       \/ /\ \A cookie \in jar[b] :
                cookie[1] = id => SecretMatches(Pruned, id, cookie[2]) = {}
          /\ store' = IF \E cookie \in jar[b] : cookie[1] = id
                      THEN Pruned ELSE store
          /\ Return(th)
    /\ UNCHANGED <<now, slots, serial, csrf, jar, signers, delivered>>

\* Mutant: a request that is gone is waited for.
CallbackWaits(th) ==
    /\ At(th, "proved")
    /\ \E r \in AuthRequestByID(Pruned, calls[th].request) : r.done
    /\ store' = Pruned
    /\ calls' = [calls EXCEPT ![th].stage = "located"]
    /\ UNCHANGED <<now, slots, serial, begun, csrf, jar, signers, delivered>>

\* The answer of a callback clears the completion cookie, unless it is lost.
CookieCleared(b, id) ==
    jar' \in {jar, [jar EXCEPT ![b] = {c \in @ : c[1] # id}]}

\* The library looks the request up again and insists that it is done.
CallbackLookup(th) ==
    LET b == calls[th].browser
        id == calls[th].request
    IN  /\ At(th, "proved")
        /\ store' = Pruned
        /\ IF \E r \in AuthRequestByID(Pruned, id) : r.done
           THEN /\ calls' = [calls EXCEPT ![th].stage = "located"]
                /\ UNCHANGED jar
           ELSE Return(th) /\ CookieCleared(b, id)
        /\ UNCHANGED <<now, slots, serial, begun, csrf, signers, delivered>>

\* SaveAuthCode, then the redirect that carries the code.
CallbackSave(th) ==
    LET b == calls[th].browser
        id == calls[th].request
        code == serial.code + 1
    IN  /\ At(th, "located")
        /\ \/ \E r \in AuthRequestByID(Pruned, id) :
                /\ SaveAuthCodeOK(Pruned, now, r, code)
                /\ store' = SaveAuthCode(Pruned, r, code)
                /\ serial' = [serial EXCEPT !.code = code]
                /\ delivered' = delivered \cup
                       {[browser |-> b, request |-> id, code |-> code]}
           \/ /\ \A r \in AuthRequestByID(Pruned, id) :
                    ~SaveAuthCodeOK(Pruned, now, r, code)
              /\ store' = Pruned
              /\ UNCHANGED <<serial, delivered>>
        /\ CookieCleared(b, id)
        /\ Return(th)
        /\ UNCHANGED <<now, slots, begun, csrf, signers>>

Advancing == Tick /\ UNCHANGED <<store, slots, serial, loginVars>>

----------------------------------------------------------------------------
Finish(th) ==
    \/ \E t \in ReadClock(th) :
          \/ \E hint \in Hints : AuthorizeCreate(th, t, hint)
          \/ AuthorizeRefused(th, t)
          \/ AuthenticateLookup(th, t)
          \/ CompleteAuthentication(th, t)
          \/ CompletionRefused(th, t)
    \/ CompareBegin(th)
    \/ \E passwordOK \in BOOLEAN : CompareEnd(th, passwordOK)
    \/ IssueSecret(th)
    \/ LoginResponse(th)
    \/ CallbackLookup(th)
    \/ CallbackSave(th)

Next ==
    \/ \E th \in Threads : Finish(th)
    \/ \E th \in Threads, client \in SPAClients, scopes \in Requested :
          Authorize(th, client, scopes)
    \/ \E b \in Browsers, id \in 0 .. serial.request :
          \/ loginGET(b, id)
          \/ \E th \in Threads :
                \/ \E user \in Users \cup {NoID} : loginPOST(th, b, id, user)
                \/ callbackGate(th, b, id)
    \/ Advancing

Spec == Init /\ [][Next]_vars

\* A handler that began keeps running until it answers.
Fairness == \A th \in Threads : WF_vars(Finish(th))
FairSpec == Spec /\ Fairness

----------------------------------------------------------------------------
(* Properties. *)

\* Concurrent submissions of one request complete it once, and the request
\* belongs to the user of that completion, whatever subject it was hinted.
OneSignInPerRequest ==
    /\ \A p, q \in signers : p.request = q.request => p = q
    /\ \A r \in store.authRequests : r.done =>
          \E p \in signers : p.request = r.id /\ p.user = r.subject

\* The code reaches only the browser that completed the request: any browser
\* may open the login page of a request, but the one-time secret goes with
\* the answer of the successful submission.
CodeReachesSigner ==
    \A d \in delivered : \E p \in signers :
        p.request = d.request /\ p.browser = d.browser

\* A completion secret passes one callback: a second one with the same
\* cookie, sent before the first answer cleared it, is refused.
SecretPassesOnce ==
    LET past(id) == {th \in Threads : calls[th].request = id
                                      /\ calls[th].stage \in {"proved", "located"}}
    IN  \A r \in store.authRequests :
            Cardinality(past(r.id)) + (IF r.code # 0 THEN 1 ELSE 0) <= 1

\* Requests and codes share one lifetime: every code has its request, which
\* points back at it.
CodesFollowRequests ==
    \A c \in store.codes : \E r \in store.authRequests :
        r.id = c.requestID /\ r.code = c.code /\ r.expires = c.expires

\* A submission whose credential check ended after its request's lifetime
\* completes nothing, and the time of authentication it records is within
\* that lifetime and no earlier than the end of the check.  The clock is read
\* before the lock: the completion itself may come later than either.
SignInWithinLifetime ==
    [][ \A th \in Threads : \A r \in store'.authRequests :
          /\ ~At(th, "completed")
          /\ calls'[th].stage = "completed"
          /\ r.id = calls[th].request
          => calls[th].since <= r.authTime /\ r.authTime < r.expires ]_vars

\* An authorization is refused for lack of room only when that many requests
\* were really pending: expired ones do not hold a place.
RefusedOnlyWhenFull ==
    [][ \A th \in Threads :
          /\ calls[th].stage = "authorizing"
          /\ calls'[th].stage = "idle"
          /\ serial' = serial
          => Cardinality({r \in store.authRequests : calls[th].since < r.expires})
                 >= maxPendingAuthRequests ]_vars

\* Every request is answered.
CallsReturn == \A th \in Threads : ~At(th, "idle") ~> At(th, "idle")

============================================================================
