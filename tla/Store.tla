------------------------------- MODULE Store -------------------------------
(***************************************************************************)
(* The in-memory protocol state of one realm: the Store of                 *)
(* internal/idp/storage.go.  The maps of the Go struct are sets of         *)
(* records that carry their key; the methods are operators on a store      *)
(* value, named as in the source.  Every one of them runs under the one    *)
(* mutex, so an action of the modules that use this one applies a method   *)
(* in one step; the steps between two methods of a handler interleave.     *)
(*                                                                         *)
(* Identifiers (randomID) are positive numbers drawn from serial; 0 is     *)
(* Go's empty string, zero hash and zero time.                             *)
(***************************************************************************)
EXTENDS Integers, FiniteSets, FiniteSetsExt

CONSTANTS
    SPAClients,      \* the public browser clients of the realm
    ServiceClients,  \* the confidential clients, which have a secret
    Users,
    AppScopes,       \* the custom scopes; they double as permissions
    AllowedScopes,   \* client -> scopes it may request (allowed_scopes)
    Permissions,     \* user or service client -> its permissions
    AuthTTL,         \* life of an authorization request, five minutes
    AccessTTL,
    RefreshTTL,
    maxPendingAuthRequests,
    HashSlots,       \* capacity of credentialHashSlots
    MaxTime          \* bound of the clock, for model checking

NoID == ""
Clients == SPAClients \cup ServiceClients
Subjects == Users \cup ServiceClients
StandardScopes == {"openid", "profile", "email", "offline_access"}
Scopes == StandardScopes \cup AppScopes

\* requireID keeps users and clients in one namespace of nonempty names.
ASSUME NamespaceAssumption ==
    /\ SPAClients \cap ServiceClients = {}
    /\ Users \cap Clients = {}
    /\ NoID \notin Users \cup Clients
\* Validate lets applications name no standard scope as a custom one.
ASSUME ScopesAssumption ==
    /\ AppScopes \cap StandardScopes = {}
    /\ AllowedScopes \in [Clients -> SUBSET Scopes]
    /\ Permissions \in [Subjects -> SUBSET AppScopes]
\* Validate rejects lifetimes that are not positive.
ASSUME LifetimesAssumption ==
    /\ AuthTTL \in Nat \ {0}
    /\ AccessTTL \in Nat \ {0}
    /\ RefreshTTL \in Nat \ {0}
ASSUME BoundsAssumption ==
    /\ maxPendingAuthRequests \in Nat \ {0}
    /\ HashSlots \in Nat \ {0}
    /\ MaxTime \in Nat \ {0}

VARIABLES
    store,   \* the maps of the Store, and nextExpiry
    now,     \* what clock.Now returns
    slots,   \* the credentialHashSlots in use
    serial   \* how many identifiers of each kind randomID has drawn

----------------------------------------------------------------------------
(* The records. *)

\* code # 0 stands for codeSaved; secret is the completionHash.
AuthRequest ==
    [id: Nat, client: Clients, subject: Users \cup {NoID},
     scopes: SUBSET Scopes, expires: Nat, authTime: Nat, done: BOOLEAN,
     code: Nat, secret: Nat]
CodeRecord ==
    [code: Nat, requestID: Nat, expires: Nat, reserved: BOOLEAN]
AccessRecord ==
    [id: Nat, client: Clients, subject: Subjects, scopes: SUBSET Scopes,
     expires: Nat, family: Nat]
RefreshRecord ==
    [token: Nat, family: Nat, client: Clients, subject: Subjects \cup {NoID},
     scopes: SUBSET Scopes, consumed: BOOLEAN, accessID: Nat]
RefreshFamily ==
    [id: Nat, client: Clients, subject: Subjects, expires: Nat,
     tokens: SUBSET Nat]

\* revoked collects the ids of the families whose revoked flag was set: the
\* flag is set on an object that the same call drops from the map.
StoreType ==
    [authRequests: SUBSET AuthRequest, codes: SUBSET CodeRecord,
     access: SUBSET AccessRecord, refresh: SUBSET RefreshRecord,
     families: SUBSET RefreshFamily, nextExpiry: Nat, revoked: SUBSET Nat]

SerialType ==
    [request: Nat, code: Nat, access: Nat, refresh: Nat, family: Nat,
     secret: Nat]

NewStore ==
    [authRequests |-> {}, codes |-> {}, access |-> {}, refresh |-> {},
     families |-> {}, nextExpiry |-> 0, revoked |-> {}]

\* What the store's methods read of an op.TokenRequest.  auth is the id of
\* an AuthRequest, and 0 for a RefreshRequest or a serviceRequest.
TokenRequest ==
    [auth: Nat, client: Clients, subject: Subjects, scopes: SUBSET Scopes]

----------------------------------------------------------------------------
(* Expiry. *)

Expiries(s) ==
    {r.expires : r \in s.authRequests} \cup {c.expires : c \in s.codes}
    \cup {a.expires : a \in s.access} \cup {f.expires : f \in s.families}

\* Mutant: only an empty cache is set.
ScheduleFirst(s, expires) ==
    IF s.nextExpiry = 0 THEN [s EXCEPT !.nextExpiry = expires] ELSE s

scheduleExpiryLocked(s, expires) ==
    IF s.nextExpiry = 0 \/ expires < s.nextExpiry
    THEN [s EXCEPT !.nextExpiry = expires]
    ELSE s

\* Mutant: an access record is kept for one instant too long.
SweepKeepsAccess(s, t) ==
    [s EXCEPT !.authRequests = {r \in s.authRequests : t < r.expires},
              !.codes = {c \in s.codes : t < c.expires},
              !.access = {a \in s.access : t <= a.expires},
              !.families = {f \in s.families : t < f.expires}]

\* Mutant: consumed refresh records are not reclaimed.
SweepKeepsConsumed(s, t) ==
    LET ended == {f \in s.families : f.expires <= t}
    IN  [s EXCEPT
          !.authRequests = {r \in s.authRequests : t < r.expires},
          !.codes = {c \in s.codes : t < c.expires},
          !.access = {a \in s.access : t < a.expires},
          !.refresh = {r \in s.refresh : \A f \in ended : r.token \notin f.tokens},
          !.families = {f \in s.families : t < f.expires}]

\* The scan of pruneLocked, without its last assignment.
Sweep(s, t) ==
    LET stale == {r \in s.authRequests : r.expires <= t}
        ended == {f \in s.families : f.expires <= t}
    IN  [s EXCEPT
          !.authRequests = {r \in s.authRequests : t < r.expires},
          !.codes = {c \in s.codes : /\ t < c.expires
                                     /\ \A r \in stale : r.code # c.code},
          !.access = {a \in s.access : t < a.expires},
          !.refresh = {r \in s.refresh :
              /\ r.consumed => \E f \in s.families :
                                    f.id = r.family /\ t < f.expires
              /\ \A f \in ended : r.token \notin f.tokens},
          !.families = {f \in s.families : t < f.expires}]

Earliest(E) == IF E = {} THEN 0 ELSE Min(E)

pruneLocked(s, t) ==
    IF s.nextExpiry # 0 /\ t < s.nextExpiry
    THEN s
    ELSE LET k == Sweep(s, t) IN [k EXCEPT !.nextExpiry = Earliest(Expiries(k))]

----------------------------------------------------------------------------
(* Authorization requests and codes. *)

\* The request returned by each lookup, as a set: empty is an error.
AuthRequestByID(s, id) == {r \in s.authRequests : r.id = id}

AuthRequestByCode(s, t, code) ==
    {r \in s.authRequests : r.done /\ \E c \in s.codes :
        /\ c.code = code
        /\ ~c.reserved
        /\ c.requestID = r.id
        /\ t < c.expires}

CreateAuthRequest(s, t, id, client, hint, scopes) ==
    scheduleExpiryLocked(
        [s EXCEPT !.authRequests = @ \cup
            {[id |-> id, client |-> client, subject |-> hint,
              scopes |-> scopes, expires |-> t + AuthTTL, authTime |-> 0,
              done |-> FALSE, code |-> 0, secret |-> 0]}],
        t + AuthTTL)

\* One authorization request changes; the others stay.
UpdateRequest(s, old, new) ==
    [s EXCEPT !.authRequests = (@ \ {old}) \cup {new}]

SaveAuthCodeOK(s, t, r, code) ==
    /\ r \in s.authRequests
    /\ r.done
    /\ r.code = 0
    /\ t < r.expires
    /\ \A c \in s.codes : c.code # code

\* Mutant: the code gets a lifetime of its own.
SaveAuthCodeLonger(s, r, code) ==
    LET saved == UpdateRequest(s, r, [r EXCEPT !.code = code])
    IN  [saved EXCEPT !.codes = @ \cup
            {[code |-> code, requestID |-> r.id, expires |-> r.expires + 1,
              reserved |-> FALSE]}]

SaveAuthCode(s, r, code) ==
    LET saved == UpdateRequest(s, r, [r EXCEPT !.code = code])
    IN  scheduleExpiryLocked(
            [saved EXCEPT !.codes = @ \cup
                {[code |-> code, requestID |-> r.id, expires |-> r.expires,
                  reserved |-> FALSE]}],
            r.expires)

\* A request of the identity id owns the code record c.
OwnsCode(s, id, c) ==
    /\ c \in s.codes
    /\ c.requestID = id
    /\ \E r \in s.authRequests : r.id = id /\ r.code # 0 /\ r.code = c.code

\* DeleteAuthRequest does not prune.
DeleteAuthRequestOK(s, id) ==
    \E c \in s.codes : OwnsCode(s, id, c) /\ c.reserved

DeleteAuthRequest(s, id) ==
    [s EXCEPT !.codes = {c \in s.codes : ~OwnsCode(s, id, c)},
              !.authRequests = {r \in s.authRequests : r.id # id}]

----------------------------------------------------------------------------
(* Sign-in. *)

\* Mutant: permissions are not consulted.
GrantedUnchecked(client, user, requested) == requested \cap AllowedScopes[client]

Granted(client, user, requested) ==
    {scope \in requested \cap AllowedScopes[client] :
        scope \in StandardScopes \/ scope \in Permissions[user]}

\* Mutant: a completed request may be completed again.
CompletableAgain(s, id) == {r \in s.authRequests : r.id = id}

\* The request a completion may act on.
Completable(s, id) == {r \in s.authRequests : r.id = id /\ ~r.done}

\* Mutant: a subject that was hinted is kept.
CompleteKeepsHint(s, r, user, t) ==
    UpdateRequest(s, r,
        [r EXCEPT !.subject = IF @ = NoID THEN user ELSE @,
                  !.scopes = Granted(r.client, user, r.scopes),
                  !.authTime = t, !.done = TRUE])

completeAuthenticationLocked(s, r, user, t) ==
    UpdateRequest(s, r,
        [r EXCEPT !.subject = user, !.scopes = Granted(r.client, user, r.scopes),
                  !.authTime = t, !.done = TRUE])

IssueCompletionSecret(s, r, secret) ==
    UpdateRequest(s, r, [r EXCEPT !.secret = secret])

\* The request whose secret the caller presented.
SecretMatches(s, id, secret) ==
    {r \in s.authRequests : r.id = id /\ r.secret # 0 /\ r.secret = secret}

\* Mutant: the secret is compared and not cleared.
ConsumeCompletionSecretKept(s, r) == s

ConsumeCompletionSecret(s, r) ==
    UpdateRequest(s, r, [r EXCEPT !.secret = 0])

----------------------------------------------------------------------------
(* Refresh families. *)

FamilyIDs(s) == {f.id : f \in s.families}

\* Mutant: the access records of a revoked family stay.
RevokeKeepsAccess(s, ids) ==
    LET present == ids \cap FamilyIDs(s)
    IN  [s EXCEPT !.refresh = {r \in s.refresh : r.family \notin present},
                  !.families = {f \in s.families : f.id \notin present},
                  !.revoked = @ \cup present]

\* Revokes the families of a set of ids.  The code takes one id; its only
\* loop over ids (TerminateSession) makes independent calls.
revokeFamilyLocked(s, ids) ==
    LET present == ids \cap FamilyIDs(s)
    IN  [s EXCEPT
          !.access = {a \in s.access : \A r \in s.refresh :
              r.family \in present /\ ~r.consumed => r.accessID # a.id},
          !.refresh = {r \in s.refresh : r.family \notin present},
          !.families = {f \in s.families : f.id \notin present},
          !.revoked = @ \cup present]

consumeRefreshRecord(r) ==
    [r EXCEPT !.subject = NoID, !.scopes = {}, !.consumed = TRUE, !.accessID = 0]

\* The family's index once the consumed entries are dropped from it.
compactFamilyTokensLocked(s, f) ==
    {h \in f.tokens : \E r \in s.refresh : r.token = h /\ ~r.consumed}

----------------------------------------------------------------------------
(* Token creation. *)

\* Mutant: a code reserved by another exchange counts as available.
ReserveTwice(s, request) ==
    request.auth = 0 \/ \E c \in s.codes : OwnsCode(s, request.auth, c)

\* A request that is no AuthRequest has nothing to reserve.
reserveOK(s, request) ==
    \/ request.auth = 0
    \/ \E c \in s.codes : OwnsCode(s, request.auth, c) /\ ~c.reserved

\* Mutant: the code is dropped at once instead of being reserved.
ReserveDrops(s, request) ==
    [s EXCEPT !.codes = {c \in s.codes :
        request.auth = 0 \/ ~OwnsCode(s, request.auth, c)}]

\* Mutant: the code is checked and left as it is.
ReserveNothing(s, request) == s

reserveAuthorizationCodeLocked(s, request) ==
    [s EXCEPT !.codes =
        {IF request.auth # 0 /\ OwnsCode(s, request.auth, c)
         THEN [c EXCEPT !.reserved = TRUE] ELSE c : c \in s.codes}]

AddAccess(s, t, id, request, family) ==
    scheduleExpiryLocked(
        [s EXCEPT !.access = @ \cup
            {[id |-> id, client |-> request.client,
              subject |-> request.subject, scopes |-> request.scopes,
              expires |-> t + AccessTTL, family |-> family]}],
        t + AccessTTL)

CreateAccessToken(s, t, id, request) ==
    AddAccess(reserveAuthorizationCodeLocked(s, request), t, id, request, 0)

\* The tail of CreateAccessAndRefreshTokens: the new pair joins its family.
AddPair(s, t, family, token, id, request) ==
    LET joined == [s EXCEPT
            !.families = {IF f.id = family THEN [f EXCEPT !.tokens = @ \cup {token}]
                          ELSE f : f \in s.families},
            !.refresh = @ \cup
                {[token |-> token, family |-> family, client |-> request.client,
                  subject |-> request.subject, scopes |-> request.scopes,
                  consumed |-> FALSE, accessID |-> id]}]
    IN  AddAccess(joined, t, id, request, family)

\* CreateAccessAndRefreshTokens with no current token: a new family.
CreateFamily(s, t, family, token, id, request) ==
    LET reserved == reserveAuthorizationCodeLocked(s, request)
        opened == [reserved EXCEPT !.families = @ \cup
            {[id |-> family, client |-> request.client,
              subject |-> request.subject, expires |-> t + RefreshTTL,
              tokens |-> {}]}]
    IN  AddPair(scheduleExpiryLocked(opened, t + RefreshTTL),
                t, family, token, id, request)

\* CreateAccessAndRefreshTokens with a current token: the record it finds
\* unusable because it was rotated before, and the one it may rotate.
Replayed(s, current) == {r \in s.refresh : r.token = current /\ r.consumed}

\* Mutant: a record consumed since the lookup is rotated again.
RotatableAgain(s, t, current, client) ==
    {r \in s.refresh :
        /\ r.token = current
        /\ r.client = client
        /\ \E f \in s.families : f.id = r.family /\ t < f.expires}

Rotatable(s, t, current, client) ==
    {r \in s.refresh :
        /\ r.token = current
        /\ ~r.consumed
        /\ r.client = client
        /\ \E f \in s.families : f.id = r.family /\ t < f.expires}

RotateToken(s, t, old, token, id, request) ==
    LET spent == [s EXCEPT
            !.refresh = (@ \ {old}) \cup {consumeRefreshRecord(old)},
            !.access = {a \in s.access : a.id # old.accessID}]
        compact == [spent EXCEPT !.families =
            {IF f.id = old.family
             THEN [f EXCEPT !.tokens = compactFamilyTokensLocked(spent, f)]
             ELSE f : f \in s.families}]
    IN  AddPair(compact, t, old.family, token, id, request)

\* The record TokenRequestByRefreshToken turns into a RefreshRequest.
TokenRequestByRefreshToken(s, t, token) ==
    {r \in s.refresh :
        /\ r.token = token
        /\ ~r.consumed
        /\ \E f \in s.families : f.id = r.family /\ t < f.expires}

----------------------------------------------------------------------------
(* Revocation, logout and the questions resource servers ask. *)

\* The family of a client's refresh token, current or spent.
TokenFamilies(s, client, token) ==
    {r.family : r \in {x \in s.refresh : x.token = token /\ x.client = client}}

RevokeAccessToken(s, client, id) ==
    LET owned == {a \in s.access : a.id = id /\ a.client = client}
    IN  revokeFamilyLocked([s EXCEPT !.access = @ \ owned],
                           {a.family : a \in owned})

\* Mutant: a token that was rotated meanwhile revokes nothing.
RevokeUnconsumed(s, client, token) ==
    revokeFamilyLocked(s, {r.family : r \in {x \in s.refresh :
        x.token = token /\ x.client = client /\ ~x.consumed}})

RevokeRefreshToken(s, client, token) ==
    revokeFamilyLocked(s, TokenFamilies(s, client, token))

\* Mutant: the access records are found through their families only.
TerminateByFamily(s, user, client) ==
    revokeFamilyLocked(s, {f.id : f \in
        {x \in s.families : x.subject = user /\ x.client = client}})

TerminateSession(s, user, client) ==
    LET gone == {a \in s.access : a.subject = user /\ a.client = client}
        held == {f \in s.families : f.subject = user /\ f.client = client}
    IN  revokeFamilyLocked([s EXCEPT !.access = @ \ gone],
                           {a.family : a \in gone} \cup {f.id : f \in held})

\* The access record behind an active answer.
SetIntrospectionFromToken(s, id, subject, client) ==
    {a \in s.access : a.id = id /\ a.subject = subject /\ a.client = client}

\* setUserinfo knows users only, so a service token gets no answer.
SetUserinfoFromToken(s, id, subject) ==
    {a \in s.access : a.id = id /\ a.subject = subject /\ subject \in Users}

ClientCredentialsTokenRequestOK(client, scopes) ==
    /\ client \in ServiceClients
    /\ scopes # {}
    /\ scopes \subseteq AllowedScopes[client] \cap Permissions[client]

----------------------------------------------------------------------------
(* What every module that uses the store says of it. *)

Pruned == pruneLocked(store, now)

\* nextExpiry is only a cache: a prune that skips the scan because now is
\* before nextExpiry leaves exactly what the scan would have left.
CacheIsTransparent ==
    LET full == Sweep(store, now)
    IN  Pruned = [full EXCEPT !.nextExpiry = Pruned.nextExpiry]

\* The clock moves on.
Tick ==
    /\ now < MaxTime
    /\ now' = now + 1

----------------------------------------------------------------------------
(* What every method preserves: the parts of the inductive invariant that  *)
(* speak of a store alone.  k is a value of serial.                        *)

SubjectsKnown(s) ==
    /\ \A r \in s.authRequests : r.done => r.subject \in Users
    /\ \A r \in s.refresh : ~r.consumed => r.subject \in Subjects

\* No record expires before nextExpiry.
ExpiryCovered(s) == \A e \in Expiries(s) : 0 < s.nextExpiry /\ s.nextExpiry <= e

\* A refresh record has its family; a usable one is in the family's index,
\* and an index names only records of its own family.
IndexSound(s) ==
    /\ \A f, g \in s.families : f.id = g.id => f = g
    /\ \A r \in s.refresh : \E f \in s.families :
          f.id = r.family /\ (r.consumed \/ r.token \in f.tokens)
    /\ \A f \in s.families, r \in s.refresh :
          r.token \in f.tokens => r.family = f.id

\* A family has one usable token, and its access record is that token's.
OnePair(s) ==
    /\ \A f \in s.families : \E r \in s.refresh : r.family = f.id /\ ~r.consumed
    /\ \A r, q \in s.refresh :
          r.family = q.family /\ ~r.consumed /\ ~q.consumed => r = q
    /\ \A a \in s.access : a.family \in FamilyIDs(s) =>
          \E r \in s.refresh :
              r.family = a.family /\ ~r.consumed /\ r.accessID = a.id

RevokedGone(s) ==
    /\ s.revoked \cap FamilyIDs(s) = {}
    /\ \A a \in s.access : a.family \notin s.revoked

\* The identifiers in use were drawn before, so the next one is new.
Drawn(s, k) ==
    /\ \A r \in s.authRequests : 0 < r.id
    /\ \A a \in s.access : a.id <= k.access /\ a.family <= k.family
    /\ \A r \in s.refresh : r.token <= k.refresh /\ r.accessID <= k.access
    /\ \A f \in s.families : /\ 0 < f.id /\ f.id <= k.family
                             /\ \A h \in f.tokens : h <= k.refresh
    /\ \A id \in s.revoked : 0 < id /\ id <= k.family

\* No code of the request can be redeemed any more.
Spent(s, id) == \A c \in s.codes : OwnsCode(s, id, c) => c.reserved

Consistent(s, k) ==
    /\ SubjectsKnown(s)
    /\ ExpiryCovered(s)
    /\ IndexSound(s)
    /\ OnePair(s)
    /\ RevokedGone(s)
    /\ Drawn(s, k)

============================================================================
