------------------------ MODULE TokenEndpointProofs ------------------------
(***************************************************************************)
(* Proofs about TokenEndpoint, for every realm, whatever its clients,      *)
(* users, scopes and lifetimes, and for any number of threads: HandlerInv  *)
(* is inductive, and safety properties follow from it; so do those about   *)
(* calls that span several steps, each with a strengthening of its own;    *)
(* the handlers keep what other users of the store rely on; and they       *)
(* implement TokenGrants.                                                  *)
(***************************************************************************)
EXTENDS TokenEndpoint, GrantsOfStore, StoreProofs, FiniteSetTheorems, TLAPS

\* The store a handler works on after pruning is consistent, and a redeemed
\* code is still spent in it.
LEMMA PrunedOK ==
    ASSUME HandlerInv
    PROVE  /\ Pruned \in StoreType
           /\ Consistent(Pruned, serial)
           /\ \A p \in redeemed : Spent(Pruned, p[1])
           /\ Pruned.codes \subseteq store.codes
           /\ Pruned.authRequests \subseteq store.authRequests
<1>1. /\ store \in StoreType /\ now \in Nat /\ serial \in SerialType
      /\ Consistent(store, serial)
      /\ \A p \in redeemed : Spent(store, p[1])
  BY DEF HandlerInv, HandlerTypes, RedeemedSpent
<1>2. /\ pruneLocked(store, now) \in StoreType
      /\ Consistent(pruneLocked(store, now), serial)
  BY <1>1, PruneType, PruneConsistent
<1>3. /\ pruneLocked(store, now).codes \subseteq store.codes
      /\ pruneLocked(store, now).authRequests \subseteq store.authRequests
  BY <1>1, PruneFields
<1>4. QED
  BY <1>1, <1>2, <1>3, SpentSubset DEF Pruned

\* Revocation and logout touch neither requests nor codes.
LEMMA CodesUntouched ==
    ASSUME NEW s \in StoreType
    PROVE  /\ \A ids : LET n == revokeFamilyLocked(s, ids) IN
                  n.codes = s.codes /\ n.authRequests = s.authRequests
           /\ \A client, id : LET n == RevokeAccessToken(s, client, id) IN
                  n.codes = s.codes /\ n.authRequests = s.authRequests
           /\ \A client, token : LET n == RevokeRefreshToken(s, client, token) IN
                  n.codes = s.codes /\ n.authRequests = s.authRequests
           /\ \A user, client : LET n == TerminateSession(s, user, client) IN
                  n.codes = s.codes /\ n.authRequests = s.authRequests
<1>1. ASSUME NEW m \in StoreType, NEW ids
      PROVE  LET n == revokeFamilyLocked(m, ids) IN
             n.codes = m.codes /\ n.authRequests = m.authRequests
  BY DEF revokeFamilyLocked, StoreType
<1>2. ASSUME NEW gone
      PROVE  LET n == [s EXCEPT !.access = @ \ gone] IN
             /\ n \in StoreType
             /\ n.codes = s.codes /\ n.authRequests = s.authRequests
  BY DEF StoreType
<1>3. ASSUME NEW gone, NEW ids
      PROVE  LET n == revokeFamilyLocked([s EXCEPT !.access = @ \ gone], ids) IN
             n.codes = s.codes /\ n.authRequests = s.authRequests
  <2> DEFINE m == [s EXCEPT !.access = @ \ gone]
  <2>1. m \in StoreType /\ m.codes = s.codes /\ m.authRequests = s.authRequests
    BY <1>2
  <2> HIDE DEF m
  <2>2. QED
    BY <1>1, <2>1 DEF m
<1>4. \A client, id : LET n == RevokeAccessToken(s, client, id) IN
         n.codes = s.codes /\ n.authRequests = s.authRequests
  BY <1>3 DEF RevokeAccessToken
<1>5. \A client, token : LET n == RevokeRefreshToken(s, client, token) IN
         n.codes = s.codes /\ n.authRequests = s.authRequests
  BY <1>1 DEF RevokeRefreshToken
<1>6. \A user, client : LET n == TerminateSession(s, user, client) IN
         n.codes = s.codes /\ n.authRequests = s.authRequests
  BY <1>3 DEF TerminateSession
<1>7. QED
  BY <1>1, <1>4, <1>5, <1>6

----------------------------------------------------------------------------
(* Threads. *)

\* A thread moves on.
LEMMA ThreadStep ==
    ASSUME HandlerInv, NEW th \in Threads, NEW c \in Call, CallReady(c),
           calls' = [calls EXCEPT ![th] = c]
    PROVE  /\ calls' \in [Threads -> Call]
           /\ \A x \in Threads : CallReady(calls'[x])
<1>1. calls \in [Threads -> Call]
  BY DEF HandlerInv, HandlerTypes
<1>2. calls' \in [Threads -> Call]
  BY <1>1
<1>3. \A x \in Threads : CallReady(calls'[x])
  BY <1>1 DEF HandlerInv
<1>4. QED
  BY <1>2, <1>3

\* The answer of a request leaves its thread idle.
LEMMA IdleOK == Idle \in Call /\ CallReady(Idle) /\ Idle.stage = "idle"
BY DEF Idle, Call, Stages, CallReady

\* What remains of HandlerInv' once the store, the threads and the redeemed codes
\* are taken care of.
LEMMA Compose ==
    ASSUME HandlerInv,
           store' \in StoreType, serial' \in SerialType, Consistent(store', serial'),
           now' \in Nat \ {0},
           calls' \in [Threads -> Call],
           \A x \in Threads : CallReady(calls'[x]),
           RedeemedSpent', CodeRedeemedOnce',
           started' \in 0 .. MaxCalls, audienceTaken' \subseteq Nat,
           responses' \subseteq Response, redeemed' \subseteq Nat \X Nat,
           logouts' \subseteq Logout
    PROVE  HandlerInv'
BY DEF HandlerInv, HandlerTypes

\* A step that leaves the requests and codes of the store alone, or drops
\* some, keeps redeemed codes spent.
LEMMA StillSpent ==
    ASSUME HandlerInv, redeemed' = redeemed,
           store'.codes \subseteq store.codes,
           store'.authRequests \subseteq store.authRequests
    PROVE  RedeemedSpent' /\ CodeRedeemedOnce'
<1>1. \A p \in redeemed : Spent(store, p[1])
  BY DEF HandlerInv, RedeemedSpent
<1>2. \A p \in redeemed : Spent(store', p[1])
  BY <1>1, SpentSubset
<1>3. QED
  BY <1>2 DEF HandlerInv, RedeemedSpent, CodeRedeemedOnce

----------------------------------------------------------------------------
(* Each action preserves HandlerInv. *)

\* A step that leaves its thread idle, creates nothing and works on a
\* consistent store without new requests and codes.
LEMMA ReturnStep ==
    ASSUME HandlerInv, NEW th \in Threads, Return(th),
           store' \in StoreType, Consistent(store', serial),
           store'.codes \subseteq store.codes,
           store'.authRequests \subseteq store.authRequests,
           started' \in 0 .. MaxCalls,
           UNCHANGED <<now, serial, audienceTaken, responses, redeemed, logouts>>
    PROVE  HandlerInv'
<1>1. /\ calls' \in [Threads -> Call]
      /\ \A x \in Threads : CallReady(calls'[x])
  BY IdleOK, ThreadStep DEF Return
<1>2. RedeemedSpent' /\ CodeRedeemedOnce'
  BY StillSpent
<1>3. /\ serial' = serial /\ serial \in SerialType
      /\ now' \in Nat \ {0}
      /\ audienceTaken' \subseteq Nat /\ responses' \subseteq Response
      /\ redeemed' \subseteq Nat \X Nat /\ logouts' \subseteq Logout
  BY DEF HandlerInv, HandlerTypes
<1>4. QED
  BY <1>1, <1>2, <1>3, Compose

\* A request that begins counts within the bound.
LEMMA BeginType ==
    ASSUME HandlerInv, NEW th \in Threads, Begin(th)
    PROVE  started' \in 0 .. MaxCalls /\ calls[th].stage = "idle"
BY CallsAssumption DEF HandlerInv, HandlerTypes, Begin

\* The first call of an exchange.
LEMMA ExchangeLookupOK ==
    ASSUME HandlerInv, NEW th \in Threads, NEW code, ExchangeLookup(th, code)
    PROVE  HandlerInv'
<1>1. /\ Pruned \in StoreType /\ Consistent(Pruned, serial)
      /\ Pruned.codes \subseteq store.codes
      /\ Pruned.authRequests \subseteq store.authRequests
  BY PrunedOK
<1>2. started' \in 0 .. MaxCalls /\ calls[th].stage = "idle"
  BY BeginType DEF ExchangeLookup
<1>3. CASE Return(th)
  BY <1>1, <1>2, <1>3, ReturnStep DEF ExchangeLookup
<1>4. ASSUME NEW r \in AuthRequestByCode(Pruned, now, code),
             calls' = [calls EXCEPT ![th] =
                [Idle EXCEPT !.stage = "codeFound", !.auth = r.id,
                    !.client = r.client, !.subject = r.subject,
                    !.scopes = r.scopes, !.deadline = r.expires]]
      PROVE  HandlerInv'
  <2> DEFINE c == [Idle EXCEPT !.stage = "codeFound", !.auth = r.id,
                      !.client = r.client, !.subject = r.subject,
                      !.scopes = r.scopes, !.deadline = r.expires]
  <2>1. /\ r \in AuthRequest /\ 0 < r.id /\ r.subject \in Users
    BY <1>1 DEF AuthRequestByCode, StoreType, Consistent, Drawn, SubjectsKnown
  <2>2. /\ r.id \in Nat /\ r.client \in Clients /\ r.subject \in Subjects
        /\ r.scopes \in SUBSET Scopes /\ r.expires \in Nat
    BY <2>1 DEF AuthRequest, Subjects
  <2>3. c \in Call /\ CallReady(c) /\ c.stage = "codeFound"
    BY <2>1, <2>2 DEF Idle, Call, Stages, CallReady
  <2> HIDE DEF c
  <2>4. calls' = [calls EXCEPT ![th] = c]
    BY <1>4 DEF c
  <2>5. /\ calls' \in [Threads -> Call]
        /\ \A x \in Threads : CallReady(calls'[x])
    BY <1>2, <2>3, <2>4, ThreadStep DEF ExchangeLookup
  <2>6. RedeemedSpent' /\ CodeRedeemedOnce'
    BY <1>1, StillSpent DEF ExchangeLookup
  <2>7. QED
    BY <1>1, <1>2, <2>5, <2>6, Compose DEF ExchangeLookup, HandlerInv, HandlerTypes
<1>5. QED
  BY <1>3, <1>4 DEF ExchangeLookup

\* Refusals and the last call of an exchange.
LEMMA ExchangeRefusedOK ==
    ASSUME HandlerInv, NEW th \in Threads, ExchangeRefused(th)
    PROVE  HandlerInv'
<1>1. /\ Pruned \in StoreType /\ Consistent(Pruned, serial)
      /\ Pruned.codes \subseteq store.codes
      /\ Pruned.authRequests \subseteq store.authRequests
  BY PrunedOK
<1>2. started' \in 0 .. MaxCalls
  BY DEF ExchangeRefused, HandlerInv, HandlerTypes
<1>3. QED
  BY <1>1, <1>2, ReturnStep DEF ExchangeRefused, At

\* The last call of an exchange, which does not prune.
LEMMA ExchangeFinishOK ==
    ASSUME HandlerInv, NEW th \in Threads, ExchangeFinish(th)
    PROVE  HandlerInv'
<1>1. store \in StoreType /\ serial \in SerialType /\ Consistent(store, serial)
  BY DEF HandlerInv, HandlerTypes
<1>2. store' = store \/ store' = DeleteAuthRequest(store, calls[th].auth)
  BY DEF ExchangeFinish
<1>3. store' \in StoreType /\ Consistent(store', serial)
  BY <1>1, <1>2, DeleteAuthRequestConsistent
<1>4. /\ store'.codes \subseteq store.codes
      /\ store'.authRequests \subseteq store.authRequests
  BY <1>1, <1>2 DEF DeleteAuthRequest, StoreType
<1>5. started' \in 0 .. MaxCalls
  BY DEF ExchangeFinish, HandlerInv, HandlerTypes
<1>6. QED
  BY <1>3, <1>4, <1>5, ReturnStep DEF ExchangeFinish, At

\* The request of a thread that is about to create tokens.
LEMMA RequestOfType ==
    ASSUME HandlerInv, NEW th \in Threads,
           calls[th].stage \in {"codeFound", "refreshFound"}
    PROVE  /\ RequestOf(calls[th]) \in TokenRequest
           /\ RequestOf(calls[th]).auth = calls[th].auth
           /\ calls[th].stage = "codeFound" => 0 < calls[th].auth
           /\ calls[th].stage = "refreshFound" => calls[th].auth = 0
<1>1. calls[th] \in Call /\ CallReady(calls[th])
  BY DEF HandlerInv, HandlerTypes
<1>2. QED
  BY <1>1 DEF Call, CallReady, RequestOf, TokenRequest

\* A thread that only moves to another stage of the same exchange.
LEMMA AdvanceStep ==
    ASSUME HandlerInv, NEW th \in Threads, NEW stage \in {"created", "signed", "finishing"},
           calls[th].stage \in {"codeFound", "created", "signed"},
           Advance(th, stage)
    PROVE  /\ calls' \in [Threads -> Call]
           /\ \A x \in Threads : CallReady(calls'[x])
<1> DEFINE c == [calls[th] EXCEPT !.stage = stage]
<1>1. calls \in [Threads -> Call] /\ CallReady(calls[th])
  BY DEF HandlerInv, HandlerTypes
<1>2. calls' = [calls EXCEPT ![th] = c]
  BY <1>1 DEF Advance
<1>3. c \in Call /\ CallReady(c) /\ c.stage # "hashing"
  BY <1>1 DEF Call, Stages, CallReady
<1> HIDE DEF c
<1>4. QED
  BY <1>2, <1>3, ThreadStep

\* The signing steps of an exchange.
LEMMA SignOK ==
    ASSUME HandlerInv, NEW th \in Threads, SignAccessToken(th) \/ SignIDToken(th)
    PROVE  HandlerInv'
<1>1. store \in StoreType /\ serial \in SerialType /\ Consistent(store, serial)
  BY DEF HandlerInv, HandlerTypes
<1>2. RedeemedSpent' /\ CodeRedeemedOnce'
  BY <1>1, StillSpent DEF SignAccessToken, SignIDToken
<1>3. /\ calls' \in [Threads -> Call]
      /\ \A x \in Threads : CallReady(calls'[x])
  BY AdvanceStep DEF SignAccessToken, SignIDToken, At
<1>4. calls[th].auth \in Nat
  BY DEF HandlerInv, HandlerTypes, Call
<1>5. audienceTaken' \subseteq Nat
  BY <1>4 DEF SignAccessToken, SignIDToken, HandlerInv, HandlerTypes
<1>6. responses' \subseteq Response
  <2>1. responses \subseteq Response
    BY DEF HandlerInv, HandlerTypes
  <2>2. GetAudience(calls[th].auth) \in Audiences
    BY DEF GetAudience, Audiences
  <2>3. CASE SignAccessToken(th)
    BY <1>4, <2>1, <2>2, <2>3 DEF SignAccessToken, Response, Audiences
  <2>4. CASE SignIDToken(th)
    BY <2>1, <2>2, <2>4 DEF SignIDToken, Response
  <2>5. QED
    BY <2>3, <2>4
<1>7. QED
  BY <1>1, <1>2, <1>3, <1>5, <1>6, Compose
  DEF SignAccessToken, SignIDToken, HandlerInv, HandlerTypes

\* An exchange that reserved its code creates its tokens.
LEMMA ExchangeCreateOK ==
    ASSUME HandlerInv, NEW th \in Threads, ExchangeCreate(th)
    PROVE  HandlerInv'
<1> DEFINE request == RequestOf(calls[th])
           id == serial.access + 1
           m == reserveAuthorizationCodeLocked(Pruned, request)
<1>1. /\ Pruned \in StoreType /\ Consistent(Pruned, serial)
      /\ \A p \in redeemed : Spent(Pruned, p[1])
  BY PrunedOK
<1>2. /\ serial \in SerialType /\ now \in Nat
      /\ serial.access \in Nat /\ serial.refresh \in Nat /\ serial.family \in Nat
  BY DEF HandlerInv, HandlerTypes, SerialType
<1>3. /\ request \in TokenRequest /\ request.auth \in Nat /\ request.auth # 0
      /\ request.auth = calls[th].auth /\ calls[th].stage = "codeFound"
      /\ reserveOK(Pruned, request)
  BY RequestOfType DEF ExchangeCreate, At, TokenRequest
<1> HIDE DEF request
<1>4. /\ store' \in StoreType /\ serial' \in SerialType
      /\ Consistent(store', serial')
      /\ store'.codes = m.codes /\ store'.authRequests = m.authRequests
  <2>1. CASE /\ store' = CreateFamily(Pruned, now, serial.family + 1,
                                      serial.refresh + 1, serial.access + 1, request)
             /\ serial' = [serial EXCEPT !.access = @ + 1, !.refresh = @ + 1,
                                         !.family = @ + 1]
    BY <1>1, <1>2, <1>3, <2>1, CreateFamilyConsistent, SerialTypes
  <2>2. CASE /\ store' = CreateAccessToken(Pruned, now, serial.access + 1, request)
             /\ serial' = [serial EXCEPT !.access = @ + 1]
    BY <1>1, <1>2, <1>3, <2>2, CreateAccessTokenConsistent, SerialTypes
  <2>3. QED
    BY <2>1, <2>2 DEF ExchangeCreate, request
<1>5. /\ \A i : Spent(Pruned, i) => Spent(m, i)
      /\ Spent(m, request.auth)
  BY <1>1, <1>3, SpentReserve
<1>6. redeemed' = redeemed \cup {<<request.auth, id>>}
  BY DEF ExchangeCreate, request
<1> HIDE DEF m
<1>7. RedeemedSpent'
  <2>1. \A p \in redeemed' : Spent(m, p[1])
    BY <1>1, <1>5, <1>6
  <2>2. QED
    BY <1>4, <2>1, SpentSubset DEF RedeemedSpent
\* A second redemption would need a code that is not reserved.
<1>8. CodeRedeemedOnce'
  <2>1. ~Spent(Pruned, request.auth)
    BY <1>3 DEF reserveOK, Spent
  <2>2. \A p \in redeemed : p[1] # request.auth
    BY <1>1, <2>1
  <2>3. QED
    BY <1>6, <2>2 DEF HandlerInv, CodeRedeemedOnce
<1>9. redeemed' \subseteq Nat \X Nat
  BY <1>2, <1>3, <1>6 DEF HandlerInv, HandlerTypes
<1>10. /\ calls' \in [Threads -> Call]
       /\ \A x \in Threads : CallReady(calls'[x])
  BY <1>3, AdvanceStep DEF ExchangeCreate
<1>11. QED
  BY <1>4, <1>7, <1>8, <1>9, <1>10, Compose
  DEF ExchangeCreate, HandlerInv, HandlerTypes

\* The first call of a refresh: a usable record is copied, and a replayed
\* one revokes its family.
LEMMA RefreshLookupOK ==
    ASSUME HandlerInv, NEW th \in Threads, NEW token \in Nat, RefreshLookup(th, token)
    PROVE  HandlerInv'
<1>1. /\ Pruned \in StoreType /\ Consistent(Pruned, serial)
      /\ Pruned.codes \subseteq store.codes
      /\ Pruned.authRequests \subseteq store.authRequests
      /\ serial \in SerialType
  BY PrunedOK DEF HandlerInv, HandlerTypes
<1>2. started' \in 0 .. MaxCalls /\ calls[th].stage = "idle"
  BY BeginType DEF RefreshLookup
<1>3. ASSUME Return(th), NEW ids, store' = revokeFamilyLocked(Pruned, ids)
      PROVE  HandlerInv'
  <2>1. store' \in StoreType /\ Consistent(store', serial)
    BY <1>1, <1>3, RevokeType, RevokeConsistent
  <2>2. store'.codes = Pruned.codes /\ store'.authRequests = Pruned.authRequests
    BY <1>1, <1>3, CodesUntouched
  <2>3. QED
    BY <1>1, <1>2, <1>3, <2>1, <2>2, ReturnStep DEF RefreshLookup
<1>4. ASSUME NEW r \in TokenRequestByRefreshToken(Pruned, now, token),
             NEW granted \in SUBSET Scopes,
             store' = Pruned,
             calls' = [calls EXCEPT ![th] =
                [Idle EXCEPT !.stage = "refreshFound", !.client = r.client,
                    !.subject = r.subject, !.token = token, !.family = r.family,
                    !.scopes = granted]]
      PROVE  HandlerInv'
  <2> DEFINE c == [Idle EXCEPT !.stage = "refreshFound", !.client = r.client,
                      !.subject = r.subject, !.token = token,
                      !.family = r.family, !.scopes = granted]
  <2>1. r \in RefreshRecord /\ r.subject \in Subjects
    BY <1>1 DEF TokenRequestByRefreshToken, StoreType, Consistent, SubjectsKnown
  <2>2. r.client \in Clients /\ r.family \in Nat
    BY <2>1 DEF RefreshRecord
  <2>3. c \in Call /\ CallReady(c) /\ c.stage = "refreshFound"
    BY <2>1, <2>2 DEF Idle, Call, Stages, CallReady
  <2> HIDE DEF c
  <2>4. calls' = [calls EXCEPT ![th] = c]
    BY <1>4 DEF c
  <2>5. /\ calls' \in [Threads -> Call]
        /\ \A x \in Threads : CallReady(calls'[x])
    BY <1>2, <2>3, <2>4, ThreadStep DEF RefreshLookup
  <2>6. RedeemedSpent' /\ CodeRedeemedOnce'
    BY <1>1, <1>4, StillSpent DEF RefreshLookup
  <2>7. QED
    BY <1>1, <1>2, <1>4, <2>5, <2>6, Compose DEF RefreshLookup, HandlerInv, HandlerTypes
<1>5. \A r \in TokenRequestByRefreshToken(Pruned, now, token) :
         r.scopes \in SUBSET Scopes
  BY <1>1 DEF TokenRequestByRefreshToken, StoreType, RefreshRecord
<1>6. CASE \E r \in TokenRequestByRefreshToken(Pruned, now, token),
             scopes \in SUBSET Scopes :
            /\ store' = Pruned
            /\ calls' = [calls EXCEPT ![th] =
                [Idle EXCEPT !.stage = "refreshFound", !.client = r.client,
                    !.subject = r.subject, !.token = token, !.family = r.family,
                    !.scopes = IF scopes = {} THEN r.scopes ELSE scopes]]
  BY <1>4, <1>5, <1>6
<1>7. QED
  BY <1>3, <1>6 DEF RefreshLookup

\* A refused rotation may revoke the family of a replayed token.
LEMMA RefreshRefusedOK ==
    ASSUME HandlerInv, NEW th \in Threads, RefreshRefused(th)
    PROVE  HandlerInv'
<1>1. /\ Pruned \in StoreType /\ Consistent(Pruned, serial)
      /\ Pruned.codes \subseteq store.codes
      /\ Pruned.authRequests \subseteq store.authRequests
      /\ serial \in SerialType /\ started \in 0 .. MaxCalls
  BY PrunedOK DEF HandlerInv, HandlerTypes
<1>2. PICK ids : store' = revokeFamilyLocked(Pruned, ids)
  BY DEF RefreshRefused
<1>3. store' \in StoreType /\ Consistent(store', serial)
  BY <1>1, <1>2, RevokeType, RevokeConsistent
<1>4. store'.codes = Pruned.codes /\ store'.authRequests = Pruned.authRequests
  BY <1>1, <1>2, CodesUntouched
<1>5. QED
  BY <1>1, <1>3, <1>4, ReturnStep DEF RefreshRefused, At

\* A rotation.
LEMMA RefreshRotateOK ==
    ASSUME HandlerInv, NEW th \in Threads, RefreshRotate(th)
    PROVE  HandlerInv'
<1> DEFINE request == RequestOf(calls[th])
<1>1. /\ Pruned \in StoreType /\ Consistent(Pruned, serial)
      /\ Pruned.codes \subseteq store.codes
      /\ Pruned.authRequests \subseteq store.authRequests
      /\ serial \in SerialType /\ started \in 0 .. MaxCalls /\ now \in Nat
  BY PrunedOK DEF HandlerInv, HandlerTypes
<1>2. request \in TokenRequest
  BY RequestOfType DEF RefreshRotate, At
<1>3. PICK old \in Rotatable(Pruned, now, calls[th].token, calls[th].client) :
         store' = RotateToken(Pruned, now, old, serial.refresh + 1,
                              serial.access + 1, request)
  BY DEF RefreshRotate
<1>4. old \in Pruned.refresh /\ ~old.consumed
  BY DEF Rotatable
<1>5. serial' = [serial EXCEPT !.access = @ + 1, !.refresh = @ + 1]
  BY DEF RefreshRotate
<1> HIDE DEF request
<1>6. /\ store' \in StoreType /\ Consistent(store', serial') /\ serial' \in SerialType
      /\ store'.codes = Pruned.codes /\ store'.authRequests = Pruned.authRequests
  <2> DEFINE n == RotateToken(Pruned, now, old, serial.refresh + 1,
                              serial.access + 1, request)
             l == [serial EXCEPT !.access = @ + 1, !.refresh = @ + 1]
  <2>1. /\ n \in StoreType /\ Consistent(n, l)
        /\ n.codes = Pruned.codes /\ n.authRequests = Pruned.authRequests
    BY <1>1, <1>2, <1>4, RotateConsistent
  <2>2. l \in SerialType
    BY <1>1, SerialTypes
  <2>3. store' = n /\ serial' = l
    BY <1>3, <1>5
  <2> HIDE DEF n, l
  <2>4. QED
    BY <2>1, <2>2, <2>3
<1>7. /\ calls' \in [Threads -> Call]
      /\ \A x \in Threads : CallReady(calls'[x])
  BY IdleOK, ThreadStep DEF RefreshRotate, Return, At
<1>8. RedeemedSpent' /\ CodeRedeemedOnce'
  BY <1>1, <1>6, StillSpent DEF RefreshRotate
<1>9. QED
  BY <1>6, <1>7, <1>8, Compose DEF RefreshRotate, HandlerInv, HandlerTypes

\* The first call of a revocation.
LEMMA RevokeLookupOK ==
    ASSUME HandlerInv, NEW th \in Threads, NEW client \in SPAClients, NEW token \in Nat,
           RevokeLookup(th, client, token)
    PROVE  HandlerInv'
<1>1. /\ Pruned \in StoreType /\ Consistent(Pruned, serial)
      /\ Pruned.codes \subseteq store.codes
      /\ Pruned.authRequests \subseteq store.authRequests
  BY PrunedOK
<1>2. started' \in 0 .. MaxCalls /\ calls[th].stage = "idle"
  BY BeginType DEF RevokeLookup
<1> DEFINE c(family) == [Idle EXCEPT !.stage = "revoking", !.client = client,
                                     !.token = token, !.family = family]
<1>3. PICK family \in Nat : calls' = [calls EXCEPT ![th] = c(family)]
  <2> DEFINE held == TokenFamilies(Pruned, client, token)
  <2>1. \A family \in IF held = {} THEN {0} ELSE held : family \in Nat
    BY <1>1 DEF TokenFamilies, StoreType, RefreshRecord
  <2>2. \E family \in IF held = {} THEN {0} ELSE held :
           calls' = [calls EXCEPT ![th] = [Idle EXCEPT !.stage = "revoking", !.client = client,
                                                  !.token = token, !.family = family]]
    BY DEF RevokeLookup
  <2> HIDE DEF held
  <2>3. QED
    BY <2>1, <2>2
<1>4. c(family) \in Call /\ CallReady(c(family)) /\ c(family).stage = "revoking"
  BY DEF Idle, Call, Stages, CallReady, Clients
<1> HIDE DEF c
<1>5. /\ calls' \in [Threads -> Call]
      /\ \A x \in Threads : CallReady(calls'[x])
  BY <1>2, <1>3, <1>4, ThreadStep DEF RevokeLookup
<1>6. RedeemedSpent' /\ CodeRedeemedOnce'
  BY <1>1, StillSpent DEF RevokeLookup
<1>7. QED
  BY <1>1, <1>2, <1>5, <1>6, Compose DEF RevokeLookup, HandlerInv, HandlerTypes

\* The second call of a revocation, and that of an authorized service.
LEMMA RevokeOK ==
    ASSUME HandlerInv, NEW th \in Threads,
           RevokeToken(th) \/ \E id \in 1 .. serial.access : ServiceRevoke(th, id)
    PROVE  HandlerInv'
<1>1. /\ Pruned \in StoreType /\ Consistent(Pruned, serial)
      /\ Pruned.codes \subseteq store.codes
      /\ Pruned.authRequests \subseteq store.authRequests
      /\ serial \in SerialType /\ started \in 0 .. MaxCalls
  BY PrunedOK DEF HandlerInv, HandlerTypes
<1>2. CASE RevokeToken(th)
  <2>1. store' \in StoreType /\ Consistent(store', serial)
    BY <1>1, <1>2, RevokeRefreshTokenConsistent DEF RevokeToken
  <2>2. store'.codes = Pruned.codes /\ store'.authRequests = Pruned.authRequests
    BY <1>1, <1>2, CodesUntouched DEF RevokeToken
  <2>3. QED
    BY <1>1, <1>2, <2>1, <2>2, ReturnStep DEF RevokeToken, At
<1>3. ASSUME NEW id \in 1 .. serial.access, ServiceRevoke(th, id) PROVE HandlerInv'
  <2>1. store' \in StoreType /\ Consistent(store', serial)
    BY <1>1, <1>3, RevokeAccessTokenConsistent DEF ServiceRevoke
  <2>2. store'.codes = Pruned.codes /\ store'.authRequests = Pruned.authRequests
    BY <1>1, <1>3, CodesUntouched DEF ServiceRevoke
  <2>3. QED
    BY <1>1, <1>3, <2>1, <2>2, ReturnStep DEF ServiceRevoke, At
<1>4. QED
  BY <1>2, <1>3

\* A call made in one step: no thread is involved.
LEMMA SingleStep ==
    ASSUME HandlerInv, store' \in StoreType, Consistent(store', serial),
           store'.codes \subseteq store.codes,
           store'.authRequests \subseteq store.authRequests,
           now' \in Nat \ {0}, logouts' \subseteq Logout,
           UNCHANGED <<serial, calls, started, audienceTaken, responses, redeemed>>
    PROVE  HandlerInv'
<1>1. RedeemedSpent' /\ CodeRedeemedOnce'
  BY StillSpent
<1>2. QED
  BY <1>1, Compose DEF HandlerInv, HandlerTypes

\* Access token revocation, logout, queries and time.
LEMMA SingleOK ==
    ASSUME HandlerInv,
           \/ \E client \in SPAClients, id \in 1 .. serial.access : RevokeAccess(client, id)
           \/ \E user \in Users, client \in SPAClients : EndSession(user, client)
           \/ Query
           \/ Advancing
    PROVE  HandlerInv'
<1>1. /\ Pruned \in StoreType /\ Consistent(Pruned, serial)
      /\ Pruned.codes \subseteq store.codes
      /\ Pruned.authRequests \subseteq store.authRequests
      /\ store \in StoreType /\ Consistent(store, serial)
      /\ serial \in SerialType /\ now \in Nat \ {0} /\ logouts \subseteq Logout
  BY PrunedOK DEF HandlerInv, HandlerTypes
<1>2. ASSUME NEW client \in SPAClients, NEW id \in 1 .. serial.access,
             RevokeAccess(client, id)
      PROVE  HandlerInv'
  <2>1. store' \in StoreType /\ Consistent(store', serial)
    BY <1>1, <1>2, RevokeAccessTokenConsistent DEF RevokeAccess
  <2>2. store'.codes = Pruned.codes /\ store'.authRequests = Pruned.authRequests
    BY <1>1, <1>2, CodesUntouched DEF RevokeAccess
  <2>3. QED
    BY <1>1, <1>2, <2>1, <2>2, SingleStep DEF RevokeAccess, tokenVars
<1>3. ASSUME NEW user \in Users, NEW client \in SPAClients, EndSession(user, client)
      PROVE  HandlerInv'
  <2>1. store' \in StoreType /\ Consistent(store', serial)
    BY <1>1, <1>3, TerminateSessionConsistent DEF EndSession
  <2>2. store'.codes = Pruned.codes /\ store'.authRequests = Pruned.authRequests
    BY <1>1, <1>3, CodesUntouched DEF EndSession
  <2>3. logouts' \subseteq Logout
    <3> DEFINE ended == {r.id : r \in {x \in Pruned.authRequests :
                             x.done /\ x.subject = user /\ x.client = client}}
    <3>1. ended \subseteq Nat
      BY <1>1 DEF StoreType, AuthRequest
    <3>2. logouts' = logouts \cup {[subject |-> user, client |-> client,
             access |-> serial.access, family |-> serial.family, requests |-> ended]}
      BY <1>3 DEF EndSession
    <3> HIDE DEF ended
    <3>3. QED
      BY <1>1, <3>1, <3>2 DEF Logout, SerialType
  <2>4. QED
    BY <1>1, <1>3, <2>1, <2>2, <2>3, SingleStep DEF EndSession
<1>4. CASE Query
  BY <1>1, <1>4, SingleStep DEF Query, tokenVars
<1>5. CASE Advancing
  BY <1>1, <1>5, SingleStep DEF Advancing, Tick, tokenVars
<1>6. QED
  BY <1>2, <1>3, <1>4, <1>5

\* A credential check that begins, or is refused for want of a slot.
LEMMA CredentialsBeginOK ==
    ASSUME HandlerInv, NEW th \in Threads, NEW client \in Clients,
           CredentialsBegin(th, client)
    PROVE  HandlerInv'
<1>1. store \in StoreType /\ Consistent(store, serial)
  BY DEF HandlerInv, HandlerTypes
<1>2. started' \in 0 .. MaxCalls
  BY BeginType DEF CredentialsBegin
<1>3. CASE Return(th)
  BY <1>1, <1>2, <1>3, ReturnStep DEF CredentialsBegin
<1>4. CASE calls' = [calls EXCEPT ![th] =
                        [Idle EXCEPT !.stage = "hashing", !.client = client]]
  <2> DEFINE c == [Idle EXCEPT !.stage = "hashing", !.client = client]
  <2>1. c \in Call /\ CallReady(c)
    BY DEF Idle, Call, Stages, CallReady
  <2> HIDE DEF c
  <2>2. calls' = [calls EXCEPT ![th] = c]
    BY <1>4 DEF c
  <2>3. /\ calls' \in [Threads -> Call]
        /\ \A x \in Threads : CallReady(calls'[x])
    BY <2>1, <2>2, ThreadStep
  <2>4. RedeemedSpent' /\ CodeRedeemedOnce'
    BY StillSpent DEF CredentialsBegin
  <2>5. QED
    BY <1>1, <1>2, <2>3, <2>4, Compose DEF CredentialsBegin, HandlerInv, HandlerTypes
<1>5. QED
  BY <1>3, <1>4 DEF CredentialsBegin

\* A credential check that ends.
LEMMA CredentialsEndOK ==
    ASSUME HandlerInv, NEW th \in Threads, CredentialsEnd(th)
    PROVE  HandlerInv'
<1>1. /\ store \in StoreType /\ Consistent(store, serial)
      /\ calls \in [Threads -> Call] /\ started \in 0 .. MaxCalls
  BY DEF HandlerInv, HandlerTypes
<1>2. CASE Return(th)
  BY <1>1, <1>2, ReturnStep DEF CredentialsEnd
<1>3. CASE calls[th].client \in ServiceClients /\ Advance(th, "authorized")
  <2> DEFINE c == [calls[th] EXCEPT !.stage = "authorized"]
  <2>1. c \in Call /\ CallReady(c)
    BY <1>1, <1>3 DEF Call, Stages, CallReady
  <2>2. calls' = [calls EXCEPT ![th] = c]
    BY <1>1, <1>3 DEF Advance
  <2> HIDE DEF c
  <2>3. /\ calls' \in [Threads -> Call]
        /\ \A x \in Threads : CallReady(calls'[x])
    BY <2>1, <2>2, ThreadStep
  <2>4. RedeemedSpent' /\ CodeRedeemedOnce'
    BY StillSpent DEF CredentialsEnd
  <2>5. QED
    BY <1>1, <2>3, <2>4, Compose DEF CredentialsEnd, HandlerInv, HandlerTypes
<1>4. QED
  BY <1>2, <1>3 DEF CredentialsEnd

\* An authorized service gets a token for itself.
LEMMA ServiceTokenOK ==
    ASSUME HandlerInv, NEW th \in Threads, NEW scopes \in SUBSET Scopes,
           ServiceToken(th, scopes)
    PROVE  HandlerInv'
<1> DEFINE client == calls[th].client
           request == [auth |-> 0, client |-> client, subject |-> client,
                       scopes |-> scopes]
           n == CreateAccessToken(Pruned, now, serial.access + 1, request)
           l == [serial EXCEPT !.access = @ + 1]
           m == reserveAuthorizationCodeLocked(Pruned, request)
<1>1. /\ Pruned \in StoreType /\ Consistent(Pruned, serial)
      /\ \A p \in redeemed : Spent(Pruned, p[1])
      /\ serial \in SerialType /\ now \in Nat
  BY PrunedOK DEF HandlerInv, HandlerTypes
<1>2. client \in ServiceClients
  BY DEF ServiceToken, ClientCredentialsTokenRequestOK
<1>3. request \in TokenRequest
  BY <1>2 DEF TokenRequest, Clients, Subjects
<1>4. store' = n /\ serial' = l
  BY DEF ServiceToken
<1> HIDE DEF request
<1>5. n \in StoreType /\ Consistent(n, l) /\ l \in SerialType
  BY <1>1, <1>3, CreateAccessTokenConsistent, SerialTypes
<1>6. n.codes = m.codes /\ n.authRequests = m.authRequests
  BY <1>1, <1>3, CreateAccessTokenConsistent
<1>7. \A i : Spent(Pruned, i) => Spent(m, i)
  BY <1>1, <1>3, SpentReserve
<1> HIDE DEF m, n, l
<1>8. RedeemedSpent'
  <2>1. \A p \in redeemed : Spent(n, p[1])
    BY <1>1, <1>6, <1>7, SpentSubset
  <2>2. QED
    BY <1>4, <2>1 DEF RedeemedSpent, ServiceToken
<1>9. CodeRedeemedOnce'
  BY DEF HandlerInv, CodeRedeemedOnce, ServiceToken
<1>10. /\ calls' \in [Threads -> Call]
       /\ \A x \in Threads : CallReady(calls'[x])
  BY IdleOK, ThreadStep DEF ServiceToken, Return, At
<1>11. QED
  BY <1>4, <1>5, <1>8, <1>9, <1>10, Compose
  DEF ServiceToken, HandlerInv, HandlerTypes

\* An authorized service only asks.
LEMMA ServiceQueryOK ==
    ASSUME HandlerInv, NEW th \in Threads, ServiceQuery(th)
    PROVE  HandlerInv'
<1>1. /\ Pruned \in StoreType /\ Consistent(Pruned, serial)
      /\ Pruned.codes \subseteq store.codes
      /\ Pruned.authRequests \subseteq store.authRequests
      /\ store \in StoreType /\ Consistent(store, serial)
      /\ started \in 0 .. MaxCalls
  BY PrunedOK DEF HandlerInv, HandlerTypes
<1>2. QED
  BY <1>1, ReturnStep DEF ServiceQuery, At

----------------------------------------------------------------------------
(* The theorems. *)

\* The sign-ins the model starts from satisfy the invariant.
LEMMA InitOK == Init => HandlerInv
<1> SUFFICES ASSUME Init PROVE HandlerInv
  OBVIOUS
<1>1. PICK client \in [1 .. Sessions -> SPAClients],
          user \in [1 .. Sessions -> Users],
          scopes \in [1 .. Sessions -> Grants] :
        store = [NewStore EXCEPT
            !.authRequests = {SignedIn(i, client[i], user[i], scopes[i]) :
                              i \in 1 .. Sessions},
            !.codes = {SavedCode(i) : i \in 1 .. Sessions},
            !.nextExpiry = IF Sessions = 0 THEN 0 ELSE 1 + AuthTTL]
  BY DEF Init
<1>2. /\ store.authRequests = {SignedIn(i, client[i], user[i], scopes[i]) :
                               i \in 1 .. Sessions}
      /\ store.codes = {SavedCode(i) : i \in 1 .. Sessions}
      /\ store.access = {} /\ store.refresh = {} /\ store.families = {}
      /\ store.revoked = {}
      /\ store.nextExpiry = IF Sessions = 0 THEN 0 ELSE 1 + AuthTTL
      /\ store = [authRequests |-> store.authRequests, codes |-> store.codes,
                  access |-> {}, refresh |-> {}, families |-> {},
                  nextExpiry |-> store.nextExpiry, revoked |-> {}]
  BY <1>1 DEF NewStore
<1>3. Sessions \in Nat /\ AuthTTL \in Nat /\ 1 + AuthTTL \in Nat
  BY CallsAssumption, LifetimesAssumption
<1>4. \A i \in 1 .. Sessions :
        /\ SignedIn(i, client[i], user[i], scopes[i]) \in AuthRequest
        /\ SavedCode(i) \in CodeRecord
  <2> SUFFICES ASSUME NEW i \in 1 .. Sessions
               PROVE  /\ SignedIn(i, client[i], user[i], scopes[i]) \in AuthRequest
                      /\ SavedCode(i) \in CodeRecord
    OBVIOUS
  <2>1. i \in Nat /\ client[i] \in Clients /\ user[i] \in Users
    BY <1>3 DEF Clients
  <2>2. Granted(client[i], user[i], scopes[i]) \in SUBSET Scopes
    <3>1. scopes[i] \in SUBSET Scopes
      BY CallsAssumption
    <3>2. QED
      BY <3>1 DEF Granted
  <2>3. QED
    BY <1>3, <2>1, <2>2 DEF SignedIn, SavedCode, AuthRequest, CodeRecord
<1>5. store \in StoreType
  <2>1. store.nextExpiry \in Nat
    BY <1>2, <1>3
  <2>2. store.authRequests \in SUBSET AuthRequest /\ store.codes \in SUBSET CodeRecord
    BY <1>2, <1>4
  <2>3. QED
    BY <1>2, <2>1, <2>2 DEF StoreType
<1>6. \A r \in store.authRequests : 0 < r.id /\ r.subject \in Users /\ r.expires = 1 + AuthTTL
  BY <1>2, <1>3 DEF SignedIn
<1>7. \A c \in store.codes : c.expires = 1 + AuthTTL
  BY <1>2 DEF SavedCode
<1>8. ExpiryCovered(store)
  <2>1. \A e \in Expiries(store) : e = 1 + AuthTTL
    BY <1>2, <1>6, <1>7 DEF Expiries
  <2>2. Sessions = 0 => Expiries(store) = {}
    BY <1>2, <1>3 DEF Expiries
  <2>3. QED
    BY <1>2, <1>3, <2>1, <2>2 DEF ExpiryCovered
<1>9. Consistent(store, serial)
  BY <1>2, <1>6, <1>8
  DEF Consistent, SubjectsKnown, IndexSound, OnePair, RevokedGone, Drawn, FamilyIDs
<1>10. /\ calls \in [Threads -> Call]
       /\ \A th \in Threads : CallReady(calls[th])
  BY IdleOK DEF Init
<1>11. serial \in SerialType
  BY <1>3 DEF Init, SerialType
<1>12. HandlerTypes
  BY <1>5, <1>10, <1>11, CallsAssumption DEF HandlerTypes, Init
<1>13. QED
  BY <1>9, <1>10, <1>12 DEF HandlerInv, Init, RedeemedSpent, CodeRedeemedOnce

\* Every step preserves the invariant.
LEMMA NextOK == HandlerInv /\ [Next]_vars => HandlerInv'
<1> SUFFICES ASSUME HandlerInv, [Next]_vars PROVE HandlerInv'
  OBVIOUS
<1>1. serial.code \in Nat /\ serial.refresh \in Nat
  BY DEF HandlerInv, HandlerTypes, SerialType
<1>2. ASSUME NEW th \in Threads, Start(th) PROVE HandlerInv'
  <2>1. ASSUME NEW code \in 1 .. serial.code, ExchangeLookup(th, code) PROVE HandlerInv'
    BY <2>1, ExchangeLookupOK
  <2>2. ASSUME NEW token \in 1 .. serial.refresh, RefreshLookup(th, token) PROVE HandlerInv'
    BY <1>1, <2>2, RefreshLookupOK
  <2>3. ASSUME NEW client \in SPAClients, NEW token \in 1 .. serial.refresh,
               RevokeLookup(th, client, token)
        PROVE  HandlerInv'
    BY <1>1, <2>3, RevokeLookupOK
  <2>4. ASSUME NEW client \in Clients, CredentialsBegin(th, client) PROVE HandlerInv'
    BY <2>4, CredentialsBeginOK
  <2>5. QED
    BY <1>2, <2>1, <2>2, <2>3, <2>4 DEF Start
<1>3. ASSUME NEW th \in Threads, Finish(th) PROVE HandlerInv'
  BY <1>3, ExchangeCreateOK, ExchangeRefusedOK, SignOK, ExchangeFinishOK,
     RefreshRotateOK, RefreshRefusedOK, RevokeOK, CredentialsEndOK,
     ServiceTokenOK, ServiceQueryOK DEF Finish
<1>4. CASE UNCHANGED vars
  BY <1>4 DEF vars, tokenVars, HandlerInv, HandlerTypes, RedeemedSpent, CodeRedeemedOnce
<1>5. QED
  BY <1>2, <1>3, <1>4, SingleOK DEF Next

\* A thread that neither starts nor ends a comparison leaves the hashing
\* threads as they are.
LEMMA HashingKept ==
    ASSUME NEW th \in Threads,
           \A x \in Threads \ {th} : calls'[x] = calls[x],
           calls[th].stage # "hashing", calls'[th].stage # "hashing"
    PROVE  Hashing' = Hashing
BY DEF Hashing, At

\* The slots a step takes or frees are those of the comparisons it starts or
\* ends, which are within the capacity of the channel.
LEMMA SlotsFollowHashing ==
    ASSUME HandlerTypes, TypeOK, SlotsBalanced, [Next]_vars
    PROVE  slots' \in 0 .. HashSlots /\ SlotsBalanced'
<1>1. /\ calls \in [Threads -> Call] /\ slots \in 0 .. HashSlots
      /\ HashSlots \in Nat /\ slots = Cardinality(Hashing)
  BY BoundsAssumption DEF HandlerTypes, TypeOK, SlotsBalanced
<1>2. IsFiniteSet(Hashing)
  <2>1. Hashing \subseteq Threads
    BY DEF Hashing
  <2>2. QED
    BY <2>1, CallsAssumption, FS_Subset
<1>3. ASSUME slots' = slots, Hashing' = Hashing
      PROVE  slots' \in 0 .. HashSlots /\ SlotsBalanced'
  BY <1>1, <1>3 DEF SlotsBalanced
<1>4. ASSUME slots' = slots, calls' = calls
      PROVE  slots' \in 0 .. HashSlots /\ SlotsBalanced'
  BY <1>3, <1>4 DEF Hashing, At
<1>5. ASSUME NEW th \in Threads, slots' = slots,
             \A x \in Threads \ {th} : calls'[x] = calls[x],
             calls[th].stage # "hashing", calls'[th].stage # "hashing"
      PROVE  slots' \in 0 .. HashSlots /\ SlotsBalanced'
  BY <1>3, <1>5, HashingKept
<1>6. ASSUME NEW th \in Threads
      PROVE  /\ \A c : calls' = [calls EXCEPT ![th] = c] =>
                   calls'[th] = c /\ \A x \in Threads \ {th} : calls'[x] = calls[x]
             /\ \A stage : Advance(th, stage) =>
                   /\ calls'[th].stage = stage
                   /\ \A x \in Threads \ {th} : calls'[x] = calls[x]
             /\ Return(th) =>
                   /\ calls'[th].stage = "idle"
                   /\ \A x \in Threads \ {th} : calls'[x] = calls[x]
  <2>1. \A c : calls' = [calls EXCEPT ![th] = c] =>
             calls'[th] = c /\ \A x \in Threads \ {th} : calls'[x] = calls[x]
    BY <1>1
  <2>2. \A stage : Advance(th, stage) => /\ calls'[th].stage = stage
             /\ \A x \in Threads \ {th} : calls'[x] = calls[x]
    BY <1>1 DEF Advance, Call
  <2>3. QED
    BY <2>1, <2>2, IdleOK DEF Return
<1>7. ASSUME NEW th \in Threads, Start(th)
      PROVE  slots' \in 0 .. HashSlots /\ SlotsBalanced'
  <2>1. calls[th].stage = "idle"
    BY <1>7 DEF Start, ExchangeLookup, RefreshLookup, RevokeLookup,
       CredentialsBegin, Begin
  <2>2. ASSUME NEW code, ExchangeLookup(th, code)
        PROVE  slots' = slots /\ calls'[th].stage # "hashing"
               /\ \A x \in Threads \ {th} : calls'[x] = calls[x]
    <3>1. ASSUME NEW r, calls' = [calls EXCEPT ![th] =
                [Idle EXCEPT !.stage = "codeFound", !.auth = r.id,
                    !.client = r.client, !.subject = r.subject,
                    !.scopes = r.scopes, !.deadline = r.expires]]
          PROVE  calls'[th].stage # "hashing"
                 /\ \A x \in Threads \ {th} : calls'[x] = calls[x]
      BY <1>1, <3>1 DEF Idle
    <3>2. QED
      BY <1>6, <2>2, <3>1 DEF ExchangeLookup
  <2>3. ASSUME NEW token, RefreshLookup(th, token)
        PROVE  slots' = slots /\ calls'[th].stage # "hashing"
               /\ \A x \in Threads \ {th} : calls'[x] = calls[x]
    <3>1. ASSUME NEW r, NEW scopes, calls' = [calls EXCEPT ![th] =
                [Idle EXCEPT !.stage = "refreshFound", !.client = r.client,
                    !.subject = r.subject, !.token = token, !.family = r.family,
                    !.scopes = IF scopes = {} THEN r.scopes ELSE scopes]]
          PROVE  calls'[th].stage # "hashing"
                 /\ \A x \in Threads \ {th} : calls'[x] = calls[x]
      BY <1>1, <3>1 DEF Idle
    <3>2. QED
      BY <1>6, <2>3, <3>1 DEF RefreshLookup
  <2>4. ASSUME NEW client, NEW token, RevokeLookup(th, client, token)
        PROVE  slots' = slots /\ calls'[th].stage # "hashing"
               /\ \A x \in Threads \ {th} : calls'[x] = calls[x]
    <3>1. ASSUME NEW family, calls' = [calls EXCEPT ![th] =
                [Idle EXCEPT !.stage = "revoking", !.client = client,
                             !.token = token, !.family = family]]
          PROVE  calls'[th].stage # "hashing"
                 /\ \A x \in Threads \ {th} : calls'[x] = calls[x]
      BY <1>1, <3>1 DEF Idle
    <3>2. QED
      BY <1>6, <2>4, <3>1 DEF RevokeLookup
  <2>5. ASSUME NEW client, CredentialsBegin(th, client)
        PROVE  slots' \in 0 .. HashSlots /\ SlotsBalanced'
    <3>1. CASE Return(th) /\ UNCHANGED slots
      BY <1>5, <1>6, <2>1, <3>1
    <3>2. CASE /\ slots < HashSlots /\ slots' = slots + 1
               /\ calls' = [calls EXCEPT ![th] =
                     [Idle EXCEPT !.stage = "hashing", !.client = client]]
      <4>1. Hashing' = Hashing \cup {th} /\ th \notin Hashing
        BY <1>1, <2>1, <3>2 DEF Hashing, At, Idle
      <4>2. Cardinality(Hashing') = Cardinality(Hashing) + 1
        BY <1>2, <4>1, FS_AddElement
      <4>3. QED
        BY <1>1, <3>2, <4>2 DEF SlotsBalanced
    <3>3. QED
      BY <2>5, <3>1, <3>2 DEF CredentialsBegin
  <2>6. QED
    BY <1>5, <1>7, <2>1, <2>2, <2>3, <2>4, <2>5 DEF Start
<1>8. ASSUME NEW th \in Threads, CredentialsEnd(th)
      PROVE  slots' \in 0 .. HashSlots /\ SlotsBalanced'
  <2>1. th \in Hashing
    BY <1>8 DEF CredentialsEnd, Hashing
  <2>2. /\ calls'[th].stage # "hashing"
        /\ \A x \in Threads \ {th} : calls'[x] = calls[x]
    BY <1>6, <1>8 DEF CredentialsEnd
  <2>3. Hashing' = Hashing \ {th}
    BY <2>2 DEF Hashing, At
  <2>4. Cardinality(Hashing') = Cardinality(Hashing) - 1 /\ Cardinality(Hashing) \in Nat
    BY <1>2, <2>1, <2>3, FS_RemoveElement, FS_CardinalityType
  <2>5. IsFiniteSet(Hashing') /\ Cardinality(Hashing') \in Nat
    BY <1>2, <2>3, FS_Subset, FS_CardinalityType
  <2>6. QED
    BY <1>1, <1>8, <2>4, <2>5 DEF CredentialsEnd, SlotsBalanced
<1>9. ASSUME NEW th \in Threads, Finish(th), ~CredentialsEnd(th)
      PROVE  slots' \in 0 .. HashSlots /\ SlotsBalanced'
  <2>1. /\ slots' = slots
        /\ calls[th].stage # "hashing" /\ calls'[th].stage # "hashing"
        /\ \A x \in Threads \ {th} : calls'[x] = calls[x]
    BY <1>6, <1>9 DEF Finish, ExchangeCreate, ExchangeRefused, SignAccessToken,
       SignIDToken, ExchangeFinish, RefreshRotate, RefreshRefused, RevokeToken,
       ServiceToken, ServiceRevoke, ServiceQuery, At
  <2>2. QED
    BY <1>5, <2>1
<1>10. CASE UNCHANGED vars
  BY <1>4, <1>10 DEF vars, tokenVars
<1>11. ASSUME NEW client, NEW id, RevokeAccess(client, id)
       PROVE  slots' \in 0 .. HashSlots /\ SlotsBalanced'
  BY <1>4, <1>11 DEF RevokeAccess, tokenVars
<1>12. ASSUME NEW user, NEW client, EndSession(user, client)
       PROVE  slots' \in 0 .. HashSlots /\ SlotsBalanced'
  BY <1>4, <1>12 DEF EndSession
<1>13. CASE Query \/ Advancing
  BY <1>4, <1>13 DEF Query, Advancing, tokenVars
<1>14. QED
  BY <1>7, <1>8, <1>9, <1>10, <1>11, <1>12, <1>13 DEF Next

\* The inductive invariant holds in every reachable state, for every realm
\* and any number of concurrent requests.
THEOREM InvariantHolds == Spec => []IInv
<1>1. Init => IInv
  <2> SUFFICES ASSUME Init PROVE IInv
    OBVIOUS
  <2>1. HandlerInv
    BY InitOK
  <2>2. Hashing = {}
    BY IdleOK DEF Hashing, At, Init
  <2>3. QED
    BY <2>1, <2>2, FS_EmptySet, BoundsAssumption
    DEF IInv, TypeOK, HandlerInv, SlotsBalanced, Init
<1>2. IInv /\ [Next]_vars => IInv'
  <2> SUFFICES ASSUME IInv, [Next]_vars PROVE IInv'
    OBVIOUS
  <2>1. HandlerInv'
    BY NextOK DEF IInv
  <2>2. slots' \in 0 .. HashSlots /\ SlotsBalanced'
    BY SlotsFollowHashing DEF IInv, HandlerInv
  <2>3. QED
    BY <2>1, <2>2 DEF IInv, TypeOK, HandlerInv
<1>3. QED
  BY <1>1, <1>2, PTL DEF Spec

\* Type correctness; in particular at most HashSlots credential checks run at
\* a time (the buffered channel of compareCredential).
THEOREM TypeCorrect == Spec => []TypeOK
<1>1. IInv => TypeOK
  BY DEF IInv
<1>2. QED
  BY <1>1, InvariantHolds, PTL

\* No credential check leaks its slot.
THEOREM SlotsNeverLeak == Spec => []SlotsBalanced
<1>1. IInv => SlotsBalanced
  BY DEF IInv
<1>2. QED
  BY <1>1, InvariantHolds, PTL

\* A code is redeemed at most once (reserveAuthorizationCodeLocked), however
\* exchanges of it interleave.
THEOREM CodeRedeemedAtMostOnce == Spec => []CodeRedeemedOnce
<1>1. IInv => CodeRedeemedOnce
  BY DEF IInv, HandlerInv
<1>2. QED
  BY <1>1, InvariantHolds, PTL

\* The early return of pruneLocked is unobservable: nextExpiry never hides a
\* record that has expired.
THEOREM PruneCacheTransparent == Spec => []CacheIsTransparent
<1>1. IInv => CacheIsTransparent
  BY PruneTransparent DEF IInv, HandlerInv, HandlerTypes, CacheIsTransparent, Pruned
<1>2. QED
  BY <1>1, InvariantHolds, PTL

\* The invariant makes the absence of a record the answer.
LEMMA LiveAnswers ==
    ASSUME HandlerInv
    PROVE  AnswersAreLive
<1>1. /\ store \in StoreType /\ now \in Nat /\ serial \in SerialType
      /\ Consistent(store, serial)
  BY DEF HandlerInv, HandlerTypes
<1>2. Pruned.access = {a \in store.access : now < a.expires}
  BY <1>1, PruneFields DEF Pruned
<1>3. \A a \in Pruned.access : now < a.expires /\ a.family \notin store.revoked
  BY <1>1, <1>2 DEF Consistent, RevokedGone
<1>4. QED
  BY <1>3 DEF AnswersAreLive, SetIntrospectionFromToken, SetUserinfoFromToken

\* What introspection and userinfo call active is unexpired and of no revoked
\* family.
THEOREM AnswersLive == Spec => []AnswersAreLive
<1>1. IInv => AnswersAreLive
  BY LiveAnswers DEF IInv
<1>2. QED
  BY <1>1, InvariantHolds, PTL

\* What is left of the records has a family, and no revoked one.
LEMMA RevokedGoneNow ==
    ASSUME HandlerInv
    PROVE  RevokedFamilyIsGone
<1>1. IndexSound(store) /\ RevokedGone(store)
  BY DEF HandlerInv, Consistent
<1>2. \A r \in store.refresh : r.family \in FamilyIDs(store)
  BY <1>1 DEF IndexSound, FamilyIDs
<1>3. QED
  BY <1>1, <1>2 DEF RevokedGone, RevokedFamilyIsGone

\* A revoked family (revokeFamilyLocked) leaves no family, refresh record or
\* access record behind, and no call in flight brings one back.
THEOREM RevokedStaysGone == Spec => []RevokedFamilyIsGone
<1>1. IInv => RevokedFamilyIsGone
  BY RevokedGoneNow DEF IInv
<1>2. QED
  BY <1>1, InvariantHolds, PTL

\* A family has one usable record, and its access record is that record's.
LEMMA OnePairNow ==
    ASSUME HandlerInv
    PROVE  FamilyHoldsOnePair
<1>1. OnePair(store)
  BY DEF HandlerInv, Consistent
<1> SUFFICES ASSUME NEW f \in store.families
             PROVE  \E r \in {x \in store.refresh : x.family = f.id /\ ~x.consumed} :
                      /\ {x \in store.refresh : x.family = f.id /\ ~x.consumed} = {r}
                      /\ \A a \in store.access : a.family = f.id => a.id = r.accessID
  BY DEF FamilyHoldsOnePair
<1>2. PICK r \in store.refresh : r.family = f.id /\ ~r.consumed
  BY <1>1 DEF OnePair
<1>3. {x \in store.refresh : x.family = f.id /\ ~x.consumed} = {r}
  BY <1>1, <1>2 DEF OnePair
<1>4. \A a \in store.access : a.family = f.id => a.id = r.accessID
  BY <1>1, <1>2 DEF OnePair, FamilyIDs
<1>5. QED
  BY <1>2, <1>3, <1>4

\* A family holds one usable refresh token and at most the access record
\* issued with it, across all races of rotation, replay and revocation.
THEOREM OnePairPerFamily == Spec => []FamilyHoldsOnePair
<1>1. IInv => FamilyHoldsOnePair
  BY OnePairNow DEF IInv
<1>2. QED
  BY <1>1, InvariantHolds, PTL

\* family.tokens, the index expiry cleanup follows, misses no usable token,
\* and no refresh record outlives its family.
THEOREM IndexComplete == Spec => []RefreshIndexComplete
<1>1. IInv => RefreshIndexComplete
  BY DEF IInv, HandlerInv, Consistent, IndexSound, RefreshIndexComplete
<1>2. QED
  BY <1>1, InvariantHolds, PTL

----------------------------------------------------------------------------
(* From one call of a handler to a later one.                              *)
(*                                                                         *)
(* What follows relates what one call of a handler found to what a later   *)
(* call of it does, whatever other handlers did in between: the exchange   *)
(* that won a code, a revocation in flight, a refresh that a logout        *)
(* overtakes.                                                              *)

\* The stages of an exchange that has reserved its code.
Winning == {"created", "signed", "finishing"}

----------------------------------------------------------------------------
(* What a step changes. *)

\* A handler leaves the other threads alone.
LEMMA OneThread ==
    ASSUME HandlerInv, NEW th \in Threads, NEW x \in Threads, x # th,
           Start(th) \/ Finish(th)
    PROVE  calls'[x] = calls[x]
<1>1. calls \in [Threads -> Call]
  BY DEF HandlerInv, HandlerTypes
<1>2. CASE Start(th)
  BY <1>1, <1>2 DEF Start, ExchangeLookup, RefreshLookup, RevokeLookup,
     CredentialsBegin, Return
<1>3. CASE Finish(th)
  BY <1>1, <1>3 DEF Finish, ExchangeCreate, ExchangeRefused, SignAccessToken,
     SignIDToken, ExchangeFinish, RefreshRotate, RefreshRefused, RevokeToken,
     CredentialsEnd, ServiceToken, ServiceRevoke, ServiceQuery, Return, Advance
<1>4. QED
  BY <1>2, <1>3

\* Each stage but idle is entered by one action of the thread itself.
LEMMA StageOrigin ==
    ASSUME HandlerInv, [Next]_vars, NEW th \in Threads, calls'[th] # calls[th]
    PROVE  /\ calls'[th].stage = "codeFound" => \E code : ExchangeLookup(th, code)
           /\ calls'[th].stage = "created" => ExchangeCreate(th)
           /\ calls'[th].stage = "signed" => SignAccessToken(th)
           /\ calls'[th].stage = "finishing" => SignIDToken(th)
           /\ calls'[th].stage = "refreshFound" =>
                 \E token \in 1 .. serial.refresh : RefreshLookup(th, token)
           /\ calls'[th].stage = "revoking" =>
                 \E client \in SPAClients, token \in 1 .. serial.refresh :
                     RevokeLookup(th, client, token)
<1> DEFINE to == calls'[th].stage
<1>1. calls \in [Threads -> Call]
  BY DEF HandlerInv, HandlerTypes
<1>2. Start(th) \/ Finish(th)
  BY OneThread DEF Next, RevokeAccess, EndSession, Query, Advancing, vars, tokenVars
<1>3. Return(th) => to = "idle"
  BY <1>1, IdleOK DEF Return
<1>4. ASSUME NEW stage, Advance(th, stage) PROVE to = stage
  BY <1>1, <1>4 DEF Advance, Call
<1>5. ASSUME NEW code, ExchangeLookup(th, code)
      PROVE  to \in {"idle", "codeFound"}
  BY <1>1, <1>3, <1>5 DEF ExchangeLookup, Idle
<1>6. ASSUME NEW token, RefreshLookup(th, token)
      PROVE  to \in {"idle", "refreshFound"}
  BY <1>1, <1>3, <1>6 DEF RefreshLookup, Idle
<1>7. ASSUME NEW client, NEW token, RevokeLookup(th, client, token)
      PROVE  to \in {"idle", "revoking"}
  BY <1>1, <1>3, <1>7 DEF RevokeLookup, Idle
<1>8. ASSUME NEW client, CredentialsBegin(th, client)
      PROVE  to \in {"idle", "hashing"}
  BY <1>1, <1>3, <1>8 DEF CredentialsBegin, Idle
<1>9. CASE Start(th)
  BY <1>5, <1>6, <1>7, <1>8, <1>9 DEF Start
<1>10. /\ ExchangeCreate(th) => to = "created"
       /\ SignAccessToken(th) => to = "signed"
       /\ SignIDToken(th) => to = "finishing"
       /\ CredentialsEnd(th) => to \in {"idle", "authorized"}
  BY <1>3, <1>4 DEF ExchangeCreate, SignAccessToken, SignIDToken, CredentialsEnd
<1>11. \/ ExchangeRefused(th) \/ ExchangeFinish(th) \/ RefreshRotate(th)
       \/ RefreshRefused(th) \/ RevokeToken(th) \/ ServiceQuery(th)
       \/ (\E scopes : ServiceToken(th, scopes)) \/ (\E id : ServiceRevoke(th, id))
       => to = "idle"
  BY <1>3 DEF ExchangeRefused, ExchangeFinish, RefreshRotate, RefreshRefused,
     RevokeToken, ServiceQuery, ServiceToken, ServiceRevoke
<1> HIDE DEF to
<1>12. CASE Finish(th)
  BY <1>10, <1>11, <1>12 DEF Finish, to
<1>13. QED
  BY <1>2, <1>9, <1>12

\* What a step records, and which steps do.
LEMMA HistorySteps ==
    ASSUME [Next]_vars
    PROVE  /\ redeemed' = redeemed \/ \E th \in Threads : ExchangeCreate(th)
           /\ \/ audienceTaken' = audienceTaken /\ responses' = responses
              \/ \E th \in Threads : SignAccessToken(th) \/ SignIDToken(th)
           /\ \/ logouts' = logouts
              \/ \E user \in Users, client \in SPAClients : EndSession(user, client)
<1>1. ASSUME NEW th \in Threads, Start(th)
      PROVE  UNCHANGED <<redeemed, audienceTaken, responses, logouts>>
  BY <1>1 DEF Start, ExchangeLookup, RefreshLookup, RevokeLookup, CredentialsBegin
<1>2. ASSUME NEW th \in Threads, Finish(th)
      PROVE  /\ logouts' = logouts
             /\ redeemed' = redeemed \/ ExchangeCreate(th)
             /\ \/ UNCHANGED <<audienceTaken, responses>>
                \/ SignAccessToken(th) \/ SignIDToken(th)
  BY <1>2 DEF Finish, ExchangeCreate, ExchangeRefused, SignAccessToken,
     SignIDToken, ExchangeFinish, RefreshRotate, RefreshRefused, RevokeToken,
     CredentialsEnd, ServiceToken, ServiceRevoke, ServiceQuery
<1>3. CASE UNCHANGED tokenVars
  BY <1>3 DEF tokenVars
<1>4. QED
  BY <1>1, <1>2, <1>3 DEF Next, RevokeAccess, EndSession, Query, Advancing, vars,
     tokenVars

----------------------------------------------------------------------------
(* Exchanges: who holds a code, and which audience its tokens get. *)

\* Exchanges under way are of different requests, all redeemed, and the
\* audience of a request is taken by the exchange that redeemed it.
ExchangeInv ==
    /\ \A th \in Threads : calls[th].stage \in Winning =>
          \E p \in redeemed : p[1] = calls[th].auth
    /\ \A th, u \in Threads :
          /\ calls[th].stage \in Winning /\ calls[u].stage \in Winning
          /\ calls[th].auth = calls[u].auth
          => th = u
    /\ \A auth \in audienceTaken : \E p \in redeemed : p[1] = auth
    /\ \A th \in Threads : At(th, "created") => calls[th].auth \notin audienceTaken
    /\ \A th \in Threads : At(th, "signed") => calls[th].auth \in audienceTaken
    /\ AudienceOrder

\* A code that may be reserved was not redeemed.
LEMMA ReservedAnew ==
    ASSUME HandlerInv, NEW th \in Threads, ExchangeCreate(th)
    PROVE  \A p \in redeemed : p[1] # calls[th].auth
<1>1. \A p \in redeemed : Spent(Pruned, p[1])
  BY PrunedOK
<1>2. /\ reserveOK(Pruned, RequestOf(calls[th]))
      /\ RequestOf(calls[th]).auth = calls[th].auth /\ calls[th].auth # 0
  <2>1. /\ At(th, "codeFound") /\ reserveOK(Pruned, RequestOf(calls[th]))
    BY DEF ExchangeCreate
  <2>2. calls[th] \in Call
    BY DEF HandlerInv, HandlerTypes
  <2>3. QED
    BY <2>1, <2>2, RequestOfType DEF At, Call
<1>3. ~Spent(Pruned, calls[th].auth)
  BY <1>2 DEF reserveOK, Spent
<1>4. QED
  BY <1>1, <1>3

\* A thread that holds a code kept it, or has just reserved it.
LEMMA WinnerOrigin ==
    ASSUME HandlerInv, [Next]_vars, NEW th \in Threads,
           calls'[th].stage \in Winning
    PROVE  /\ calls'[th].auth = calls[th].auth /\ calls'[th].deadline = calls[th].deadline
           /\ calls[th].stage \in Winning \/ ExchangeCreate(th)
<1>1. calls \in [Threads -> Call]
  BY DEF HandlerInv, HandlerTypes
<1>2. CASE calls'[th] = calls[th]
  BY <1>2
<1>3. CASE calls'[th] # calls[th]
  <2>1. ExchangeCreate(th) \/ SignAccessToken(th) \/ SignIDToken(th)
    BY <1>3, StageOrigin DEF Winning
  <2>2. ASSUME NEW stage, Advance(th, stage)
        PROVE  calls'[th].auth = calls[th].auth /\ calls'[th].deadline = calls[th].deadline
    BY <1>1, <2>2 DEF Advance, Call
  <2>3. QED
    BY <2>1, <2>2 DEF ExchangeCreate, SignAccessToken, SignIDToken, At, Winning
<1>4. QED
  BY <1>2, <1>3

\* Every step keeps it.
LEMMA ExchangeStep ==
    ASSUME HandlerInv, ExchangeInv, [Next]_vars
    PROVE  ExchangeInv'
<1>1. /\ calls \in [Threads -> Call]
      /\ redeemed \subseteq redeemed'
  BY HistorySteps DEF HandlerInv, HandlerTypes, ExchangeCreate
<1>2. \A th \in Threads : calls'[th].stage \in Winning =>
         \E p \in redeemed' : p[1] = calls'[th].auth
  <2> SUFFICES ASSUME NEW th \in Threads, calls'[th].stage \in Winning
               PROVE  \E p \in redeemed' : p[1] = calls'[th].auth
    OBVIOUS
  <2>1. CASE calls[th].stage \in Winning
    BY <1>1, <2>1, WinnerOrigin DEF ExchangeInv
  <2>2. CASE ExchangeCreate(th)
    <3>1. <<calls[th].auth, serial.access + 1>> \in redeemed'
      BY <2>2 DEF ExchangeCreate, RequestOf
    <3>2. QED
      BY <3>1, WinnerOrigin
  <2>3. QED
    BY <2>1, <2>2, WinnerOrigin
<1>3. ASSUME NEW th \in Threads, NEW u \in Threads, ExchangeCreate(th), th # u,
             calls'[u].stage \in Winning
      PROVE  calls'[u].auth # calls[th].auth
  <2>1. calls'[u] = calls[u]
    BY <1>3, OneThread DEF Finish
  <2>2. \E p \in redeemed : p[1] = calls[u].auth
    BY <1>3, <2>1 DEF ExchangeInv
  <2>3. QED
    BY <1>3, <2>1, <2>2, ReservedAnew
<1>4. ASSUME NEW th \in Threads, NEW u \in Threads,
             calls'[th].stage \in Winning, calls'[u].stage \in Winning,
             calls'[th].auth = calls'[u].auth
      PROVE  th = u
  <2>1. CASE calls[th].stage \in Winning /\ calls[u].stage \in Winning
    BY <1>4, <2>1, WinnerOrigin DEF ExchangeInv
  <2>2. CASE ExchangeCreate(th) \/ ExchangeCreate(u)
    BY <1>3, <1>4, <2>2, WinnerOrigin
  <2>3. QED
    BY <1>4, <2>1, <2>2, WinnerOrigin
<1>5. /\ \A auth \in audienceTaken' : \E p \in redeemed' : p[1] = auth
      /\ AudienceOrder'
      /\ \/ audienceTaken' = audienceTaken
         \/ \E th \in Threads : /\ SignAccessToken(th) \/ SignIDToken(th)
                                /\ audienceTaken' = audienceTaken \cup {calls[th].auth}
  <2>1. CASE UNCHANGED <<audienceTaken, responses>>
    BY <1>1, <2>1 DEF ExchangeInv, AudienceOrder
  <2>2. ASSUME NEW th \in Threads, SignAccessToken(th) \/ SignIDToken(th)
        PROVE  /\ \A auth \in audienceTaken' : \E p \in redeemed' : p[1] = auth
               /\ audienceTaken' = audienceTaken \cup {calls[th].auth}
    <3>1. calls[th].stage \in Winning /\ audienceTaken' = audienceTaken \cup {calls[th].auth}
      BY <2>2 DEF SignAccessToken, SignIDToken, At, Winning
    <3>2. QED
      BY <1>1, <3>1 DEF ExchangeInv
  <2>3. ASSUME NEW th \in Threads, SignAccessToken(th) PROVE AudienceOrder'
    BY <2>3 DEF SignAccessToken, At, ExchangeInv, AudienceOrder, GetAudience
  <2>4. ASSUME NEW th \in Threads, SignIDToken(th) PROVE AudienceOrder'
    <3>1. GetAudience(calls[th].auth) = "client" /\ responses \subseteq Response
      BY <2>4 DEF SignIDToken, At, ExchangeInv, GetAudience, HandlerInv, HandlerTypes
    <3>2. responses' = {IF p.auth = calls[th].auth THEN [p EXCEPT !.id = "client"]
                        ELSE p : p \in responses}
      BY <2>4, <3>1 DEF SignIDToken
    <3>3. \A p \in Response : [p EXCEPT !.id = "client"].access = p.access
                              /\ [p EXCEPT !.id = "client"].id = "client"
      BY DEF Response
    <3>4. ASSUME NEW p \in responses' PROVE p.access = "resource" /\ p.id # "resource"
      <4>1. PICK q \in responses :
               p = IF q.auth = calls[th].auth THEN [q EXCEPT !.id = "client"] ELSE q
        BY <3>2
      <4>2. q \in Response /\ q.access = "resource" /\ q.id # "resource"
        BY <3>1 DEF ExchangeInv, AudienceOrder
      <4>3. QED
        BY <3>3, <4>1, <4>2
    <3>5. QED
      BY <3>4 DEF AudienceOrder
  <2>5. QED
    BY <2>1, <2>2, <2>3, <2>4, HistorySteps
<1>6. ASSUME NEW th \in Threads, At(th, "created")'
      PROVE  calls'[th].auth \notin audienceTaken'
  <2>1. calls'[th].stage \in Winning
    BY <1>6 DEF At, Winning
  <2>2. CASE ExchangeCreate(th)
    <3>1. audienceTaken' = audienceTaken /\ calls'[th].auth = calls[th].auth
      BY <2>1, <2>2, WinnerOrigin DEF ExchangeCreate
    <3>2. QED
      BY <2>2, <3>1, ReservedAnew DEF ExchangeInv
  <2>3. CASE calls'[th] = calls[th]
    <3>1. ASSUME NEW u \in Threads, SignAccessToken(u) \/ SignIDToken(u)
          PROVE  calls[u].auth # calls[th].auth
      <4>1. calls[u].stage \in Winning /\ calls'[u].stage # "created"
        BY <1>1, <3>1 DEF SignAccessToken, SignIDToken, At, Winning, Advance, Call
      <4>2. QED
        BY <1>6, <2>1, <2>3, <4>1 DEF ExchangeInv, At
    <3>2. calls[th].auth \notin audienceTaken
      BY <1>6, <2>3 DEF ExchangeInv, At
    <3>3. QED
      BY <1>5, <2>3, <3>1, <3>2
  <2>4. QED
    BY <1>6, <2>2, <2>3, StageOrigin DEF At
<1>7. ASSUME NEW th \in Threads, At(th, "signed")'
      PROVE  calls'[th].auth \in audienceTaken'
  <2>1. CASE SignAccessToken(th)
    <3>1. calls'[th].auth = calls[th].auth
      BY <1>7, WinnerOrigin DEF At, Winning
    <3>2. QED
      BY <2>1, <3>1 DEF SignAccessToken
  <2>2. CASE calls'[th] = calls[th]
    BY <1>5, <1>7, <2>2 DEF ExchangeInv, At
  <2>3. QED
    BY <1>7, <2>1, <2>2, StageOrigin DEF At
<1>8. QED
  BY <1>2, <1>4, <1>5, <1>6, <1>7 DEF ExchangeInv

\* Nothing is under way at the start.
LEMMA ExchangeStart == Init => ExchangeInv
BY IdleOK DEF Init, ExchangeInv, Winning, At, AudienceOrder

\* What an exchange may rely on, in every reachable state.
LEMMA ExchangeInvariant == Spec => []ExchangeInv
<1>1. IInv /\ ExchangeInv /\ [Next]_vars => ExchangeInv'
  BY ExchangeStep DEF IInv
<1>2. QED
  BY <1>1, ExchangeStart, InvariantHolds, PTL DEF Spec

\* However exchanges interleave, the flag GetAudience keeps on the shared
\* request object gives the access token the resource audiences and the ID
\* token the client id.
THEOREM AudienceInOrder == Spec => []AudienceOrder
<1>1. ExchangeInv => AudienceOrder
  BY DEF ExchangeInv
<1>2. QED
  BY <1>1, ExchangeInvariant, PTL

----------------------------------------------------------------------------
(* What a step does to the store. *)

\* The families of ids are gone with their refresh records and the access
\* records of their usable tokens, other access records may be gone, and
\* nothing else changed.
Drops(s, n, ids) ==
    /\ n.authRequests = s.authRequests /\ n.codes = s.codes
    /\ n.access \subseteq s.access
    /\ n.families = {f \in s.families : f.id \notin ids}
    /\ n.refresh = {r \in s.refresh : r.family \notin ids}
    /\ \A r \in s.refresh, a \in n.access :
          r.family \in ids /\ ~r.consumed => r.accessID # a.id

\* Every way to revoke.
LEMMA RevokeDrops ==
    ASSUME NEW s \in StoreType
    PROVE  /\ Drops(s, s, {})
           /\ \A ids : \E gone : Drops(s, revokeFamilyLocked(s, ids), gone)
           /\ \A client, id : \E gone : Drops(s, RevokeAccessToken(s, client, id), gone)
           /\ \A user, client : \E gone : Drops(s, TerminateSession(s, user, client), gone)
<1>1. Drops(s, s, {})
  BY DEF Drops
<1>2. ASSUME NEW m \in StoreType, NEW ids
      PROVE  Drops(m, revokeFamilyLocked(m, ids), ids \cap FamilyIDs(m))
  BY DEF Drops, revokeFamilyLocked, StoreType
<1>3. ASSUME NEW lost, NEW ids
      PROVE  \E gone : Drops(s, revokeFamilyLocked([s EXCEPT !.access = @ \ lost], ids), gone)
  <2> DEFINE m == [s EXCEPT !.access = @ \ lost]
             n == revokeFamilyLocked(m, ids)
  <2>1. /\ m \in StoreType /\ m.access \subseteq s.access
        /\ m.authRequests = s.authRequests /\ m.codes = s.codes
        /\ m.families = s.families /\ m.refresh = s.refresh
    BY DEF StoreType
  <2>2. Drops(m, n, ids \cap FamilyIDs(m))
    BY <1>2, <2>1
  <2> HIDE DEF m, n
  <2>3. Drops(s, n, ids \cap FamilyIDs(m))
    BY <2>1, <2>2 DEF Drops
  <2>4. QED
    BY <2>3 DEF m, n
<1>4. \A client, id : \E gone : Drops(s, RevokeAccessToken(s, client, id), gone)
  BY <1>3 DEF RevokeAccessToken
<1>5. \A user, client : \E gone : Drops(s, TerminateSession(s, user, client), gone)
  BY <1>3 DEF TerminateSession
<1>6. QED
  BY <1>1, <1>2, <1>4, <1>5

\* Four actions do more to the store than pruning it and dropping families.
LEMMA StoreSteps ==
    ASSUME HandlerInv, [Next]_vars
    PROVE  \/ /\ serial' = serial
              /\ \E s \in {store, Pruned} : \E gone : Drops(s, store', gone)
           \/ \E th \in Threads : \/ ExchangeCreate(th)
                                  \/ \E scopes \in SUBSET Scopes : ServiceToken(th, scopes)
                                  \/ RefreshRotate(th)
                                  \/ ExchangeFinish(th)
<1> DEFINE Dropped == /\ serial' = serial
                      /\ \E s \in {store, Pruned} : \E gone : Drops(s, store', gone)
<1>1. store \in StoreType /\ Pruned \in StoreType
  BY PrunedOK DEF HandlerInv, HandlerTypes
<1>2. ASSUME serial' = serial, store' = store \/ store' = Pruned PROVE Dropped
  BY <1>1, <1>2, RevokeDrops
<1>3. ASSUME serial' = serial, NEW ids, store' = revokeFamilyLocked(Pruned, ids)
      PROVE  Dropped
  BY <1>1, <1>3, RevokeDrops
<1>4. ASSUME serial' = serial, NEW client, NEW id,
             \/ store' = RevokeAccessToken(Pruned, client, id)
             \/ store' = TerminateSession(Pruned, id, client)
      PROVE  Dropped
  BY <1>1, <1>4, RevokeDrops
<1> HIDE DEF Dropped
<1>5. ASSUME NEW th \in Threads, Start(th) PROVE Dropped
  BY <1>2, <1>3, <1>5 DEF Start, ExchangeLookup, RefreshLookup, RevokeLookup,
     CredentialsBegin
<1>6. ASSUME NEW th \in Threads,
             \/ ExchangeRefused(th) \/ SignAccessToken(th) \/ SignIDToken(th)
             \/ CredentialsEnd(th) \/ ServiceQuery(th)
      PROVE  Dropped
  BY <1>2, <1>6 DEF ExchangeRefused, SignAccessToken, SignIDToken, CredentialsEnd,
     ServiceQuery
<1>7. ASSUME NEW th \in Threads, RefreshRefused(th) \/ RevokeToken(th)
      PROVE  Dropped
  BY <1>3, <1>7 DEF RefreshRefused, RevokeToken, RevokeRefreshToken, TokenFamilies
<1>8. ASSUME NEW th \in Threads, \E id \in 1 .. serial.access : ServiceRevoke(th, id)
      PROVE  Dropped
  BY <1>4, <1>8 DEF ServiceRevoke
<1>9. \/ \E client \in SPAClients, id \in 1 .. serial.access : RevokeAccess(client, id)
      \/ \E user \in Users, client \in SPAClients : EndSession(user, client)
      => Dropped
  BY <1>4 DEF RevokeAccess, EndSession
<1>10. Query \/ Advancing \/ UNCHANGED vars => Dropped
  BY <1>2 DEF Query, Advancing, vars
<1>11. QED
  BY <1>5, <1>6, <1>7, <1>8, <1>9, <1>10 DEF Next, Finish, Dropped

\* What reserving a code changes.
LEMMA ReserveFields ==
    ASSUME NEW s \in StoreType, NEW request
    PROVE  LET m == reserveAuthorizationCodeLocked(s, request) IN
           /\ m.authRequests = s.authRequests /\ m.access = s.access
           /\ m.refresh = s.refresh /\ m.families = s.families
           /\ request.auth = 0 => m.codes = s.codes
BY DEF reserveAuthorizationCodeLocked, StoreType

\* What CreateAccessToken changes.
LEMMA TokenAdded ==
    ASSUME NEW s \in StoreType, NEW k \in SerialType, Consistent(s, k),
           NEW t \in Nat, NEW request \in TokenRequest
    PROVE  LET n == CreateAccessToken(s, t, k.access + 1, request) IN
           /\ n.authRequests = s.authRequests
           /\ n.codes = reserveAuthorizationCodeLocked(s, request).codes
           /\ n.access = s.access \cup {NewAccess(t, k.access + 1, request, 0)}
           /\ n.refresh = s.refresh /\ n.families = s.families
<1> DEFINE m == reserveAuthorizationCodeLocked(s, request)
           id == k.access + 1
           none == 0
           n == AddAccess(m, t, id, request, none)
<1>1. m \in StoreType /\ id \in Nat /\ none \in Nat
  BY ReserveConsistent DEF SerialType
<1>2. /\ m.authRequests = s.authRequests /\ m.access = s.access
      /\ m.refresh = s.refresh /\ m.families = s.families
  BY ReserveFields
<1> HIDE DEF m, id, none
<1>3. /\ n \in StoreType
      /\ n.authRequests = m.authRequests /\ n.codes = m.codes
      /\ n.access = m.access \cup {NewAccess(t, id, request, none)}
      /\ n.refresh = m.refresh
      /\ n.families = m.families /\ n.revoked = m.revoked
      /\ ExpiryCovered(m) => ExpiryCovered(n)
  BY <1>1, AddAccessFields
<1> HIDE DEF n
<1>4. n = CreateAccessToken(s, t, k.access + 1, request)
  BY DEF CreateAccessToken, n, m, id, none
<1>5. QED
  BY <1>2, <1>3, <1>4 DEF m, id, none

\* A family is new in n, with its first pair of tokens.
Opens(s, n, t, family, token, id, request) ==
    /\ n.authRequests = s.authRequests
    /\ n.codes = reserveAuthorizationCodeLocked(s, request).codes
    /\ n.access = s.access \cup {NewAccess(t, id, request, family)}
    /\ n.refresh = s.refresh \cup {NewRefresh(family, token, id, request)}
    /\ n.families = s.families \cup {NewFamily(t, family, request, {token})}

\* What CreateAccessAndRefreshTokens changes for a new family.
LEMMA FamilyAdded ==
    ASSUME NEW s \in StoreType, NEW k \in SerialType, Consistent(s, k),
           NEW t \in Nat, NEW request \in TokenRequest
    PROVE  Opens(s, CreateFamily(s, t, k.family + 1, k.refresh + 1, k.access + 1, request),
                 t, k.family + 1, k.refresh + 1, k.access + 1, request)
<1> DEFINE m == reserveAuthorizationCodeLocked(s, request)
           family == k.family + 1
           token == k.refresh + 1
           id == k.access + 1
           n == CreateFamily(s, t, family, token, id, request)
<1>1. /\ k.family \in Nat
      /\ family \in Nat /\ token \in Nat /\ id \in Nat
  BY DEF SerialType
<1>2. m \in StoreType /\ Consistent(m, k)
  BY ReserveConsistent
<1>3. /\ m.authRequests = s.authRequests /\ m.access = s.access
      /\ m.refresh = s.refresh /\ m.families = s.families
  BY ReserveFields
<1>4. ExpiryCovered(m) /\ family \notin FamilyIDs(m)
  BY <1>1, <1>2 DEF Consistent, Drawn, FamilyIDs, StoreType, RefreshFamily
<1> HIDE DEF family, token, id
<1>5. /\ n \in StoreType
      /\ n.authRequests = m.authRequests /\ n.codes = m.codes
      /\ n.access = m.access \cup {NewAccess(t, id, request, family)}
      /\ n.refresh = m.refresh \cup {NewRefresh(family, token, id, request)}
      /\ n.families = m.families \cup {NewFamily(t, family, request, {token})}
      /\ n.revoked = m.revoked
      /\ ExpiryCovered(n)
  BY <1>1, <1>2, <1>4, CreateFamilyFields
<1> HIDE DEF n, m
<1>6. QED
  BY <1>3, <1>5 DEF Opens, n, m, family, token, id

\* The store and the identifiers after an exchange, with and without a
\* refresh token.
LEMMA ExchangeCreateFields ==
    ASSUME HandlerInv, NEW th \in Threads, ExchangeCreate(th)
    PROVE  LET request == RequestOf(calls[th])
               family == serial.family + 1
               token == serial.refresh + 1
               id == serial.access + 1
           IN
           /\ request \in TokenRequest
           /\ store'.authRequests = Pruned.authRequests
           /\ store'.codes = reserveAuthorizationCodeLocked(Pruned, request).codes
           /\ serial'.access = id
           /\ \/ /\ store'.access = Pruned.access \cup {NewAccess(now, id, request, 0)}
                 /\ store'.refresh = Pruned.refresh
                 /\ store'.families = Pruned.families
                 /\ serial'.family = serial.family /\ serial'.refresh = serial.refresh
              \/ /\ store'.access = Pruned.access \cup
                       {NewAccess(now, id, request, family)}
                 /\ store'.refresh = Pruned.refresh \cup
                       {NewRefresh(family, token, id, request)}
                 /\ store'.families = Pruned.families \cup
                       {NewFamily(now, family, request, {token})}
                 /\ serial'.family = family /\ serial'.refresh = token
<1> DEFINE request == RequestOf(calls[th])
           id == serial.access + 1
<1>1. /\ Pruned \in StoreType /\ Consistent(Pruned, serial)
      /\ serial \in SerialType /\ now \in Nat
  BY PrunedOK DEF HandlerInv, HandlerTypes
<1>2. request \in TokenRequest
  BY RequestOfType DEF ExchangeCreate, At
<1> HIDE DEF request
<1>3. CASE /\ store' = CreateFamily(Pruned, now, serial.family + 1,
                                    serial.refresh + 1, serial.access + 1, request)
           /\ serial' = [serial EXCEPT !.access = @ + 1, !.refresh = @ + 1,
                                       !.family = @ + 1]
  <2>1. Opens(Pruned, store', now, serial.family + 1, serial.refresh + 1,
              serial.access + 1, request)
    BY <1>1, <1>2, <1>3, FamilyAdded
  <2>2. /\ serial'.access = serial.access + 1 /\ serial'.family = serial.family + 1
        /\ serial'.refresh = serial.refresh + 1
    BY <1>1, <1>3 DEF SerialType
  <2>3. QED
    BY <1>2, <2>1, <2>2 DEF Opens, request
<1>4. CASE /\ store' = CreateAccessToken(Pruned, now, serial.access + 1, request)
           /\ serial' = [serial EXCEPT !.access = @ + 1]
  <2> DEFINE n == CreateAccessToken(Pruned, now, serial.access + 1, request)
  <2>1. /\ n.authRequests = Pruned.authRequests
        /\ n.codes = reserveAuthorizationCodeLocked(Pruned, request).codes
        /\ n.access = Pruned.access \cup {NewAccess(now, serial.access + 1, request, 0)}
        /\ n.refresh = Pruned.refresh /\ n.families = Pruned.families
    BY <1>1, <1>2, TokenAdded
  <2>2. /\ serial'.access = serial.access + 1 /\ serial'.family = serial.family
        /\ serial'.refresh = serial.refresh
    BY <1>1, <1>4 DEF SerialType
  <2>3. store' = n
    BY <1>4
  <2> HIDE DEF n
  <2>4. QED
    BY <1>2, <2>1, <2>2, <2>3 DEF request
<1>5. QED
  BY <1>3, <1>4 DEF ExchangeCreate, request

----------------------------------------------------------------------------
(* The request behind an exchange. *)

\* A request can be told by its code, and a thread of an exchange knows when
\* its request expires.
RequestInv ==
    /\ RequestsSound(store, serial)
    /\ \A r, q \in store.authRequests : r.code # 0 /\ r.code = q.code => r = q
    /\ \A th \in Threads, r \in store.authRequests :
          calls[th].stage \in Winning \cup {"codeFound"} /\ r.id = calls[th].auth
          => r.expires = calls[th].deadline
    /\ WinnerKeepsItsRequest

\* A reserved code stays reserved, and reserving it makes it so.
LEMMA ReservedKept ==
    ASSUME NEW s \in StoreType, NEW request, NEW id, NEW c, OwnsCode(s, id, c),
           c.reserved \/ (request.auth # 0 /\ request.auth = id)
    PROVE  DeleteAuthRequestOK(reserveAuthorizationCodeLocked(s, request), id)
<1> DEFINE n == reserveAuthorizationCodeLocked(s, request)
           mark(x) == IF request.auth # 0 /\ OwnsCode(s, request.auth, x)
                      THEN [x EXCEPT !.reserved = TRUE] ELSE x
<1>1. /\ n.codes = {mark(x) : x \in s.codes}
      /\ n.authRequests = s.authRequests
  BY DEF StoreType, reserveAuthorizationCodeLocked
<1>2. c \in s.codes /\ c \in CodeRecord
  BY DEF OwnsCode, StoreType
<1>3. /\ mark(c).requestID = c.requestID /\ mark(c).code = c.code
      /\ mark(c).reserved
  BY <1>2 DEF CodeRecord
<1> HIDE DEF mark, n
<1>4. mark(c) \in n.codes /\ OwnsCode(n, id, mark(c))
  BY <1>1, <1>2, <1>3 DEF OwnsCode
<1>5. QED
  BY <1>3, <1>4 DEF DeleteAuthRequestOK, n

\* Who owns a code depends on the requests and the codes only.
LEMMA OwnsSame ==
    ASSUME NEW s, NEW n, NEW id, n.authRequests = s.authRequests, n.codes = s.codes
    PROVE  DeleteAuthRequestOK(n, id) <=> DeleteAuthRequestOK(s, id)
BY DEF DeleteAuthRequestOK, OwnsCode

\* Time only passes.
LEMMA ClockStep ==
    ASSUME HandlerInv, [Next]_vars
    PROVE  now \in Nat /\ now' \in Nat /\ now <= now'
<1>1. now \in Nat
  BY DEF HandlerInv, HandlerTypes
<1>2. ASSUME NEW th \in Threads, Start(th) \/ Finish(th) PROVE now' = now
  BY <1>2 DEF Start, ExchangeLookup, RefreshLookup, RevokeLookup, CredentialsBegin,
     Finish, ExchangeCreate, ExchangeRefused, SignAccessToken, SignIDToken,
     ExchangeFinish, RefreshRotate, RefreshRefused, RevokeToken, CredentialsEnd,
     ServiceToken, ServiceRevoke, ServiceQuery
<1>3. now' = now \/ now' = now + 1
  BY <1>2 DEF Next, RevokeAccess, EndSession, Query, Advancing, Tick, vars
<1>4. QED
  BY <1>1, <1>3

\* What a step does to requests and codes.
LEMMA RequestSteps ==
    ASSUME HandlerInv, [Next]_vars
    PROVE  /\ serial' \in SerialType
           /\ serial'.request = serial.request /\ serial'.code = serial.code
           /\ \/ \E s \in {store, Pruned} :
                    store'.authRequests = s.authRequests /\ store'.codes = s.codes
              \/ \E th \in Threads :
                    /\ ExchangeCreate(th)
                    /\ store'.authRequests = Pruned.authRequests
                    /\ store'.codes = reserveAuthorizationCodeLocked(Pruned,
                                          RequestOf(calls[th])).codes
              \/ \E th \in Threads :
                    /\ ExchangeFinish(th)
                    /\ store' = DeleteAuthRequest(store, calls[th].auth)
<1>1. /\ Pruned \in StoreType /\ Consistent(Pruned, serial)
      /\ serial \in SerialType /\ now \in Nat
  BY PrunedOK DEF HandlerInv, HandlerTypes
<1>2. serial' \in SerialType
  BY NextOK DEF HandlerInv, HandlerTypes
<1>3. CASE /\ serial' = serial
           /\ \E s \in {store, Pruned} : \E gone : Drops(s, store', gone)
  BY <1>2, <1>3 DEF Drops
<1>4. ASSUME NEW th \in Threads, ExchangeCreate(th)
      PROVE  /\ serial'.request = serial.request /\ serial'.code = serial.code
             /\ store'.authRequests = Pruned.authRequests
             /\ store'.codes = reserveAuthorizationCodeLocked(Pruned,
                                   RequestOf(calls[th])).codes
  <2>1. serial'.request = serial.request /\ serial'.code = serial.code
    BY <1>1, <1>4 DEF ExchangeCreate, SerialType
  <2>2. QED
    BY <1>4, <2>1, ExchangeCreateFields
<1>5. ASSUME NEW th \in Threads, NEW scopes \in SUBSET Scopes, ServiceToken(th, scopes)
      PROVE  /\ serial'.request = serial.request /\ serial'.code = serial.code
             /\ store'.authRequests = Pruned.authRequests
             /\ store'.codes = Pruned.codes
  <2> DEFINE request == [auth |-> 0, client |-> calls[th].client,
                         subject |-> calls[th].client, scopes |-> scopes]
  <2>1. /\ serial'.request = serial.request /\ serial'.code = serial.code
        /\ store' = CreateAccessToken(Pruned, now, serial.access + 1, request)
    BY <1>1, <1>5 DEF ServiceToken, SerialType
  <2>2. request \in TokenRequest /\ request.auth = 0
    BY <1>5 DEF ServiceToken, ClientCredentialsTokenRequestOK, TokenRequest, Clients,
       Subjects
  <2> HIDE DEF request
  <2>3. /\ store'.authRequests = Pruned.authRequests
        /\ store'.codes = reserveAuthorizationCodeLocked(Pruned, request).codes
    BY <1>1, <2>1, <2>2, TokenAdded
  <2>4. QED
    BY <1>1, <2>1, <2>2, <2>3, ReserveFields
<1>6. ASSUME NEW th \in Threads, RefreshRotate(th)
      PROVE  /\ serial'.request = serial.request /\ serial'.code = serial.code
             /\ store'.authRequests = Pruned.authRequests
             /\ store'.codes = Pruned.codes
  <2>1. serial'.request = serial.request /\ serial'.code = serial.code
    BY <1>1, <1>6 DEF RefreshRotate, SerialType
  <2>2. RequestOf(calls[th]) \in TokenRequest
    BY <1>6, RequestOfType DEF RefreshRotate, At
  <2>3. PICK old \in Rotatable(Pruned, now, calls[th].token, calls[th].client) :
           store' = RotateToken(Pruned, now, old, serial.refresh + 1,
                                serial.access + 1, RequestOf(calls[th]))
    BY <1>6 DEF RefreshRotate
  <2>4. old \in Pruned.refresh /\ ~old.consumed
    BY DEF Rotatable
  <2>5. QED
    BY <1>1, <2>1, <2>2, <2>3, <2>4, RotateConsistent
<1>7. ASSUME NEW th \in Threads, ExchangeFinish(th)
      PROVE  /\ serial' = serial
             /\ store' = store \/ store' = DeleteAuthRequest(store, calls[th].auth)
  BY <1>7 DEF ExchangeFinish
<1>8. QED
  BY <1>2, <1>3, <1>4, <1>5, <1>6, <1>7, StoreSteps

\* The requests only disappear, and those that stay keep their codes.
LEMMA RequestsStaySound ==
    ASSUME HandlerInv, RequestsSound(store, serial), [Next]_vars
    PROVE  /\ RequestsSound(store', serial')
           /\ store'.authRequests \subseteq store.authRequests
<1>1. /\ store \in StoreType /\ serial \in SerialType /\ now \in Nat
      /\ Pruned \in StoreType /\ Pruned.authRequests \subseteq store.authRequests
  BY PrunedOK DEF HandlerInv, HandlerTypes
<1>2. RequestsSound(Pruned, serial)
  BY <1>1, PruneSound DEF Pruned
<1>3. ASSUME NEW s \in {store, Pruned},
             store'.authRequests = s.authRequests, store'.codes = s.codes
      PROVE  /\ RequestsSound(store', serial')
             /\ store'.authRequests \subseteq store.authRequests
  BY <1>1, <1>2, <1>3, SoundKept, RequestSteps
<1>4. ASSUME NEW th \in Threads,
             store'.authRequests = Pruned.authRequests,
             store'.codes = reserveAuthorizationCodeLocked(Pruned,
                                RequestOf(calls[th])).codes
      PROVE  /\ RequestsSound(store', serial')
             /\ store'.authRequests \subseteq store.authRequests
  <2> DEFINE m == reserveAuthorizationCodeLocked(Pruned, RequestOf(calls[th]))
  <2>1. RequestsSound(m, serial)
    BY <1>1, <1>2, ReserveSound
  <2>2. m.authRequests = Pruned.authRequests
    BY <1>1, ReserveFields
  <2>3. store'.codes = m.codes
    BY <1>4
  <2> HIDE DEF m
  <2>4. RequestsSound(store', serial')
    BY <1>4, <2>1, <2>2, <2>3, RequestSteps
    DEF RequestsSound, RequestSound, CodesOwned
  <2>5. QED
    BY <1>1, <1>4, <2>4
<1>5. ASSUME NEW th \in Threads, store' = DeleteAuthRequest(store, calls[th].auth)
      PROVE  /\ RequestsSound(store', serial')
             /\ store'.authRequests \subseteq store.authRequests
  <2> DEFINE m == DeleteAuthRequest(store, calls[th].auth)
  <2>1. RequestsSound(m, serial)
    BY <1>1, DeleteSound
  <2>2. m.authRequests \subseteq store.authRequests
    BY <1>1 DEF DeleteAuthRequest, StoreType
  <2> HIDE DEF m
  <2>3. store' = m
    BY <1>5 DEF m
  <2>4. QED
    BY <2>1, <2>2, <2>3, RequestSteps DEF RequestsSound, RequestSound
<1>6. QED
  BY <1>3, <1>4, <1>5, RequestSteps

\* A thread learns the deadline of its request with the request.
LEMMA DeadlineKnown ==
    ASSUME HandlerInv, RequestInv, [Next]_vars, NEW th \in Threads,
           calls'[th].stage \in Winning \cup {"codeFound"},
           NEW r \in store.authRequests, r.id = calls'[th].auth
    PROVE  r.expires = calls'[th].deadline
<1>1. calls \in [Threads -> Call] /\ Pruned.authRequests \subseteq store.authRequests
  BY PrunedOK DEF HandlerInv, HandlerTypes
<1>2. CASE calls'[th] = calls[th]
  BY <1>2 DEF RequestInv
<1>3. CASE calls'[th] # calls[th] /\ calls'[th].stage = "codeFound"
  <2>1. PICK code : ExchangeLookup(th, code)
    BY <1>3, StageOrigin
  <2>2. calls'[th].stage # "codeFound" \/
        \E q \in AuthRequestByCode(Pruned, now, code) :
            calls'[th].auth = q.id /\ calls'[th].deadline = q.expires
    BY <1>1, <2>1, IdleOK DEF ExchangeLookup, Return, Idle
  <2>3. PICK q \in store.authRequests :
            calls'[th].auth = q.id /\ calls'[th].deadline = q.expires
    BY <1>1, <1>3, <2>2 DEF AuthRequestByCode
  <2>4. q = r
    BY <2>3 DEF RequestInv, RequestsSound
  <2>5. QED
    BY <2>3, <2>4
<1>4. CASE calls'[th].stage \in Winning
  <2>1. /\ calls'[th].auth = calls[th].auth /\ calls'[th].deadline = calls[th].deadline
        /\ calls[th].stage \in Winning \/ calls[th].stage = "codeFound"
    BY <1>4, WinnerOrigin DEF ExchangeCreate, At
  <2>2. QED
    BY <2>1 DEF RequestInv
<1>5. QED
  BY <1>2, <1>3, <1>4

\* A thread that holds a code still has it after a step of any thread.
LEMMA WinnerStep ==
    ASSUME HandlerInv, ExchangeInv, RequestInv, [Next]_vars, NEW th \in Threads,
           calls'[th].stage \in Winning
    PROVE  \/ DeleteAuthRequestOK(store', calls'[th].auth)
           \/ calls'[th].deadline <= now'
<1> DEFINE auth == calls[th].auth
           deadline == calls[th].deadline
<1>1. /\ calls'[th].auth = auth /\ calls'[th].deadline = deadline
      /\ calls[th].stage \in Winning \/ ExchangeCreate(th)
  BY WinnerOrigin
<1>2. /\ store \in StoreType /\ Pruned \in StoreType /\ serial \in SerialType
      /\ now \in Nat /\ now' \in Nat /\ now <= now'
      /\ calls \in [Threads -> Call] /\ auth \in Nat /\ deadline \in Nat
      /\ Pruned.authRequests \subseteq store.authRequests
      /\ Pruned.codes \subseteq store.codes
  BY PrunedOK, ClockStep DEF HandlerInv, HandlerTypes, Call
<1>3. CASE ExchangeCreate(th)
  <2>1. /\ reserveOK(Pruned, RequestOf(calls[th]))
        /\ RequestOf(calls[th]).auth = auth /\ auth # 0
    <3>1. At(th, "codeFound") /\ reserveOK(Pruned, RequestOf(calls[th]))
      BY <1>3 DEF ExchangeCreate
    <3>2. QED
      BY <1>2, <3>1, RequestOfType DEF At
  <2>2. PICK c \in Pruned.codes : OwnsCode(Pruned, auth, c)
    BY <2>1 DEF reserveOK
  <2> DEFINE m == reserveAuthorizationCodeLocked(Pruned, RequestOf(calls[th]))
  <2>3. DeleteAuthRequestOK(m, auth)
    BY <1>2, <2>1, <2>2, ReservedKept
  <2>4. m.authRequests = Pruned.authRequests
    BY <1>2, ReserveFields
  <2>5. store'.authRequests = Pruned.authRequests /\ store'.codes = m.codes
    BY <1>3, ExchangeCreateFields
  <2> HIDE DEF m, auth
  <2>6. QED
    BY <1>1, <2>3, <2>4, <2>5, OwnsSame
<1>4. CASE calls[th].stage \in Winning /\ now < deadline
  <2>1. PICK c \in store.codes : OwnsCode(store, auth, c) /\ c.reserved
    BY <1>2, <1>4 DEF RequestInv, WinnerKeepsItsRequest, DeleteAuthRequestOK, Winning
  <2>2. \A r \in store.authRequests : r.id = auth => now < r.expires
    BY <1>4 DEF RequestInv
  <2>3. OwnsCode(Pruned, auth, c) /\ c \in Pruned.codes
    <3> HIDE DEF auth
    <3>1. OwnsCode(Pruned, auth, c)
      BY <1>2, <2>1, <2>2, OwnedKept DEF RequestInv, Pruned
    <3>2. QED
      BY <3>1 DEF OwnsCode
  <2>4. CASE \E s \in {store, Pruned} :
                store'.authRequests = s.authRequests /\ store'.codes = s.codes
    <3>1. DeleteAuthRequestOK(store, auth) /\ DeleteAuthRequestOK(Pruned, auth)
      BY <2>1, <2>3 DEF DeleteAuthRequestOK
    <3> HIDE DEF auth
    <3>2. QED
      BY <1>1, <2>4, <3>1, OwnsSame
  <2>5. ASSUME NEW u \in Threads,
               store'.authRequests = Pruned.authRequests,
               store'.codes = reserveAuthorizationCodeLocked(Pruned,
                                  RequestOf(calls[u])).codes
        PROVE  DeleteAuthRequestOK(store', auth)
    <3> DEFINE m == reserveAuthorizationCodeLocked(Pruned, RequestOf(calls[u]))
    <3>1. DeleteAuthRequestOK(m, auth)
      BY <1>2, <2>1, <2>3, ReservedKept
    <3>2. m.authRequests = Pruned.authRequests /\ store'.codes = m.codes
      BY <1>2, <2>5, ReserveFields
    <3> HIDE DEF m, auth
    <3>3. QED
      BY <2>5, <3>1, <3>2, OwnsSame
  <2>6. ASSUME NEW u \in Threads, ExchangeFinish(u),
               store' = DeleteAuthRequest(store, calls[u].auth)
        PROVE  DeleteAuthRequestOK(store', auth)
    <3>1. u # th
      BY <1>2, <2>6, IdleOK DEF ExchangeFinish, Return, Winning
    <3>2. calls[u].auth # auth
      BY <1>4, <2>6, <3>1 DEF ExchangeInv, ExchangeFinish, At, Winning
    <3>3. /\ store'.codes = {x \in store.codes : ~OwnsCode(store, calls[u].auth, x)}
          /\ store'.authRequests = {r \in store.authRequests : r.id # calls[u].auth}
      BY <1>2, <2>6 DEF DeleteAuthRequest, StoreType
    <3>4. PICK r \in store.authRequests : r.id = auth /\ r.code # 0 /\ r.code = c.code
      BY <2>1 DEF OwnsCode
    <3>5. c.requestID = auth
      BY <2>1 DEF OwnsCode
    <3>6. c \in store'.codes /\ r \in store'.authRequests
      BY <3>2, <3>3, <3>4, <3>5 DEF OwnsCode
    <3>7. OwnsCode(store', auth, c)
      BY <3>4, <3>5, <3>6 DEF OwnsCode
    <3>8. QED
      BY <2>1, <3>6, <3>7 DEF DeleteAuthRequestOK
  <2>7. QED
    BY <1>1, <2>4, <2>5, <2>6, RequestSteps
<1>5. CASE deadline <= now
  BY <1>1, <1>2, <1>5
<1>6. QED
  BY <1>1, <1>2, <1>3, <1>4, <1>5

\* Every step keeps what is known of the requests.
LEMMA RequestStep ==
    ASSUME HandlerInv, ExchangeInv, RequestInv, [Next]_vars
    PROVE  RequestInv'
<1>1. /\ RequestsSound(store', serial')
      /\ store'.authRequests \subseteq store.authRequests
  BY RequestsStaySound DEF RequestInv
<1>2. \A th \in Threads, r \in store'.authRequests :
         calls'[th].stage \in Winning \cup {"codeFound"} /\ r.id = calls'[th].auth
         => r.expires = calls'[th].deadline
  BY <1>1, DeadlineKnown
<1>3. WinnerKeepsItsRequest'
  BY WinnerStep DEF WinnerKeepsItsRequest, Winning
<1>4. QED
  BY <1>1, <1>2, <1>3 DEF RequestInv

\* The sign-ins the model starts from are sound.
LEMMA RequestStart == Init => RequestInv
<1> SUFFICES ASSUME Init PROVE RequestInv
  OBVIOUS
<1>1. PICK client \in [1 .. Sessions -> SPAClients],
          user \in [1 .. Sessions -> Users],
          scopes \in [1 .. Sessions -> Grants] :
        store = [NewStore EXCEPT
            !.authRequests = {SignedIn(i, client[i], user[i], scopes[i]) :
                              i \in 1 .. Sessions},
            !.codes = {SavedCode(i) : i \in 1 .. Sessions},
            !.nextExpiry = IF Sessions = 0 THEN 0 ELSE 1 + AuthTTL]
  BY DEF Init
<1>2. /\ store.authRequests = {SignedIn(i, client[i], user[i], scopes[i]) :
                               i \in 1 .. Sessions}
      /\ store.codes = {SavedCode(i) : i \in 1 .. Sessions}
  BY <1>1 DEF NewStore
<1>3. /\ Sessions \in Nat /\ AuthTTL \in Nat /\ 0 < AuthTTL
      /\ serial.request = Sessions /\ serial.code = Sessions
  BY CallsAssumption, LifetimesAssumption DEF Init
<1>4. \A r \in store.authRequests :
         /\ r.id \in 1 .. Sessions
         /\ r = SignedIn(r.id, client[r.id], user[r.id], scopes[r.id])
  BY <1>2 DEF SignedIn
<1>5. ASSUME NEW i \in 1 .. Sessions
      PROVE  LET r == SignedIn(i, client[i], user[i], scopes[i]) IN
             /\ r.id = i /\ r.code = i /\ r.secret = 0 /\ r.done /\ r.authTime = 1
             /\ r.expires = 1 + AuthTTL
             /\ RequestSound(r, serial)
  BY <1>3 DEF SignedIn, RequestSound
<1>6. \A r, q \in store.authRequests : r.id = q.id => r = q
  BY <1>4
<1>7. \A r \in store.authRequests : RequestSound(r, serial) /\ r.code = r.id
  BY <1>4, <1>5
<1>8. CodesOwned(store)
  BY <1>2, <1>3, <1>5 DEF CodesOwned, SavedCode
<1>9. \A th \in Threads : calls[th].stage \notin Winning \cup {"codeFound"}
  BY IdleOK DEF Init, Winning
<1>10. QED
  BY <1>6, <1>7, <1>8, <1>9 DEF RequestInv, RequestsSound, WinnerKeepsItsRequest, Winning

\* What is known of the requests, in every reachable state.
LEMMA RequestInvariant == Spec => []RequestInv
<1>1. IInv /\ ExchangeInv /\ RequestInv /\ [Next]_vars => RequestInv'
  BY RequestStep DEF IInv
<1>2. QED
  BY <1>1, RequestStart, InvariantHolds, ExchangeInvariant, PTL DEF Spec

\* The exchange that won a code loses its authorization request to nothing
\* but its lifetime: no other exchange, refused or successful, no prune and
\* no logout takes it away before DeleteAuthRequest.
THEOREM WinnerKeeps == Spec => []WinnerKeepsItsRequest
<1>1. RequestInv => WinnerKeepsItsRequest
  BY DEF RequestInv
<1>2. QED
  BY <1>1, RequestInvariant, PTL

----------------------------------------------------------------------------
(* What a rotation and the other creations do to records and families. *)

\* The token old is consumed in n and a pair of new ones joins its family.
Rotates(s, n, t, old, token, id, request) ==
    /\ n.authRequests = s.authRequests /\ n.codes = s.codes
    /\ n.access = {a \in s.access : a.id # old.accessID}
                  \cup {NewAccess(t, id, request, old.family)}
    /\ n.refresh = (s.refresh \ {old}) \cup {consumeRefreshRecord(old)}
                   \cup {NewRefresh(old.family, token, id, request)}
    /\ \A g \in n.families : \E f \in s.families :
          /\ g.id = f.id
          /\ g.subject = f.subject /\ g.client = f.client /\ g.expires = f.expires
    /\ \A f \in s.families : \E g \in n.families : g.id = f.id

\* RotateToken is such a step.
LEMMA RotateRotates ==
    ASSUME NEW s \in StoreType, NEW t \in Nat, NEW old \in s.refresh,
           NEW token \in Nat, NEW id \in Nat, NEW request \in TokenRequest
    PROVE  Rotates(s, RotateToken(s, t, old, token, id, request), t, old, token, id,
                   request)
<1> DEFINE n == RotateToken(s, t, old, token, id, request)
<1>1. /\ n \in StoreType
      /\ n.authRequests = s.authRequests /\ n.codes = s.codes
      /\ n.access = {a \in s.access : a.id # old.accessID}
                    \cup {NewAccess(t, id, request, old.family)}
      /\ n.refresh = (s.refresh \ {old}) \cup {consumeRefreshRecord(old)}
                     \cup {NewRefresh(old.family, token, id, request)}
      /\ \A g \in n.families : \E f \in s.families :
            /\ g.id = f.id
            /\ g.subject = f.subject /\ g.client = f.client /\ g.expires = f.expires
            /\ f.id # old.family => g = f
            /\ f.id = old.family => /\ token \in g.tokens
                                    /\ g.tokens \subseteq f.tokens \cup {token}
      /\ \A f \in s.families : \E g \in n.families :
            /\ g.id = f.id
            /\ f.id # old.family => g = f
            /\ f.id = old.family => token \in g.tokens
      /\ (\A f, g \in s.families : f.id = g.id => f = g) =>
         (\A f, g \in n.families : f.id = g.id => f = g)
      /\ n.revoked = s.revoked
      /\ ExpiryCovered(s) => ExpiryCovered(n)
  BY RotateFields
<1> HIDE DEF n
<1>2. QED
  BY <1>1 DEF Rotates, n

\* The store and the identifiers after a rotation.
LEMMA RefreshRotateFields ==
    ASSUME HandlerInv, NEW th \in Threads, RefreshRotate(th)
    PROVE  /\ serial'.family = serial.family
           /\ serial'.refresh = serial.refresh + 1
           /\ serial'.access = serial.access + 1
           /\ RequestOf(calls[th]) \in TokenRequest
           /\ \E old \in Rotatable(Pruned, now, calls[th].token, calls[th].client) :
                Rotates(Pruned, store', now, old, serial.refresh + 1,
                        serial.access + 1, RequestOf(calls[th]))
<1> DEFINE token == serial.refresh + 1
           id == serial.access + 1
           request == RequestOf(calls[th])
<1>1. /\ Pruned \in StoreType /\ serial \in SerialType /\ now \in Nat
      /\ token \in Nat /\ id \in Nat
  BY PrunedOK DEF HandlerInv, HandlerTypes, SerialType
<1>2. request \in TokenRequest
  BY RequestOfType DEF RefreshRotate, At
<1>3. PICK old \in Rotatable(Pruned, now, calls[th].token, calls[th].client) :
         store' = RotateToken(Pruned, now, old, token, id, request)
  BY DEF RefreshRotate
<1>4. old \in Pruned.refresh
  BY DEF Rotatable
<1>5. serial' = [serial EXCEPT !.access = @ + 1, !.refresh = @ + 1]
  BY DEF RefreshRotate
<1>6. serial'.family = serial.family /\ serial'.refresh = token /\ serial'.access = id
  BY <1>1, <1>5 DEF SerialType
<1> HIDE DEF request, token, id
<1>7. Rotates(Pruned, store', now, old, token, id, request)
  BY <1>1, <1>2, <1>3, <1>4, RotateRotates
<1>8. QED
  BY <1>2, <1>6, <1>7 DEF request, token, id

\* The store and the identifiers after a service got a token.
LEMMA ServiceTokenFields ==
    ASSUME HandlerInv, NEW th \in Threads, NEW scopes \in SUBSET Scopes,
           ServiceToken(th, scopes)
    PROVE  LET client == calls[th].client
               request == [auth |-> 0, client |-> client, subject |-> client,
                           scopes |-> scopes]
           IN
           /\ client \in ServiceClients
           /\ scopes \subseteq AllowedScopes[client] \cap Permissions[client]
           /\ serial'.family = serial.family /\ serial'.refresh = serial.refresh
           /\ serial'.access = serial.access + 1
           /\ store'.authRequests = Pruned.authRequests
           /\ store'.access = Pruned.access \cup
                                  {NewAccess(now, serial.access + 1, request, 0)}
           /\ store'.refresh = Pruned.refresh /\ store'.families = Pruned.families
<1> DEFINE client == calls[th].client
           request == [auth |-> 0, client |-> client, subject |-> client,
                       scopes |-> scopes]
<1>1. /\ Pruned \in StoreType /\ Consistent(Pruned, serial)
      /\ serial \in SerialType /\ now \in Nat
  BY PrunedOK DEF HandlerInv, HandlerTypes
<1>2. /\ client \in ServiceClients
      /\ scopes \subseteq AllowedScopes[client] \cap Permissions[client]
  BY DEF ServiceToken, ClientCredentialsTokenRequestOK
<1>3. request \in TokenRequest
  BY <1>2 DEF TokenRequest, Clients, Subjects
<1>4. /\ store' = CreateAccessToken(Pruned, now, serial.access + 1, request)
      /\ serial' = [serial EXCEPT !.access = @ + 1]
  BY DEF ServiceToken
<1>5. /\ serial'.family = serial.family /\ serial'.refresh = serial.refresh
      /\ serial'.access = serial.access + 1
  BY <1>1, <1>4 DEF SerialType
<1> DEFINE n == CreateAccessToken(Pruned, now, serial.access + 1, request)
<1> HIDE DEF request
<1>6. /\ n.authRequests = Pruned.authRequests
      /\ n.codes = reserveAuthorizationCodeLocked(Pruned, request).codes
      /\ n.access = Pruned.access \cup {NewAccess(now, serial.access + 1, request, 0)}
      /\ n.refresh = Pruned.refresh /\ n.families = Pruned.families
  BY <1>1, <1>3, TokenAdded
<1>7. store' = n
  BY <1>4
<1> HIDE DEF n
<1>8. QED
  BY <1>2, <1>5, <1>6, <1>7 DEF request

\* DeleteAuthRequest touches no token.
LEMMA ExchangeFinishFields ==
    ASSUME HandlerInv, NEW th \in Threads, ExchangeFinish(th)
    PROVE  /\ serial' = serial /\ store'.access = store.access
           /\ store'.refresh = store.refresh /\ store'.families = store.families
           /\ store'.authRequests \subseteq store.authRequests
<1>1. store \in StoreType /\ store' \in {store, DeleteAuthRequest(store, calls[th].auth)}
  BY DEF HandlerInv, HandlerTypes, ExchangeFinish
<1>2. QED
  BY <1>1 DEF ExchangeFinish, DeleteAuthRequest, StoreType

\* A prune keeps the records of the families it keeps.
LEMMA RecordsPruned ==
    ASSUME HandlerInv
    PROVE  /\ Pruned.families \subseteq store.families
           /\ Pruned.refresh \subseteq store.refresh
           /\ Pruned.access \subseteq store.access
           /\ Pruned.authRequests \subseteq store.authRequests
           /\ \A r \in store.refresh : r.family \in FamilyIDs(Pruned) => r \in Pruned.refresh
<1>1. /\ store \in StoreType /\ serial \in SerialType /\ now \in Nat
      /\ Consistent(store, serial)
  BY DEF HandlerInv, HandlerTypes
<1>2. /\ Pruned.authRequests = {r \in store.authRequests : now < r.expires}
      /\ Pruned.access = {a \in store.access : now < a.expires}
      /\ Pruned.families = {f \in store.families : now < f.expires}
      /\ Pruned.refresh \subseteq store.refresh
  BY <1>1, PruneFields DEF Pruned
<1>3. \A r \in store.refresh : r.family \in FamilyIDs(Pruned) => r \in Pruned.refresh
  BY <1>1, PruneKeepsRefresh DEF Pruned
<1>4. QED
  BY <1>2, <1>3

----------------------------------------------------------------------------
(* Revocations. *)

\* A record whose family is there after a step is there under its token, be
\* it consumed meanwhile; and new families get identifiers of their own.
LEMMA RecordSteps ==
    ASSUME HandlerInv, [Next]_vars
    PROVE  /\ serial.family <= serial'.family
           /\ \A f \in store'.families :
                 f.id \in FamilyIDs(store) \/ serial.family < f.id
           /\ \A r \in store.refresh : r.family \in FamilyIDs(store') =>
                 \E q \in store'.refresh :
                     q.token = r.token /\ q.client = r.client /\ q.family = r.family
<1>1. /\ Pruned.families \subseteq store.families
      /\ \A r \in store.refresh : r.family \in FamilyIDs(Pruned) => r \in Pruned.refresh
      /\ store \in StoreType /\ serial.family \in Nat
      /\ Consistent(store, serial)
  BY RecordsPruned DEF HandlerInv, HandlerTypes, SerialType
<1>2. /\ \A f \in store.families : f.id <= serial.family
      /\ \A r \in store.refresh : r.family \in Nat /\ r.family <= serial.family
  <2>1. \A f \in store.families : f.id <= serial.family /\ f.id \in Nat
    BY <1>1 DEF Consistent, Drawn, StoreType, RefreshFamily
  <2>2. QED
    BY <1>1, <2>1 DEF Consistent, IndexSound
<1>3. CASE /\ serial' = serial
           /\ \E s \in {store, Pruned} : \E gone : Drops(s, store', gone)
  <2>0. PICK s \in {store, Pruned} : \E gone : Drops(s, store', gone)
    BY <1>3
  <2>1. PICK gone : Drops(s, store', gone)
    BY <2>0
  <2>2. /\ s.families \subseteq store.families
        /\ \A r \in store.refresh : r.family \in FamilyIDs(s) => r \in s.refresh
        /\ store'.families = {f \in s.families : f.id \notin gone}
        /\ store'.refresh = {r \in s.refresh : r.family \notin gone}
    BY <1>1, <2>1 DEF Drops
  <2>3. \A r \in store.refresh : r.family \in FamilyIDs(store') => r \in store'.refresh
    BY <2>2 DEF FamilyIDs
  <2>4. QED
    BY <1>1, <1>3, <2>2, <2>3 DEF FamilyIDs
<1>4. ASSUME NEW th \in Threads, ExchangeFinish(th)
      PROVE  serial' = serial /\ store'.refresh = store.refresh
             /\ store'.families = store.families
  BY <1>4, ExchangeFinishFields
<1>5. ASSUME NEW th \in Threads, NEW scopes \in SUBSET Scopes, ServiceToken(th, scopes)
      PROVE  serial'.family = serial.family /\ store'.refresh = Pruned.refresh
             /\ store'.families = Pruned.families
  BY <1>5, ServiceTokenFields
<1>6. ASSUME NEW th \in Threads, ExchangeCreate(th)
      PROVE  \/ /\ serial'.family = serial.family
                /\ store'.refresh = Pruned.refresh /\ store'.families = Pruned.families
             \/ /\ serial'.family = serial.family + 1
                /\ Pruned.refresh \subseteq store'.refresh
                /\ \A f \in store'.families :
                      f \in Pruned.families \/ f.id = serial.family + 1
  <2>1. \A t, e, request, tokens : NewFamily(t, e, request, tokens).id = e
    BY DEF NewFamily
  <2>2. QED
    BY <1>6, <2>1, ExchangeCreateFields
<1>7. ASSUME NEW th \in Threads, RefreshRotate(th)
      PROVE  /\ serial'.family = serial.family
             /\ FamilyIDs(store') \subseteq FamilyIDs(Pruned)
             /\ \A r \in Pruned.refresh : \E q \in store'.refresh :
                   q.token = r.token /\ q.client = r.client /\ q.family = r.family
  <2>1. PICK old \in Pruned.refresh :
           Rotates(Pruned, store', now, old, serial.refresh + 1, serial.access + 1,
                   RequestOf(calls[th]))
    BY <1>7, RefreshRotateFields DEF Rotatable
  <2>2. old \in RefreshRecord
    BY PrunedOK DEF StoreType
  <2>3. LET q == consumeRefreshRecord(old) IN
           q.token = old.token /\ q.client = old.client /\ q.family = old.family
    BY <2>2 DEF consumeRefreshRecord, RefreshRecord
  <2>4. FamilyIDs(store') \subseteq FamilyIDs(Pruned)
    BY <2>1 DEF Rotates, FamilyIDs
  <2>5. (Pruned.refresh \ {old}) \cup {consumeRefreshRecord(old)} \subseteq store'.refresh
    BY <2>1 DEF Rotates
  <2>6. QED
    BY <1>7, <2>3, <2>4, <2>5, RefreshRotateFields
<1>8. CASE \E th \in Threads, scopes \in SUBSET Scopes :
              ExchangeFinish(th) \/ ServiceToken(th, scopes)
  BY <1>1, <1>4, <1>5, <1>8 DEF FamilyIDs
<1>9. ASSUME NEW th \in Threads, ExchangeCreate(th)
      PROVE  /\ serial.family <= serial'.family
             /\ \A f \in store'.families :
                   f.id \in FamilyIDs(store) \/ serial.family < f.id
             /\ \A r \in store.refresh : r.family \in FamilyIDs(store') =>
                   r \in store'.refresh
  <2>1. CASE /\ serial'.family = serial.family
             /\ store'.refresh = Pruned.refresh /\ store'.families = Pruned.families
    BY <1>1, <2>1 DEF FamilyIDs
  <2>2. CASE /\ serial'.family = serial.family + 1
             /\ Pruned.refresh \subseteq store'.refresh
             /\ \A f \in store'.families :
                   f \in Pruned.families \/ f.id = serial.family + 1
    <3>1. \A f \in store'.families : f.id \in FamilyIDs(store) \/ serial.family < f.id
      BY <1>1, <2>2 DEF FamilyIDs
    <3>2. \A r \in store.refresh : r.family # serial.family + 1
      BY <1>1, <1>2
    <3>3. \A r \in store.refresh : r.family \in FamilyIDs(store') =>
             r.family \in FamilyIDs(Pruned)
      BY <2>2, <3>2 DEF FamilyIDs
    <3>4. QED
      BY <1>1, <2>2, <3>1, <3>3
  <2>3. QED
    BY <1>9, <1>6, <2>1, <2>2
<1>10. ASSUME NEW th \in Threads, RefreshRotate(th)
       PROVE  /\ serial.family <= serial'.family
              /\ \A f \in store'.families : f.id \in FamilyIDs(store)
              /\ \A r \in store.refresh : r.family \in FamilyIDs(store') =>
                    \E q \in store'.refresh :
                        q.token = r.token /\ q.client = r.client /\ q.family = r.family
  <2>1. \A f \in store'.families : f.id \in FamilyIDs(store)
    BY <1>1, <1>7, <1>10 DEF FamilyIDs
  <2>2. QED
    BY <1>1, <1>7, <1>10, <2>1
<1>11. QED
  <2>1. CASE \E th \in Threads, scopes \in SUBSET Scopes :
                ExchangeFinish(th) \/ ServiceToken(th, scopes)
    BY <1>8, <2>1
  <2>2. CASE \E th \in Threads : ExchangeCreate(th)
    BY <1>9, <2>2
  <2>3. CASE \E th \in Threads : RefreshRotate(th)
    BY <1>10, <2>3
  <2>4. QED
    BY <1>3, <2>1, <2>2, <2>3, StoreSteps

\* A revocation under way: if its family is still there, so is the record of
\* its token.
RevokeInv ==
    \A th \in Threads : calls[th].stage = "revoking" =>
        /\ calls[th].family <= serial.family
        /\ calls[th].family \in FamilyIDs(store) =>
              \E r \in store.refresh :
                  /\ r.token = calls[th].token /\ r.client = calls[th].client
                  /\ r.family = calls[th].family

\* Every step keeps it.
LEMMA RevokeStep ==
    ASSUME HandlerInv, RevokeInv, [Next]_vars
    PROVE  RevokeInv'
<1> SUFFICES ASSUME NEW th \in Threads, calls'[th].stage = "revoking"
             PROVE  /\ calls'[th].family <= serial'.family
                    /\ calls'[th].family \in FamilyIDs(store') =>
                          \E r \in store'.refresh :
                              /\ r.token = calls'[th].token
                              /\ r.client = calls'[th].client
                              /\ r.family = calls'[th].family
  BY DEF RevokeInv
<1>1. /\ calls \in [Threads -> Call] /\ store \in StoreType
      /\ serial.family \in Nat /\ serial'.family \in Nat
      /\ Consistent(Pruned, serial) /\ Pruned \in StoreType
  BY PrunedOK, NextOK DEF HandlerInv, HandlerTypes, SerialType
<1>2. CASE calls'[th] = calls[th]
  <2> DEFINE family == calls[th].family
  <2>1. /\ family \in Nat /\ family <= serial.family
        /\ family \in FamilyIDs(store) => \E r \in store.refresh :
              r.token = calls[th].token /\ r.client = calls[th].client /\ r.family = family
    BY <1>1, <1>2 DEF RevokeInv, Call
  <2> HIDE DEF family
  <2>2. family <= serial'.family
    BY <1>1, <2>1, RecordSteps
  <2>3. ASSUME family \in FamilyIDs(store')
        PROVE  \E r \in store'.refresh :
                  r.token = calls[th].token /\ r.client = calls[th].client /\ r.family = family
    <3>1. family \in FamilyIDs(store)
      BY <1>1, <2>1, <2>3, RecordSteps DEF FamilyIDs
    <3>2. PICK r \in store.refresh :
             r.token = calls[th].token /\ r.client = calls[th].client /\ r.family = family
      BY <2>1, <3>1
    <3>3. QED
      BY <2>3, <3>2, RecordSteps
  <2>4. QED
    BY <1>2, <2>2, <2>3 DEF family
<1>3. CASE calls'[th] # calls[th]
  <2>1. PICK client \in SPAClients, token \in 1 .. serial.refresh :
           RevokeLookup(th, client, token)
    BY <1>3, StageOrigin
  <2> DEFINE held == TokenFamilies(Pruned, client, token)
  <2>2. PICK family \in IF held = {} THEN {0} ELSE held :
           calls' = [calls EXCEPT ![th] =
                  [Idle EXCEPT !.stage = "revoking", !.client = client,
                               !.token = token, !.family = family]]
    BY <2>1 DEF RevokeLookup
  <2>3. /\ calls'[th].client = client /\ calls'[th].token = token
        /\ calls'[th].family = family
    BY <1>1, <2>2 DEF Idle
  <2>4. store' = Pruned /\ serial' = serial
    BY <2>1 DEF RevokeLookup
  <2>5. \A f \in Pruned.families : 0 < f.id /\ f.id <= serial.family
    BY <1>1 DEF Consistent, Drawn
  <2>6. CASE held = {}
    BY <1>1, <2>2, <2>3, <2>4, <2>5, <2>6 DEF FamilyIDs
  <2>7. CASE held # {}
    <3>1. PICK r \in Pruned.refresh :
             r.client = client /\ r.token = token /\ r.family = family
      BY <2>2, <2>7 DEF TokenFamilies
    <3>2. r.family \in FamilyIDs(Pruned)
      BY <1>1, <3>1 DEF Consistent, IndexSound, FamilyIDs
    <3>3. family <= serial'.family
      BY <2>4, <2>5, <3>1, <3>2 DEF FamilyIDs
    <3>4. QED
      BY <2>3, <2>4, <3>1, <3>3
  <2>8. QED
    BY <2>6, <2>7
<1>4. QED
  BY <1>2, <1>3

\* A revocation ends by revoking.
LEMMA RevocationEnds ==
    ASSUME HandlerInv, [Next]_vars, NEW th \in Threads,
           calls[th].stage = "revoking", calls'[th].stage # "revoking"
    PROVE  RevokeToken(th)
<1>1. Start(th) \/ Finish(th)
  BY OneThread DEF Next, RevokeAccess, EndSession, Query, Advancing, vars, tokenVars
<1>2. ~Start(th)
  BY DEF Start, ExchangeLookup, RefreshLookup, RevokeLookup, CredentialsBegin, Begin
<1>3. QED
  BY <1>1, <1>2 DEF Finish, ExchangeCreate, ExchangeRefused, SignAccessToken,
     SignIDToken, ExchangeFinish, RefreshRotate, RefreshRefused, CredentialsEnd,
     ServiceToken, ServiceRevoke, ServiceQuery, At

\* The second call of a revocation ends the family of its token.
LEMMA RevocationDone ==
    ASSUME HandlerInv, RevokeInv, [Next]_vars, NEW th \in Threads,
           calls[th].stage = "revoking", calls'[th].stage # "revoking"
    PROVE  calls[th].family \notin FamilyIDs(store')
<1> DEFINE client == calls[th].client
           token == calls[th].token
           ids == {r.family : r \in {x \in Pruned.refresh :
                                     x.token = token /\ x.client = client}}
<1>1. store' = revokeFamilyLocked(Pruned, ids)
  BY RevocationEnds DEF RevokeToken, RevokeRefreshToken, TokenFamilies
<1>2. FamilyIDs(store') \subseteq FamilyIDs(Pruned) \ ids
  BY <1>1, PrunedOK DEF revokeFamilyLocked, FamilyIDs, StoreType
<1>3. ASSUME calls[th].family \in FamilyIDs(Pruned) PROVE calls[th].family \in ids
  <2>1. calls[th].family \in FamilyIDs(store)
    BY <1>3, RecordsPruned DEF FamilyIDs
  <2>2. PICK r \in store.refresh :
           r.token = token /\ r.client = client /\ r.family = calls[th].family
    BY <2>1 DEF RevokeInv
  <2>3. r \in Pruned.refresh
    BY <1>3, <2>2, RecordsPruned
  <2>4. QED
    BY <2>2, <2>3
<1>4. QED
  BY <1>2, <1>3

\* A revocation ends the family of the client's refresh token, whatever
\* rotation consumed the token before it or between its two calls.
THEOREM RevocationFinal == Spec => RevocationIsFinal
<1>1. IInv /\ RevokeInv /\ [Next]_vars =>
         [\A th \in Threads :
             calls[th].stage = "revoking" /\ calls'[th].stage # "revoking" =>
                 calls[th].family \notin FamilyIDs(store')]_vars
  BY RevocationDone DEF IInv
<1>2. Init => RevokeInv
  BY IdleOK DEF Init, RevokeInv
<1>3. IInv /\ RevokeInv /\ [Next]_vars => RevokeInv'
  BY RevokeStep DEF IInv
<1>4. QED
  BY <1>1, <1>2, <1>3, InvariantHolds, PTL DEF Spec, RevocationIsFinal

----------------------------------------------------------------------------
(* Logouts. *)

\* A token names one record, and a usable record is its family's user's and
\* client's.
OwnersSound(s) ==
    /\ \A r, q \in s.refresh : r.token = q.token => r = q
    /\ \A r \in s.refresh, f \in s.families :
          ~r.consumed /\ f.id = r.family => r.subject = f.subject /\ r.client = f.client

\* A refresh goes on with what it read of its token, or with fewer scopes.
LEMMA RefreshHeld ==
    ASSUME calls \in [Threads -> Call], NEW th \in Threads, NEW token,
           RefreshLookup(th, token), ~Return(th)
    PROVE  \E r \in TokenRequestByRefreshToken(Pruned, now, token) :
              /\ store' = Pruned /\ serial' = serial
              /\ calls'[th].token = token /\ calls'[th].subject = r.subject
              /\ calls'[th].client = r.client /\ calls'[th].scopes \subseteq r.scopes
<1>1. PICK r \in TokenRequestByRefreshToken(Pruned, now, token), scopes \in SUBSET Scopes :
         /\ scopes # {} => scopes \subseteq r.scopes
         /\ store' = Pruned
         /\ calls' = [calls EXCEPT ![th] =
               [Idle EXCEPT !.stage = "refreshFound", !.client = r.client,
                   !.subject = r.subject, !.token = token, !.family = r.family,
                   !.scopes = IF scopes = {} THEN r.scopes ELSE scopes]]
  BY DEF RefreshLookup
<1>2. serial' = serial
  BY DEF RefreshLookup
<1>3. QED
  BY <1>1, <1>2 DEF Idle

\* A refresh under way speaks for the user and client of its token, and for
\* no scope beyond the token's, and a logout knows of no identifier that is
\* not drawn yet.
LogoutInv ==
    /\ OwnersSound(store)
    /\ \A th \in Threads : calls[th].stage = "refreshFound" =>
          /\ calls[th].token <= serial.refresh
          /\ \A r \in store.refresh : r.token = calls[th].token /\ ~r.consumed =>
                /\ r.subject = calls[th].subject /\ r.client = calls[th].client
                /\ calls[th].scopes \subseteq r.scopes
    /\ \A l \in logouts : l.access <= serial.access /\ l.family <= serial.family
    /\ LogoutIsFinal

\* Fewer records and families leave owners as they are.
LEMMA OwnersSubset ==
    ASSUME NEW s, NEW n, OwnersSound(s),
           n.refresh \subseteq s.refresh, n.families \subseteq s.families
    PROVE  OwnersSound(n)
BY DEF OwnersSound

\* The identifiers in use are drawn, as far as owners are concerned.
LEMMA DrawnBefore ==
    ASSUME HandlerInv
    PROVE  /\ serial.family \in Nat /\ serial.refresh \in Nat /\ serial.access \in Nat
           /\ \A r \in Pruned.refresh : /\ r.token \in Nat /\ r.token <= serial.refresh
                                        /\ r.family \in Nat /\ r.family <= serial.family
           /\ \A f \in Pruned.families : f.id \in Nat /\ f.id <= serial.family
           /\ \A r \in Pruned.refresh : r.family \in FamilyIDs(Pruned)
<1>1. /\ Pruned \in StoreType /\ Consistent(Pruned, serial) /\ serial \in SerialType
  BY PrunedOK DEF HandlerInv, HandlerTypes
<1>2. \A f \in Pruned.families : f.id \in Nat /\ f.id <= serial.family
  BY <1>1 DEF Consistent, Drawn, StoreType, RefreshFamily
<1>3. \A r \in Pruned.refresh : r.family \in FamilyIDs(Pruned)
  BY <1>1 DEF Consistent, IndexSound, FamilyIDs
<1>4. \A r \in Pruned.refresh : r.token \in Nat /\ r.token <= serial.refresh
  BY <1>1 DEF Consistent, Drawn, StoreType, RefreshRecord
<1>5. QED
  BY <1>1, <1>2, <1>3, <1>4 DEF FamilyIDs, SerialType

\* What a new family means for owners.
LEMMA OwnersOpened ==
    ASSUME NEW s, NEW n, OwnersSound(s), NEW t, NEW family \in Nat,
           NEW token \in Nat, NEW id, NEW request,
           \A r \in s.refresh : r.token # token /\ r.family # family,
           \A f \in s.families : f.id # family,
           n.refresh = s.refresh \cup {NewRefresh(family, token, id, request)},
           n.families = s.families \cup {NewFamily(t, family, request, {token})}
    PROVE  OwnersSound(n)
<1> DEFINE r == NewRefresh(family, token, id, request)
           f == NewFamily(t, family, request, {token})
<1>1. /\ r.token = token /\ r.family = family /\ f.id = family
      /\ r.subject = f.subject /\ r.client = f.client
  BY DEF NewRefresh, NewFamily
<1>2. n.refresh = s.refresh \cup {r} /\ n.families = s.families \cup {f}
  OBVIOUS
<1> HIDE DEF r, f
<1>3. \A x, y \in n.refresh : x.token = y.token => x = y
  BY <1>1, <1>2 DEF OwnersSound
<1>4. \A x \in n.refresh, g \in n.families :
         ~x.consumed /\ g.id = x.family => x.subject = g.subject /\ x.client = g.client
  BY <1>1, <1>2 DEF OwnersSound
<1>5. QED
  BY <1>3, <1>4 DEF OwnersSound

\* And a rotation that keeps the owner.
LEMMA OwnersRotated ==
    ASSUME NEW s \in StoreType, NEW n, OwnersSound(s), NEW t, NEW old \in s.refresh,
           NEW token \in Nat, NEW id, NEW request, ~old.consumed,
           Rotates(s, n, t, old, token, id, request),
           \A r \in s.refresh : r.token # token,
           request.subject = old.subject, request.client = old.client
    PROVE  OwnersSound(n)
<1> DEFINE r == NewRefresh(old.family, token, id, request)
           C == consumeRefreshRecord(old)
<1>1. /\ r.token = token /\ r.family = old.family
      /\ r.subject = old.subject /\ r.client = old.client
  BY DEF NewRefresh
<1>2. C.token = old.token /\ C.consumed
  BY DEF consumeRefreshRecord, StoreType, RefreshRecord
<1>3. /\ n.refresh = (s.refresh \ {old}) \cup {C} \cup {r}
      /\ \A g \in n.families : \E f \in s.families :
            g.id = f.id /\ g.subject = f.subject /\ g.client = f.client
  BY DEF Rotates
<1> HIDE DEF r, C
<1>4. \A x, y \in n.refresh : x.token = y.token => x = y
  BY <1>1, <1>2, <1>3 DEF OwnersSound
<1>5. \A x \in n.refresh, g \in n.families :
         ~x.consumed /\ g.id = x.family => x.subject = g.subject /\ x.client = g.client
  <2> SUFFICES ASSUME NEW x \in n.refresh, NEW g \in n.families,
                      ~x.consumed, g.id = x.family
               PROVE  x.subject = g.subject /\ x.client = g.client
    OBVIOUS
  <2>1. PICK f \in s.families : g.id = f.id /\ g.subject = f.subject /\ g.client = f.client
    BY <1>3
  <2>2. CASE x = r
    BY <1>1, <2>1, <2>2 DEF OwnersSound
  <2>3. CASE x \in s.refresh
    BY <2>1, <2>3 DEF OwnersSound
  <2>4. QED
    BY <1>2, <1>3, <2>2, <2>3
<1>6. QED
  BY <1>4, <1>5 DEF OwnersSound

\* Every step keeps owners, and what it creates is new.
LEMMA OwnersStep ==
    ASSUME HandlerInv, LogoutInv, [Next]_vars
    PROVE  /\ OwnersSound(store')
           /\ serial.refresh <= serial'.refresh
           /\ \A r \in store'.refresh : ~r.consumed =>
                 r \in store.refresh \/ serial.refresh < r.token
<1>1. /\ Pruned \in StoreType
      /\ Pruned.families \subseteq store.families /\ Pruned.refresh \subseteq store.refresh
      /\ OwnersSound(store) /\ OwnersSound(Pruned)
  BY PrunedOK, RecordsPruned, OwnersSubset DEF LogoutInv
<1>2. /\ serial.family \in Nat /\ serial.refresh \in Nat
      /\ \A r \in Pruned.refresh : /\ r.token \in Nat /\ r.token <= serial.refresh
                                   /\ r.family \in Nat /\ r.family <= serial.family
      /\ \A f \in Pruned.families : f.id \in Nat /\ f.id <= serial.family
  BY DrawnBefore
<1>3. CASE /\ serial' = serial
           /\ \E s \in {store, Pruned} : \E gone : Drops(s, store', gone)
  <2>0. PICK s \in {store, Pruned} : \E gone : Drops(s, store', gone)
    BY <1>3
  <2>1. PICK gone : Drops(s, store', gone)
    BY <2>0
  <2>2. store'.refresh \subseteq s.refresh /\ store'.families \subseteq s.families
    BY <2>1 DEF Drops
  <2>3. OwnersSound(store')
    BY <1>1, <2>2, OwnersSubset
  <2>4. QED
    BY <1>1, <1>2, <1>3, <2>2, <2>3
<1>4. ASSUME NEW th \in Threads, ExchangeFinish(th)
      PROVE  /\ OwnersSound(store') /\ serial' = serial
             /\ store'.refresh = store.refresh
  BY <1>1, <1>4, ExchangeFinishFields, OwnersSubset
<1>5. ASSUME NEW th \in Threads, NEW scopes \in SUBSET Scopes, ServiceToken(th, scopes)
      PROVE  /\ OwnersSound(store') /\ serial'.refresh = serial.refresh
             /\ store'.refresh = Pruned.refresh
  <2>1. /\ serial'.refresh = serial.refresh
        /\ store'.refresh = Pruned.refresh /\ store'.families = Pruned.families
    BY <1>5, ServiceTokenFields
  <2>2. QED
    BY <1>1, <2>1, OwnersSubset
<1>6. ASSUME NEW th \in Threads, ExchangeCreate(th)
      PROVE  /\ OwnersSound(store') /\ serial.refresh <= serial'.refresh
             /\ \A r \in store'.refresh :
                   r \in Pruned.refresh \/ r.token = serial.refresh + 1
  <2> DEFINE family == serial.family + 1
             token == serial.refresh + 1
             id == serial.access + 1
             request == RequestOf(calls[th])
  <2>1. CASE /\ store'.refresh = Pruned.refresh /\ store'.families = Pruned.families
             /\ serial'.refresh = serial.refresh
    BY <1>1, <1>2, <2>1, OwnersSubset
  <2>2. CASE /\ store'.refresh = Pruned.refresh \cup {NewRefresh(family, token, id, request)}
             /\ store'.families = Pruned.families \cup
                                     {NewFamily(now, family, request, {token})}
             /\ serial'.refresh = token
    <3>1. /\ family \in Nat /\ token \in Nat /\ serial.refresh <= token
          /\ \A r \in Pruned.refresh : r.token # token /\ r.family # family
          /\ \A f \in Pruned.families : f.id # family
      BY <1>2
    <3>2. NewRefresh(family, token, id, request).token = token
      BY DEF NewRefresh
    <3> HIDE DEF family, id, request
    <3>3. OwnersSound(store')
      <4> HIDE DEF token
      <4>1. QED
        BY <1>1, <2>2, <3>1, OwnersOpened
    <3>4. QED
      BY <1>2, <2>2, <3>1, <3>2, <3>3
  <2>3. QED
    BY <1>6, <2>1, <2>2, ExchangeCreateFields
<1>7. ASSUME NEW th \in Threads, RefreshRotate(th)
      PROVE  /\ OwnersSound(store') /\ serial'.refresh = serial.refresh + 1
             /\ \A r \in store'.refresh :
                   \/ r \in Pruned.refresh \/ r.consumed
                   \/ r.token = serial.refresh + 1
  <2> DEFINE token == serial.refresh + 1
             id == serial.access + 1
             request == RequestOf(calls[th])
  <2>1. PICK old \in Rotatable(Pruned, now, calls[th].token, calls[th].client) :
           Rotates(Pruned, store', now, old, token, id, request)
    BY <1>7, RefreshRotateFields
  <2>2. /\ old \in Pruned.refresh /\ ~old.consumed
        /\ old.token = calls[th].token /\ old.client = calls[th].client
    BY DEF Rotatable
  <2>3. calls[th].stage = "refreshFound"
    BY <1>7 DEF RefreshRotate, At
  <2>4. request.subject = old.subject /\ request.client = old.client
    BY <1>1, <2>2, <2>3 DEF LogoutInv, RequestOf
  <2>5. token \in Nat /\ \A r \in Pruned.refresh : r.token # token
    BY <1>2
  <2>6. /\ NewRefresh(old.family, token, id, request).token = token
        /\ consumeRefreshRecord(old).consumed
    BY <2>2, <1>1 DEF NewRefresh, consumeRefreshRecord, StoreType, RefreshRecord
  <2> HIDE DEF request, id
  <2>7. OwnersSound(store')
    <3> HIDE DEF token
    <3>1. QED
      BY <1>1, <2>1, <2>2, <2>4, <2>5, OwnersRotated
  <2>8. \A r \in store'.refresh :
           r \in Pruned.refresh \/ r.consumed \/ r.token = token
    BY <2>1, <2>6 DEF Rotates
  <2>9. QED
    BY <1>7, <2>7, <2>8, RefreshRotateFields
<1>8. CASE \E th \in Threads, scopes \in SUBSET Scopes :
              ExchangeFinish(th) \/ ServiceToken(th, scopes)
  BY <1>1, <1>2, <1>4, <1>5, <1>8
<1>9. CASE \E th \in Threads : ExchangeCreate(th) \/ RefreshRotate(th)
  BY <1>1, <1>2, <1>6, <1>7, <1>9
<1>10. QED
  <2>1. ASSUME NEW th \in Threads, ExchangeFinish(th)
        PROVE  \E u \in Threads, scopes \in SUBSET Scopes :
                   ExchangeFinish(u) \/ ServiceToken(u, scopes)
    BY <2>1
  <2>2. QED
    BY <1>3, <1>8, <1>9, <2>1, StoreSteps

\* A new access record has a new identifier; its family is none, new, or that
\* of the token a rotation consumed.
LEMMA AccessSteps ==
    ASSUME HandlerInv, [Next]_vars
    PROVE  /\ serial.access <= serial'.access
           /\ \A a \in store'.access :
                 \/ a \in store.access
                 \/ /\ serial.access < a.id
                    /\ \/ a.family = 0
                       \/ serial.family < a.family
                       \/ \E th \in Threads :
                             /\ RefreshRotate(th)
                             /\ \E old \in Rotatable(Pruned, now, calls[th].token,
                                                     calls[th].client) :
                                   a.family = old.family
                             /\ a.subject = calls[th].subject
                             /\ a.client = calls[th].client
<1>1. Pruned.access \subseteq store.access
  BY RecordsPruned
<1>2. serial.access \in Nat /\ serial.family \in Nat
  BY DrawnBefore
<1>3. \A t, id, request, family :
         LET a == NewAccess(t, id, request, family) IN
         /\ a.id = id /\ a.family = family
         /\ a.subject = request.subject /\ a.client = request.client
  BY DEF NewAccess
<1>4. CASE /\ serial' = serial
           /\ \E s \in {store, Pruned} : \E gone : Drops(s, store', gone)
  BY <1>1, <1>2, <1>4 DEF Drops
<1>5. ASSUME NEW th \in Threads, ExchangeFinish(th)
      PROVE  serial' = serial /\ store'.access = store.access
  BY <1>5, ExchangeFinishFields
<1>6. ASSUME NEW th \in Threads, NEW scopes \in SUBSET Scopes, ServiceToken(th, scopes)
      PROVE  /\ serial'.access = serial.access + 1
             /\ \A a \in store'.access :
                   a \in store.access \/ (a.id = serial.access + 1 /\ a.family = 0)
  <2> DEFINE request == [auth |-> 0, client |-> calls[th].client,
                         subject |-> calls[th].client, scopes |-> scopes]
             b == NewAccess(now, serial.access + 1, request, 0)
  <2>1. /\ serial'.access = serial.access + 1
        /\ store'.access = Pruned.access \cup {b}
    BY <1>6, ServiceTokenFields
  <2>2. b.id = serial.access + 1 /\ b.family = 0
    BY <1>3
  <2> HIDE DEF b
  <2>3. QED
    BY <1>1, <2>1, <2>2
<1>7. ASSUME NEW th \in Threads, ExchangeCreate(th)
      PROVE  /\ serial'.access = serial.access + 1
             /\ \A a \in store'.access :
                   \/ a \in store.access
                   \/ /\ a.id = serial.access + 1
                      /\ a.family = 0 \/ a.family = serial.family + 1
  BY <1>1, <1>3, <1>7, ExchangeCreateFields
<1>8. ASSUME NEW th \in Threads, RefreshRotate(th)
      PROVE  /\ serial'.access = serial.access + 1
             /\ \A a \in store'.access :
                   \/ a \in store.access
                   \/ /\ a.id = serial.access + 1
                      /\ \E old \in Rotatable(Pruned, now, calls[th].token,
                                              calls[th].client) :
                            a.family = old.family
                      /\ a.subject = calls[th].subject /\ a.client = calls[th].client
  <2>1. PICK old \in Rotatable(Pruned, now, calls[th].token, calls[th].client) :
           Rotates(Pruned, store', now, old, serial.refresh + 1, serial.access + 1,
                   RequestOf(calls[th]))
    BY <1>8, RefreshRotateFields
  <2>2. /\ RequestOf(calls[th]).subject = calls[th].subject
        /\ RequestOf(calls[th]).client = calls[th].client
    BY DEF RequestOf
  <2> DEFINE b == NewAccess(now, serial.access + 1, RequestOf(calls[th]), old.family)
  <2>3. /\ b.id = serial.access + 1 /\ b.family = old.family
        /\ b.subject = calls[th].subject /\ b.client = calls[th].client
    BY <1>3, <2>2
  <2>4. \A a \in store'.access : a \in Pruned.access \/ a = b
    BY <2>1 DEF Rotates
  <2> HIDE DEF b
  <2>5. QED
    BY <1>1, <1>8, <2>3, <2>4, RefreshRotateFields
<1>9. serial.access < serial.access + 1 /\ serial.family < serial.family + 1
      /\ serial.access <= serial.access + 1 /\ serial.access <= serial.access
  BY <1>2
<1>10. CASE \E th \in Threads : ExchangeFinish(th) \/ ExchangeCreate(th)
  BY <1>5, <1>7, <1>9, <1>10
<1>11. CASE \E th \in Threads, scopes \in SUBSET Scopes : ServiceToken(th, scopes)
  BY <1>6, <1>9, <1>11
<1>12. CASE \E th \in Threads : RefreshRotate(th)
  BY <1>8, <1>9, <1>12
<1>13. QED
  BY <1>4, <1>10, <1>11, <1>12, StoreSteps

\* A family keeps its owner, and a new one has a new identifier.
LEMMA FamilySteps ==
    ASSUME HandlerInv, [Next]_vars
    PROVE  \A f \in store'.families :
              \/ \E g \in store.families :
                    g.id = f.id /\ g.subject = f.subject /\ g.client = f.client
              \/ serial.family < f.id
<1>1. Pruned.families \subseteq store.families
  BY RecordsPruned
<1>2. serial.family < serial.family + 1
  BY DrawnBefore
<1>3. \A t, e, request, tokens : NewFamily(t, e, request, tokens).id = e
  BY DEF NewFamily
<1>4. CASE \E s \in {store, Pruned} : \E gone : Drops(s, store', gone)
  BY <1>1, <1>4 DEF Drops
<1>5. ASSUME NEW th \in Threads,
             ExchangeFinish(th) \/ \E scopes \in SUBSET Scopes : ServiceToken(th, scopes)
      PROVE  store'.families \subseteq store.families
  BY <1>1, <1>5, ExchangeFinishFields, ServiceTokenFields
<1>6. ASSUME NEW th \in Threads, ExchangeCreate(th)
      PROVE  \A f \in store'.families :
                f \in Pruned.families \/ f.id = serial.family + 1
  BY <1>3, <1>6, ExchangeCreateFields
<1>7. ASSUME NEW th \in Threads, RefreshRotate(th)
      PROVE  \A f \in store'.families : \E g \in Pruned.families :
                g.id = f.id /\ g.subject = f.subject /\ g.client = f.client
  BY <1>7, RefreshRotateFields DEF Rotates
<1>8. QED
  BY <1>1, <1>2, <1>4, <1>5, <1>6, <1>7, StoreSteps

\* A logout leaves nothing of the user and client.
LEMMA SessionGone ==
    ASSUME NEW s \in StoreType, NEW user, NEW client
    PROVE  LET n == TerminateSession(s, user, client) IN
           /\ \A a \in n.access : ~(a.subject = user /\ a.client = client)
           /\ \A f \in n.families : ~(f.subject = user /\ f.client = client)
<1> DEFINE gone == {a \in s.access : a.subject = user /\ a.client = client}
           held == {f \in s.families : f.subject = user /\ f.client = client}
           ids == {a.family : a \in gone} \cup {f.id : f \in held}
           m == [s EXCEPT !.access = @ \ gone]
           n == revokeFamilyLocked(m, ids)
<1>1. m \in StoreType /\ m.access = s.access \ gone /\ m.families = s.families
  BY DEF StoreType
<1> HIDE DEF m
<1>2. /\ n.access \subseteq m.access
      /\ n.families = {f \in m.families : f.id \notin ids \cap FamilyIDs(m)}
  BY <1>1 DEF revokeFamilyLocked, StoreType
<1>3. n = TerminateSession(s, user, client)
  BY DEF TerminateSession, m
<1>4. \A f \in held : f.id \in ids \cap FamilyIDs(m)
  BY <1>1 DEF FamilyIDs
<1> HIDE DEF n, ids
<1>5. QED
  BY <1>1, <1>2, <1>3, <1>4

\* What a logout ended stays away in the next step.
LEMMA LoggedOutStep ==
    ASSUME HandlerInv, LogoutInv, [Next]_vars, NEW l \in logouts
    PROVE  /\ l.access <= serial'.access /\ l.family <= serial'.family
           /\ \A a \in store'.access :
                 a.subject = l.subject /\ a.client = l.client =>
                     a.id > l.access /\ (a.family = 0 \/ a.family > l.family)
           /\ \A f \in store'.families :
                 f.subject = l.subject /\ f.client = l.client => f.id > l.family
<1>1. /\ l.access \in Nat /\ l.family \in Nat
      /\ serial.access \in Nat /\ serial.family \in Nat
      /\ serial'.access \in Nat /\ serial'.family \in Nat
      /\ l.access <= serial.access /\ l.family <= serial.family
  BY NextOK DEF HandlerInv, HandlerTypes, Logout, SerialType, LogoutInv
<1>2. /\ \A a \in store.access : a.subject = l.subject /\ a.client = l.client =>
            a.id > l.access /\ (a.family = 0 \/ a.family > l.family)
      /\ \A f \in store.families :
            f.subject = l.subject /\ f.client = l.client => f.id > l.family
  BY DEF LogoutInv, LogoutIsFinal
<1>3. l.access <= serial'.access /\ l.family <= serial'.family
  BY <1>1, AccessSteps, RecordSteps
<1>4. /\ store' \in StoreType
      /\ \A a \in store'.access : a.id \in Nat /\ a.family \in Nat
      /\ \A f \in store'.families : f.id \in Nat
  BY NextOK DEF HandlerInv, HandlerTypes, StoreType, AccessRecord, RefreshFamily
<1>5. ASSUME NEW f \in store'.families, f.subject = l.subject, f.client = l.client
      PROVE  f.id > l.family
  BY <1>1, <1>2, <1>4, <1>5, FamilySteps
<1>6. ASSUME NEW th \in Threads, RefreshRotate(th),
             NEW old \in Rotatable(Pruned, now, calls[th].token, calls[th].client),
             calls[th].subject = l.subject, calls[th].client = l.client
      PROVE  old.family > l.family
  <2>1. /\ old \in Pruned.refresh /\ ~old.consumed /\ old.token = calls[th].token
        /\ calls[th].stage = "refreshFound"
    BY <1>6 DEF Rotatable, RefreshRotate, At
  <2>2. PICK f \in Pruned.families : f.id = old.family
    BY <1>6 DEF Rotatable
  <2>3. old \in store.refresh /\ f \in store.families
    BY <2>1, RecordsPruned
  <2>4. old.subject = calls[th].subject /\ old.client = calls[th].client
    BY <2>1, <2>3 DEF LogoutInv
  <2>5. f.subject = old.subject /\ f.client = old.client
    BY <2>1, <2>2, <2>3 DEF LogoutInv, OwnersSound
  <2>6. QED
    BY <1>2, <1>6, <2>2, <2>3, <2>4, <2>5
<1>7. ASSUME NEW a \in store'.access, a.subject = l.subject, a.client = l.client
      PROVE  a.id > l.access /\ (a.family = 0 \/ a.family > l.family)
  <2>1. CASE a \in store.access
    BY <1>2, <1>7, <2>1
  <2>2. CASE serial.access < a.id /\ (a.family = 0 \/ serial.family < a.family)
    BY <1>1, <1>4, <2>2
  <2>3. CASE /\ serial.access < a.id
             /\ \E th \in Threads :
                   /\ RefreshRotate(th)
                   /\ \E old \in Rotatable(Pruned, now, calls[th].token,
                                           calls[th].client) :
                         a.family = old.family
                   /\ a.subject = calls[th].subject
                   /\ a.client = calls[th].client
    <3>1. a.family > l.family
      BY <1>6, <1>7, <2>3
    <3>2. QED
      BY <1>1, <1>4, <2>3, <3>1
  <2>4. QED
    BY <1>7, <2>1, <2>2, <2>3, AccessSteps
<1>8. QED
  BY <1>3, <1>5, <1>7

\* Every step keeps what is known of logouts.
LEMMA LogoutStep ==
    ASSUME HandlerInv, LogoutInv, [Next]_vars
    PROVE  LogoutInv'
<1>1. /\ calls \in [Threads -> Call] /\ Pruned \in StoreType
      /\ serial \in SerialType
      /\ serial.refresh \in Nat /\ serial'.refresh \in Nat
      /\ serial.access \in Nat /\ serial.family \in Nat
  BY PrunedOK, NextOK DEF HandlerInv, HandlerTypes, SerialType
<1>2. ASSUME NEW th \in Threads, calls'[th].stage = "refreshFound"
      PROVE  /\ calls'[th].token <= serial'.refresh
             /\ \A r \in store'.refresh : r.token = calls'[th].token /\ ~r.consumed =>
                   /\ r.subject = calls'[th].subject /\ r.client = calls'[th].client
                   /\ calls'[th].scopes \subseteq r.scopes
  <2>1. CASE calls'[th] = calls[th]
    <3>1. /\ calls[th].token \in Nat /\ calls[th].token <= serial.refresh
          /\ \A r \in store.refresh : r.token = calls[th].token /\ ~r.consumed =>
                /\ r.subject = calls[th].subject /\ r.client = calls[th].client
                /\ calls[th].scopes \subseteq r.scopes
      BY <1>1, <1>2, <2>1 DEF LogoutInv, Call
    <3>2. calls[th].token <= serial'.refresh
      BY <1>1, <3>1, OwnersStep
    <3>3. \A r \in store'.refresh : r.token = calls[th].token /\ ~r.consumed =>
             r \in store.refresh
      BY <1>1, <3>1, OwnersStep
    <3>4. QED
      BY <2>1, <3>1, <3>2, <3>3
  <2>2. CASE calls'[th] # calls[th]
    <3>1. PICK token \in 1 .. serial.refresh : RefreshLookup(th, token)
      BY <1>2, <2>2, StageOrigin
    <3>2. ~Return(th)
      BY <1>1, <1>2, IdleOK DEF Return
    <3>3. PICK r \in TokenRequestByRefreshToken(Pruned, now, token) :
             /\ store' = Pruned /\ serial' = serial
             /\ calls'[th].token = token /\ calls'[th].subject = r.subject
             /\ calls'[th].client = r.client /\ calls'[th].scopes \subseteq r.scopes
      BY <1>1, <3>1, <3>2, RefreshHeld
    <3>4. r \in store'.refresh /\ r.token = calls'[th].token
      BY <3>3 DEF TokenRequestByRefreshToken
    <3>5. \A q \in store'.refresh : q.token = calls'[th].token => q = r
      BY <3>4, OwnersStep DEF OwnersSound
    <3>6. QED
      BY <1>1, <3>1, <3>3, <3>5
  <2>3. QED
    BY <2>1, <2>2
<1>3. ASSUME NEW l \in logouts'
      PROVE  /\ l.access <= serial'.access /\ l.family <= serial'.family
             /\ \A a \in store'.access :
                   a.subject = l.subject /\ a.client = l.client =>
                       a.id > l.access /\ (a.family = 0 \/ a.family > l.family)
             /\ \A f \in store'.families :
                   f.subject = l.subject /\ f.client = l.client => f.id > l.family
  <2>1. CASE l \in logouts
    BY <2>1, LoggedOutStep
  <2>2. CASE l \notin logouts
    <3>1. PICK user \in Users, client \in SPAClients : EndSession(user, client)
      BY <2>2, HistorySteps
    <3>2. /\ store' = TerminateSession(Pruned, user, client) /\ serial' = serial
          /\ l.subject = user /\ l.client = client
          /\ l.access = serial.access /\ l.family = serial.family
      BY <2>2, <3>1 DEF EndSession
    <3>3. QED
      BY <1>1, <3>2, SessionGone
  <2>3. QED
    BY <2>1, <2>2
<1>4. QED
  BY <1>2, <1>3, OwnersStep DEF LogoutInv, LogoutIsFinal

\* No family and no logout at the start.
LEMMA LogoutStart ==
    ASSUME Init
    PROVE  LogoutInv
<1>1. store.refresh = {} /\ store.families = {} /\ logouts = {}
  BY DEF Init, NewStore
<1>2. \A th \in Threads : calls[th].stage = "idle"
  BY IdleOK DEF Init
<1>3. QED
  BY <1>1, <1>2 DEF LogoutInv, OwnersSound, LogoutIsFinal

\* What is known of tokens, refreshes and logouts, in every reachable state.
LEMMA LogoutInvariant == Spec => []LogoutInv
<1>1. Init => LogoutInv
  BY LogoutStart
<1>2. IInv /\ LogoutInv /\ [Next]_vars => LogoutInv'
  BY LogoutStep DEF IInv
<1>3. QED
  BY <1>1, <1>2, InvariantHolds, PTL DEF Spec

\* A logout is final: whatever refresh or exchange it overtakes, no access
\* record and no family of that user and client from before it is seen again.
THEOREM LogoutFinal == Spec => []LogoutIsFinal
<1>1. LogoutInv => LogoutIsFinal
  BY DEF LogoutInv
<1>2. QED
  BY <1>1, LogoutInvariant, PTL

----------------------------------------------------------------------------
(* Scopes. *)

\* Everything that will become a token carries permitted scopes: completed
\* requests, usable refresh tokens, and the requests handlers hold.
ScopesInv ==
    /\ \A r \in store.authRequests : r.done => Permitted(r.client, r.subject, r.scopes)
    /\ \A r \in store.refresh : ~r.consumed => Permitted(r.client, r.subject, r.scopes)
    /\ \A a \in store.access : Permitted(a.client, a.subject, a.scopes)
    /\ \A th \in Threads : calls[th].stage \in {"codeFound", "refreshFound"} =>
          Permitted(calls[th].client, calls[th].subject, calls[th].scopes)

\* The records a step creates carry the scopes of the request it serves.
LEMMA ScopesStored ==
    ASSUME HandlerInv, ScopesInv, [Next]_vars
    PROVE  /\ \A a \in store'.access : Permitted(a.client, a.subject, a.scopes)
           /\ \A r \in store'.refresh : ~r.consumed =>
                 Permitted(r.client, r.subject, r.scopes)
<1>1. Pruned.access \subseteq store.access /\ Pruned.refresh \subseteq store.refresh
  BY RecordsPruned
<1>2. \A t, id, request, family : LET a == NewAccess(t, id, request, family) IN
         a.client = request.client /\ a.subject = request.subject /\ a.scopes = request.scopes
  BY DEF NewAccess
<1>3. \A family, token, id, request : LET r == NewRefresh(family, token, id, request) IN
         r.client = request.client /\ r.subject = request.subject /\ r.scopes = request.scopes
  BY DEF NewRefresh
<1>4. CASE \E s \in {store, Pruned} : \E gone : Drops(s, store', gone)
  <2>1. store'.access \subseteq store.access /\ store'.refresh \subseteq store.refresh
    BY <1>1, <1>4 DEF Drops
  <2>2. QED
    BY <2>1 DEF ScopesInv
<1>5. ASSUME NEW th \in Threads, ExchangeFinish(th)
      PROVE  store'.access = store.access /\ store'.refresh = store.refresh
  BY <1>5, ExchangeFinishFields
<1>6. ASSUME NEW th \in Threads, NEW scopes \in SUBSET Scopes, ServiceToken(th, scopes)
      PROVE  /\ \A a \in store'.access :
                   a \in Pruned.access \/ Permitted(a.client, a.subject, a.scopes)
             /\ store'.refresh = Pruned.refresh
  <2> DEFINE client == calls[th].client
             request == [auth |-> 0, client |-> client, subject |-> client,
                         scopes |-> scopes]
             b == NewAccess(now, serial.access + 1, request, 0)
  <2>1. /\ scopes \subseteq AllowedScopes[client] \cap Permissions[client]
        /\ store'.access = Pruned.access \cup {b}
        /\ store'.refresh = Pruned.refresh
    BY <1>6, ServiceTokenFields
  <2>2. b.client = client /\ b.subject = client /\ b.scopes = scopes
    BY <1>2
  <2> HIDE DEF b, client
  <2>3. Permitted(client, client, scopes)
    BY <2>1, PermittedScopes
  <2>4. QED
    BY <2>1, <2>2, <2>3
<1>7. ASSUME NEW th \in Threads, NEW t, NEW family, NEW token, NEW id,
             calls[th].stage \in {"codeFound", "refreshFound"}
      PROVE  LET a == NewAccess(t, id, RequestOf(calls[th]), family)
                 r == NewRefresh(family, token, id, RequestOf(calls[th])) IN
             /\ Permitted(a.client, a.subject, a.scopes)
             /\ Permitted(r.client, r.subject, r.scopes)
  <2> DEFINE request == RequestOf(calls[th])
  <2>1. Permitted(request.client, request.subject, request.scopes)
    BY <1>7 DEF ScopesInv, RequestOf
  <2> HIDE DEF request
  <2>2. /\ Permitted(NewAccess(t, id, request, family).client,
                     NewAccess(t, id, request, family).subject,
                     NewAccess(t, id, request, family).scopes)
        /\ Permitted(NewRefresh(family, token, id, request).client,
                     NewRefresh(family, token, id, request).subject,
                     NewRefresh(family, token, id, request).scopes)
    BY <1>2, <1>3, <2>1
  <2>3. QED
    BY <2>2 DEF request
<1>8. ASSUME NEW th \in Threads, ExchangeCreate(th)
      PROVE  /\ \A a \in store'.access :
                   a \in Pruned.access \/ Permitted(a.client, a.subject, a.scopes)
             /\ \A r \in store'.refresh :
                   r \in Pruned.refresh \/ Permitted(r.client, r.subject, r.scopes)
  <2>1. calls[th].stage = "codeFound"
    BY <1>8 DEF ExchangeCreate, At
  <2>2. \E t, id, family, token :
           /\ \A a \in store'.access :
                 a \in Pruned.access \/ a = NewAccess(t, id, RequestOf(calls[th]), family)
           /\ \A r \in store'.refresh :
                 r \in Pruned.refresh \/ r = NewRefresh(family, token, id, RequestOf(calls[th]))
    BY <1>8, ExchangeCreateFields
  <2>3. QED
    BY <1>7, <2>1, <2>2
<1>9. ASSUME NEW th \in Threads, RefreshRotate(th)
      PROVE  /\ \A a \in store'.access :
                   a \in Pruned.access \/ Permitted(a.client, a.subject, a.scopes)
             /\ \A r \in store'.refresh : ~r.consumed =>
                   r \in Pruned.refresh \/ Permitted(r.client, r.subject, r.scopes)
  <2> DEFINE request == RequestOf(calls[th])
             token == serial.refresh + 1
             id == serial.access + 1
  <2>1. calls[th].stage = "refreshFound"
    BY <1>9 DEF RefreshRotate, At
  <2>2. PICK old \in Rotatable(Pruned, now, calls[th].token, calls[th].client) :
           Rotates(Pruned, store', now, old, token, id, request)
    BY <1>9, RefreshRotateFields
  <2>3. consumeRefreshRecord(old).consumed
    BY PrunedOK DEF Rotatable, consumeRefreshRecord, StoreType, RefreshRecord
  <2> HIDE DEF request, token, id
  <2>4. /\ \A a \in store'.access :
              a \in Pruned.access \/ a = NewAccess(now, id, request, old.family)
        /\ \A r \in store'.refresh : ~r.consumed =>
              r \in Pruned.refresh \/ r = NewRefresh(old.family, token, id, request)
    BY <2>2, <2>3 DEF Rotates
  <2>5. QED
    BY <1>7, <2>1, <2>4 DEF request
<1>10. QED
  BY <1>1, <1>4, <1>5, <1>6, <1>8, <1>9, StoreSteps DEF ScopesInv

\* A handler takes its scopes from a record.
LEMMA ScopesHeld ==
    ASSUME HandlerInv, ScopesInv, [Next]_vars, NEW th \in Threads,
           calls'[th].stage \in {"codeFound", "refreshFound"}
    PROVE  Permitted(calls'[th].client, calls'[th].subject, calls'[th].scopes)
<1>1. /\ calls \in [Threads -> Call]
      /\ Pruned.authRequests \subseteq store.authRequests
      /\ Pruned.refresh \subseteq store.refresh
  BY RecordsPruned DEF HandlerInv, HandlerTypes
<1>2. CASE calls'[th] = calls[th]
  BY <1>2 DEF ScopesInv
<1>3. ~Return(th)
  BY <1>1, IdleOK DEF Return
<1>4. ASSUME NEW code, ExchangeLookup(th, code)
      PROVE  Permitted(calls'[th].client, calls'[th].subject, calls'[th].scopes)
  <2>1. PICK r \in AuthRequestByCode(Pruned, now, code) :
           /\ calls'[th].client = r.client /\ calls'[th].subject = r.subject
           /\ calls'[th].scopes = r.scopes
    BY <1>1, <1>3, <1>4 DEF ExchangeLookup, Idle
  <2>2. r \in store.authRequests /\ r.done
    BY <1>1 DEF AuthRequestByCode
  <2>3. QED
    BY <2>1, <2>2 DEF ScopesInv
<1>5. ASSUME NEW token, RefreshLookup(th, token)
      PROVE  Permitted(calls'[th].client, calls'[th].subject, calls'[th].scopes)
  <2>1. PICK r \in TokenRequestByRefreshToken(Pruned, now, token) :
           /\ calls'[th].client = r.client /\ calls'[th].subject = r.subject
           /\ calls'[th].scopes \subseteq r.scopes
    BY <1>1, <1>3, <1>5, RefreshHeld
  <2>2. r \in store.refresh /\ ~r.consumed
    BY <1>1 DEF TokenRequestByRefreshToken
  <2>3. Permitted(r.client, r.subject, r.scopes)
    BY <2>2 DEF ScopesInv
  <2>4. QED
    BY <2>1, <2>3, PermittedScopes
<1>6. QED
  BY <1>2, <1>4, <1>5, StageOrigin

\* Every step keeps the scopes permitted.
LEMMA ScopesStep ==
    ASSUME HandlerInv, RequestsSound(store, serial), ScopesInv, [Next]_vars
    PROVE  ScopesInv'
<1>1. store'.authRequests \subseteq store.authRequests
  BY RequestsStaySound
<1>2. \A r \in store'.authRequests : r.done => Permitted(r.client, r.subject, r.scopes)
  BY <1>1 DEF ScopesInv
<1>3. QED
  BY <1>2, ScopesStored, ScopesHeld DEF ScopesInv

\* The sign-ins that precede were granted permitted scopes.
LEMMA ScopesStart ==
    ASSUME Init
    PROVE  ScopesInv
<1>1. PICK client \in [1 .. Sessions -> SPAClients],
           user \in [1 .. Sessions -> Users],
           scopes \in [1 .. Sessions -> Grants] :
        store = [NewStore EXCEPT
            !.authRequests = {SignedIn(i, client[i], user[i], scopes[i]) :
                              i \in 1 .. Sessions},
            !.codes = {SavedCode(i) : i \in 1 .. Sessions},
            !.nextExpiry = IF Sessions = 0 THEN 0 ELSE 1 + AuthTTL]
  BY DEF Init
<1>2. \A i, c, u, some : LET r == SignedIn(i, c, u, some) IN
        Permitted(r.client, r.subject, r.scopes)
  BY PermittedScopes DEF SignedIn
<1>3. store.access = {} /\ store.refresh = {}
  BY DEF Init, NewStore
<1>4. \A th \in Threads : calls[th].stage = "idle"
  BY IdleOK DEF Init
<1>5. store.authRequests = {SignedIn(i, client[i], user[i], scopes[i]) :
                            i \in 1 .. Sessions}
  BY <1>1 DEF NewStore
<1>6. \A r \in store.authRequests : Permitted(r.client, r.subject, r.scopes)
  BY <1>2, <1>5
<1>7. QED
  BY <1>3, <1>4, <1>6 DEF ScopesInv

\* A token carries no scope outside its client's allow-list and no custom
\* scope its subject has no permission for, however often it was narrowed and
\* rotated.
THEOREM ScopesPermitted == Spec => []TokenScopesAllowed
<1>1. Init => ScopesInv
  BY ScopesStart
<1>2. IInv /\ RequestInv /\ ScopesInv /\ [Next]_vars => ScopesInv'
  BY ScopesStep DEF IInv, RequestInv
<1>3. ScopesInv => TokenScopesAllowed
  BY DEF ScopesInv, Permitted, TokenScopesAllowed
<1>4. QED
  BY <1>1, <1>2, <1>3, InvariantHolds, RequestInvariant, PTL DEF Spec

----------------------------------------------------------------------------
(* Sharing the store with the sign-in handlers of the realm.               *)

\* The code that was redeemed, or is about to be, is that of a request which
\* was created before and had a code already, so no sign-in step changes it;
\* and every redemption has drawn its access token.
Grounded ==
    /\ \A p \in redeemed :
          /\ p[1] <= serial.request /\ p[2] <= serial.access
          /\ \A r \in store.authRequests : r.id = p[1] => r.code # 0
    /\ \A th \in Threads : calls[th].stage = "codeFound" =>
          /\ calls[th].auth <= serial.request
          /\ \A r \in store.authRequests : r.id = calls[th].auth => r.code # 0

\* What the token handlers keep, whoever else works on the store.
TokenInv ==
    /\ HandlerInv
    /\ ExchangeInv
    /\ RequestInv
    /\ LogoutInv
    /\ ScopesInv
    /\ RevokeInv
    /\ Grounded

\* The request an exchange finds is completed and has a code, and the exchange
\* is for its user.
Found(th) ==
    \E r \in store.authRequests :
        /\ r.done /\ r.code # 0
        /\ r.id = calls'[th].auth /\ r.subject = calls'[th].subject

\* A lookup that succeeds found such a request.
LEMMA LookupFinds ==
    ASSUME HandlerInv, RequestsSound(store, serial), [Next]_vars, NEW th \in Threads,
           calls'[th].stage = "codeFound", calls'[th] # calls[th]
    PROVE  Found(th)
<1>1. /\ calls \in [Threads -> Call] /\ Pruned.authRequests \subseteq store.authRequests
      /\ Pruned.codes \subseteq store.codes
  BY PrunedOK DEF HandlerInv, HandlerTypes
<1>2. PICK code : ExchangeLookup(th, code)
  BY StageOrigin
<1>3. PICK r \in AuthRequestByCode(Pruned, now, code) :
          calls'[th].auth = r.id /\ calls'[th].subject = r.subject
  BY <1>1, <1>2, IdleOK DEF ExchangeLookup, Return, Idle
<1>4. PICK c \in Pruned.codes : c.requestID = r.id
  BY DEF AuthRequestByCode
<1>5. r \in store.authRequests /\ r.done
  BY <1>1 DEF AuthRequestByCode
<1>6. 0 < c.code /\ \E q \in store.authRequests : q.id = r.id /\ q.code = c.code
  BY <1>1, <1>4 DEF RequestsSound, CodesOwned
<1>7. r.code = c.code
  BY <1>5, <1>6 DEF RequestsSound
<1>8. QED
  BY <1>3, <1>5, <1>6, <1>7 DEF Found

\* A redemption is of the request its thread found, and takes the next number.
LEMMA RedeemedSteps ==
    ASSUME HandlerInv, [Next]_vars, NEW p \in redeemed', p \notin redeemed
    PROVE  \E th \in Threads :
              /\ calls[th].stage = "codeFound" /\ p[1] = calls[th].auth
              /\ p[2] = serial.access + 1 /\ serial'.access = serial.access + 1
              /\ \A a \in store'.access : a.id = p[2] => a.subject = calls[th].subject
<1>1. PICK th \in Threads : ExchangeCreate(th)
  BY HistorySteps
<1>2. p = <<calls[th].auth, serial.access + 1>>
  BY <1>1 DEF ExchangeCreate, RequestOf
<1>3. calls[th].stage = "codeFound"
  BY <1>1 DEF ExchangeCreate, At
<1>4. /\ serial'.access = serial.access + 1
      /\ \E family : store'.access = Pruned.access \cup
             {NewAccess(now, serial.access + 1, RequestOf(calls[th]), family)}
  BY <1>1, ExchangeCreateFields
<1>5. \A family : NewAccess(now, serial.access + 1, RequestOf(calls[th]), family).subject
                  = calls[th].subject
  BY DEF NewAccess, RequestOf
<1>6. \A a \in Pruned.access : a.id # serial.access + 1
  BY PrunedOK DEF HandlerInv, HandlerTypes, SerialType, StoreType, AccessRecord,
     Consistent, Drawn
<1>7. QED
  BY <1>2, <1>3, <1>4, <1>5, <1>6

\* Every step of the token handlers keeps it so.
LEMMA GroundedStep ==
    ASSUME HandlerInv, RequestsSound(store, serial), Grounded, [Next]_vars
    PROVE  Grounded'
<1>1. /\ serial \in SerialType /\ serial' \in SerialType
      /\ serial'.request = serial.request /\ serial.access <= serial'.access
      /\ store'.authRequests \subseteq store.authRequests
      /\ redeemed \subseteq Nat \X Nat
  BY RequestSteps, RequestsStaySound, AccessSteps DEF HandlerInv, HandlerTypes
<1>2. ASSUME NEW p \in redeemed'
      PROVE  /\ p[1] <= serial'.request /\ p[2] <= serial'.access
             /\ \A r \in store'.authRequests : r.id = p[1] => r.code # 0
  <2>1. CASE p \in redeemed
    BY <1>1, <2>1 DEF Grounded, SerialType
  <2>2. CASE p \notin redeemed
    BY <1>1, <2>2, RedeemedSteps DEF Grounded, SerialType
  <2>3. QED
    BY <2>1, <2>2
<1>3. ASSUME NEW th \in Threads, calls'[th].stage = "codeFound"
      PROVE  /\ calls'[th].auth <= serial'.request
             /\ \A r \in store'.authRequests : r.id = calls'[th].auth => r.code # 0
  <2>1. CASE calls'[th] = calls[th]
    BY <1>1, <1>3, <2>1 DEF Grounded
  <2>2. CASE calls'[th] # calls[th]
    BY <1>1, <1>3, <2>2, LookupFinds DEF Found, RequestsSound, RequestSound
  <2>3. QED
    BY <2>1, <2>2
<1>4. QED
  BY <1>2, <1>3 DEF Grounded

\* The invariant holds at the start, and every step of the token handlers
\* keeps it.
LEMMA TokenStart ==
    ASSUME Init
    PROVE  TokenInv
<1>1. redeemed = {} /\ \A th \in Threads : calls[th].stage = "idle"
  BY IdleOK DEF Init
<1>2. Grounded /\ RevokeInv
  BY <1>1 DEF Grounded, RevokeInv
<1>3. QED
  BY <1>2, InitOK, ExchangeStart, RequestStart, LogoutStart, ScopesStart DEF TokenInv

\* One step of the specification.
LEMMA TokenStep ==
    ASSUME TokenInv, [Next]_vars
    PROVE  TokenInv'
BY NextOK, ExchangeStep, RequestStep, LogoutStep, ScopesStep, RevokeStep, GroundedStep
DEF TokenInv, RequestInv

\* A request that an exchange relies on is, after a sign-in step, gone or as
\* it was.
LEMMA RequestUntouched ==
    ASSUME RequestsSound(store, serial), SignInStep, NEW id, id <= serial.request,
           \A r \in store.authRequests : r.id = id => r.code # 0,
           serial.request \in Nat, store' \in StoreType,
           NEW q \in store'.authRequests, q.id = id
    PROVE  q \in store.authRequests /\ q.code # 0
<1>1. ~Fresh(q, serial)
  BY DEF Fresh, StoreType, AuthRequest
<1>2. \A r \in store.authRequests : ~Signs(r, q, serial, serial')
  BY DEF Signs
<1>3. QED
  BY <1>1, <1>2 DEF SignInStep, SignInChange

\* The token handlers rely on no more of the sign-in handlers than what
\* SignInStep says of them.
LEMMA TokenRely ==
    ASSUME TokenInv, SignInStep, UNCHANGED tokenVars,
           store' \in StoreType, serial' \in SerialType, now' \in Nat \ {0},
           Consistent(store', serial'), RequestsSound(store', serial')
    PROVE  TokenInv'
<1>1. /\ store \in StoreType /\ serial \in SerialType /\ now \in Nat
      /\ RequestsSound(store, serial) /\ CodesApart(store)
      /\ calls \in [Threads -> Call] /\ redeemed \subseteq Nat \X Nat
  BY DEF TokenInv, HandlerInv, HandlerTypes, RequestInv, CodesApart
<1>2. UNCHANGED <<calls, started, audienceTaken, responses, redeemed, logouts>>
  BY DEF tokenVars
<1>3. /\ serial.request \in Nat /\ serial.code \in Nat
      /\ serial.request <= serial'.request
      /\ serial'.access = serial.access /\ serial'.refresh = serial.refresh
      /\ serial'.family = serial.family
      /\ store'.access \subseteq store.access /\ store'.families \subseteq store.families
      /\ store'.refresh \subseteq store.refresh /\ now <= now'
      /\ \A r \in store.refresh : r.family \in FamilyIDs(store') => r \in store'.refresh
  BY <1>1 DEF SerialType, SignInStep, SignInChange, OnlyLapses
<1>4. /\ \A r \in store.authRequests : r.code \in Nat /\ r.code <= serial.code
      /\ \A r \in store'.authRequests : r.id \in Nat
  BY <1>1 DEF RequestsSound, RequestSound, StoreType, AuthRequest
<1>5. \A q \in store'.authRequests : q.code # 0 =>
         q \in store.authRequests \/ q.code = serial.code + 1
  BY DEF SignInStep, SignInChange, Fresh, Signs
<1>6. RedeemedSpent'
  <2> SUFFICES ASSUME NEW p \in redeemed, NEW c \in store'.codes,
                      OwnsCode(store', p[1], c)
               PROVE  c.reserved
    BY <1>2 DEF RedeemedSpent, Spent
  <2>1. PICK q \in store'.authRequests : q.id = p[1] /\ q.code # 0 /\ q.code = c.code
    BY DEF OwnsCode
  <2>2. q \in store.authRequests
    BY <1>1, <1>3, <2>1, RequestUntouched DEF TokenInv, Grounded
  <2>3. c.code # serial.code + 1
    BY <1>3, <1>4, <2>1, <2>2
  <2>4. c \in store.codes
    BY <2>3 DEF SignInStep, SignInChange
  <2>5. OwnsCode(store, p[1], c)
    BY <2>1, <2>2, <2>4 DEF OwnsCode
  <2>6. QED
    BY <2>4, <2>5 DEF TokenInv, HandlerInv, RedeemedSpent, Spent
<1>7. HandlerInv'
  <2>1. /\ started \in 0 .. MaxCalls /\ audienceTaken \subseteq Nat
        /\ responses \subseteq Response /\ logouts \subseteq Logout
        /\ \A th \in Threads : CallReady(calls[th])
        /\ CodeRedeemedOnce
    BY DEF TokenInv, HandlerInv, HandlerTypes
  <2>2. HandlerTypes'
    BY <1>1, <1>2, <2>1 DEF HandlerTypes
  <2>3. CodeRedeemedOnce'
    BY <1>2, <2>1 DEF CodeRedeemedOnce
  <2>4. QED
    BY <1>2, <1>6, <2>1, <2>2, <2>3 DEF HandlerInv
<1>8. ExchangeInv'
  BY <1>2 DEF TokenInv, ExchangeInv, At, AudienceOrder
<1>9. CodesApart(store')
  <2> SUFFICES ASSUME NEW q \in store'.authRequests, NEW r \in store'.authRequests,
                      q.code # 0, q.code = r.code
               PROVE  q = r
    BY DEF CodesApart
  <2>1. CASE q.code = serial.code + 1
    BY <2>1 DEF SignInStep, SignInChange
  <2>2. CASE q.code # serial.code + 1
    BY <1>1, <1>5, <2>2 DEF CodesApart
  <2>3. QED
    BY <2>1, <2>2
<1>10. ASSUME NEW th \in Threads, calls[th].stage \in Winning \cup {"codeFound"}
       PROVE  /\ calls[th].auth <= serial.request
              /\ \A r \in store.authRequests : r.id = calls[th].auth => r.code # 0
  BY <1>10 DEF TokenInv, ExchangeInv, Grounded
<1>11. ASSUME NEW th \in Threads, NEW r \in store'.authRequests,
              calls[th].stage \in Winning \cup {"codeFound"}, r.id = calls[th].auth
       PROVE  r.expires = calls[th].deadline
  <2>1. r \in store.authRequests
    BY <1>1, <1>3, <1>10, <1>11, RequestUntouched
  <2>2. QED
    BY <1>11, <2>1 DEF TokenInv, RequestInv
<1>12. WinnerKeepsItsRequest'
  <2> SUFFICES ASSUME NEW th \in Threads, calls[th].stage \in Winning,
                      ~(calls[th].deadline <= now')
               PROVE  DeleteAuthRequestOK(store', calls[th].auth)
    BY <1>2 DEF WinnerKeepsItsRequest, Winning
  <2>1. calls[th].deadline \in Nat /\ now < calls[th].deadline /\ now' \in Nat
    BY <1>1, <1>3 DEF Call
  <2>2. PICK c \in store.codes : OwnsCode(store, calls[th].auth, c) /\ c.reserved
    <3>1. ~(calls[th].deadline <= now)
      BY <1>1, <2>1
    <3>2. DeleteAuthRequestOK(store, calls[th].auth)
      BY <3>1 DEF TokenInv, RequestInv, WinnerKeepsItsRequest, Winning
    <3>3. QED
      BY <3>2 DEF DeleteAuthRequestOK
  <2>3. PICK r \in store.authRequests :
            r.id = calls[th].auth /\ r.code # 0 /\ r.code = c.code
    BY <2>2 DEF OwnsCode
  <2>4. r.expires = calls[th].deadline
    BY <2>3 DEF TokenInv, RequestInv
  <2>5. r \in store'.authRequests /\ c \in store'.codes
    BY <2>1, <2>2, <2>3, <2>4 DEF SignInStep, SignInChange, OnlyLapses, OwnsCode
  <2>6. QED
    BY <2>2, <2>3, <2>5 DEF OwnsCode, DeleteAuthRequestOK
<1>13. RequestInv'
  BY <1>2, <1>9, <1>11, <1>12 DEF RequestInv, CodesApart
<1>14. LogoutInv'
  <2>1. OwnersSound(store')
    BY <1>3, OwnersSubset DEF TokenInv, LogoutInv
  <2>2. LogoutIsFinal'
    BY <1>2, <1>3 DEF TokenInv, LogoutInv, LogoutIsFinal
  <2>3. QED
    BY <1>2, <1>3, <2>1, <2>2 DEF TokenInv, LogoutInv
<1>15. ScopesInv'
  <2>1. ASSUME NEW q \in store'.authRequests, q.done
        PROVE  Permitted(q.client, q.subject, q.scopes)
    BY <2>1 DEF SignInStep, SignInChange, Fresh, Signs, TokenInv, ScopesInv
  <2>2. QED
    BY <1>2, <1>3, <2>1 DEF TokenInv, ScopesInv
<1>16. RevokeInv'
  BY <1>2, <1>3 DEF TokenInv, RevokeInv, FamilyIDs
<1>17. Grounded'
  <2>1. ASSUME NEW p \in redeemed
        PROVE  /\ p[1] <= serial'.request /\ p[2] <= serial'.access
               /\ \A r \in store'.authRequests : r.id = p[1] => r.code # 0
    <3>1. p[1] <= serial.request /\ p[2] <= serial.access /\ p[1] \in Nat
      BY <1>1 DEF TokenInv, Grounded
    <3>2. \A r \in store.authRequests : r.id = p[1] => r.code # 0
      BY DEF TokenInv, Grounded
    <3>3. QED
      BY <1>1, <1>3, <3>1, <3>2, RequestUntouched DEF SerialType
  <2>2. ASSUME NEW th \in Threads, calls[th].stage = "codeFound"
        PROVE  /\ calls[th].auth <= serial'.request
               /\ \A r \in store'.authRequests : r.id = calls[th].auth => r.code # 0
    <3>1. calls[th].auth <= serial.request /\ calls[th].auth \in Nat
      BY <1>1, <1>10, <2>2 DEF Call
    <3>2. QED
      BY <1>1, <1>3, <1>10, <2>2, <3>1, RequestUntouched DEF SerialType
  <2>3. QED
    BY <1>2, <2>1, <2>2 DEF Grounded
<1>18. QED
  BY <1>7, <1>8, <1>13, <1>14, <1>15, <1>16, <1>17 DEF TokenInv

----------------------------------------------------------------------------
(* The handlers implement TokenGrants: seen through the refinement mapping *)
(* of GrantsOfStore, every step is a step of the grants or changes nothing. *)
(* First the mapping. *)

\* A grant of the store is a family with its usable record.
LEMMA FamilyOf ==
    ASSUME NEW s
    PROVE  \A x : x \in FamiliesOf(s) <=>
              \E f \in s.families, r \in s.refresh :
                  r.family = f.id /\ ~r.consumed /\ x = Current(f, r)
<1> DEFINE joined == {q \in s.families \X s.refresh : q[2].family = q[1].id /\ ~q[2].consumed}
<1>1. ASSUME NEW x \in FamiliesOf(s)
      PROVE  \E f \in s.families, r \in s.refresh :
                 r.family = f.id /\ ~r.consumed /\ x = Current(f, r)
  <2>1. PICK p \in joined : x = Current(p[1], p[2])
    BY <1>1 DEF FamiliesOf
  <2>2. QED
    BY <2>1
<1>2. ASSUME NEW f \in s.families, NEW r \in s.refresh, r.family = f.id, ~r.consumed
      PROVE  Current(f, r) \in FamiliesOf(s)
  <2>1. <<f, r>> \in joined
    BY <1>2
  <2>2. \E p \in joined : Current(f, r) = Current(p[1], p[2])
    BY <2>1
  <2>3. QED
    BY <2>2 DEF FamiliesOf
<1>3. QED
  BY <1>1, <1>2

\* Fewer records stand for fewer grants.
LEMMA FewerFamilies ==
    ASSUME NEW s, NEW n, n.families \subseteq s.families, n.refresh \subseteq s.refresh
    PROVE  FamiliesOf(n) \subseteq FamiliesOf(s)
BY DEF FamiliesOf

\* Fewer access records stand for fewer grants.
LEMMA FewerAccess ==
    ASSUME NEW s, NEW n, n.access \subseteq s.access
    PROVE  AccessOf(n) \subseteq AccessOf(s)
BY DEF AccessOf

\* The grant an access record stands for.
Seen(a) == [id |-> a.id, client |-> a.client, subject |-> a.subject,
            scopes |-> a.scopes, expires |-> a.expires]

\* A new access record is one new grant.
LEMMA AccessSeen ==
    ASSUME NEW s, NEW n, NEW b, n.access \subseteq s.access \cup {b}, b \in n.access
    PROVE  /\ Seen(b) \in AccessOf(n)
           /\ AccessOf(n) \ {Seen(b)} \subseteq AccessOf(s)
BY DEF AccessOf, Seen

\* Codes that can be redeemed only get fewer with requests, codes and
\* reservations.
LEMMA FewerCodes ==
    ASSUME NEW s, NEW n,
           n.authRequests \subseteq s.authRequests, n.codes \subseteq s.codes
    PROVE  RedeemableOf(n) \subseteq RedeemableOf(s)
BY DEF RedeemableOf, OwnsCode

\* A reserved code can no longer be redeemed; the others stay as they were.
LEMMA ReservedCodes ==
    ASSUME NEW s \in StoreType, NEW request
    PROVE  LET m == reserveAuthorizationCodeLocked(s, request) IN
           RedeemableOf(m) \subseteq RedeemableOf(s)
<1> DEFINE m == reserveAuthorizationCodeLocked(s, request)
           mark(c) == IF request.auth # 0 /\ OwnsCode(s, request.auth, c)
                      THEN [c EXCEPT !.reserved = TRUE] ELSE c
<1>1. m.authRequests = s.authRequests /\ m.codes = {mark(c) : c \in s.codes}
  BY DEF StoreType, reserveAuthorizationCodeLocked
<1>2. \A c \in s.codes : mark(c).reserved \/ mark(c) = c
  BY DEF StoreType, CodeRecord
<1> HIDE DEF m, mark
<1>3. QED
  BY <1>1, <1>2 DEF RedeemableOf, OwnsCode, m

\* The codes that can be redeemed depend on requests and codes only.
LEMMA SameCodes ==
    ASSUME NEW s, NEW n, n.authRequests = s.authRequests, n.codes = s.codes
    PROVE  RedeemableOf(n) = RedeemableOf(s)
BY DEF RedeemableOf, OwnsCode

\* Reserving the code of a request makes it one fewer: no other record can
\* be redeemed under it.
LEMMA ReservedOne ==
    ASSUME NEW s \in StoreType, NEW request, request.auth # 0, reserveOK(s, request),
           \A r, q \in s.authRequests : r.code # 0 /\ r.code = q.code => r = q
    PROVE  LET m == reserveAuthorizationCodeLocked(s, request) IN
           RedeemableOf(m) # RedeemableOf(s)
<1> DEFINE m == reserveAuthorizationCodeLocked(s, request)
           mark(c) == IF request.auth # 0 /\ OwnsCode(s, request.auth, c)
                      THEN [c EXCEPT !.reserved = TRUE] ELSE c
<1>1. m.authRequests = s.authRequests /\ m.codes = {mark(c) : c \in s.codes}
  BY DEF StoreType, reserveAuthorizationCodeLocked
<1>2. \A c \in s.codes : /\ mark(c).code = c.code /\ mark(c).requestID = c.requestID
                         /\ OwnsCode(s, request.auth, c) => mark(c).reserved
  BY DEF StoreType, CodeRecord
<1> HIDE DEF m, mark
<1>3. PICK c \in s.codes : OwnsCode(s, request.auth, c) /\ ~c.reserved
  BY DEF reserveOK
<1>4. PICK r \in s.authRequests : r.id = request.auth /\ r.code # 0 /\ r.code = c.code
  BY <1>3 DEF OwnsCode
<1>5. c.code \in RedeemableOf(s)
  BY <1>3 DEF RedeemableOf, OwnsCode
<1>6. ASSUME NEW x \in m.codes, ~x.reserved, OwnsCode(m, x.requestID, x), x.code = c.code
      PROVE  FALSE
  <2>1. PICK y \in s.codes : x = mark(y)
    BY <1>1
  <2>2. PICK q \in s.authRequests : q.id = y.requestID /\ q.code # 0 /\ q.code = y.code
    BY <1>1, <1>2, <1>6, <2>1 DEF OwnsCode
  <2>3. q = r
    BY <1>2, <1>4, <1>6, <2>1, <2>2
  <2>4. OwnsCode(s, request.auth, y)
    BY <1>4, <2>2, <2>3 DEF OwnsCode
  <2>5. QED
    BY <1>2, <1>6, <2>1, <2>4
<1>7. c.code \notin RedeemableOf(m)
  BY <1>6 DEF RedeemableOf
<1>8. QED
  BY <1>5, <1>7 DEF m

----------------------------------------------------------------------------
(* What all steps have in common. *)

\* No step takes a code or a moment back.
LEMMA SharedSteps ==
    ASSUME HandlerInv, [Next]_vars
    PROVE  /\ now <= now'
           /\ serial'.code = serial.code
           /\ RedeemableOf(store') \subseteq RedeemableOf(store)
<1>1. /\ store \in StoreType /\ Pruned \in StoreType
      /\ Pruned.codes \subseteq store.codes
      /\ Pruned.authRequests \subseteq store.authRequests
  BY PrunedOK DEF HandlerInv, HandlerTypes
<1>2. RedeemableOf(Pruned) \subseteq RedeemableOf(store)
  BY <1>1, FewerCodes
<1>3. ASSUME NEW s \in {store, Pruned},
             store'.authRequests = s.authRequests, store'.codes = s.codes
      PROVE  RedeemableOf(store') \subseteq RedeemableOf(store)
  BY <1>2, <1>3, SameCodes
<1>4. ASSUME NEW request, store'.authRequests = Pruned.authRequests,
             store'.codes = reserveAuthorizationCodeLocked(Pruned, request).codes
      PROVE  RedeemableOf(store') \subseteq RedeemableOf(store)
  <2> DEFINE m == reserveAuthorizationCodeLocked(Pruned, request)
  <2>1. m.authRequests = Pruned.authRequests
    BY <1>1, ReserveFields
  <2>2. RedeemableOf(m) \subseteq RedeemableOf(Pruned)
    BY <1>1, ReservedCodes
  <2> HIDE DEF m
  <2>3. RedeemableOf(store') = RedeemableOf(m)
    BY <1>4, <2>1, SameCodes DEF m
  <2>4. QED
    BY <1>2, <2>2, <2>3
<1>5. ASSUME NEW id, store' = DeleteAuthRequest(store, id)
      PROVE  RedeemableOf(store') \subseteq RedeemableOf(store)
  <2>1. store'.authRequests \subseteq store.authRequests /\ store'.codes \subseteq store.codes
    BY <1>1, <1>5 DEF StoreType, DeleteAuthRequest
  <2>2. QED
    BY <2>1, FewerCodes
<1>6. QED
  BY <1>3, <1>4, <1>5, RequestSteps, ClockStep

\* A family with time left and its records survive the prune.
LEMMA LiveKept ==
    ASSUME HandlerInv, NEW f \in store.families, NEW r \in store.refresh,
           r.family = f.id, ~(f.expires <= now)
    PROVE  f \in Pruned.families /\ r \in Pruned.refresh
<1>1. /\ store \in StoreType /\ serial \in SerialType /\ now \in Nat
      /\ Consistent(store, serial)
  BY DEF HandlerInv, HandlerTypes
<1>2. Pruned.families = {x \in store.families : now < x.expires}
  BY <1>1, PruneFields DEF Pruned
<1>3. f.expires \in Nat
  BY <1>1 DEF StoreType, RefreshFamily
<1>4. f \in Pruned.families
  BY <1>1, <1>2, <1>3
<1>5. QED
  BY <1>4, RecordsPruned DEF FamilyIDs

\* The families end whole: one with time left is found again, or no access
\* record of its usable token is left.
LEMMA EndWhole ==
    ASSUME HandlerInv,
           \A f \in Pruned.families, r \in Pruned.refresh :
               r.family = f.id /\ ~r.consumed =>
                   \/ \E g \in store'.families, q \in store'.refresh :
                         g.id = f.id /\ q.family = g.id /\ ~q.consumed
                   \/ \A a \in store'.access : a.id # r.accessID
    PROVE  Abstract!EndsWhole
<1> SUFFICES ASSUME NEW x \in FamiliesOf(store), ~(x.expires <= now)
             PROVE  \/ \E y \in FamiliesOf(store') : y.id = x.id
                    \/ \A b \in AccessOf(store') : b.id # x.access
  BY DEF Abstract!EndsWhole
<1>1. PICK f \in store.families, r \in store.refresh :
         r.family = f.id /\ ~r.consumed /\ x = Current(f, r)
  BY FamilyOf
<1>2. x.id = f.id /\ x.expires = f.expires /\ x.access = r.accessID
  BY <1>1 DEF Current
<1>3. f \in Pruned.families /\ r \in Pruned.refresh
  BY <1>1, <1>2, LiveKept
<1>4. CASE \E g \in store'.families, q \in store'.refresh :
              g.id = f.id /\ q.family = g.id /\ ~q.consumed
  <2>1. PICK g \in store'.families, q \in store'.refresh :
           g.id = f.id /\ q.family = g.id /\ ~q.consumed
    BY <1>4
  <2>2. Current(g, q) \in FamiliesOf(store') /\ Current(g, q).id = g.id
    BY <2>1, FamilyOf DEF Current
  <2>3. QED
    BY <1>2, <2>1, <2>2
<1>5. CASE \A a \in store'.access : a.id # r.accessID
  <2>1. \A b \in AccessOf(store') : b.id # r.accessID
    BY <1>5 DEF AccessOf
  <2>2. QED
    BY <1>2, <2>1
<1>6. QED
  BY <1>1, <1>3, <1>4, <1>5

----------------------------------------------------------------------------
(* Each step is a step of the grants. *)

\* Pruning and revoking retire grants.
LEMMA DropsRetires ==
    ASSUME HandlerInv, [Next]_vars, serial' = serial, NEW s \in {store, Pruned},
           NEW gone, Drops(s, store', gone)
    PROVE  Abstract!Next
<1>1. /\ Pruned.families \subseteq store.families /\ Pruned.refresh \subseteq store.refresh
      /\ Pruned.access \subseteq store.access
  BY RecordsPruned
<1>2. /\ store'.families \subseteq store.families /\ store'.refresh \subseteq store.refresh
      /\ store'.access \subseteq store.access
  BY <1>1 DEF Drops
<1>3. /\ FamiliesOf(store') \subseteq FamiliesOf(store)
      /\ AccessOf(store') \subseteq AccessOf(store)
  BY <1>2, FewerFamilies, FewerAccess
<1>4. Abstract!Retire
  BY <1>3, SharedSteps DEF Abstract!Retire, Abstract!Lapse, DrawnOf
<1>5. Abstract!EndsWhole
  <2>1. ASSUME NEW f \in Pruned.families, NEW r \in Pruned.refresh,
               r.family = f.id, ~r.consumed
        PROVE  \/ \E g \in store'.families, q \in store'.refresh :
                     g.id = f.id /\ q.family = g.id /\ ~q.consumed
               \/ \A a \in store'.access : a.id # r.accessID
    <3>1. f \in s.families /\ r \in s.refresh
      BY <1>1, <2>1
    <3>2. CASE f.id \in gone
      BY <2>1, <3>1, <3>2 DEF Drops
    <3>3. CASE f.id \notin gone
      BY <2>1, <3>1, <3>3 DEF Drops
    <3>4. QED
      BY <3>2, <3>3
  <2>2. QED
    BY <2>1, EndWhole
<1>6. QED
  BY <1>4, <1>5, SharedSteps DEF Abstract!Next, Abstract!Step

\* The end of an exchange lets its code lapse.
LEMMA FinishRetires ==
    ASSUME HandlerInv, [Next]_vars, NEW th \in Threads, ExchangeFinish(th)
    PROVE  Abstract!Next
<1>1. /\ serial' = serial /\ store'.access = store.access
      /\ store'.refresh = store.refresh /\ store'.families = store.families
  BY ExchangeFinishFields
<1>2. /\ FamiliesOf(store') \subseteq FamiliesOf(store)
      /\ AccessOf(store') \subseteq AccessOf(store)
  BY <1>1, FewerFamilies, FewerAccess
<1>3. Abstract!Retire
  BY <1>1, <1>2, SharedSteps DEF Abstract!Retire, Abstract!Lapse, DrawnOf
<1>4. Abstract!EndsWhole
  BY <1>1, RecordsPruned, EndWhole
<1>5. QED
  BY <1>3, <1>4, SharedSteps DEF Abstract!Next, Abstract!Step

\* The next access record is the next access grant.
LEMMA AccessGranted ==
    ASSUME HandlerInv, NEW t, NEW request, NEW family,
           store'.access \subseteq Pruned.access
                          \cup {NewAccess(t, serial.access + 1, request, family)},
           NewAccess(t, serial.access + 1, request, family) \in store'.access
    PROVE  \E a \in AccessOf(store') :
              /\ \A scopes : request.scopes \subseteq scopes => Abstract!NextAccess(a, scopes)
              /\ a.id = serial.access + 1 /\ a.scopes = request.scopes
              /\ a.client = request.client /\ a.subject = request.subject
<1> DEFINE b == NewAccess(t, serial.access + 1, request, family)
<1>1. /\ Seen(b).id = serial.access + 1 /\ Seen(b).scopes = request.scopes
      /\ Seen(b).client = request.client /\ Seen(b).subject = request.subject
  BY DEF NewAccess, Seen
<1> HIDE DEF b
<1>2. store'.access \subseteq store.access \cup {b} /\ b \in store'.access
  BY RecordsPruned DEF b
<1>3. Seen(b) \in AccessOf(store') /\ AccessOf(store') \ {Seen(b)} \subseteq AccessOf(store)
  BY <1>2, AccessSeen
<1>4. ASSUME NEW scopes, request.scopes \subseteq scopes
      PROVE  Abstract!NextAccess(Seen(b), scopes)
  BY <1>1, <1>3, <1>4 DEF Abstract!NextAccess, DrawnOf
<1>5. QED
  BY <1>1, <1>3, <1>4

\* A service's token is granted to itself.
LEMMA ServiceGrants ==
    ASSUME HandlerInv, [Next]_vars, NEW th \in Threads, NEW scopes \in SUBSET Scopes,
           ServiceToken(th, scopes)
    PROVE  Abstract!Next
<1> DEFINE request == [auth |-> 0, client |-> calls[th].client,
                       subject |-> calls[th].client, scopes |-> scopes]
<1>1. /\ serial'.family = serial.family /\ serial'.refresh = serial.refresh
      /\ serial'.access = serial.access + 1
      /\ store'.access = Pruned.access \cup
                             {NewAccess(now, serial.access + 1, request, 0)}
      /\ store'.refresh = Pruned.refresh /\ store'.families = Pruned.families
  BY ServiceTokenFields
<1>2. request.subject = request.client
  OBVIOUS
<1> HIDE DEF request
<1>3. FamiliesOf(store') \subseteq FamiliesOf(store)
  BY <1>1, RecordsPruned, FewerFamilies
<1>4. PICK a \in AccessOf(store') :
         /\ \A x : request.scopes \subseteq x => Abstract!NextAccess(a, x)
         /\ a.id = serial.access + 1 /\ a.scopes = request.scopes
         /\ a.client = request.client /\ a.subject = request.subject
  BY <1>1, AccessGranted
<1>5. Abstract!NextAccess(a, a.scopes) /\ a.subject = a.client
  BY <1>2, <1>4
<1>6. DrawnOf(serial') = [DrawnOf(serial) EXCEPT !.access = @ + 1]
  BY <1>1, SharedSteps DEF DrawnOf
<1>7. Abstract!GrantService
  BY <1>3, <1>5, <1>6, SharedSteps DEF Abstract!GrantService, Abstract!Lapse
<1>8. Abstract!EndsWhole
  BY <1>1, EndWhole
<1>9. QED
  BY <1>7, <1>8, SharedSteps DEF Abstract!Next, Abstract!Step

\* An exchange uses up its code.
LEMMA ExchangeRedeems ==
    ASSUME HandlerInv, RequestInv, NEW th \in Threads, ExchangeCreate(th)
    PROVE  RedeemableOf(store') # RedeemableOf(store)
<1> DEFINE request == RequestOf(calls[th])
           m == reserveAuthorizationCodeLocked(Pruned, request)
<1>1. /\ store \in StoreType /\ Pruned \in StoreType
      /\ Pruned.codes \subseteq store.codes
      /\ Pruned.authRequests \subseteq store.authRequests
  BY PrunedOK DEF HandlerInv, HandlerTypes
<1>2. /\ store'.authRequests = Pruned.authRequests /\ store'.codes = m.codes
  BY ExchangeCreateFields
<1>3. m.authRequests = Pruned.authRequests
  BY <1>1, ReserveFields
<1>4. request.auth # 0 /\ reserveOK(Pruned, request)
  BY RequestOfType DEF ExchangeCreate, At
<1>5. \A r, q \in Pruned.authRequests : r.code # 0 /\ r.code = q.code => r = q
  BY <1>1 DEF RequestInv
<1>6. RedeemableOf(m) # RedeemableOf(Pruned) /\ RedeemableOf(m) \subseteq RedeemableOf(Pruned)
  BY <1>1, <1>4, <1>5, ReservedOne, ReservedCodes
<1> HIDE DEF m, request
<1>7. RedeemableOf(store') = RedeemableOf(m)
  BY <1>2, <1>3, SameCodes
<1>8. RedeemableOf(Pruned) \subseteq RedeemableOf(store)
  BY <1>1, FewerCodes
<1>9. QED
  BY <1>6, <1>7, <1>8

\* The grant of a new family.
LEMMA FamilyGranted ==
    ASSUME HandlerInv, NEW request,
           store'.refresh = Pruned.refresh \cup
               {NewRefresh(serial.family + 1, serial.refresh + 1, serial.access + 1, request)},
           store'.families = Pruned.families \cup
               {NewFamily(now, serial.family + 1, request, {serial.refresh + 1})}
    PROVE  \E f \in FamiliesOf(store') :
              /\ f = [id |-> serial.family + 1, client |-> request.client,
                      subject |-> request.subject, expires |-> f.expires,
                      token |-> serial.refresh + 1, scopes |-> request.scopes,
                      access |-> serial.access + 1]
              /\ FamiliesOf(store') \ {f} \subseteq FamiliesOf(store)
<1> DEFINE token == serial.refresh + 1
           id == serial.access + 1
           family == serial.family + 1
           r == NewRefresh(family, token, id, request)
           g == NewFamily(now, family, request, {token})
           f == Current(g, r)
<1>1. /\ \A x \in Pruned.refresh : x.family # family
      /\ \A x \in Pruned.families : x.id # family
  BY DrawnBefore
<1>2. /\ r.family = family /\ ~r.consumed /\ r.token = token
      /\ r.scopes = request.scopes /\ r.accessID = id
      /\ g.id = family /\ g.client = request.client /\ g.subject = request.subject
  BY DEF NewRefresh, NewFamily
<1>3. /\ f.expires = g.expires
      /\ f = [id |-> g.id, client |-> g.client, subject |-> g.subject,
              expires |-> g.expires, token |-> r.token, scopes |-> r.scopes,
              access |-> r.accessID]
  BY DEF Current
<1> HIDE DEF token, id, family
<1>4. /\ store'.refresh = Pruned.refresh \cup {r} /\ store'.families = Pruned.families \cup {g}
  BY DEF token, id, family
<1> HIDE DEF r, g
<1>5. f \in FamiliesOf(store')
  BY <1>2, <1>4, FamilyOf
<1>6. ASSUME NEW x \in FamiliesOf(store'), x # f PROVE x \in FamiliesOf(Pruned)
  <2>1. PICK h \in store'.families, q \in store'.refresh :
           q.family = h.id /\ ~q.consumed /\ x = Current(h, q)
    BY <1>6, FamilyOf
  <2>2. ~(h = g /\ q = r)
    BY <1>6, <2>1
  <2>3. h \in Pruned.families /\ q \in Pruned.refresh
    BY <1>1, <1>2, <1>4, <2>1, <2>2
  <2>4. QED
    BY <2>1, <2>3, FamilyOf
<1>7. FamiliesOf(Pruned) \subseteq FamiliesOf(store)
  BY RecordsPruned, FewerFamilies
<1>8. f = [id |-> family, client |-> request.client, subject |-> request.subject,
           expires |-> f.expires, token |-> token, scopes |-> request.scopes,
           access |-> id]
  BY <1>2, <1>3
<1> HIDE DEF f
<1>9. QED
  BY <1>5, <1>6, <1>7, <1>8 DEF token, id, family

\* An exchange grants an access token, alone or with a new family.
LEMMA ExchangeGrants ==
    ASSUME HandlerInv, RequestInv, [Next]_vars, NEW th \in Threads, ExchangeCreate(th)
    PROVE  Abstract!Next
<1> DEFINE request == RequestOf(calls[th])
           family == serial.family + 1
           token == serial.refresh + 1
           id == serial.access + 1
<1>1. Abstract!Redeem
  BY ExchangeRedeems, SharedSteps DEF Abstract!Redeem, Abstract!Lapse
<1>2. serial'.code = serial.code /\ serial'.access = id
  BY SharedSteps, ExchangeCreateFields
<1>3. Pruned.families \subseteq store'.families /\ Pruned.refresh \subseteq store'.refresh
  BY ExchangeCreateFields
<1>4. Abstract!EndsWhole
  BY <1>3, EndWhole
<1>5. CASE /\ store'.access = Pruned.access \cup {NewAccess(now, id, request, 0)}
           /\ store'.refresh = Pruned.refresh
           /\ store'.families = Pruned.families
           /\ serial'.family = serial.family /\ serial'.refresh = serial.refresh
  <2> HIDE DEF request
  <2>1. FamiliesOf(store') \subseteq FamiliesOf(store)
    BY <1>5, RecordsPruned, FewerFamilies
  <2>2. PICK a \in AccessOf(store') :
           /\ \A x : request.scopes \subseteq x => Abstract!NextAccess(a, x)
           /\ a.scopes = request.scopes
    BY <1>5, AccessGranted
  <2>3. DrawnOf(serial') = [DrawnOf(serial) EXCEPT !.access = @ + 1]
    BY <1>2, <1>5 DEF DrawnOf
  <2>4. Abstract!GrantAccess
    BY <1>1, <2>1, <2>2, <2>3 DEF Abstract!GrantAccess
  <2>5. QED
    BY <1>4, <2>4, SharedSteps DEF Abstract!Next, Abstract!Step
<1>6. CASE /\ store'.access = Pruned.access \cup {NewAccess(now, id, request, family)}
           /\ store'.refresh = Pruned.refresh \cup {NewRefresh(family, token, id, request)}
           /\ store'.families = Pruned.families \cup
                 {NewFamily(now, family, request, {token})}
           /\ serial'.family = family /\ serial'.refresh = token
  <2> HIDE DEF request
  <2>1. PICK a \in AccessOf(store') :
           /\ \A x : request.scopes \subseteq x => Abstract!NextAccess(a, x)
           /\ a.id = id /\ a.scopes = request.scopes
           /\ a.client = request.client /\ a.subject = request.subject
    BY <1>6, AccessGranted
  <2>2. PICK f \in FamiliesOf(store') :
           /\ f = [id |-> family, client |-> request.client,
                   subject |-> request.subject, expires |-> f.expires,
                   token |-> token, scopes |-> request.scopes, access |-> id]
           /\ FamiliesOf(store') \ {f} \subseteq FamiliesOf(store)
    BY <1>6, FamilyGranted
  <2>3. DrawnOf(serial') = [DrawnOf(serial) EXCEPT !.access = @ + 1, !.refresh = @ + 1,
                                                   !.family = @ + 1]
    <3>1. /\ serial'.code = serial.code /\ serial'.access = serial.access + 1
          /\ serial'.refresh = serial.refresh + 1 /\ serial'.family = serial.family + 1
      BY <1>2, <1>6
    <3> DEFINE d == DrawnOf(serial)
               e == DrawnOf(serial')
    <3>2. /\ d \in [code: Nat, access: Nat, refresh: Nat, family: Nat]
          /\ e \in [code: Nat, access: Nat, refresh: Nat, family: Nat]
      BY NextOK DEF DrawnOf, HandlerInv, HandlerTypes, SerialType
    <3>3. /\ e.code = d.code /\ e.access = d.access + 1
          /\ e.refresh = d.refresh + 1 /\ e.family = d.family + 1
      BY <3>1 DEF DrawnOf
    <3> HIDE DEF d, e
    <3>4. e = [d EXCEPT !.access = @ + 1, !.refresh = @ + 1, !.family = @ + 1]
      BY <3>2, <3>3
    <3>5. QED
      BY <3>4 DEF d, e
  <2>4. /\ DrawnOf(serial).family = serial.family /\ DrawnOf(serial).refresh = serial.refresh
    BY DEF DrawnOf
  <2>5. f = [id |-> DrawnOf(serial).family + 1, client |-> a.client,
             subject |-> a.subject, expires |-> f.expires,
             token |-> DrawnOf(serial).refresh + 1, scopes |-> a.scopes,
             access |-> a.id]
    BY <2>1, <2>2, <2>4
  <2>6. Abstract!NextAccess(a, a.scopes)
    BY <2>1
  <2>7. Abstract!OpenFamily
    BY <1>1, <2>2, <2>3, <2>5, <2>6 DEF Abstract!OpenFamily
  <2>8. QED
    BY <1>4, <2>7, SharedSteps DEF Abstract!Next, Abstract!Step
<1>7. QED
  BY <1>5, <1>6, ExchangeCreateFields

\* What a rotation may rely on: the token it consumes belongs to the family's
\* user and client, and so does the request, which asks for no more.
LEMMA RotationOwner ==
    ASSUME HandlerInv, LogoutInv, NEW th \in Threads, RefreshRotate(th),
           NEW old \in Rotatable(Pruned, now, calls[th].token, calls[th].client)
    PROVE  LET request == RequestOf(calls[th]) IN
           /\ old \in Pruned.refresh /\ ~old.consumed
           /\ request.scopes \subseteq old.scopes
           /\ \E h \in Pruned.families :
                 h.id = old.family /\ h.client = request.client /\ h.subject = request.subject
<1> DEFINE request == RequestOf(calls[th])
<1>1. /\ old \in Pruned.refresh /\ ~old.consumed /\ old.token = calls[th].token
      /\ calls[th].stage = "refreshFound"
  BY DEF Rotatable, RefreshRotate, At
<1>2. PICK h \in Pruned.families : h.id = old.family
  BY DEF Rotatable
<1>3. old \in store.refresh /\ h \in store.families
  BY <1>1, RecordsPruned
<1>4. /\ old.subject = calls[th].subject /\ old.client = calls[th].client
      /\ calls[th].scopes \subseteq old.scopes
  BY <1>1, <1>3 DEF LogoutInv
<1>5. h.subject = old.subject /\ h.client = old.client
  BY <1>1, <1>2, <1>3 DEF LogoutInv, OwnersSound
<1>6. /\ request.subject = calls[th].subject /\ request.client = calls[th].client
      /\ request.scopes = calls[th].scopes
  BY DEF RequestOf
<1>7. QED
  BY <1>1, <1>2, <1>4, <1>5, <1>6

\* The families after a rotation: one has its next token, the others stay.
LEMMA RotationMaps ==
    ASSUME NEW s, NEW n, NEW t, NEW old \in s.refresh, NEW token, NEW id, NEW request,
           Rotates(s, n, t, old, token, id, request),
           ~old.consumed, consumeRefreshRecord(old).consumed,
           NEW h \in s.families, h.id = old.family,
           \A f, g \in s.families : f.id = g.id => f = g,
           \A f, g \in n.families : f.id = g.id => f = g,
           \A r, q \in s.refresh :
               r.family = q.family /\ ~r.consumed /\ ~q.consumed => r = q
    PROVE  \E y \in FamiliesOf(n) :
              /\ y = [id |-> h.id, client |-> h.client, subject |-> h.subject,
                      expires |-> h.expires, token |-> token,
                      scopes |-> request.scopes, access |-> id]
              /\ FamiliesOf(n) \ {y} \subseteq FamiliesOf(s) \ {Current(h, old)}
<1> DEFINE r == NewRefresh(old.family, token, id, request)
<1>1. /\ r.family = old.family /\ ~r.consumed /\ r.token = token
      /\ r.scopes = request.scopes /\ r.accessID = id
  BY DEF NewRefresh
<1>2. /\ \A q \in n.refresh : (q \in s.refresh /\ q # old) \/ q = consumeRefreshRecord(old) \/ q = r
      /\ r \in n.refresh
      /\ \A g \in n.families : \E f \in s.families :
            /\ g.id = f.id
            /\ g.subject = f.subject /\ g.client = f.client /\ g.expires = f.expires
      /\ \A f \in s.families : \E g \in n.families : g.id = f.id
  BY DEF Rotates
<1> HIDE DEF r
<1>3. PICK g \in n.families :
         /\ g.id = h.id
         /\ g.subject = h.subject /\ g.client = h.client /\ g.expires = h.expires
  BY <1>2
<1> DEFINE y == Current(g, r)
<1>4. y \in FamiliesOf(n)
  BY <1>1, <1>2, <1>3, FamilyOf
<1>5. y = [id |-> h.id, client |-> h.client, subject |-> h.subject,
           expires |-> h.expires, token |-> token,
           scopes |-> request.scopes, access |-> id]
  BY <1>1, <1>3 DEF Current
<1> HIDE DEF y
<1>6. ASSUME NEW z \in FamiliesOf(n), z # y
      PROVE  z \in FamiliesOf(s) /\ z # Current(h, old)
  <2>1. PICK k \in n.families, q \in n.refresh :
           q.family = k.id /\ ~q.consumed /\ z = Current(k, q)
    BY <1>6, FamilyOf
  <2>2. q # r
    <3>1. SUFFICES ASSUME q = r PROVE FALSE
      OBVIOUS
    <3>2. k = g
      BY <1>1, <1>3, <2>1, <3>1
    <3>3. QED
      BY <1>6, <2>1, <3>1, <3>2 DEF y
  <2>3. q \in s.refresh /\ q # old
    BY <1>2, <2>1, <2>2
  <2>4. PICK f \in s.families :
           /\ k.id = f.id
           /\ k.subject = f.subject /\ k.client = f.client /\ k.expires = f.expires
    BY <1>2
  <2>5. z = Current(f, q)
    BY <2>1, <2>4 DEF Current
  <2>6. z \in FamiliesOf(s)
    BY <2>1, <2>3, <2>4, <2>5, FamilyOf
  <2>7. z.id = q.family /\ Current(h, old).id = old.family
    BY <2>1, <2>4, <2>5 DEF Current
  <2>8. QED
    BY <2>1, <2>3, <2>6, <2>7
<1>7. QED
  BY <1>4, <1>5, <1>6

\* A rotation grants the next pair of its family, and nothing of the last.
LEMMA RotationGrants ==
    ASSUME HandlerInv, LogoutInv, [Next]_vars, NEW th \in Threads, RefreshRotate(th)
    PROVE  Abstract!Next
<1> DEFINE request == RequestOf(calls[th])
           token == serial.refresh + 1
           id == serial.access + 1
<1>1. /\ serial'.family = serial.family /\ serial'.refresh = token /\ serial'.access = id
      /\ serial'.code = serial.code
  BY RefreshRotateFields, SharedSteps
<1>2. PICK old \in Rotatable(Pruned, now, calls[th].token, calls[th].client) :
         Rotates(Pruned, store', now, old, token, id, request)
  BY RefreshRotateFields
<1>3. /\ old \in Pruned.refresh /\ ~old.consumed
      /\ request.scopes \subseteq old.scopes
      /\ \E h \in Pruned.families :
            h.id = old.family /\ h.client = request.client /\ h.subject = request.subject
  BY RotationOwner
<1>4. PICK h \in Pruned.families :
         h.id = old.family /\ h.client = request.client /\ h.subject = request.subject
  BY <1>3
<1>5. /\ Pruned \in StoreType /\ Consistent(Pruned, serial) /\ serial \in SerialType
      /\ store' \in StoreType /\ Consistent(store', serial')
  BY PrunedOK, NextOK DEF HandlerInv, HandlerTypes
<1> HIDE DEF request, token, id
<1>6. /\ \A f, g \in Pruned.families : f.id = g.id => f = g
      /\ \A f, g \in store'.families : f.id = g.id => f = g
      /\ \A r, q \in Pruned.refresh :
            r.family = q.family /\ ~r.consumed /\ ~q.consumed => r = q
  BY <1>5 DEF Consistent, IndexSound, OnePair
<1>7. consumeRefreshRecord(old).consumed
  BY <1>3, <1>5 DEF consumeRefreshRecord, StoreType, RefreshRecord
<1> DEFINE x == Current(h, old)
<1>8. x \in FamiliesOf(store)
  BY <1>3, <1>4, RecordsPruned, FamilyOf
<1>9. x = [id |-> h.id, client |-> h.client, subject |-> h.subject,
           expires |-> h.expires, token |-> old.token, scopes |-> old.scopes,
           access |-> old.accessID]
  BY DEF Current
<1> HIDE DEF x
<1>10. PICK y \in FamiliesOf(store') :
          /\ y = [id |-> h.id, client |-> h.client, subject |-> h.subject,
                  expires |-> h.expires, token |-> token,
                  scopes |-> request.scopes, access |-> id]
          /\ FamiliesOf(store') \ {y} \subseteq FamiliesOf(Pruned) \ {x}
  BY <1>2, <1>3, <1>4, <1>6, <1>7, RotationMaps, ZenonT(40) DEF x
<1>11. FamiliesOf(store') \ {y} \subseteq FamiliesOf(store) \ {x}
  BY <1>10, RecordsPruned, FewerFamilies
<1>12. PICK a \in AccessOf(store') :
          /\ \A scopes : request.scopes \subseteq scopes => Abstract!NextAccess(a, scopes)
          /\ a.id = id /\ a.scopes = request.scopes
          /\ a.client = request.client /\ a.subject = request.subject
  BY <1>2, AccessGranted DEF Rotates, id
<1>13. y = [x EXCEPT !.token = token, !.access = a.id, !.scopes = a.scopes]
  <2> DEFINE G == [id: {h.id}, client: {h.client}, subject: {h.subject},
                   expires: {h.expires}, token: {old.token, token},
                   scopes: {old.scopes, request.scopes}, access: {old.accessID, id}]
  <2>1. x \in G /\ y \in G
    BY <1>9, <1>10
  <2>2. /\ y.id = x.id /\ y.client = x.client /\ y.subject = x.subject
        /\ y.expires = x.expires /\ y.token = token
        /\ y.scopes = a.scopes /\ y.access = a.id
    BY <1>9, <1>10, <1>12
  <2>3. QED
    BY <2>1, <2>2
<1>14. Abstract!NextAccess(a, x.scopes) /\ a.client = x.client /\ a.subject = x.subject
  BY <1>3, <1>4, <1>9, <1>12
<1>15. \A b \in AccessOf(store') : b.id # x.access
  <2>1. old.accessID # id
    BY <1>3, <1>5 DEF Consistent, Drawn, StoreType, RefreshRecord, SerialType, id
  <2>2. \A b \in store'.access : b.id # old.accessID
    BY <1>2, <2>1 DEF Rotates, NewAccess
  <2>3. QED
    BY <1>9, <2>2 DEF AccessOf
<1>16. DrawnOf(serial') = [DrawnOf(serial) EXCEPT !.access = @ + 1, !.refresh = @ + 1]
  <2> DEFINE d == DrawnOf(serial)
             e == DrawnOf(serial')
  <2>1. /\ d \in [code: Nat, access: Nat, refresh: Nat, family: Nat]
        /\ e \in [code: Nat, access: Nat, refresh: Nat, family: Nat]
    BY NextOK DEF DrawnOf, HandlerInv, HandlerTypes, SerialType
  <2>2. /\ e.code = d.code /\ e.access = d.access + 1
        /\ e.refresh = d.refresh + 1 /\ e.family = d.family
    BY <1>1 DEF DrawnOf, token, id
  <2> HIDE DEF d, e
  <2>3. e = [d EXCEPT !.access = @ + 1, !.refresh = @ + 1]
    BY <2>1, <2>2
  <2>4. QED
    BY <2>3 DEF d, e
<1>17. y = [x EXCEPT !.token = DrawnOf(serial).refresh + 1, !.access = a.id,
                     !.scopes = a.scopes]
  BY <1>13 DEF DrawnOf, token
<1>18. Abstract!Rotate
  BY <1>8, <1>11, <1>14, <1>15, <1>16, <1>17, SharedSteps
  DEF Abstract!Rotate, Abstract!Lapse
<1>19. Abstract!EndsWhole
  <2>1. ASSUME NEW f \in Pruned.families, NEW q \in Pruned.refresh,
               q.family = f.id, ~q.consumed
        PROVE  \E g \in store'.families, r \in store'.refresh :
                   g.id = f.id /\ r.family = g.id /\ ~r.consumed
    <3>1. PICK g \in store'.families : g.id = f.id
      BY <1>2 DEF Rotates
    <3>2. CASE q = old
      <4>1. /\ NewRefresh(old.family, token, id, request).family = old.family
            /\ ~NewRefresh(old.family, token, id, request).consumed
            /\ NewRefresh(old.family, token, id, request) \in store'.refresh
        BY <1>2 DEF Rotates, NewRefresh
      <4>2. QED
        BY <2>1, <3>1, <3>2, <4>1
    <3>3. CASE q # old
      <4>1. q \in store'.refresh
        BY <1>2, <3>3 DEF Rotates
      <4>2. QED
        BY <2>1, <3>1, <4>1
    <3>4. QED
      BY <3>2, <3>3
  <2>2. QED
    BY <2>1, EndWhole
<1>20. QED
  BY <1>18, <1>19, SharedSteps DEF Abstract!Next, Abstract!Step

----------------------------------------------------------------------------
(* The theorem. *)

\* The sign-ins the model starts from hold no grant but their codes.
LEMMA GrantsStart == Init => Abstract!Init
<1> SUFFICES ASSUME Init PROVE Abstract!Init
  OBVIOUS
<1>1. store.families = {} /\ store.access = {} /\ store.refresh = {}
  BY DEF Init, NewStore
<1>2. FamiliesOf(store) = {} /\ AccessOf(store) = {}
  BY <1>1 DEF FamiliesOf, AccessOf
<1>3. /\ store.codes = {SavedCode(i) : i \in 1 .. Sessions}
      /\ serial.code = Sessions /\ serial.family = 0 /\ serial.refresh = 0
      /\ serial.access = 0 /\ now = 1
  BY DEF Init, NewStore
<1>4. RedeemableOf(store) \subseteq 1 .. serial.code
  BY <1>3 DEF RedeemableOf, SavedCode
<1>5. QED
  BY <1>2, <1>3, <1>4 DEF Abstract!Init, DrawnOf

\* Every step is a step of the grants or changes none.
LEMMA GrantsStep ==
    ASSUME HandlerInv, RequestInv, LogoutInv, [Next]_vars
    PROVE  [Abstract!Next]_(Abstract!grantVars)
BY StoreSteps, DropsRetires, ExchangeGrants, ServiceGrants, RotationGrants,
   FinishRetires

\* A step of the sign-in handlers issues at most one code and otherwise only
\* retires grants; the families it ends are over.
LEMMA SignInGrants ==
    ASSUME SignInStep, store \in StoreType, serial \in SerialType, serial' \in SerialType,
           now \in Nat
    PROVE  Abstract!Next
<1>1. /\ OnlyLapses(store, store', now) /\ now <= now'
      /\ serial'.access = serial.access /\ serial'.refresh = serial.refresh
      /\ serial'.family = serial.family /\ serial'.code \in {serial.code, serial.code + 1}
  BY DEF SignInStep, SignInChange
<1>2. /\ FamiliesOf(store') \subseteq FamiliesOf(store)
      /\ AccessOf(store') \subseteq AccessOf(store)
  BY <1>1, FewerFamilies, FewerAccess DEF OnlyLapses
<1>3. ASSUME NEW c \in store'.codes, OwnsCode(store', c.requestID, c), ~c.reserved
      PROVE  \/ c.code \in RedeemableOf(store)
             \/ c.code = serial.code + 1 /\ serial'.code = serial.code + 1
  <2>1. PICK q \in store'.authRequests : q.id = c.requestID /\ q.code # 0 /\ q.code = c.code
    BY <1>3 DEF OwnsCode
  <2>2. CASE c.code = serial.code + 1 /\ serial'.code = serial.code + 1
    BY <2>2
  <2>3. CASE ~(c.code = serial.code + 1 /\ serial'.code = serial.code + 1)
    <3>1. c \in store.codes
      BY <2>3 DEF SignInStep, SignInChange
    <3>2. q \in store.authRequests
      BY <2>1, <2>3 DEF SignInStep, SignInChange, Fresh, Signs
    <3>3. OwnsCode(store, c.requestID, c)
      BY <2>1, <3>1, <3>2 DEF OwnsCode
    <3>4. QED
      BY <1>3, <3>1, <3>3 DEF RedeemableOf
  <2>4. QED
    BY <2>2, <2>3
<1>4. \A x \in RedeemableOf(store') :
         \/ x \in RedeemableOf(store)
         \/ x = serial.code + 1 /\ serial'.code = serial.code + 1
  BY <1>3 DEF RedeemableOf
<1>5. Abstract!EndsWhole
  <2> SUFFICES ASSUME NEW x \in FamiliesOf(store), ~(x.expires <= now)
               PROVE  \E y \in FamiliesOf(store') : y.id = x.id
    BY DEF Abstract!EndsWhole
  <2>1. PICK f \in store.families, r \in store.refresh :
           r.family = f.id /\ ~r.consumed /\ x = Current(f, r)
    BY FamilyOf
  <2>2. x.expires = f.expires /\ x.id = f.id /\ f.expires \in Nat
    BY <2>1 DEF Current, StoreType, RefreshFamily
  <2>3. f \in store'.families
    BY <1>1, <2>2 DEF OnlyLapses
  <2>4. r \in store'.refresh
    BY <1>1, <2>1, <2>3 DEF OnlyLapses, FamilyIDs
  <2>5. x \in FamiliesOf(store')
    BY <2>1, <2>3, <2>4, FamilyOf
  <2>6. QED
    BY <2>5
<1>6. Abstract!Step
  <2>1. CASE serial'.code = serial.code
    <3>1. RedeemableOf(store') \subseteq RedeemableOf(store)
      BY <1>4, <2>1 DEF SerialType
    <3>2. DrawnOf(serial') = DrawnOf(serial)
      BY <1>1, <2>1 DEF DrawnOf
    <3>3. QED
      BY <1>2, <3>1, <3>2 DEF Abstract!Step, Abstract!Retire, Abstract!Lapse
  <2>2. CASE serial'.code = serial.code + 1
    <3> DEFINE d == DrawnOf(serial)
               e == DrawnOf(serial')
    <3>1. /\ d \in [code: Nat, access: Nat, refresh: Nat, family: Nat]
          /\ e \in [code: Nat, access: Nat, refresh: Nat, family: Nat]
      BY DEF DrawnOf, SerialType
    <3>2. /\ e.code = d.code + 1 /\ e.access = d.access
          /\ e.refresh = d.refresh /\ e.family = d.family /\ d.code = serial.code
      BY <1>1, <2>2 DEF DrawnOf
    <3> HIDE DEF d, e
    <3>3. e = [d EXCEPT !.code = @ + 1]
      BY <3>1, <3>2
    <3>4. RedeemableOf(store') \ {e.code} \subseteq RedeemableOf(store)
      BY <1>4, <3>2
    <3>5. QED
      BY <1>2, <3>3, <3>4 DEF Abstract!Step, Abstract!Issue, d, e
  <2>3. QED
    BY <1>1, <2>1, <2>2
<1>7. QED
  BY <1>1, <1>5, <1>6 DEF Abstract!Next

\* The store with its handlers in flight implements the grants (TokenGrants):
\* whatever calls overlap, a code opens one family or token, only the current
\* token of a family is exchanged, once, for no more than it carried, and a
\* family ends together with its access token.
THEOREM GrantsImplemented == Spec => ImplementsGrants
<1>1. IInv /\ RequestInv /\ LogoutInv /\ [Next]_vars
      => [Abstract!Next]_(Abstract!grantVars)
  BY GrantsStep DEF IInv
<1>2. QED
  BY <1>1, GrantsStart, InvariantHolds, RequestInvariant, LogoutInvariant, PTL
  DEF Spec, ImplementsGrants, Abstract!Spec

============================================================================
