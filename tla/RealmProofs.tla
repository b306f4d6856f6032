---------------------------- MODULE RealmProofs ----------------------------
(***************************************************************************)
(* Proofs about a realm: the sign-in handlers and the token handlers over  *)
(* one store.  Each side keeps its own invariant, relies on what the steps *)
(* of the other do to the store, and guarantees as much for its own.       *)
(***************************************************************************)
EXTENDS Realm, TLAPS

LP == INSTANCE LoginFlowProofs WITH Threads <- LoginThreads, calls <- loginCalls
TP == INSTANCE TokenEndpointProofs WITH
    Threads <- TokenThreads, calls <- tokenCalls, Sessions <- 0, Grants <- {}

----------------------------------------------------------------------------
(* The handlers that Realm composes are those the lemmas are about. *)

\* The two sides name the same clients, users and scopes as the realm.
LEMMA Names ==
    /\ LP!NoID = NoID /\ LP!Clients = Clients /\ LP!Subjects = Subjects
    /\ LP!Scopes = Scopes /\ LP!StandardScopes = StandardScopes
    /\ TP!NoID = NoID /\ TP!Clients = Clients /\ TP!Subjects = Subjects
    /\ TP!Scopes = Scopes /\ TP!StandardScopes = StandardScopes
BY DEF LP!NoID, TP!NoID, NoID, LP!Clients, TP!Clients, Clients,
   LP!Subjects, TP!Subjects, Subjects, LP!Scopes, TP!Scopes, Scopes,
   LP!StandardScopes, TP!StandardScopes, StandardScopes

\* The bounds of the realm are those its token handlers assume.
LEMMA Caps ==
    /\ TP!IsFiniteSet(TokenThreads)
    /\ 0 \in Nat /\ {} \subseteq SUBSET Scopes
BY RealmAssumption DEF TP!IsFiniteSet, IsFiniteSet

\* The sign-in handlers.
LEMMA LoginSame ==
    ASSUME Login!Next
    PROVE  LP!Next
BY DEF
    LP!NoID, Login!NoID, LP!StandardScopes, Login!StandardScopes, LP!Expiries,
    Login!Expiries, LP!scheduleExpiryLocked, Login!scheduleExpiryLocked,
    LP!Sweep, Login!Sweep, LP!Earliest, Login!Earliest, LP!pruneLocked,
    Login!pruneLocked, LP!AuthRequestByID, Login!AuthRequestByID,
    LP!CreateAuthRequest, Login!CreateAuthRequest, LP!UpdateRequest,
    Login!UpdateRequest, LP!SaveAuthCodeOK, Login!SaveAuthCodeOK,
    LP!SaveAuthCode, Login!SaveAuthCode, LP!Granted, Login!Granted,
    LP!Completable, Login!Completable, LP!completeAuthenticationLocked,
    Login!completeAuthenticationLocked, LP!IssueCompletionSecret,
    Login!IssueCompletionSecret, LP!SecretMatches, Login!SecretMatches,
    LP!ConsumeCompletionSecret, Login!ConsumeCompletionSecret, LP!Pruned,
    Login!Pruned, LP!Tick, Login!Tick, LP!loginVars, Login!loginVars, LP!Idle,
    Login!Idle, LP!At, Login!At, LP!Return, Login!Return, LP!ReadClock,
    Login!ReadClock, LP!BeginPost, Login!BeginPost, LP!authorizeGate,
    Login!authorizeGate, LP!Authorize, Login!Authorize, LP!AuthorizeCreate,
    Login!AuthorizeCreate, LP!AuthorizeRefused, Login!AuthorizeRefused,
    LP!loginGET, Login!loginGET, LP!loginPOST, Login!loginPOST,
    LP!AuthenticateLookup, Login!AuthenticateLookup, LP!CompareBegin,
    Login!CompareBegin, LP!CompareEnd, Login!CompareEnd,
    LP!CompleteAuthentication, Login!CompleteAuthentication,
    LP!CompletionRefused, Login!CompletionRefused, LP!IssueSecret,
    Login!IssueSecret, LP!LoginResponse, Login!LoginResponse, LP!callbackGate,
    Login!callbackGate, LP!CookieCleared, Login!CookieCleared,
    LP!CallbackLookup, Login!CallbackLookup, LP!CallbackSave,
    Login!CallbackSave, LP!Advancing, Login!Advancing, LP!Finish,
    Login!Finish, LP!Next, Login!Next, LP!Min, Login!Min, LP!Cardinality,
    Login!Cardinality

\* The token handlers: first what they use of the store, then each action.
LEMMA TokensSame == Tokens!Next => TP!Next
<1>1. TP!Pruned = Tokens!Pruned
  BY DEF
     TP!Expiries, Tokens!Expiries, TP!Sweep, Tokens!Sweep, TP!Earliest,
     Tokens!Earliest, TP!pruneLocked, Tokens!pruneLocked, TP!Pruned,
     Tokens!Pruned, TP!Min, Tokens!Min
<1>2. TP!Tick <=> Tokens!Tick
  BY DEF
     TP!Tick, Tokens!Tick
<1>3. TP!NoID = Tokens!NoID
  BY DEF
     TP!NoID, Tokens!NoID
<1>4. TP!Clients = Tokens!Clients
  BY DEF
     TP!Clients, Tokens!Clients
<1>5. TP!Scopes = Tokens!Scopes
  BY DEF
     TP!StandardScopes, Tokens!StandardScopes, TP!Scopes, Tokens!Scopes
<1>6. \A S : TP!Cardinality(S) = Tokens!Cardinality(S)
  BY DEF
     TP!Cardinality, Tokens!Cardinality
<1>7. \A s, t, code : TP!AuthRequestByCode(s, t, code) = Tokens!AuthRequestByCode(s, t, code)
  BY DEF
     TP!AuthRequestByCode, Tokens!AuthRequestByCode
<1>8. \A s, id : TP!DeleteAuthRequestOK(s, id) <=> Tokens!DeleteAuthRequestOK(s, id)
  BY DEF
     TP!OwnsCode, Tokens!OwnsCode, TP!DeleteAuthRequestOK,
     Tokens!DeleteAuthRequestOK
<1>9. \A s, id : TP!DeleteAuthRequest(s, id) = Tokens!DeleteAuthRequest(s, id)
  BY DEF
     TP!OwnsCode, Tokens!OwnsCode, TP!DeleteAuthRequest,
     Tokens!DeleteAuthRequest
<1>10. \A s, request : TP!reserveOK(s, request) <=> Tokens!reserveOK(s, request)
  BY DEF
     TP!OwnsCode, Tokens!OwnsCode, TP!reserveOK, Tokens!reserveOK
<1>11. \A s, expires : TP!scheduleExpiryLocked(s, expires) = Tokens!scheduleExpiryLocked(s, expires)
  BY DEF
     TP!scheduleExpiryLocked, Tokens!scheduleExpiryLocked
<1>12. \A s, request :
       TP!reserveAuthorizationCodeLocked(s, request)
           = Tokens!reserveAuthorizationCodeLocked(s, request)
  BY DEF
     TP!OwnsCode, Tokens!OwnsCode, TP!reserveAuthorizationCodeLocked,
     Tokens!reserveAuthorizationCodeLocked
<1>13. \A s, t, id, request, family :
       TP!AddAccess(s, t, id, request, family) = Tokens!AddAccess(s, t, id, request, family)
  BY <1>11 DEF
     TP!AddAccess, Tokens!AddAccess
<1>14. \A s, t, family, token, id, request :
       TP!AddPair(s, t, family, token, id, request)
           = Tokens!AddPair(s, t, family, token, id, request)
  BY <1>13 DEF
     TP!AddPair, Tokens!AddPair
<1>15. \A s, t, id, request :
       TP!CreateAccessToken(s, t, id, request) = Tokens!CreateAccessToken(s, t, id, request)
  BY <1>12, <1>13 DEF
     TP!CreateAccessToken, Tokens!CreateAccessToken
<1>16. \A s, t, family, token, id, request :
       TP!CreateFamily(s, t, family, token, id, request)
           = Tokens!CreateFamily(s, t, family, token, id, request)
  BY <1>11, <1>12, <1>14 DEF
     TP!CreateFamily, Tokens!CreateFamily
<1>17. \A s, current : TP!Replayed(s, current) = Tokens!Replayed(s, current)
  BY DEF
     TP!Replayed, Tokens!Replayed
<1>18. \A s, t, current, client :
       TP!Rotatable(s, t, current, client) = Tokens!Rotatable(s, t, current, client)
  BY DEF
     TP!Rotatable, Tokens!Rotatable
<1>19. \A s, t, old, token, id, request :
       TP!RotateToken(s, t, old, token, id, request)
           = Tokens!RotateToken(s, t, old, token, id, request)
  BY <1>14 DEF
     TP!NoID, Tokens!NoID, TP!consumeRefreshRecord,
     Tokens!consumeRefreshRecord, TP!compactFamilyTokensLocked,
     Tokens!compactFamilyTokensLocked, TP!RotateToken, Tokens!RotateToken
<1>20. \A s, t, token :
       TP!TokenRequestByRefreshToken(s, t, token) = Tokens!TokenRequestByRefreshToken(s, t, token)
  BY DEF
     TP!TokenRequestByRefreshToken, Tokens!TokenRequestByRefreshToken
<1>21. \A s, client, token :
       TP!TokenFamilies(s, client, token) = Tokens!TokenFamilies(s, client, token)
  BY DEF
     TP!FamilyIDs, Tokens!FamilyIDs, TP!TokenFamilies,
     Tokens!TokenFamilies
<1>22. \A s, ids : TP!revokeFamilyLocked(s, ids) = Tokens!revokeFamilyLocked(s, ids)
  BY DEF
     TP!FamilyIDs, Tokens!FamilyIDs, TP!revokeFamilyLocked,
     Tokens!revokeFamilyLocked
<1>23. \A s, client, id :
       TP!RevokeAccessToken(s, client, id) = Tokens!RevokeAccessToken(s, client, id)
  BY DEF
     TP!FamilyIDs, Tokens!FamilyIDs, TP!revokeFamilyLocked,
     Tokens!revokeFamilyLocked, TP!RevokeAccessToken, Tokens!RevokeAccessToken
<1>24. \A s, client, token :
       TP!RevokeRefreshToken(s, client, token) = Tokens!RevokeRefreshToken(s, client, token)
  BY DEF
     TP!FamilyIDs, Tokens!FamilyIDs, TP!revokeFamilyLocked,
     Tokens!revokeFamilyLocked, TP!RevokeRefreshToken,
     Tokens!RevokeRefreshToken, TP!TokenFamilies, Tokens!TokenFamilies
<1>25. \A s, user, client :
       TP!TerminateSession(s, user, client) = Tokens!TerminateSession(s, user, client)
  BY DEF
     TP!FamilyIDs, Tokens!FamilyIDs, TP!revokeFamilyLocked,
     Tokens!revokeFamilyLocked, TP!TerminateSession, Tokens!TerminateSession
<1>26. \A client, scopes :
       TP!ClientCredentialsTokenRequestOK(client, scopes)
           <=> Tokens!ClientCredentialsTokenRequestOK(client, scopes)
  BY DEF
     TP!ClientCredentialsTokenRequestOK,
     Tokens!ClientCredentialsTokenRequestOK
<1>27. \A th, code : Tokens!ExchangeLookup(th, code) => TP!ExchangeLookup(th, code)
  BY <1>1, <1>3, <1>7 DEF
     TP!Idle, Tokens!Idle, TP!Begin, Tokens!Begin, TP!Return, Tokens!Return,
     TP!ExchangeLookup, Tokens!ExchangeLookup
<1>28. \A th : Tokens!ExchangeCreate(th) => TP!ExchangeCreate(th)
  BY <1>1, <1>10, <1>15, <1>16 DEF
     TP!RequestOf, Tokens!RequestOf, TP!At, Tokens!At, TP!Advance,
     Tokens!Advance, TP!ExchangeCreate, Tokens!ExchangeCreate
<1>29. \A th : Tokens!ExchangeRefused(th) => TP!ExchangeRefused(th)
  BY <1>1, <1>3, <1>10 DEF
     TP!Idle, Tokens!Idle, TP!RequestOf, Tokens!RequestOf, TP!Return,
     Tokens!Return, TP!At, Tokens!At, TP!ExchangeRefused,
     Tokens!ExchangeRefused
<1>30. \A th : Tokens!SignAccessToken(th) => TP!SignAccessToken(th)
  BY DEF
     TP!At, Tokens!At, TP!Advance, Tokens!Advance, TP!GetAudience,
     Tokens!GetAudience, TP!SignAccessToken, Tokens!SignAccessToken
<1>31. \A th : Tokens!SignIDToken(th) => TP!SignIDToken(th)
  BY DEF
     TP!At, Tokens!At, TP!Advance, Tokens!Advance, TP!GetAudience,
     Tokens!GetAudience, TP!SignIDToken, Tokens!SignIDToken
<1>32. \A th : Tokens!ExchangeFinish(th) => TP!ExchangeFinish(th)
  BY <1>3, <1>8, <1>9 DEF
     TP!Idle, Tokens!Idle, TP!Return, Tokens!Return, TP!At, Tokens!At,
     TP!ExchangeFinish, Tokens!ExchangeFinish
<1>33. \A th, token : Tokens!RefreshLookup(th, token) => TP!RefreshLookup(th, token)
  BY <1>1, <1>3, <1>5, <1>17, <1>20, <1>22, ZenonT(60) DEF
     TP!Idle, Tokens!Idle, TP!Begin, Tokens!Begin, TP!Return, Tokens!Return,
     TP!RefreshLookup, Tokens!RefreshLookup
<1>34. \A th : Tokens!RefreshRotate(th) => TP!RefreshRotate(th)
  BY <1>1, <1>3, <1>18, <1>19 DEF
     TP!Idle, Tokens!Idle, TP!RequestOf, Tokens!RequestOf, TP!Return,
     Tokens!Return, TP!At, Tokens!At, TP!RefreshRotate, Tokens!RefreshRotate
<1>35. \A th : Tokens!RefreshRefused(th) => TP!RefreshRefused(th)
  BY <1>1, <1>3, <1>17, <1>18, <1>22 DEF
     TP!Idle, Tokens!Idle, TP!Return, Tokens!Return, TP!At, Tokens!At,
     TP!RefreshRefused, Tokens!RefreshRefused
<1>36. \A th, client, token : Tokens!RevokeLookup(th, client, token) => TP!RevokeLookup(th, client, token)
  BY <1>1, <1>3, <1>21 DEF
     TP!Idle, Tokens!Idle, TP!Begin, Tokens!Begin, TP!Return, Tokens!Return,
     TP!RevokeLookup, Tokens!RevokeLookup
<1>37. \A th : Tokens!RevokeToken(th) => TP!RevokeToken(th)
  BY <1>1, <1>3, <1>24 DEF
     TP!Idle, Tokens!Idle, TP!Return, Tokens!Return, TP!At, Tokens!At,
     TP!RevokeToken, Tokens!RevokeToken
<1>38. \A th, client : Tokens!CredentialsBegin(th, client) => TP!CredentialsBegin(th, client)
  BY <1>3 DEF
     TP!Idle, Tokens!Idle, TP!Begin, Tokens!Begin, TP!Return, Tokens!Return,
     TP!CredentialsBegin, Tokens!CredentialsBegin
<1>39. \A th : Tokens!CredentialsEnd(th) => TP!CredentialsEnd(th)
  BY <1>3 DEF
     TP!Idle, Tokens!Idle, TP!Return, Tokens!Return, TP!At, Tokens!At,
     TP!Advance, Tokens!Advance, TP!CredentialsEnd, Tokens!CredentialsEnd
<1>40. \A th, scopes : Tokens!ServiceToken(th, scopes) => TP!ServiceToken(th, scopes)
  BY <1>1, <1>3, <1>15, <1>26 DEF
     TP!Idle, Tokens!Idle, TP!Return, Tokens!Return, TP!At, Tokens!At,
     TP!ServiceToken, Tokens!ServiceToken
<1>41. \A th, id : Tokens!ServiceRevoke(th, id) => TP!ServiceRevoke(th, id)
  BY <1>1, <1>3, <1>23 DEF
     TP!Idle, Tokens!Idle, TP!Return, Tokens!Return, TP!At, Tokens!At,
     TP!ServiceRevoke, Tokens!ServiceRevoke
<1>42. \A th : Tokens!ServiceQuery(th) => TP!ServiceQuery(th)
  BY <1>1, <1>3 DEF
     TP!Idle, Tokens!Idle, TP!Return, Tokens!Return, TP!At, Tokens!At,
     TP!ServiceQuery, Tokens!ServiceQuery
<1>43. \A client, id : Tokens!RevokeAccess(client, id) => TP!RevokeAccess(client, id)
  BY <1>1, <1>23 DEF
     TP!tokenVars, Tokens!tokenVars, TP!RevokeAccess, Tokens!RevokeAccess
<1>44. \A user, client : Tokens!EndSession(user, client) => TP!EndSession(user, client)
  BY <1>1, <1>6, <1>25 DEF
     TP!EndSession, Tokens!EndSession
<1>45. Tokens!Query => TP!Query
  BY <1>1 DEF
     TP!tokenVars, Tokens!tokenVars, TP!Query, Tokens!Query
<1>46. Tokens!Advancing => TP!Advancing
  BY <1>2 DEF
     TP!tokenVars, Tokens!tokenVars, TP!Advancing, Tokens!Advancing
<1>47. QED
  BY <1>4, <1>5, <1>27, <1>28, <1>29, <1>30, <1>31, <1>32, <1>33, <1>34, <1>35,
     <1>36, <1>37, <1>38, <1>39, <1>40, <1>41, <1>42, <1>43, <1>44, <1>45, <1>46
  DEF Tokens!Start, TP!Start, Tokens!Finish, TP!Finish, Tokens!Next, TP!Next

\* What they say to each other of the store.
LEMMA StoreSame ==
    /\ LP!StoreType = TP!StoreType /\ LP!SerialType = TP!SerialType
    /\ \A s, k : LP!Consistent(s, k) <=> TP!Consistent(s, k)
    /\ \A s, k : LP!RequestsSound(s, k) <=> TP!RequestsSound(s, k)
    /\ \A s : LP!CodesApart(s) <=> TP!CodesApart(s)
    /\ LP!SignInStep <=> TP!SignInStep
<1> USE DEF
    LP!NoID, TP!NoID, LP!Clients, TP!Clients, LP!Subjects, TP!Subjects,
    LP!StandardScopes, TP!StandardScopes, LP!Scopes, TP!Scopes,
    LP!AuthRequest, TP!AuthRequest, LP!CodeRecord, TP!CodeRecord,
    LP!AccessRecord, TP!AccessRecord, LP!RefreshRecord, TP!RefreshRecord,
    LP!RefreshFamily, TP!RefreshFamily, LP!StoreType, TP!StoreType,
    LP!SerialType, TP!SerialType, LP!Expiries, TP!Expiries, LP!FamilyIDs,
    TP!FamilyIDs, LP!SubjectsKnown, TP!SubjectsKnown, LP!ExpiryCovered,
    TP!ExpiryCovered, LP!IndexSound, TP!IndexSound, LP!OnePair, TP!OnePair,
    LP!RevokedGone, TP!RevokedGone, LP!Drawn, TP!Drawn, LP!Consistent,
    TP!Consistent, LP!RequestSound, TP!RequestSound, LP!CodesOwned,
    TP!CodesOwned, LP!RequestsSound, TP!RequestsSound, LP!Permitted,
    TP!Permitted, LP!CodesApart, TP!CodesApart, LP!OnlyLapses, TP!OnlyLapses,
    LP!Signs, TP!Signs, LP!Fresh, TP!Fresh, LP!SignInChange, TP!SignInChange,
    LP!SignInStep, TP!SignInStep
<1>1. LP!StoreType = TP!StoreType /\ LP!SerialType = TP!SerialType
  OBVIOUS
<1>2. \A s, k : LP!Consistent(s, k) <=> TP!Consistent(s, k)
  OBVIOUS
<1>3. \A s, k : LP!RequestsSound(s, k) <=> TP!RequestsSound(s, k)
  OBVIOUS
<1>4. \A s : LP!CodesApart(s) <=> TP!CodesApart(s)
  OBVIOUS
<1>5. LP!SignInStep <=> TP!SignInStep
  OBVIOUS
<1>6. QED
  BY ONLY <1>1, <1>2, <1>3, <1>4, <1>5


\* The grants the store stands for.
LEMMA GrantsSame ==
    /\ TP!Abstract!Init => Abstract!Init
    /\ TP!Abstract!Next => Abstract!Next
    /\ UNCHANGED TP!Abstract!grantVars => UNCHANGED Abstract!grantVars
BY DEF
    TP!Abstract!grantVars, Abstract!grantVars, TP!Abstract!Init,
    Abstract!Init, TP!Abstract!EndsWhole, Abstract!EndsWhole,
    TP!Abstract!NextAccess, Abstract!NextAccess, TP!Abstract!Lapse,
    Abstract!Lapse, TP!Abstract!Redeem, Abstract!Redeem, TP!Abstract!Retire,
    Abstract!Retire, TP!Abstract!Issue, Abstract!Issue,
    TP!Abstract!GrantAccess, Abstract!GrantAccess, TP!Abstract!OpenFamily,
    Abstract!OpenFamily, TP!Abstract!Rotate, Abstract!Rotate,
    TP!Abstract!GrantService, Abstract!GrantService, TP!Abstract!Step,
    Abstract!Step, TP!Abstract!Next, Abstract!Next, TP!OwnsCode, OwnsCode,
    TP!Current, Current, TP!FamiliesOf, FamiliesOf, TP!AccessOf, AccessOf,
    TP!RedeemableOf, RedeemableOf, TP!DrawnOf, DrawnOf

\* The initial states.
LEMMA InitSame ==
    ASSUME Init
    PROVE  LP!Init /\ TP!Init
<1>1. LP!Init
  BY DEF Init,
     LP!NoID, Login!NoID, LP!NewStore, Login!NewStore, LP!Idle, Login!Idle,
     LP!Init, Login!Init
<1>2. TP!Init
  BY DEF Init,
     TP!NoID, Tokens!NoID, TP!StandardScopes, Tokens!StandardScopes,
     TP!NewStore, Tokens!NewStore, TP!Granted, Tokens!Granted, TP!Idle,
     Tokens!Idle, TP!SignedIn, Tokens!SignedIn, TP!SavedCode,
     Tokens!SavedCode, TP!Init, Tokens!Init
<1>3. QED
  BY <1>1, <1>2

----------------------------------------------------------------------------
(* The inductive invariant. *)

\* A redemption, done or about to be done, goes back to the one who signed in
\* to the request, and the code was sent to a browser.
Traced ==
    /\ \A p \in redeemed : \E signer \in signers :
          /\ signer.request = p[1]
          /\ \A a \in store.access : a.id = p[2] => a.subject = signer.user
          /\ \E d \in delivered : d.request = p[1]
    /\ \A th \in TokenThreads : tokenCalls[th].stage = "codeFound" =>
          \E signer \in signers :
              /\ signer.request = tokenCalls[th].auth
              /\ signer.user = tokenCalls[th].subject
              /\ \E d \in delivered : d.request = tokenCalls[th].auth

\* What each side keeps, and what connects them.
RealmInv ==
    /\ LP!LoginInv
    /\ LP!CodesDelivered
    /\ TP!TokenInv
    /\ Traced

\* The invariant holds at the start.
LEMMA RealmStart ==
    ASSUME Init
    PROVE  RealmInv
<1>1. LP!Init /\ TP!Init
  BY InitSame
<1>2. LP!LoginInv
  BY <1>1, LP!LoginStart, Names, RealmAssumption, NamespaceAssumption,
     ScopesAssumption, LifetimesAssumption, BoundsAssumption
<1>3. TP!TokenInv
  BY <1>1, TP!TokenStart, Names, Caps, RealmAssumption, NamespaceAssumption,
     ScopesAssumption, LifetimesAssumption, BoundsAssumption
<1>4. store.authRequests = {}
  BY <1>1 DEF LP!Init, LP!NewStore
<1>5. /\ redeemed = {}
      /\ \A th \in TokenThreads : tokenCalls[th].stage = "idle"
  BY <1>1 DEF TP!Init, TP!Idle
<1>6. QED
  BY <1>2, <1>3, <1>4, <1>5 DEF RealmInv, LP!CodesDelivered, Traced

----------------------------------------------------------------------------
(* The two kinds of step. *)

\* What the sign-in handlers guarantee when they take a step.
LEMMA LoginGuarantees ==
    ASSUME RealmInv, Login!Next
    PROVE  /\ LP!LoginInv' /\ LP!CodesDelivered'
           /\ signers \subseteq signers' /\ delivered \subseteq delivered'
           /\ TP!SignInStep
<1>1. LP!Next /\ LP!CodesApart(store)
  BY LoginSame, StoreSame
  DEF RealmInv, TP!TokenInv, TP!RequestInv, TP!CodesApart
<1>2. [LP!Next]_(LP!vars)
  BY <1>1
<1>3. LP!LoginInv /\ LP!CodesDelivered
  BY DEF RealmInv
<1>4. LP!LoginInv'
  BY <1>2, <1>3, LP!LoginNext, Names, RealmAssumption, NamespaceAssumption,
     ScopesAssumption, LifetimesAssumption, BoundsAssumption
<1>5. LP!CodesDelivered'
  BY <1>1, <1>2, <1>3, LP!DeliveredStep, Names, RealmAssumption, NamespaceAssumption,
     ScopesAssumption, LifetimesAssumption, BoundsAssumption
<1>6. signers \subseteq signers' /\ delivered \subseteq delivered'
  BY <1>2, <1>3, LP!HistoryGrows, Names, RealmAssumption, NamespaceAssumption,
     ScopesAssumption, LifetimesAssumption, BoundsAssumption
<1>7. LP!SignInStep
  BY <1>1, <1>2, <1>3, LP!LoginGuarantee, Names, RealmAssumption, NamespaceAssumption,
     ScopesAssumption, LifetimesAssumption, BoundsAssumption
<1>8. QED
  BY <1>4, <1>5, <1>6, <1>7, StoreSame

\* A step of the sign-in handlers keeps the invariant: the token handlers
\* rely on no more than their guarantee.
LEMMA LoginSide ==
    ASSUME RealmInv, Login!Next, UNCHANGED tokenVars
    PROVE  RealmInv'
<1>1. /\ LP!LoginInv' /\ LP!CodesDelivered' /\ TP!SignInStep
      /\ signers \subseteq signers' /\ delivered \subseteq delivered'
  BY LoginGuarantees
<1>2. /\ store' \in TP!StoreType /\ serial' \in TP!SerialType /\ now' \in Nat \ {0}
      /\ TP!Consistent(store', serial') /\ TP!RequestsSound(store', serial')
  BY <1>1, StoreSame DEF LP!LoginInv, LP!LoginTypes
<1>3. UNCHANGED TP!tokenVars /\ UNCHANGED <<tokenCalls, redeemed>>
  BY DEF tokenVars, TP!tokenVars
<1>4. TP!TokenInv'
  BY <1>1, <1>2, <1>3, TP!TokenRely, Names, Caps, RealmAssumption, NamespaceAssumption,
     ScopesAssumption, LifetimesAssumption, BoundsAssumption DEF RealmInv
<1>5. store'.access \subseteq store.access
  BY <1>1 DEF TP!SignInStep, TP!SignInChange, TP!OnlyLapses
<1>6. Traced'
  <2>1. ASSUME NEW p \in redeemed'
        PROVE  \E signer \in signers' :
                  /\ signer.request = p[1]
                  /\ \A a \in store'.access : a.id = p[2] => a.subject = signer.user
                  /\ \E d \in delivered' : d.request = p[1]
    BY <1>1, <1>3, <1>5, <2>1 DEF RealmInv, Traced
  <2>2. ASSUME NEW th \in TokenThreads, tokenCalls'[th].stage = "codeFound"
        PROVE  \E signer \in signers' :
                  /\ signer.request = tokenCalls'[th].auth
                  /\ signer.user = tokenCalls'[th].subject
                  /\ \E d \in delivered' : d.request = tokenCalls'[th].auth
    BY <1>1, <1>3, <2>2 DEF RealmInv, Traced
  <2>3. QED
    BY <2>1, <2>2 DEF Traced
<1>7. QED
  BY <1>1, <1>4, <1>6 DEF RealmInv

\* A code that is found was the signer's: only a sign-in completes a request,
\* and only a code that was sent to a browser is found.
LEMMA FoundTraced ==
    ASSUME RealmInv, NEW r \in store.authRequests, r.done, r.code # 0
    PROVE  \E signer \in signers :
              /\ signer.request = r.id /\ signer.user = r.subject
              /\ \E d \in delivered : d.request = r.id
BY DEF RealmInv, LP!LoginInv, LP!SignersKnown, LP!CodesDelivered

\* A step of the token handlers keeps the invariant: they start no request,
\* and change none, so the sign-in handlers may rely on theirs.
LEMMA TokenSide ==
    ASSUME RealmInv, Tokens!Next, UNCHANGED loginVars
    PROVE  RealmInv'
<1>1. TP!TokenInv /\ TP!Next /\ [TP!Next]_(TP!vars)
  BY TokensSame DEF RealmInv
<1>2. TP!HandlerInv /\ TP!RequestsSound(store, serial) /\ TP!Grounded
  BY <1>1 DEF TP!TokenInv, TP!RequestInv
<1>3. TP!TokenInv'
  BY <1>1, TP!TokenStep, Names, Caps, RealmAssumption, NamespaceAssumption,
     ScopesAssumption, LifetimesAssumption, BoundsAssumption
<1>4. /\ serial'.request = serial.request
      /\ store'.authRequests \subseteq store.authRequests
  BY <1>1, <1>2, TP!RequestSteps, TP!RequestsStaySound, Names, Caps, RealmAssumption,
     NamespaceAssumption, ScopesAssumption, LifetimesAssumption, BoundsAssumption
<1>5. /\ store' \in LP!StoreType /\ serial' \in LP!SerialType /\ now' \in Nat \ {0}
      /\ LP!Consistent(store', serial') /\ LP!RequestsSound(store', serial')
  BY <1>3, StoreSame
  DEF TP!TokenInv, TP!HandlerInv, TP!HandlerTypes, TP!RequestInv
<1>6. UNCHANGED LP!loginVars /\ UNCHANGED <<signers, delivered>>
  BY DEF loginVars, LP!loginVars
<1>7. LP!LoginInv' /\ LP!CodesDelivered'
  BY <1>4, <1>5, <1>6, LP!LoginRely, Names, RealmAssumption, NamespaceAssumption,
     ScopesAssumption, LifetimesAssumption, BoundsAssumption DEF RealmInv
<1>8. ASSUME NEW p \in redeemed'
      PROVE  \E signer \in signers :
                /\ signer.request = p[1]
                /\ \A a \in store'.access : a.id = p[2] => a.subject = signer.user
                /\ \E d \in delivered : d.request = p[1]
  <2>1. CASE p \in redeemed
    <3>1. \A a \in store'.access : a \in store.access \/ serial.access < a.id
      BY <1>1, <1>2, TP!AccessSteps, Names, Caps, RealmAssumption,
         NamespaceAssumption, ScopesAssumption, LifetimesAssumption, BoundsAssumption
    <3>2. p[2] <= serial.access /\ p[2] \in Nat /\ serial.access \in Nat
      BY <1>2, <2>1 DEF TP!Grounded, TP!HandlerInv, TP!HandlerTypes, TP!SerialType
    <3>3. \A a \in store'.access : a.id = p[2] => a \in store.access
      BY <3>1, <3>2
    <3>4. QED
      BY <2>1, <3>3 DEF RealmInv, Traced
  <2>2. CASE p \notin redeemed
    <3>1. PICK th \in TokenThreads :
             /\ tokenCalls[th].stage = "codeFound" /\ p[1] = tokenCalls[th].auth
             /\ \A a \in store'.access : a.id = p[2] => a.subject = tokenCalls[th].subject
      BY <1>1, <1>2, <1>8, <2>2, TP!RedeemedSteps, Names, Caps, RealmAssumption,
         NamespaceAssumption, ScopesAssumption, LifetimesAssumption, BoundsAssumption
    <3>2. QED
      BY <3>1 DEF RealmInv, Traced
  <2>3. QED
    BY <2>1, <2>2
<1>9. ASSUME NEW th \in TokenThreads, tokenCalls'[th].stage = "codeFound"
      PROVE  \E signer \in signers :
                /\ signer.request = tokenCalls'[th].auth
                /\ signer.user = tokenCalls'[th].subject
                /\ \E d \in delivered : d.request = tokenCalls'[th].auth
  <2>1. CASE tokenCalls'[th] = tokenCalls[th]
    BY <1>9, <2>1 DEF RealmInv, Traced
  <2>2. CASE tokenCalls'[th] # tokenCalls[th]
    <3>1. TP!Found(th)
      BY <1>1, <1>2, <1>9, <2>2, TP!LookupFinds, Names, Caps, RealmAssumption,
         NamespaceAssumption, ScopesAssumption, LifetimesAssumption, BoundsAssumption
    <3>2. PICK r \in store.authRequests :
             /\ r.done /\ r.code # 0
             /\ r.id = tokenCalls'[th].auth /\ r.subject = tokenCalls'[th].subject
      BY <3>1 DEF TP!Found
    <3>3. QED
      BY <3>2, FoundTraced
  <2>3. QED
    BY <2>1, <2>2
<1>10. Traced'
  BY <1>6, <1>8, <1>9 DEF Traced
<1>11. QED
  BY <1>3, <1>7, <1>10 DEF RealmInv

\* Nothing that the invariant speaks of changes.
LEMMA RealmStutters ==
    ASSUME RealmInv, UNCHANGED vars
    PROVE  RealmInv'
<1>1. /\ UNCHANGED sharedVars /\ UNCHANGED loginVars /\ UNCHANGED tokenVars
      /\ UNCHANGED LP!vars /\ UNCHANGED TP!vars
  BY DEF vars, sharedVars, loginVars, tokenVars, LP!vars, LP!loginVars, TP!vars, TP!tokenVars
<1>2. [LP!Next]_(LP!vars) /\ [TP!Next]_(TP!vars)
  BY <1>1
<1>3. LP!LoginInv'
  BY <1>2, LP!LoginNext, Names, RealmAssumption, NamespaceAssumption,
     ScopesAssumption, LifetimesAssumption, BoundsAssumption DEF RealmInv
<1>4. TP!TokenInv'
  BY <1>2, TP!TokenStep, Names, Caps, RealmAssumption, NamespaceAssumption,
     ScopesAssumption, LifetimesAssumption, BoundsAssumption DEF RealmInv
<1>5. LP!CodesDelivered' /\ Traced'
  BY <1>1 DEF sharedVars, loginVars, tokenVars, RealmInv, LP!CodesDelivered, Traced
<1>6. QED
  BY <1>3, <1>4, <1>5 DEF RealmInv

\* Every step of the realm keeps the invariant.
LEMMA RealmStep ==
    ASSUME RealmInv, [Next]_vars
    PROVE  RealmInv'
BY LoginSide, TokenSide, RealmStutters DEF Next

----------------------------------------------------------------------------
(* The theorems. *)

\* However sign-ins and token requests interleave, both sides keep their
\* invariants and every redemption goes back to a sign-in.
THEOREM RealmInvariant == Spec => []RealmInv
<1>1. Init => RealmInv
  BY RealmStart
<1>2. RealmInv /\ [Next]_vars => RealmInv'
  BY RealmStep
<1>3. QED
  BY <1>1, <1>2, PTL DEF Spec

\* From the form to the token: the access token an exchange created belongs to
\* the user who signed in to that request, and its code was sent to the
\* browser of that sign-in and to no other.
THEOREM TokenIsSigners == Spec => []TokenOfSigner
<1>1. ASSUME RealmInv PROVE TokenOfSigner
  <2> SUFFICES ASSUME NEW p \in redeemed
               PROVE  \E signer \in signers :
                  /\ signer.request = p[1]
                  /\ \A a \in store.access : a.id = p[2] => a.subject = signer.user
                  /\ {d.browser : d \in {x \in delivered : x.request = p[1]}}
                        = {signer.browser}
    BY DEF TokenOfSigner
  <2>1. PICK signer \in signers :
           /\ signer.request = p[1]
           /\ \A a \in store.access : a.id = p[2] => a.subject = signer.user
           /\ \E d \in delivered : d.request = p[1]
    BY <1>1 DEF RealmInv, Traced
  <2>2. \A d \in delivered : d.request = p[1] => d.browser = signer.browser
    BY <1>1, <2>1 DEF RealmInv, LP!LoginInv, LP!SignersKnown, LP!SignedIn
  <2>3. {d.browser : d \in {x \in delivered : x.request = p[1]}} = {signer.browser}
    BY <2>1, <2>2
  <2>4. QED
    BY <2>1, <2>3
<1>2. QED
  BY <1>1, RealmInvariant, PTL

\* What sign-in grants and rotation narrows: no token carries a scope outside
\* its client's allow-list or a custom scope its user has no permission for.
THEOREM RealmScopes == Spec => []TokenScopesAllowed
<1>1. RealmInv => TokenScopesAllowed
  BY Names DEF RealmInv, TP!TokenInv, TP!ScopesInv, TP!Permitted, TokenScopesAllowed,
     Tokens!TokenScopesAllowed, Tokens!StandardScopes, StandardScopes
<1>2. QED
  BY <1>1, RealmInvariant, PTL

\* A realm implements the grants: with codes issued by sign-ins and both sides
\* at work on the store, a code still opens one family or token, and a family
\* has one current token and ends together with its access token.
THEOREM RealmGrants == Spec => ImplementsGrants
<1>1. ASSUME Init PROVE Abstract!Init
  <2>1. TP!Init
    BY <1>1, InitSame
  <2>2. TP!Abstract!Init
    BY <2>1, TP!GrantsStart, Names, Caps, RealmAssumption, NamespaceAssumption,
       ScopesAssumption, LifetimesAssumption, BoundsAssumption
  <2>3. QED
    BY <2>2, GrantsSame
<1>2. ASSUME RealmInv, [Next]_vars PROVE [Abstract!Next]_(Abstract!grantVars)
  <2>1. CASE Login!Next /\ UNCHANGED tokenVars
    <3>1. TP!SignInStep /\ LP!LoginInv /\ LP!LoginInv'
      BY <1>2, <2>1, LoginGuarantees DEF RealmInv
    <3>2. /\ store \in TP!StoreType /\ serial \in TP!SerialType
          /\ serial' \in TP!SerialType /\ now \in Nat
      BY <3>1, StoreSame DEF LP!LoginInv, LP!LoginTypes
    <3>3. TP!Abstract!Next
      BY <3>1, <3>2, TP!SignInGrants, Names, Caps, RealmAssumption,
         NamespaceAssumption, ScopesAssumption, LifetimesAssumption, BoundsAssumption
    <3>4. QED
      BY <3>3, GrantsSame
  <2>2. CASE Tokens!Next /\ UNCHANGED loginVars
    <3>1. TP!HandlerInv /\ TP!RequestInv /\ TP!LogoutInv /\ [TP!Next]_(TP!vars)
      BY <1>2, <2>2, TokensSame DEF RealmInv, TP!TokenInv
    <3>2. [TP!Abstract!Next]_(TP!Abstract!grantVars)
      BY <3>1, TP!GrantsStep, Names, Caps, RealmAssumption,
         NamespaceAssumption, ScopesAssumption, LifetimesAssumption, BoundsAssumption
    <3>3. QED
      BY <3>2, GrantsSame
  <2>3. CASE UNCHANGED vars
    BY <2>3 DEF vars, sharedVars, Abstract!grantVars
  <2>4. QED
    BY <1>2, <2>1, <2>2, <2>3 DEF Next
<1>3. QED
  BY <1>1, <1>2, RealmInvariant, PTL DEF Spec, ImplementsGrants, Abstract!Spec

----------------------------------------------------------------------------
(* What each side promises alone it still promises in the realm. *)

\* The sign-in handlers: a request has one outcome, its code reaches only the
\* browser that completed it, and a secret passes one callback, also while
\* exchanges and logouts take requests and codes away.
THEOREM RealmSignIns ==
    Spec => [](/\ Login!OneSignInPerRequest
               /\ Login!CodeReachesSigner
               /\ Login!SecretPassesOnce)
<1>1. ASSUME RealmInv PROVE Login!OneSignInPerRequest /\ Login!CodeReachesSigner
  BY <1>1 DEF RealmInv, LP!LoginInv, LP!SignersKnown, LP!SignedIn,
     Login!OneSignInPerRequest, Login!CodeReachesSigner
<1>2. ASSUME RealmInv PROVE Login!SecretPassesOnce
  <2>1. LP!SecretPassesOnce
    BY <1>2, LP!OnePasses, Names, RealmAssumption, NamespaceAssumption,
       ScopesAssumption, LifetimesAssumption, BoundsAssumption DEF RealmInv
  <2>2. \A S : LP!Cardinality(S) = Login!Cardinality(S)
    BY DEF LP!Cardinality, Login!Cardinality
  <2>3. QED
    BY <2>1, <2>2 DEF LP!SecretPassesOnce, Login!SecretPassesOnce
<1>3. QED
  BY <1>1, <1>2, RealmInvariant, PTL

\* The token handlers: a code is redeemed once, a family holds one pair and a
\* revoked one nothing, an exchange that won its code keeps its request, a
\* logout is final and the audiences are in order, also while sign-ins
\* create, prune and complete requests and issue codes.
THEOREM RealmTokens ==
    Spec => [](/\ Tokens!CodeRedeemedOnce
               /\ Tokens!FamilyHoldsOnePair
               /\ Tokens!RevokedFamilyIsGone
               /\ Tokens!WinnerKeepsItsRequest
               /\ Tokens!LogoutIsFinal
               /\ Tokens!AudienceOrder)
<1>1. ASSUME RealmInv
      PROVE  Tokens!CodeRedeemedOnce /\ Tokens!LogoutIsFinal /\ Tokens!AudienceOrder
  BY <1>1 DEF RealmInv, TP!TokenInv, TP!HandlerInv, TP!LogoutInv, TP!ExchangeInv,
     TP!CodeRedeemedOnce, Tokens!CodeRedeemedOnce, TP!LogoutIsFinal,
     Tokens!LogoutIsFinal, TP!AudienceOrder, Tokens!AudienceOrder
<1>2. ASSUME RealmInv PROVE Tokens!FamilyHoldsOnePair /\ Tokens!RevokedFamilyIsGone
  <2>1. TP!FamilyHoldsOnePair /\ TP!RevokedFamilyIsGone
    BY <1>2, TP!OnePairNow, TP!RevokedGoneNow, Names, Caps, RealmAssumption,
       NamespaceAssumption, ScopesAssumption, LifetimesAssumption, BoundsAssumption
    DEF RealmInv, TP!TokenInv
  <2>2. TP!FamilyHoldsOnePair => Tokens!FamilyHoldsOnePair
    BY DEF TP!FamilyHoldsOnePair, Tokens!FamilyHoldsOnePair
  <2>3. TP!RevokedFamilyIsGone => Tokens!RevokedFamilyIsGone
    BY DEF TP!RevokedFamilyIsGone, Tokens!RevokedFamilyIsGone, TP!FamilyIDs,
       Tokens!FamilyIDs
  <2>4. QED
    BY <2>1, <2>2, <2>3
<1>3. ASSUME RealmInv PROVE Tokens!WinnerKeepsItsRequest
  BY <1>3 DEF RealmInv, TP!TokenInv, TP!RequestInv, TP!WinnerKeepsItsRequest,
     Tokens!WinnerKeepsItsRequest, TP!DeleteAuthRequestOK, Tokens!DeleteAuthRequestOK,
     TP!OwnsCode, Tokens!OwnsCode
<1>4. QED
  BY <1>1, <1>2, <1>3, RealmInvariant, PTL

\* A revocation that found its refresh token ends the family of the token,
\* whatever the sign-in handlers prune between its two calls.
THEOREM RealmRevocations == Spec => Tokens!RevocationIsFinal
<1>1. ASSUME RealmInv, [Next]_vars, NEW th \in TokenThreads,
             tokenCalls[th].stage = "revoking", tokenCalls'[th].stage # "revoking"
      PROVE  tokenCalls[th].family \notin Tokens!FamilyIDs(store')
  <2>1. Tokens!Next
    BY <1>1 DEF Next, vars, tokenVars
  <2>2. TP!HandlerInv /\ TP!RevokeInv /\ [TP!Next]_(TP!vars)
    BY <1>1, <2>1, TokensSame DEF RealmInv, TP!TokenInv
  <2>3. tokenCalls[th].family \notin TP!FamilyIDs(store')
    BY <1>1, <2>2, TP!RevocationDone, Names, Caps, RealmAssumption,
       NamespaceAssumption, ScopesAssumption, LifetimesAssumption, BoundsAssumption
  <2>4. QED
    BY <2>3 DEF TP!FamilyIDs, Tokens!FamilyIDs
<1>2. RealmInv /\ [Next]_vars =>
         [\A th \in TokenThreads :
             tokenCalls[th].stage = "revoking" /\ tokenCalls'[th].stage # "revoking" =>
                 tokenCalls[th].family \notin Tokens!FamilyIDs(store')]_(Tokens!vars)
  BY <1>1
<1>3. QED
  BY <1>2, RealmInvariant, PTL DEF Spec, Tokens!RevocationIsFinal

============================================================================
