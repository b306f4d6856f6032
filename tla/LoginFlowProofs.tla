-------------------------- MODULE LoginFlowProofs --------------------------
(***************************************************************************)
(* Proofs about LoginFlow, for any number of browsers, threads, pending    *)
(* requests and hash slots: who signed in to a request, who gets its code, *)
(* and what a completion secret is good for.                               *)
(***************************************************************************)
EXTENDS LoginFlow, StoreProofs, FiniteSetTheorems

LoginStages == {"idle", "authorizing", "submitted", "looked", "hashing",
                "compared", "completed", "responding", "proved", "located"}

LoginCall ==
    [stage: LoginStages, browser: Browsers \cup {NoID}, request: Nat,
     client: Clients \cup {NoID}, scopes: SUBSET Scopes,
     user: Users \cup {NoID}, found: BOOLEAN, since: Nat, secret: Nat]

Signer == [browser: Browsers \cup {NoID}, request: Nat, user: Users]

LoginTypes ==
    /\ store \in StoreType /\ IsFiniteSet(store.authRequests)
    /\ now \in Nat \ {0}
    /\ serial \in SerialType
    /\ calls \in [Threads -> LoginCall]
    /\ \A th \in Threads : calls[th].stage = "authorizing" => calls[th].client \in Clients
    /\ jar \in [Browsers -> SUBSET (Nat \X Nat)]
    /\ signers \subseteq Signer

\* The browser b completed the request id.
SignedIn(b, id) == \E p \in signers : p.request = id /\ p.browser = b

\* The threads that hold the outcome of a sign-in, between its completion and
\* the answer, and those that hold it in place of the secret and the code.
HasSignedIn(call) == call.stage \in {"completed", "responding", "proved", "located"}
HoldsOutcome(call) == call.stage \in {"completed", "proved", "located"}

\* One sign-in completes a request; its browser alone carries it on.
SignersKnown ==
    /\ \A p, q \in signers : p.request = q.request => p = q
    /\ \A p \in signers :
          /\ p.request <= serial.request
          /\ \A r \in store.authRequests : r.id = p.request => r.done
    /\ \A r \in store.authRequests : r.done =>
          \E p \in signers : p.request = r.id /\ p.user = r.subject
    /\ \A th \in Threads : HasSignedIn(calls[th]) =>
          SignedIn(calls[th].browser, calls[th].request)
    /\ \A b \in Browsers : \A cookie \in jar[b] : SignedIn(b, cookie[1])
    /\ \A d \in delivered : SignedIn(d.browser, d.request)

\* The outcome of a sign-in is in one place: a thread, the secret or the code.
OneOutcome ==
    /\ \A th, x \in Threads :
          HoldsOutcome(calls[th]) /\ HoldsOutcome(calls[x])
          /\ calls[th].request = calls[x].request => th = x
    /\ \A th \in Threads : HoldsOutcome(calls[th]) =>
          \A r \in store.authRequests : r.id = calls[th].request =>
              r.secret = 0 /\ r.code = 0

\* The inductive invariant.
LoginInv ==
    /\ LoginTypes
    /\ Consistent(store, serial)
    /\ RequestsSound(store, serial)
    /\ SignersKnown
    /\ OneOutcome

----------------------------------------------------------------------------
(* What the steps share. *)

\* The store a handler works on after a prune at its clock reading t.
LEMMA PrunedAt ==
    ASSUME LoginInv, NEW t \in Nat
    PROVE  LET n == pruneLocked(store, t) IN
           /\ n \in StoreType
           /\ Consistent(n, serial) /\ RequestsSound(n, serial)
           /\ n.authRequests = {r \in store.authRequests : t < r.expires}
           /\ IsFiniteSet(n.authRequests)
<1>1. /\ store \in StoreType /\ serial \in SerialType
      /\ Consistent(store, serial) /\ RequestsSound(store, serial)
      /\ IsFiniteSet(store.authRequests)
  BY DEF LoginInv, LoginTypes
<1>2. pruneLocked(store, t).authRequests = {r \in store.authRequests : t < r.expires}
  BY <1>1, PruneFields
<1>3. IsFiniteSet({r \in store.authRequests : t < r.expires})
  BY <1>1, FS_Subset
<1>4. QED
  BY <1>1, <1>2, <1>3, PruneType, PruneConsistent, PruneSound

\* What a handler finds after pruning by its clock is a sound store.
LEMMA PrunedNow ==
    ASSUME LoginInv
    PROVE  /\ Pruned \in StoreType
           /\ Consistent(Pruned, serial) /\ RequestsSound(Pruned, serial)
           /\ Pruned.authRequests \subseteq store.authRequests
           /\ IsFiniteSet(Pruned.authRequests)
BY PrunedAt DEF Pruned, LoginInv, LoginTypes

\* A clock reading lies between the previous step and now.
LEMMA ClockRead ==
    ASSUME LoginInv, NEW th \in Threads, NEW t \in ReadClock(th)
    PROVE  t \in Nat /\ calls[th].since <= t
BY DEF ReadClock, LoginInv, LoginTypes, LoginCall

\* The idle thread holds nothing.
LEMMA LoginIdleOK ==
    /\ Idle \in LoginCall
    /\ Idle.stage = "idle" /\ ~HasSignedIn(Idle) /\ ~HoldsOutcome(Idle)
BY DEF Idle, LoginCall, LoginStages, HasSignedIn, HoldsOutcome

\* A thread moves on.
LEMMA Moved ==
    ASSUME LoginInv, NEW th \in Threads, NEW c \in LoginCall,
           calls' = [calls EXCEPT ![th] = c],
           c.stage = "authorizing" => c.client \in Clients
    PROVE  /\ calls' \in [Threads -> LoginCall]
           /\ calls'[th] = c
           /\ \A x \in Threads \ {th} : calls'[x] = calls[x]
           /\ \A x \in Threads :
                 calls'[x].stage = "authorizing" => calls'[x].client \in Clients
BY DEF LoginInv, LoginTypes

\* A step without a new request, sign-in or secret, in which no thread comes
\* to hold an outcome and every cookie and thread is its signer's.
LEMMA QuietStep ==
    ASSUME LoginInv,
           store' \in StoreType,
           Consistent(store', serial), RequestsSound(store', serial),
           store'.authRequests \subseteq store.authRequests,
           UNCHANGED <<serial, signers, delivered>>,
           now' \in Nat \ {0},
           jar' \in [Browsers -> SUBSET (Nat \X Nat)],
           \A b \in Browsers : \A cookie \in jar'[b] : SignedIn(b, cookie[1]),
           calls' \in [Threads -> LoginCall],
           \A x \in Threads :
               /\ calls'[x].stage = "authorizing" => calls'[x].client \in Clients
               /\ HasSignedIn(calls'[x]) => SignedIn(calls'[x].browser, calls'[x].request)
               /\ HoldsOutcome(calls'[x]) =>
                     HoldsOutcome(calls[x]) /\ calls'[x].request = calls[x].request
    PROVE  LoginInv'
<1>1. LoginTypes'
  BY FS_Subset DEF LoginInv, LoginTypes
<1>2. \A b, id : SignedIn(b, id) <=> SignedIn(b, id)'
  BY DEF SignedIn
<1>3. SignersKnown'
  <2>1. /\ \A p, q \in signers : p.request = q.request => p = q
        /\ \A p \in signers :
              /\ p.request <= serial.request
              /\ \A r \in store'.authRequests : r.id = p.request => r.done
        /\ \A r \in store'.authRequests : r.done =>
              \E p \in signers : p.request = r.id /\ p.user = r.subject
    BY DEF LoginInv, SignersKnown
  <2>2. \A d \in delivered : SignedIn(d.browser, d.request)
    BY DEF LoginInv, SignersKnown
  <2>3. QED
    BY <1>2, <2>1, <2>2 DEF SignersKnown
<1>4. OneOutcome'
  BY DEF LoginInv, OneOutcome
<1>5. QED
  BY <1>1, <1>3, <1>4 DEF LoginInv

\* The usual quiet step: one thread moves, no cookie is set.
LEMMA QuietMove ==
    ASSUME LoginInv, NEW th \in Threads, NEW c \in LoginCall,
           calls' = [calls EXCEPT ![th] = c],
           c.stage = "authorizing" => c.client \in Clients,
           HasSignedIn(c) => SignedIn(c.browser, c.request),
           HoldsOutcome(c) => HoldsOutcome(calls[th]) /\ c.request = calls[th].request,
           store' \in StoreType,
           Consistent(store', serial), RequestsSound(store', serial),
           store'.authRequests \subseteq store.authRequests,
           UNCHANGED <<now, serial, jar, signers, delivered>>
    PROVE  LoginInv'
<1>1. /\ calls' \in [Threads -> LoginCall]
      /\ calls'[th] = c
      /\ \A x \in Threads \ {th} : calls'[x] = calls[x]
      /\ \A x \in Threads :
            calls'[x].stage = "authorizing" => calls'[x].client \in Clients
  BY Moved
<1>2. \A x \in Threads :
        /\ HasSignedIn(calls'[x]) => SignedIn(calls'[x].browser, calls'[x].request)
        /\ HoldsOutcome(calls'[x]) =>
              HoldsOutcome(calls[x]) /\ calls'[x].request = calls[x].request
  BY <1>1 DEF LoginInv, SignersKnown
<1>3. /\ now' \in Nat \ {0}
      /\ jar' \in [Browsers -> SUBSET (Nat \X Nat)]
      /\ \A b \in Browsers : \A cookie \in jar'[b] : SignedIn(b, cookie[1])
  BY DEF LoginInv, LoginTypes, SignersKnown
<1>4. QED
  BY <1>1, <1>2, <1>3, QuietStep

\* A request that is refused, answered or given up, without a cookie.
LEMMA QuietReturn ==
    ASSUME LoginInv, NEW th \in Threads, Return(th),
           store' \in StoreType,
           Consistent(store', serial), RequestsSound(store', serial),
           store'.authRequests \subseteq store.authRequests,
           UNCHANGED <<now, serial, jar, signers, delivered>>
    PROVE  LoginInv'
BY LoginIdleOK, QuietMove DEF Return

\* And one whose answer may clear a cookie of its browser.
LEMMA ReturnClearing ==
    ASSUME LoginInv, NEW th \in Threads, Return(th), NEW b, NEW id,
           CookieCleared(b, id),
           store' \in StoreType,
           Consistent(store', serial), RequestsSound(store', serial),
           store'.authRequests \subseteq store.authRequests,
           UNCHANGED <<now, serial, signers, delivered>>
    PROVE  LoginInv'
<1>1. /\ calls' \in [Threads -> LoginCall]
      /\ calls'[th] = Idle
      /\ \A x \in Threads \ {th} : calls'[x] = calls[x]
      /\ \A x \in Threads :
            calls'[x].stage = "authorizing" => calls'[x].client \in Clients
  BY LoginIdleOK, Moved DEF Return
<1>2. \A x \in Threads :
        /\ HasSignedIn(calls'[x]) => SignedIn(calls'[x].browser, calls'[x].request)
        /\ HoldsOutcome(calls'[x]) =>
              HoldsOutcome(calls[x]) /\ calls'[x].request = calls[x].request
  BY <1>1, LoginIdleOK DEF LoginInv, SignersKnown
<1>3. /\ jar \in [Browsers -> SUBSET (Nat \X Nat)] /\ now' \in Nat \ {0}
      /\ \A x \in Browsers : \A cookie \in jar[x] : SignedIn(x, cookie[1])
  BY DEF LoginInv, LoginTypes, SignersKnown
<1>4. /\ jar' \in [Browsers -> SUBSET (Nat \X Nat)]
      /\ \A x \in Browsers : jar'[x] \subseteq jar[x]
  BY <1>3 DEF CookieCleared
<1>5. QED
  BY <1>1, <1>2, <1>3, <1>4, QuietStep

----------------------------------------------------------------------------
(* Each action preserves LoginInv. *)

\* A browser opens the authorization endpoint.
LEMMA AuthorizeOK ==
    ASSUME LoginInv, NEW th \in Threads, NEW client \in SPAClients,
           NEW scopes \in Requested, Authorize(th, client, scopes)
    PROVE  LoginInv'
<1>1. /\ store \in StoreType /\ now \in Nat
      /\ Consistent(store, serial) /\ RequestsSound(store, serial)
  BY DEF LoginInv, LoginTypes
<1>2. CASE Return(th)
  BY <1>1, <1>2, QuietReturn DEF Authorize
<1>3. CASE calls' = [calls EXCEPT ![th] =
              [Idle EXCEPT !.stage = "authorizing", !.client = client,
                           !.scopes = scopes, !.since = now]]
  <2> DEFINE c == [Idle EXCEPT !.stage = "authorizing", !.client = client,
                               !.scopes = scopes, !.since = now]
  <2>1. scopes \in SUBSET Scopes
    BY LoginAssumption
  <2>2. /\ c \in LoginCall /\ c.client \in Clients
        /\ ~HasSignedIn(c) /\ ~HoldsOutcome(c)
    BY <1>1, <2>1 DEF Idle, LoginCall, LoginStages, Clients, HasSignedIn, HoldsOutcome
  <2>3. calls' = [calls EXCEPT ![th] = c]
    BY <1>3
  <2> HIDE DEF c
  <2>4. QED
    BY <1>1, <2>2, <2>3, QuietMove DEF Authorize
<1>4. QED
  BY <1>2, <1>3 DEF Authorize

\* A new request is open: nobody signed in to it and no thread holds it.
LEMMA AuthorizeCreateOK ==
    ASSUME LoginInv, NEW th \in Threads, NEW t \in ReadClock(th),
           NEW hint \in Hints, AuthorizeCreate(th, t, hint)
    PROVE  LoginInv'
<1> DEFINE P == pruneLocked(store, t)
           client == calls[th].client
           scopes == calls[th].scopes
           id == serial.request + 1
           q == NewRequest(t, id, client, hint, scopes)
           n == CreateAuthRequest(P, t, id, client, hint, scopes)
           l == [serial EXCEPT !.request = id]
<1>1. t \in Nat
  BY ClockRead
<1>2. /\ P \in StoreType /\ Consistent(P, serial) /\ RequestsSound(P, serial)
      /\ P.authRequests \subseteq store.authRequests
      /\ IsFiniteSet(P.authRequests)
  BY <1>1, PrunedAt
<1>3. /\ serial \in SerialType /\ serial.request \in Nat
      /\ client \in Clients /\ scopes \in SUBSET Scopes
      /\ hint \in Users \cup {NoID}
  BY LoginAssumption DEF LoginInv, LoginTypes, LoginCall, SerialType, AuthorizeCreate, At
<1>4. store' = n /\ serial' = l
  BY DEF AuthorizeCreate
<1>5. id = serial.request + 1 /\ id \in Nat
  BY <1>3
<1> HIDE DEF P, client, scopes, id
<1>6. /\ n \in StoreType /\ l \in SerialType
      /\ Consistent(n, l) /\ RequestsSound(n, l)
      /\ n.authRequests = P.authRequests \cup {q}
  <2>1. /\ n \in StoreType /\ l \in SerialType
        /\ Consistent(n, l) /\ RequestsSound(n, l)
    BY <1>1, <1>2, <1>3, <1>5, CreateAuthRequestOK
  <2>2. n.authRequests = P.authRequests \cup {q}
    BY <1>1, <1>2, NewRequestFields
  <2>3. QED
    BY <2>1, <2>2
<1>7. l.request = id
  BY <1>3, <1>5 DEF SerialType
<1>8. q.id = id /\ ~q.done
  BY DEF NewRequest
<1> HIDE DEF n, l, q
<1>9. n.authRequests = P.authRequests \cup {q} /\ q.id = id /\ ~q.done
  BY <1>6, <1>8
<1>10. /\ calls' \in [Threads -> LoginCall]
       /\ calls'[th] = Idle
       /\ \A x \in Threads \ {th} : calls'[x] = calls[x]
       /\ \A x \in Threads :
             calls'[x].stage = "authorizing" => calls'[x].client \in Clients
  BY LoginIdleOK, Moved DEF AuthorizeCreate, Return
<1>11. \A p \in signers : p.request <= serial.request /\ p.request \in Nat
  BY DEF LoginInv, LoginTypes, Signer, SignersKnown
<1>12. \A b, some : SignedIn(b, some) <=> SignedIn(b, some)'
  BY DEF SignedIn, AuthorizeCreate
<1>13. LoginTypes'
  <2>1. IsFiniteSet(n.authRequests)
    BY <1>2, <1>9, FS_AddElement
  <2>2. /\ now' \in Nat \ {0}
        /\ jar' \in [Browsers -> SUBSET (Nat \X Nat)]
        /\ signers' \subseteq Signer
    BY DEF LoginInv, LoginTypes, AuthorizeCreate
  <2>3. store' \in StoreType /\ IsFiniteSet(store'.authRequests)
    BY <1>4, <1>6, <2>1
  <2>4. serial' \in SerialType
    BY <1>4, <1>6
  <2>5. /\ calls' \in [Threads -> LoginCall]
        /\ \A x \in Threads : calls'[x].stage = "authorizing" => calls'[x].client \in Clients
    BY <1>10
  <2>6. QED
    BY <2>2, <2>3, <2>4, <2>5 DEF LoginTypes
<1>14. SignersKnown'
  <2>1. \A p \in signers :
          /\ p.request <= l.request
          /\ \A r \in n.authRequests : r.id = p.request => r.done
    BY <1>2, <1>3, <1>5, <1>7, <1>9, <1>11 DEF LoginInv, SignersKnown
  <2>2. \A r \in n.authRequests : r.done =>
           \E p \in signers : p.request = r.id /\ p.user = r.subject
    BY <1>2, <1>9 DEF LoginInv, SignersKnown
  <2>3. \A x \in Threads : HasSignedIn(calls'[x]) =>
           SignedIn(calls'[x].browser, calls'[x].request)
    BY <1>10, LoginIdleOK DEF LoginInv, SignersKnown
  <2>4. QED
    BY <1>4, <1>12, <2>1, <2>2, <2>3 DEF LoginInv, SignersKnown, AuthorizeCreate
<1>15. OneOutcome'
  <2>1. \A x \in Threads : HoldsOutcome(calls'[x]) =>
           /\ x # th /\ calls'[x] = calls[x]
           /\ calls[x].request # q.id
    <3> SUFFICES ASSUME NEW x \in Threads, HoldsOutcome(calls'[x])
                 PROVE  x # th /\ calls'[x] = calls[x] /\ calls[x].request # q.id
      OBVIOUS
    <3>1. x # th /\ calls'[x] = calls[x]
      BY <1>10, LoginIdleOK
    <3>2. PICK p \in signers : p.request = calls[x].request
      BY <3>1 DEF LoginInv, SignersKnown, SignedIn, HoldsOutcome, HasSignedIn
    <3>3. QED
      BY <1>3, <1>5, <1>9, <1>11, <3>1, <3>2
  <2>2. QED
    BY <1>2, <1>4, <1>9, <2>1 DEF LoginInv, OneOutcome
<1>16. QED
  BY <1>4, <1>6, <1>13, <1>14, <1>15 DEF LoginInv

\* A refusal for lack of room, and a completion that comes too late.
LEMMA RefusalsOK ==
    ASSUME LoginInv, NEW th \in Threads, NEW t \in ReadClock(th),
           AuthorizeRefused(th, t) \/ CompletionRefused(th, t)
    PROVE  LoginInv'
BY ClockRead, PrunedAt, QuietReturn DEF AuthorizeRefused, CompletionRefused

\* A browser submits the sign-in form.
LEMMA LoginPOSTOK ==
    ASSUME LoginInv, NEW th \in Threads, NEW b \in Browsers, NEW id \in Nat,
           NEW user \in Users \cup {NoID}, loginPOST(th, b, id, user)
    PROVE  LoginInv'
<1>1. /\ Pruned \in StoreType
      /\ Consistent(Pruned, serial) /\ RequestsSound(Pruned, serial)
      /\ Pruned.authRequests \subseteq store.authRequests
      /\ now \in Nat
  BY PrunedNow DEF LoginInv, LoginTypes
<1>2. CASE Return(th)
  BY <1>1, <1>2, QuietReturn DEF loginPOST
<1>3. CASE calls' = [calls EXCEPT ![th] =
                [Idle EXCEPT !.stage = "submitted", !.browser = b,
                             !.request = id, !.user = user, !.since = now]]
  <2> DEFINE c == [Idle EXCEPT !.stage = "submitted", !.browser = b,
                               !.request = id, !.user = user, !.since = now]
  <2>1. /\ c \in LoginCall /\ c.stage = "submitted"
        /\ ~HasSignedIn(c) /\ ~HoldsOutcome(c)
    BY <1>1 DEF Idle, LoginCall, LoginStages, HasSignedIn, HoldsOutcome
  <2>2. calls' = [calls EXCEPT ![th] = c]
    BY <1>3
  <2> HIDE DEF c
  <2>3. QED
    BY <1>1, <2>1, <2>2, QuietMove DEF loginPOST
<1>4. QED
  BY <1>2, <1>3 DEF loginPOST

\* The first section of Authenticate and the comparison.
LEMMA CompareOK ==
    ASSUME LoginInv, NEW th \in Threads,
           \/ \E t \in ReadClock(th) : AuthenticateLookup(th, t)
           \/ CompareBegin(th)
           \/ \E passwordOK \in BOOLEAN : CompareEnd(th, passwordOK)
    PROVE  LoginInv'
<1>1. /\ store' \in StoreType
      /\ Consistent(store', serial) /\ RequestsSound(store', serial)
      /\ store'.authRequests \subseteq store.authRequests
      /\ UNCHANGED <<now, serial, jar, signers, delivered>>
  <2>1. CASE \E t \in ReadClock(th) : AuthenticateLookup(th, t)
    BY <2>1, ClockRead, PrunedAt DEF AuthenticateLookup
  <2>2. CASE ~\E t \in ReadClock(th) : AuthenticateLookup(th, t)
    BY <2>2 DEF LoginInv, LoginTypes, CompareBegin, CompareEnd
  <2>3. QED
    BY <2>1, <2>2
<1>2. calls \in [Threads -> LoginCall] /\ now \in Nat
  BY DEF LoginInv, LoginTypes
<1>3. CASE Return(th)
  BY <1>1, <1>3, QuietReturn
<1>4. CASE ~Return(th)
  <2>1. PICK stage \in {"looked", "hashing", "compared"}, found \in BOOLEAN, since \in Nat :
           calls' = [calls EXCEPT ![th] = [calls[th] EXCEPT
                        !.stage = stage, !.found = found, !.since = since]]
    <3>1. CASE \E t \in ReadClock(th) : AuthenticateLookup(th, t)
      <4>1. PICK found \in BOOLEAN : calls' = [calls EXCEPT ![th].stage = "looked",
                                                           ![th].found = found]
        BY <1>4, <3>1 DEF AuthenticateLookup
      <4>2. calls' = [calls EXCEPT ![th] = [calls[th] EXCEPT !.stage = "looked",
                         !.found = found, !.since = calls[th].since]]
        BY <1>2, <4>1 DEF LoginCall
      <4>3. QED
        BY <1>2, <4>2 DEF LoginCall
    <3>2. CASE CompareBegin(th)
      <4>1. calls' = [calls EXCEPT ![th].stage = "hashing"]
        BY <1>4, <3>2 DEF CompareBegin
      <4>2. calls' = [calls EXCEPT ![th] = [calls[th] EXCEPT !.stage = "hashing",
                         !.found = calls[th].found, !.since = calls[th].since]]
        BY <1>2, <4>1 DEF LoginCall
      <4>3. QED
        BY <1>2, <4>2 DEF LoginCall
    <3>3. CASE \E passwordOK \in BOOLEAN : CompareEnd(th, passwordOK)
      <4>1. calls' = [calls EXCEPT ![th].stage = "compared", ![th].since = now]
        BY <1>4, <3>3 DEF CompareEnd
      <4>2. calls' = [calls EXCEPT ![th] = [calls[th] EXCEPT !.stage = "compared",
                         !.found = calls[th].found, !.since = now]]
        BY <1>2, <4>1 DEF LoginCall
      <4>3. QED
        BY <1>2, <4>2 DEF LoginCall
    <3>4. QED
      BY <3>1, <3>2, <3>3
  <2> DEFINE c == [calls[th] EXCEPT !.stage = stage, !.found = found, !.since = since]
  <2>2. c \in LoginCall /\ c.stage = stage
    BY <1>2 DEF LoginCall, LoginStages
  <2> HIDE DEF c
  <2>3. ~HasSignedIn(c) /\ ~HoldsOutcome(c) /\ c.stage # "authorizing"
    BY <2>2 DEF HasSignedIn, HoldsOutcome
  <2>4. calls' = [calls EXCEPT ![th] = c]
    BY <2>1 DEF c
  <2>5. QED
    BY <1>1, <2>2, <2>3, <2>4, QuietMove
<1>5. QED
  BY <1>3, <1>4

\* One request changes, and the outcome of its sign-in is handed on: from the
\* thread to the secret or the code, or from the secret to the thread.
LEMMA HandOver ==
    ASSUME LoginInv, NEW th \in Threads, NEW c \in LoginCall,
           calls' = [calls EXCEPT ![th] = c], c.stage # "authorizing",
           NEW r \in store.authRequests, r.done,
           NEW q \in AuthRequest, q.id = r.id, q.done, q.subject = r.subject,
           store' \in StoreType, serial' \in SerialType,
           Consistent(store', serial'), RequestsSound(store', serial'),
           serial'.request = serial.request,
           store'.authRequests \subseteq (store.authRequests \ {r}) \cup {q},
           UNCHANGED <<now, signers>>,
           HasSignedIn(c) => SignedIn(c.browser, c.request),
           HoldsOutcome(c) => c.request = r.id /\ q.secret = 0 /\ q.code = 0,
           \A x \in Threads \ {th} :
               HoldsOutcome(calls[x]) => calls[x].request # r.id,
           jar' \in [Browsers -> SUBSET (Nat \X Nat)],
           \A b \in Browsers : \A cookie \in jar'[b] : SignedIn(b, cookie[1]),
           \A d \in delivered' : SignedIn(d.browser, d.request)
    PROVE  LoginInv'
<1>1. /\ calls' \in [Threads -> LoginCall]
      /\ calls'[th] = c
      /\ \A x \in Threads \ {th} : calls'[x] = calls[x]
      /\ \A x \in Threads :
            calls'[x].stage = "authorizing" => calls'[x].client \in Clients
  BY Moved
<1>2. \A b, id : SignedIn(b, id) <=> SignedIn(b, id)'
  BY DEF SignedIn
<1>3. LoginTypes'
  <2>1. IsFiniteSet(store'.authRequests)
    <3>1. IsFiniteSet(store.authRequests \ {r})
      BY FS_Subset DEF LoginInv, LoginTypes
    <3>2. IsFiniteSet((store.authRequests \ {r}) \cup {q})
      BY <3>1, FS_AddElement
    <3>3. QED
      BY <3>2, FS_Subset
  <2>2. QED
    BY <1>1, <2>1 DEF LoginInv, LoginTypes
<1>4. SignersKnown'
  <2>1. \A p \in signers : \A x \in store'.authRequests : x.id = p.request => x.done
    BY DEF LoginInv, SignersKnown
  <2>2. \A x \in store'.authRequests : x.done =>
           \E p \in signers : p.request = x.id /\ p.user = x.subject
    BY DEF LoginInv, SignersKnown
  <2>3. \A x \in Threads : HasSignedIn(calls'[x]) =>
           SignedIn(calls'[x].browser, calls'[x].request)
    BY <1>1 DEF LoginInv, SignersKnown
  <2>4. QED
    BY <1>2, <2>1, <2>2, <2>3 DEF LoginInv, SignersKnown
<1>5. OneOutcome'
  <2>1. \A x \in Threads : HoldsOutcome(calls'[x]) =>
           \/ x = th /\ calls'[x].request = r.id
           \/ x # th /\ calls'[x] = calls[x] /\ calls[x].request # r.id
    BY <1>1
  <2>2. \A x, y \in Threads :
           HoldsOutcome(calls'[x]) /\ HoldsOutcome(calls'[y])
           /\ calls'[x].request = calls'[y].request => x = y
    BY <2>1 DEF LoginInv, OneOutcome
  <2>3. \A x \in Threads : HoldsOutcome(calls'[x]) =>
           \A y \in store'.authRequests : y.id = calls'[x].request =>
               y.secret = 0 /\ y.code = 0
    <3> SUFFICES ASSUME NEW x \in Threads, HoldsOutcome(calls'[x]),
                        NEW y \in store'.authRequests, y.id = calls'[x].request
                 PROVE  y.secret = 0 /\ y.code = 0
      OBVIOUS
    <3>1. CASE x = th
      <4>1. y = q
        BY <1>1, <2>1, <3>1 DEF LoginInv, RequestsSound
      <4>2. QED
        BY <1>1, <3>1, <4>1
    <3>2. CASE x # th
      BY <2>1, <3>2 DEF LoginInv, OneOutcome
    <3>3. QED
      BY <3>1, <3>2
  <2>4. QED
    BY <2>2, <2>3 DEF OneOutcome
<1>6. QED
  BY <1>3, <1>4, <1>5 DEF LoginInv

\* A sign-in completes an open request, which has no signer yet.
LEMMA CompleteOK ==
    ASSUME LoginInv, NEW th \in Threads, NEW t \in ReadClock(th),
           CompleteAuthentication(th, t)
    PROVE  LoginInv'
<1> DEFINE P == pruneLocked(store, t)
           call == calls[th]
           c == [call EXCEPT !.stage = "completed"]
           signer == [browser |-> call.browser, request |-> call.request,
                      user |-> call.user]
           Later(b, id) == \E p \in signers' : p.request = id /\ p.browser = b
<1>1. t \in Nat
  BY ClockRead
<1>2. /\ P \in StoreType /\ Consistent(P, serial) /\ RequestsSound(P, serial)
      /\ P.authRequests = {r \in store.authRequests : t < r.expires}
      /\ IsFiniteSet(P.authRequests)
  BY <1>1, PrunedAt
<1>3. /\ serial \in SerialType /\ calls \in [Threads -> LoginCall]
      /\ call \in LoginCall /\ call.user \in Users
  BY DEF LoginInv, LoginTypes, LoginCall, CompleteAuthentication
<1>4. PICK r \in Completable(P, call.request) :
         store' = completeAuthenticationLocked(P, r, call.user, t)
  BY DEF CompleteAuthentication
<1>5. /\ r \in P.authRequests /\ r \in store.authRequests /\ r \in AuthRequest
      /\ r.id = call.request /\ ~r.done /\ t < r.expires
      /\ r.secret = 0 /\ r.code = 0
  BY <1>2, <1>4 DEF Completable, StoreType, RequestsSound, RequestSound
<1> DEFINE q == [r EXCEPT !.subject = call.user,
                          !.scopes = Granted(r.client, call.user, r.scopes),
                          !.authTime = t, !.done = TRUE]
<1>6. /\ q \in AuthRequest /\ q.id = r.id /\ q.expires = r.expires
      /\ q.code = 0 /\ q.secret = 0 /\ q.done
      /\ q.subject = call.user /\ q.authTime = t
  <2>1. Granted(r.client, call.user, r.scopes) \in SUBSET Scopes
    BY <1>5 DEF Granted, AuthRequest
  <2>2. QED
    BY <1>1, <1>3, <1>5, <2>1 DEF AuthRequest
<1>7. store' = UpdateRequest(P, r, q)
  BY <1>4 DEF completeAuthenticationLocked
<1>8. /\ c \in LoginCall /\ c.stage = "completed" /\ c.request = r.id
      /\ c.browser = call.browser
      /\ calls' = [calls EXCEPT ![th] = c]
      /\ signers' = signers \cup {signer}
      /\ signer \in Signer /\ signer.request = r.id /\ signer.user = call.user
      /\ signer.browser = call.browser
  BY <1>3, <1>5 DEF CompleteAuthentication, LoginCall, LoginStages, Signer
<1> HIDE DEF P, q, c, signer
<1>9. /\ store' \in StoreType
      /\ store'.authRequests = (P.authRequests \ {r}) \cup {q}
  BY <1>2, <1>6, <1>7, UpdateFields
<1>10. Consistent(store', serial)
  BY <1>2, <1>3, <1>5, <1>6, <1>7, UpdateConsistent
<1>11. RequestsSound(store', serial)
  <2>1. RequestSound(q, serial)
    BY <1>2, <1>5, <1>6 DEF RequestsSound, RequestSound
  <2>2. QED
    BY <1>2, <1>3, <1>5, <1>6, <1>7, <2>1, UpdateSound
<1>12. /\ calls' \in [Threads -> LoginCall]
       /\ calls'[th] = c
       /\ \A x \in Threads \ {th} : calls'[x] = calls[x]
       /\ \A x \in Threads :
             calls'[x].stage = "authorizing" => calls'[x].client \in Clients
  BY <1>8, Moved
<1>13. \A p \in signers : p.request # r.id
  BY <1>5 DEF LoginInv, SignersKnown
<1>14. \A b, id : SignedIn(b, id) => Later(b, id)
  BY <1>8 DEF SignedIn
<1>15. Later(c.browser, c.request)
  BY <1>8
<1> HIDE DEF Later
<1>16. LoginTypes'
  <2>1. IsFiniteSet(store'.authRequests)
    <3>1. IsFiniteSet(P.authRequests \ {r})
      BY <1>2, FS_Subset
    <3>2. QED
      BY <1>9, <3>1, FS_AddElement
  <2>2. signers' \subseteq Signer
    BY <1>8 DEF LoginInv, LoginTypes
  <2>3. QED
    BY <1>9, <1>12, <2>1, <2>2 DEF LoginInv, LoginTypes, CompleteAuthentication
<1>17. SignersKnown'
  <2>1. \A p, x \in signers' : p.request = x.request => p = x
    BY <1>8, <1>13 DEF LoginInv, SignersKnown
  <2>2. \A p \in signers' : p.request <= serial.request
    <3>1. r.id <= serial.request
      BY <1>2, <1>5 DEF RequestsSound, RequestSound
    <3>2. QED
      BY <1>8, <3>1 DEF LoginInv, SignersKnown
  <2>3. \A p \in signers' : \A x \in store'.authRequests : x.id = p.request => x.done
    <3>1. \A x \in P.authRequests : x.id = r.id => x = r
      BY <1>2, <1>5 DEF RequestsSound
    <3>2. QED
      BY <1>2, <1>6, <1>8, <1>9, <3>1 DEF LoginInv, SignersKnown
  <2>4. \A x \in store'.authRequests : x.done =>
           \E p \in signers' : p.request = x.id /\ p.user = x.subject
    <3>1. \A x \in store.authRequests : x.done =>
             \E p \in signers : p.request = x.id /\ p.user = x.subject
      BY DEF LoginInv, SignersKnown
    <3>2. signer \in signers' /\ signers \subseteq signers'
      BY <1>8
    <3>3. QED
      BY <1>2, <1>6, <1>8, <1>9, <3>1, <3>2
  <2>5. \A x \in Threads : HasSignedIn(calls'[x]) =>
           Later(calls'[x].browser, calls'[x].request)
    BY <1>12, <1>14, <1>15 DEF LoginInv, SignersKnown
  <2>6. \A b \in Browsers : \A cookie \in jar[b] : Later(b, cookie[1])
    BY <1>14 DEF LoginInv, SignersKnown
  <2>7. \A d \in delivered : Later(d.browser, d.request)
    BY <1>14 DEF LoginInv, SignersKnown
  <2>8. jar' = jar /\ delivered' = delivered /\ serial' = serial
    BY DEF CompleteAuthentication
  <2>9. QED
    BY <2>1, <2>2, <2>3, <2>4, <2>5, <2>6, <2>7, <2>8 DEF SignersKnown, SignedIn, Later
\* Nobody else holds the outcome of a request that was open.
<1>18. OneOutcome'
  <2>1. \A x \in Threads \ {th} : HoldsOutcome(calls[x]) => calls[x].request # r.id
    <3> SUFFICES ASSUME NEW x \in Threads, HoldsOutcome(calls[x])
                 PROVE  calls[x].request # r.id
      OBVIOUS
    <3>1. PICK p \in signers : p.request = calls[x].request
      BY DEF LoginInv, SignersKnown, SignedIn, HoldsOutcome, HasSignedIn
    <3>2. QED
      BY <1>13, <3>1
  <2>2. \A x, y \in Threads :
           HoldsOutcome(calls'[x]) /\ HoldsOutcome(calls'[y])
           /\ calls'[x].request = calls'[y].request => x = y
    BY <1>8, <1>12, <2>1 DEF LoginInv, OneOutcome
  <2>3. \A x \in Threads : HoldsOutcome(calls'[x]) =>
           \A y \in store'.authRequests : y.id = calls'[x].request =>
               y.secret = 0 /\ y.code = 0
    <3> SUFFICES ASSUME NEW x \in Threads, HoldsOutcome(calls'[x]),
                        NEW y \in store'.authRequests, y.id = calls'[x].request
                 PROVE  y.secret = 0 /\ y.code = 0
      OBVIOUS
    <3>1. CASE y = q
      BY <1>6, <3>1
    <3>2. CASE y # q
      <4>1. y \in store.authRequests /\ y.id # r.id
        BY <1>2, <1>5, <1>9, <3>2 DEF RequestsSound
      <4>2. x # th
        BY <1>8, <1>12, <4>1
      <4>3. QED
        BY <1>12, <4>1, <4>2 DEF LoginInv, OneOutcome
    <3>3. QED
      BY <3>1, <3>2
  <2>4. QED
    BY <2>2, <2>3 DEF OneOutcome
<1>19. QED
  BY <1>9, <1>10, <1>11, <1>16, <1>17, <1>18 DEF LoginInv, CompleteAuthentication

\* The thread's outcome becomes the secret of the request.
LEMMA IssueSecretOK ==
    ASSUME LoginInv, NEW th \in Threads, IssueSecret(th)
    PROVE  LoginInv'
<1> DEFINE call == calls[th]
           secret == serial.secret + 1
           request == {r \in AuthRequestByID(Pruned, call.request) : r.done}
<1>1. /\ Pruned \in StoreType
      /\ Consistent(Pruned, serial) /\ RequestsSound(Pruned, serial)
      /\ Pruned.authRequests \subseteq store.authRequests
  BY PrunedNow
<1>2. /\ serial \in SerialType /\ calls \in [Threads -> LoginCall]
      /\ call \in LoginCall /\ serial.secret \in Nat
      /\ call.stage = "completed"
  BY DEF LoginInv, LoginTypes, SerialType, IssueSecret, At
<1>3. CASE Return(th) /\ store' = Pruned /\ UNCHANGED serial
  BY <1>1, <1>3, QuietReturn DEF IssueSecret
<1>4. ASSUME NEW r \in request,
             store' = IssueCompletionSecret(Pruned, r, secret),
             serial' = [serial EXCEPT !.secret = secret],
             calls' = [calls EXCEPT ![th].stage = "responding",
                                    ![th].secret = secret]
      PROVE  LoginInv'
  <2> DEFINE c == [call EXCEPT !.stage = "responding", !.secret = secret]
             q == [r EXCEPT !.secret = secret]
  <2>1. /\ r \in Pruned.authRequests /\ r \in store.authRequests
        /\ r \in AuthRequest /\ r.id = call.request /\ r.done
    BY <1>1 DEF AuthRequestByID, StoreType
  <2>2. r.code = 0
    BY <1>2, <2>1 DEF LoginInv, OneOutcome, HoldsOutcome
  <2>3. /\ q \in AuthRequest /\ q.id = r.id /\ q.expires = r.expires
        /\ q.code = r.code /\ q.secret = secret /\ q.done
        /\ q.subject = r.subject /\ q.authTime = r.authTime
    BY <1>2, <2>1 DEF AuthRequest
  <2>4. /\ c \in LoginCall /\ c.stage = "responding"
        /\ c.browser = call.browser /\ c.request = call.request
        /\ calls' = [calls EXCEPT ![th] = c]
    <3>1. secret \in Nat
      BY <1>2
    <3> HIDE DEF secret
    <3>2. c \in LoginCall
      BY <1>2, <3>1 DEF LoginCall, LoginStages
    <3>3. /\ c.stage = "responding"
          /\ c.browser = call.browser /\ c.request = call.request
      BY <1>2 DEF LoginCall
    <3>4. calls' = [calls EXCEPT ![th] = c]
      BY <1>2, <1>4 DEF LoginCall
    <3>5. QED
      BY <3>2, <3>3, <3>4
  <2>5. store' = UpdateRequest(Pruned, r, q)
    BY <1>4 DEF IssueCompletionSecret
  <2>6. /\ serial' \in SerialType /\ serial'.request = serial.request
        /\ serial'.code = serial.code
        /\ serial'.access = serial.access /\ serial'.refresh = serial.refresh
        /\ serial'.family = serial.family
    BY <1>2, <1>4 DEF SerialType
  <2> HIDE DEF c, q
  <2>7. /\ store' \in StoreType
        /\ store'.authRequests \subseteq (store.authRequests \ {r}) \cup {q}
    BY <1>1, <2>3, <2>5, UpdateFields
  <2>8. Consistent(store', serial')
    <3>1. Consistent(store', serial)
      BY <1>1, <1>2, <2>1, <2>3, <2>5, UpdateConsistent DEF Consistent, SubjectsKnown
    <3>2. QED
      BY <2>6, <3>1 DEF Consistent, Drawn
  <2>9. RequestsSound(store', serial')
    <3>1. RequestSound(q, serial)
      BY <1>1, <2>1, <2>2, <2>3 DEF RequestsSound, RequestSound
    <3>2. RequestsSound(store', serial)
      BY <1>1, <1>2, <2>1, <2>3, <2>5, <3>1, UpdateSound
    <3>3. QED
      BY <1>2, <2>6, <2>7, <3>2, SoundKept
  <2>10. HasSignedIn(c) => SignedIn(c.browser, c.request)
    BY <1>2, <2>4 DEF LoginInv, SignersKnown, HasSignedIn
  <2>11. ~HoldsOutcome(c)
    BY <2>4 DEF HoldsOutcome
  <2>12. \A x \in Threads \ {th} : HoldsOutcome(calls[x]) => calls[x].request # r.id
    BY <1>2, <2>1 DEF LoginInv, OneOutcome, HoldsOutcome
  <2>13. /\ jar' \in [Browsers -> SUBSET (Nat \X Nat)]
         /\ \A b \in Browsers : \A cookie \in jar'[b] : SignedIn(b, cookie[1])
         /\ \A d \in delivered' : SignedIn(d.browser, d.request)
         /\ UNCHANGED <<now, signers>>
    BY DEF LoginInv, LoginTypes, SignersKnown, IssueSecret
  <2>14. QED
    BY <2>1, <2>3, <2>4, <2>6, <2>7, <2>8, <2>9, <2>10, <2>11, <2>12, <2>13, HandOver
<1>5. QED
  BY <1>3, <1>4 DEF IssueSecret

\* The cookie goes to the browser that signed in.
LEMMA LoginResponseOK ==
    ASSUME LoginInv, NEW th \in Threads, LoginResponse(th)
    PROVE  LoginInv'
<1> DEFINE b == calls[th].browser
           id == calls[th].request
           secret == calls[th].secret
<1>1. /\ jar \in [Browsers -> SUBSET (Nat \X Nat)]
      /\ id \in Nat /\ secret \in Nat /\ now' \in Nat \ {0}
      /\ \A x \in Browsers : \A cookie \in jar[x] : SignedIn(x, cookie[1])
      /\ SignedIn(b, id)
  BY DEF LoginInv, LoginTypes, LoginCall, SignersKnown, HasSignedIn, LoginResponse, At
<1>2. \/ jar' = [jar EXCEPT ![b] = {c \in @ : c[1] # id} \cup {<<id, secret>>}]
      \/ jar' = jar
  BY DEF LoginResponse
<1>3. /\ jar' \in [Browsers -> SUBSET (Nat \X Nat)]
      /\ \A x \in Browsers : \A cookie \in jar'[x] : SignedIn(x, cookie[1])
  <2>1. CASE jar' = jar
    BY <1>1, <2>1
  <2>2. CASE jar' = [jar EXCEPT ![b] = {c \in @ : c[1] # id} \cup {<<id, secret>>}]
    <3> HIDE DEF b, id, secret
    <3>1. <<id, secret>> \in Nat \X Nat
      BY <1>1
    <3>2. jar' \in [Browsers -> SUBSET (Nat \X Nat)]
      BY <1>1, <2>2, <3>1
    <3>3. \A x \in Browsers : x # b => jar'[x] = jar[x]
      BY <1>1, <2>2
    <3>4. b \in Browsers => jar'[b] = {c \in jar[b] : c[1] # id} \cup {<<id, secret>>}
      BY <1>1, <2>2
    <3>5. \A cookie : cookie = <<id, secret>> => cookie[1] = id
      OBVIOUS
    <3>6. QED
      BY <1>1, <3>2, <3>3, <3>4, <3>5
  <2>3. QED
    BY <1>2, <2>1, <2>2
<1>4. /\ calls' \in [Threads -> LoginCall]
      /\ calls'[th] = Idle
      /\ \A x \in Threads \ {th} : calls'[x] = calls[x]
      /\ \A x \in Threads :
            calls'[x].stage = "authorizing" => calls'[x].client \in Clients
  BY LoginIdleOK, Moved DEF LoginResponse, Return
<1>5. \A x \in Threads :
        /\ HasSignedIn(calls'[x]) => SignedIn(calls'[x].browser, calls'[x].request)
        /\ HoldsOutcome(calls'[x]) =>
              HoldsOutcome(calls[x]) /\ calls'[x].request = calls[x].request
  BY <1>4, LoginIdleOK DEF LoginInv, SignersKnown
<1>6. /\ store' \in StoreType
      /\ Consistent(store', serial) /\ RequestsSound(store', serial)
      /\ store'.authRequests \subseteq store.authRequests
      /\ UNCHANGED <<serial, signers, delivered>>
  BY DEF LoginResponse, LoginInv, LoginTypes
<1>7. QED
  BY <1>1, <1>3, <1>4, <1>5, <1>6, QuietStep

\* The secret of the request goes to the thread that presented it.
LEMMA CallbackGateOK ==
    ASSUME LoginInv, NEW th \in Threads, NEW b \in Browsers, NEW id \in Nat,
           callbackGate(th, b, id)
    PROVE  LoginInv'
<1>1. /\ Pruned \in StoreType
      /\ Consistent(Pruned, serial) /\ RequestsSound(Pruned, serial)
      /\ Pruned.authRequests \subseteq store.authRequests
  BY PrunedNow
<1>2. /\ serial \in SerialType /\ calls \in [Threads -> LoginCall]
      /\ store \in StoreType
      /\ Consistent(store, serial) /\ RequestsSound(store, serial)
  BY DEF LoginInv, LoginTypes
<1>3. CASE Return(th) /\ store' \in {Pruned, store}
  BY <1>1, <1>2, <1>3, QuietReturn DEF callbackGate
<1>4. ASSUME NEW cookie \in jar[b], cookie[1] = id,
             NEW r \in SecretMatches(Pruned, id, cookie[2]),
             store' = ConsumeCompletionSecret(Pruned, r),
             calls' = [calls EXCEPT ![th] =
                 [Idle EXCEPT !.stage = "proved", !.browser = b, !.request = id]]
      PROVE  LoginInv'
  <2> DEFINE c == [Idle EXCEPT !.stage = "proved", !.browser = b, !.request = id]
             q == [r EXCEPT !.secret = 0]
  <2>1. /\ r \in Pruned.authRequests /\ r \in store.authRequests
        /\ r \in AuthRequest /\ r.id = id /\ r.secret # 0
    BY <1>1 DEF SecretMatches, StoreType
  <2>2. r.done /\ r.code = 0
    BY <1>2, <2>1 DEF RequestsSound, RequestSound
  <2>3. /\ q \in AuthRequest /\ q.id = r.id /\ q.expires = r.expires
        /\ q.code = r.code /\ q.secret = 0 /\ q.done
        /\ q.subject = r.subject /\ q.authTime = r.authTime
    BY <2>1, <2>2 DEF AuthRequest
  <2>4. /\ c \in LoginCall /\ c.stage = "proved"
        /\ c.browser = b /\ c.request = id
        /\ calls' = [calls EXCEPT ![th] = c]
    BY <1>4 DEF Idle, LoginCall, LoginStages
  <2>5. store' = UpdateRequest(Pruned, r, q)
    BY <1>4 DEF ConsumeCompletionSecret
  <2> HIDE DEF c, q
  <2>6. /\ store' \in StoreType
        /\ store'.authRequests \subseteq (store.authRequests \ {r}) \cup {q}
    BY <1>1, <2>3, <2>5, UpdateFields
  <2>7. Consistent(store', serial)
    BY <1>1, <1>2, <2>1, <2>2, <2>3, <2>5, UpdateConsistent DEF Consistent, SubjectsKnown
  <2>8. RequestsSound(store', serial)
    <3>1. RequestSound(q, serial)
      BY <1>1, <2>1, <2>2, <2>3 DEF RequestsSound, RequestSound
    <3>2. QED
      BY <1>1, <1>2, <2>1, <2>3, <2>5, <3>1, UpdateSound
  <2>9. SignedIn(c.browser, c.request)
    BY <1>4, <2>4 DEF LoginInv, SignersKnown
  <2>10. \A x \in Threads \ {th} : HoldsOutcome(calls[x]) => calls[x].request # r.id
    BY <2>1 DEF LoginInv, OneOutcome
  <2>11. /\ jar' \in [Browsers -> SUBSET (Nat \X Nat)]
         /\ \A x \in Browsers : \A k \in jar'[x] : SignedIn(x, k[1])
         /\ \A d \in delivered' : SignedIn(d.browser, d.request)
         /\ UNCHANGED <<now, signers, serial>>
    BY DEF LoginInv, LoginTypes, SignersKnown, callbackGate
  <2>12. /\ serial' \in SerialType /\ serial'.request = serial.request
         /\ Consistent(store', serial') /\ RequestsSound(store', serial')
    BY <1>2, <2>7, <2>8, <2>11
  <2>13. /\ c.stage # "authorizing"
         /\ HoldsOutcome(c) => c.request = r.id /\ q.secret = 0 /\ q.code = 0
         /\ HasSignedIn(c) => SignedIn(c.browser, c.request)
    BY <2>1, <2>2, <2>3, <2>4, <2>9
  <2>14. QED
    BY <2>1, <2>2, <2>3, <2>4, <2>6, <2>10, <2>11, <2>12, <2>13, HandOver
<1>5. QED
  BY <1>3, <1>4 DEF callbackGate

\* The library finds the request done, or the callback ends.
LEMMA CallbackLookupOK ==
    ASSUME LoginInv, NEW th \in Threads, CallbackLookup(th)
    PROVE  LoginInv'
<1> DEFINE call == calls[th]
           c == [call EXCEPT !.stage = "located"]
<1>1. /\ store' \in StoreType
      /\ Consistent(store', serial) /\ RequestsSound(store', serial)
      /\ store'.authRequests \subseteq store.authRequests
      /\ UNCHANGED <<now, serial, signers, delivered>>
  BY PrunedNow DEF CallbackLookup
<1>2. /\ calls \in [Threads -> LoginCall] /\ call \in LoginCall
      /\ call.stage = "proved"
  BY DEF LoginInv, LoginTypes, CallbackLookup, At
<1>3. CASE Return(th) /\ CookieCleared(call.browser, call.request)
  BY <1>1, <1>3, ReturnClearing
<1>4. CASE calls' = [calls EXCEPT ![th].stage = "located"] /\ jar' = jar
  <2>1. /\ c \in LoginCall /\ c.stage = "located"
        /\ c.browser = call.browser /\ c.request = call.request
        /\ calls' = [calls EXCEPT ![th] = c]
    BY <1>2, <1>4 DEF LoginCall, LoginStages
  <2> HIDE DEF c
  <2>2. SignedIn(c.browser, c.request)
    BY <1>2, <2>1 DEF LoginInv, SignersKnown, HasSignedIn
  <2>3. HoldsOutcome(call)
    BY <1>2 DEF HoldsOutcome
  <2>4. QED
    BY <1>1, <1>4, <2>1, <2>2, <2>3, QuietMove
<1>5. QED
  BY <1>3, <1>4 DEF CallbackLookup

\* The thread's outcome becomes the code of the request.
LEMMA CallbackSaveOK ==
    ASSUME LoginInv, NEW th \in Threads, CallbackSave(th)
    PROVE  LoginInv'
<1> DEFINE call == calls[th]
           b == call.browser
           id == call.request
           code == serial.code + 1
<1>1. /\ Pruned \in StoreType
      /\ Consistent(Pruned, serial) /\ RequestsSound(Pruned, serial)
      /\ Pruned.authRequests \subseteq store.authRequests
  BY PrunedNow
<1>2. /\ serial \in SerialType /\ calls \in [Threads -> LoginCall]
      /\ call.stage = "located" /\ serial.code \in Nat
  BY DEF LoginInv, LoginTypes, SerialType, CallbackSave, At
<1>3. CASE store' = Pruned /\ UNCHANGED <<serial, delivered>>
  BY <1>1, <1>3, ReturnClearing DEF CallbackSave
<1>4. ASSUME NEW r \in AuthRequestByID(Pruned, id),
             SaveAuthCodeOK(Pruned, now, r, code),
             store' = SaveAuthCode(Pruned, r, code),
             serial' = [serial EXCEPT !.code = code],
             delivered' = delivered \cup
                 {[browser |-> b, request |-> id, code |-> code]}
      PROVE  LoginInv'
  <2> DEFINE q == [r EXCEPT !.code = code]
  <2>1. /\ r \in Pruned.authRequests /\ r \in store.authRequests
        /\ r \in AuthRequest /\ r.id = id /\ r.done /\ r.code = 0
    BY <1>1, <1>4 DEF AuthRequestByID, StoreType, SaveAuthCodeOK
  <2>2. r.secret = 0
    BY <1>2, <2>1 DEF LoginInv, OneOutcome, HoldsOutcome
  <2>3. code \in Nat /\ code = serial.code + 1
    BY <1>2
  <2> HIDE DEF code
  <2>4. /\ q \in AuthRequest /\ q.id = r.id /\ q.done /\ q.subject = r.subject
    BY <2>1, <2>3 DEF AuthRequest
  <2>5. /\ store' \in StoreType /\ serial' \in SerialType
        /\ Consistent(store', serial') /\ RequestsSound(store', serial')
    BY <1>1, <1>2, <1>4, <2>1, <2>2, <2>3, SaveAuthCodeConsistent
  <2>6. store'.authRequests \subseteq (store.authRequests \ {r}) \cup {q}
    BY <1>1, <1>4, NewCodeFields
  <2>7. serial'.request = serial.request
    BY <1>2, <1>4 DEF SerialType
  <2> HIDE DEF q
  <2>8. /\ Idle \in LoginCall /\ Idle.stage # "authorizing"
        /\ ~HasSignedIn(Idle) /\ ~HoldsOutcome(Idle)
        /\ calls' = [calls EXCEPT ![th] = Idle]
    BY LoginIdleOK DEF CallbackSave, Return
  <2>9. \A x \in Threads \ {th} : HoldsOutcome(calls[x]) => calls[x].request # r.id
    BY <1>2, <2>1 DEF LoginInv, OneOutcome, HoldsOutcome
  <2>10. /\ jar \in [Browsers -> SUBSET (Nat \X Nat)]
         /\ \A x \in Browsers : \A k \in jar[x] : SignedIn(x, k[1])
         /\ SignedIn(b, id)
    BY <1>2 DEF LoginInv, LoginTypes, SignersKnown, HasSignedIn
  <2>11. /\ jar' \in [Browsers -> SUBSET (Nat \X Nat)]
         /\ \A x \in Browsers : jar'[x] \subseteq jar[x]
    BY <2>10 DEF CookieCleared, CallbackSave
  <2>12. \A x \in Browsers : \A k \in jar'[x] : SignedIn(x, k[1])
    BY <2>10, <2>11
  <2>13. \A d \in delivered' : SignedIn(d.browser, d.request)
    BY <1>4, <2>10 DEF LoginInv, SignersKnown
  <2>14. UNCHANGED <<now, signers>>
    BY DEF CallbackSave
  <2>15. QED
    BY <2>1, <2>4, <2>5, <2>6, <2>7, <2>8, <2>9, <2>11, <2>12, <2>13, <2>14,
       HandOver, ZenonT(40)
<1>5. QED
  BY <1>3, <1>4 DEF CallbackSave

\* A step that leaves threads, browsers and history alone: the login page is
\* shown, the clock moves on, or nothing happens.
LEMMA AsideOK ==
    ASSUME LoginInv,
           \/ \E b \in Browsers, id \in Nat : loginGET(b, id)
           \/ Advancing
           \/ UNCHANGED vars
    PROVE  LoginInv'
<1>1. /\ store \in StoreType /\ now \in Nat \ {0}
      /\ Consistent(store, serial) /\ RequestsSound(store, serial)
      /\ calls \in [Threads -> LoginCall]
      /\ jar \in [Browsers -> SUBSET (Nat \X Nat)]
      /\ \A x \in Browsers : \A k \in jar[x] : SignedIn(x, k[1])
      /\ \A x \in Threads :
            /\ calls[x].stage = "authorizing" => calls[x].client \in Clients
            /\ HasSignedIn(calls[x]) => SignedIn(calls[x].browser, calls[x].request)
  BY DEF LoginInv, LoginTypes, SignersKnown
<1>2. UNCHANGED <<serial, signers, delivered, jar, calls>>
  BY DEF loginGET, Advancing, vars, loginVars
<1>3. /\ store' \in {Pruned, store}
      /\ now' \in {now, now + 1}
  BY DEF loginGET, Advancing, Tick, vars
<1>4. /\ store' \in StoreType
      /\ Consistent(store', serial) /\ RequestsSound(store', serial)
      /\ store'.authRequests \subseteq store.authRequests
  BY <1>1, <1>3, PrunedNow
<1>5. now' \in Nat \ {0}
  BY <1>1, <1>3
<1>6. QED
  BY <1>1, <1>2, <1>4, <1>5, QuietStep

\* One step of the specification.
LEMMA LoginNext ==
    ASSUME LoginInv, [Next]_vars
    PROVE  LoginInv'
<1>1. CASE \E th \in Threads : Finish(th)
  BY <1>1, AuthorizeCreateOK, RefusalsOK, CompareOK, CompleteOK, IssueSecretOK,
     LoginResponseOK, CallbackLookupOK, CallbackSaveOK
  DEF Finish
<1>2. CASE \E th \in Threads, client \in SPAClients, scopes \in Requested :
              Authorize(th, client, scopes)
  BY <1>2, AuthorizeOK
<1>3. CASE \E b \in Browsers, id \in 0 .. serial.request :
              \/ loginGET(b, id)
              \/ \E th \in Threads :
                    \/ \E user \in Users \cup {NoID} : loginPOST(th, b, id, user)
                    \/ callbackGate(th, b, id)
  BY <1>3, AsideOK, LoginPOSTOK, CallbackGateOK
<1>4. CASE Advancing \/ UNCHANGED vars
  BY <1>4, AsideOK
<1>5. QED
  BY <1>1, <1>2, <1>3, <1>4 DEF Next

\* The empty store and idle threads satisfy the invariant.
LEMMA LoginStart ==
    ASSUME Init
    PROVE  LoginInv
<1>1. /\ store \in StoreType /\ store.authRequests = {}
      /\ store.codes = {} /\ store.access = {} /\ store.refresh = {}
      /\ store.families = {} /\ store.revoked = {}
  BY DEF Init, NewStore, StoreType
<1>2. serial \in SerialType
  BY DEF Init, SerialType
<1>3. LoginTypes
  BY <1>1, <1>2, LoginIdleOK, FS_EmptySet DEF Init, LoginTypes
<1>4. Consistent(store, serial)
  BY <1>1 DEF Consistent, SubjectsKnown, ExpiryCovered, Expiries, IndexSound,
              OnePair, RevokedGone, Drawn, FamilyIDs
<1>5. RequestsSound(store, serial)
  BY <1>1 DEF RequestsSound, CodesOwned
<1>6. SignersKnown /\ OneOutcome
  BY <1>1, LoginIdleOK DEF Init, SignersKnown, OneOutcome
<1>7. QED
  BY <1>3, <1>4, <1>5, <1>6 DEF LoginInv

----------------------------------------------------------------------------
(* What every behaviour of LoginFlow keeps. *)

\* The inductive invariant of sign-in: every request, code, secret, cookie and
\* thread of server.go's login handlers belongs to the one completion it
\* came from.
THEOREM LoginInvariant == Spec => []LoginInv
<1>1. Init => LoginInv
  BY LoginStart
<1>2. LoginInv /\ [Next]_vars => LoginInv'
  BY LoginNext
<1>3. QED
  BY <1>1, <1>2, PTL DEF Spec

\* However many submissions of a request race through Authenticate's two
\* locked sections, one completes it, and the request is its user's.
THEOREM SignInUnique == Spec => []OneSignInPerRequest
<1>1. LoginInv => OneSignInPerRequest
  BY DEF LoginInv, SignersKnown, OneSignInPerRequest
<1>2. QED
  BY <1>1, LoginInvariant, PTL

\* The callback redirects with a code only the browser whose submission
\* completed the request.
THEOREM CodeToSigner == Spec => []CodeReachesSigner
<1>1. LoginInv => CodeReachesSigner
  BY DEF LoginInv, SignersKnown, SignedIn, CodeReachesSigner
<1>2. QED
  BY <1>1, LoginInvariant, PTL

\* What one thread holds no other holds, and the secret was given up for it.
LEMMA OnePasses ==
    ASSUME LoginInv
    PROVE  SecretPassesOnce
<1> DEFINE past(id) == {th \in Threads : calls[th].request = id
                            /\ calls[th].stage \in {"proved", "located"}}
<1>1. SUFFICES ASSUME NEW r \in store.authRequests
               PROVE  Cardinality(past(r.id)) + (IF r.code # 0 THEN 1 ELSE 0) <= 1
  BY DEF SecretPassesOnce
<1>2. \A th \in past(r.id) : HoldsOutcome(calls[th]) /\ calls[th].request = r.id
  BY DEF HoldsOutcome
<1>3. CASE past(r.id) = {}
  <2>1. Cardinality(past(r.id)) = 0
    BY <1>3, FS_EmptySet
  <2>2. QED
    BY <2>1
<1>4. CASE past(r.id) # {}
  <2>1. PICK th \in Threads : th \in past(r.id)
    BY <1>4
  <2>2. past(r.id) = {th}
    BY <1>2, <2>1 DEF LoginInv, OneOutcome
  <2>3. r.code = 0
    BY <1>2, <2>1 DEF LoginInv, OneOutcome
  <2>4. Cardinality(past(r.id)) = 1
    BY <2>2, FS_Singleton
  <2>5. QED
    BY <2>3, <2>4
<1>5. QED
  BY <1>3, <1>4

\* ConsumeCompletionSecret lets one callback of a request through: never two
\* at a time, and none once SaveAuthCode gave the request its code.
THEOREM SecretOnce == Spec => []SecretPassesOnce
<1>1. LoginInv => SecretPassesOnce
  BY OnePasses
<1>2. QED
  BY <1>1, LoginInvariant, PTL

\* Every code of the map has its request, which SaveAuthCode pointed at it,
\* and the two expire together, however prunes and sign-ins interleave.
THEOREM CodesHaveRequests == Spec => []CodesFollowRequests
<1>1. LoginInv => CodesFollowRequests
  BY DEF LoginInv, RequestsSound, CodesOwned, CodesFollowRequests
<1>2. QED
  BY <1>1, LoginInvariant, PTL

\* pruneLocked's early return on nextExpiry is invisible to sign-in.
THEOREM LoginCacheTransparent == Spec => []CacheIsTransparent
<1>1. LoginInv => CacheIsTransparent
  BY PruneTransparent DEF LoginInv, LoginTypes, CacheIsTransparent, Pruned
<1>2. QED
  BY <1>1, LoginInvariant, PTL

----------------------------------------------------------------------------
(* A refusal for lack of room. *)

\* A step of one thread leaves the others where they stand.
LEMMA OthersStay ==
    ASSUME LoginInv, Next, NEW th \in Threads, calls'[th] # calls[th]
    PROVE  \/ Finish(th)
           \/ /\ calls[th].stage = "idle"
              /\ calls'[th].stage \in {"idle", "authorizing", "submitted", "proved"}
<1>1. calls \in [Threads -> LoginCall]
  BY DEF LoginInv, LoginTypes
<1>2. ASSUME NEW x \in Threads, x # th, Finish(x)
      PROVE  calls'[th] = calls[th]
  <2>1. CASE \E t \in ReadClock(x) :
                 \/ \E hint \in Hints : AuthorizeCreate(x, t, hint)
                 \/ AuthorizeRefused(x, t)
                 \/ AuthenticateLookup(x, t)
                 \/ CompleteAuthentication(x, t)
                 \/ CompletionRefused(x, t)
    BY <1>1, <1>2, <2>1 DEF AuthorizeCreate, AuthorizeRefused, AuthenticateLookup,
                       CompleteAuthentication, CompletionRefused, Return
  <2>2. CASE CompareBegin(x) \/ \E passwordOK \in BOOLEAN : CompareEnd(x, passwordOK)
    BY <1>1, <1>2, <2>2 DEF CompareBegin, CompareEnd, Return
  <2>3. CASE IssueSecret(x) \/ LoginResponse(x) \/ CallbackLookup(x) \/ CallbackSave(x)
    BY <1>1, <1>2, <2>3
    DEF IssueSecret, LoginResponse, CallbackLookup, CallbackSave, Return
  <2>4. QED
    BY <1>2, <2>1, <2>2, <2>3 DEF Finish
<1>3. ASSUME NEW x \in Threads,
             \/ \E client \in SPAClients, scopes \in Requested :
                    Authorize(x, client, scopes)
             \/ \E b \in Browsers, id \in Nat, user \in Users \cup {NoID} :
                    loginPOST(x, b, id, user)
             \/ \E b \in Browsers, id \in Nat : callbackGate(x, b, id)
      PROVE  IF x = th
             THEN /\ calls[th].stage = "idle"
                  /\ calls'[th].stage \in {"idle", "authorizing", "submitted", "proved"}
             ELSE calls'[th] = calls[th]
  <2>1. CASE \E client \in SPAClients, scopes \in Requested :
                 Authorize(x, client, scopes)
    <3>1. PICK client, scopes : Authorize(x, client, scopes)
      BY <2>1
    <3>2. /\ Idle.stage = "idle"
          /\ [Idle EXCEPT !.stage = "authorizing", !.client = client,
                          !.scopes = scopes, !.since = now].stage = "authorizing"
      BY DEF Idle
    <3>3. QED
      BY <1>1, <3>1, <3>2 DEF Authorize, At, Return
  <2>2. CASE \E b \in Browsers, id \in Nat, user \in Users \cup {NoID} :
                 loginPOST(x, b, id, user)
    <3>1. PICK b \in Browsers, id \in Nat, user \in Users \cup {NoID} :
            loginPOST(x, b, id, user)
      BY <2>2
    <3>2. /\ Idle.stage = "idle"
          /\ [Idle EXCEPT !.stage = "submitted", !.browser = b, !.request = id,
                          !.user = user, !.since = now].stage = "submitted"
      BY DEF Idle
    <3>3. QED
      BY <1>1, <3>1, <3>2 DEF loginPOST, BeginPost, At, Return
  <2>3. CASE \E b \in Browsers, id \in Nat : callbackGate(x, b, id)
    <3>1. PICK b \in Browsers, id \in Nat : callbackGate(x, b, id)
      BY <2>3
    <3>2. /\ Idle.stage = "idle"
          /\ [Idle EXCEPT !.stage = "proved", !.browser = b,
                          !.request = id].stage = "proved"
      BY DEF Idle
    <3>3. QED
      BY <1>1, <3>1, <3>2 DEF callbackGate, BeginPost, At, Return
  <2>4. QED
    BY <1>3, <2>1, <2>2, <2>3
<1>4. CASE \E x \in Threads : Finish(x)
  BY <1>2, <1>4
<1>5. CASE \E b \in Browsers, id \in 0 .. serial.request :
              \/ loginGET(b, id)
              \/ \E x \in Threads :
                    \/ \E user \in Users \cup {NoID} : loginPOST(x, b, id, user)
                    \/ callbackGate(x, b, id)
  BY <1>3, <1>5 DEF loginGET
<1>6. CASE Advancing
  BY <1>6 DEF Advancing, loginVars
<1>7. CASE \E x \in Threads, client \in SPAClients, scopes \in Requested :
              Authorize(x, client, scopes)
  BY <1>3, <1>7
<1>8. QED
  BY <1>4, <1>5, <1>6, <1>7 DEF Next

\* An authorization that ends without a request was refused by
\* CreateAuthRequest's capacity check.
LEMMA RefusalKnown ==
    ASSUME LoginInv, Next, NEW th \in Threads,
           calls[th].stage = "authorizing", calls'[th].stage = "idle",
           serial' = serial
    PROVE  \E t \in ReadClock(th) : AuthorizeRefused(th, t)
<1>1. Finish(th)
  BY OthersStay
<1>2. serial.request \in Nat /\ serial \in SerialType
  BY DEF LoginInv, LoginTypes, SerialType
<1>3. \A t \in ReadClock(th), hint \in Hints : ~AuthorizeCreate(th, t, hint)
  BY <1>2 DEF AuthorizeCreate, SerialType
<1>4. QED
  BY <1>1, <1>3 DEF Finish, AuthenticateLookup, CompleteAuthentication,
     CompletionRefused, CompareBegin, CompareEnd, IssueSecret, LoginResponse,
     CallbackLookup, CallbackSave, At

\* CreateAuthRequest answers "too many pending requests" only while that many
\* requests are unexpired at the handler's own clock reading: it prunes first.
THEOREM RefusedWhenFull == Spec => RefusedOnlyWhenFull
<1> DEFINE Alive(t) == {r \in store.authRequests : t < r.expires}
<1>1. ASSUME LoginInv, Next, NEW th \in Threads,
             calls[th].stage = "authorizing", calls'[th].stage = "idle",
             serial' = serial
      PROVE  Cardinality(Alive(calls[th].since)) >= maxPendingAuthRequests
  <2>1. PICK t \in ReadClock(th) : AuthorizeRefused(th, t)
    BY <1>1, RefusalKnown
  <2>2. t \in Nat /\ calls[th].since <= t
    BY <1>1, ClockRead
  <2>3. /\ Cardinality(Alive(t)) >= maxPendingAuthRequests
        /\ IsFiniteSet(store.authRequests) /\ store \in StoreType
        /\ calls[th].since \in Nat
    BY <1>1, <2>1, <2>2, PrunedAt
    DEF AuthorizeRefused, LoginInv, LoginTypes, LoginCall
  <2>4. Alive(t) \subseteq Alive(calls[th].since)
    BY <2>2, <2>3 DEF StoreType, AuthRequest
  <2>5. IsFiniteSet(Alive(calls[th].since))
    BY <2>3, FS_Subset
  <2>6. /\ Cardinality(Alive(t)) <= Cardinality(Alive(calls[th].since))
        /\ Cardinality(Alive(t)) \in Nat
        /\ Cardinality(Alive(calls[th].since)) \in Nat
    BY <2>4, <2>5, FS_Subset, FS_CardinalityType
  <2> HIDE DEF Alive
  <2>7. QED
    BY <2>3, <2>6, BoundsAssumption
<1>2. LoginInv /\ [Next]_vars =>
        [\A th \in Threads :
          /\ calls[th].stage = "authorizing"
          /\ calls'[th].stage = "idle"
          /\ serial' = serial
          => Cardinality({r \in store.authRequests : calls[th].since < r.expires})
                 >= maxPendingAuthRequests]_vars
  BY <1>1
<1>3. QED
  BY <1>2, LoginInvariant, PTL DEF Spec, RefusedOnlyWhenFull

----------------------------------------------------------------------------
(* The time of a sign-in. *)

\* A thread that comes to a completion has just been through the second
\* locked section of Authenticate.
LEMMA CompletionKnown ==
    ASSUME LoginInv, Next, NEW th \in Threads,
           calls[th].stage # "completed", calls'[th].stage = "completed"
    PROVE  \E t \in ReadClock(th) : CompleteAuthentication(th, t)
<1>1. calls \in [Threads -> LoginCall]
  BY DEF LoginInv, LoginTypes
<1>2. Finish(th)
  BY OthersStay
<1>3. /\ Idle.stage # "completed"
      /\ calls' # [calls EXCEPT ![th] = Idle]
      /\ \A c \in LoginCall : calls' = [calls EXCEPT ![th] = c] => c.stage = "completed"
  BY <1>1 DEF Idle
<1>4. /\ DOMAIN calls[th] = DOMAIN Idle /\ calls[th] \in LoginCall
      /\ calls'[th] # calls[th]
  BY <1>1 DEF LoginCall, Idle
<1>5. CASE \E t \in ReadClock(th) :
              \/ \E hint \in Hints : AuthorizeCreate(th, t, hint)
              \/ AuthorizeRefused(th, t)
              \/ AuthenticateLookup(th, t)
              \/ CompleteAuthentication(th, t)
              \/ CompletionRefused(th, t)
  <2>1. PICK t \in ReadClock(th) :
              \/ \E hint \in Hints : AuthorizeCreate(th, t, hint)
              \/ AuthorizeRefused(th, t)
              \/ AuthenticateLookup(th, t)
              \/ CompleteAuthentication(th, t)
              \/ CompletionRefused(th, t)
    BY <1>5
  <2>2. /\ \A hint \in Hints : ~AuthorizeCreate(th, t, hint)
        /\ ~AuthorizeRefused(th, t)
        /\ ~CompletionRefused(th, t)
    BY <1>3 DEF AuthorizeCreate, AuthorizeRefused, CompletionRefused, Return
  <2>3. ASSUME AuthenticateLookup(th, t)
        PROVE  FALSE
    <3>1. calls'[th] \in {Idle, [calls[th] EXCEPT !.stage = "looked",
                  !.found = AuthRequestByID(pruneLocked(store, t), calls[th].request) # {}]}
      BY <1>1, <2>3 DEF AuthenticateLookup, Return
    <3>2. QED
      BY <1>3, <1>4, <3>1 DEF LoginCall
  <2>4. QED
    BY <2>1, <2>2, <2>3
<1>6. ~CompareBegin(th) /\ ~LoginResponse(th) /\ ~CallbackSave(th)
  BY <1>1, <1>3, <1>4 DEF CompareBegin, LoginResponse, CallbackSave, Return, LoginCall
<1>7. \A passwordOK \in BOOLEAN : ~CompareEnd(th, passwordOK)
  BY <1>1, <1>3, <1>4 DEF CompareEnd, Return, LoginCall
<1>8. ~IssueSecret(th) /\ ~CallbackLookup(th)
  BY <1>1, <1>3, <1>4 DEF IssueSecret, CallbackLookup, Return, LoginCall
<1>9. QED
  BY <1>2, <1>5, <1>6, <1>7, <1>8 DEF Finish

\* The request that is completed had not expired at the clock reading it
\* records, which the handler took after its credential check.
LEMMA CompletedInTime ==
    ASSUME LoginInv, NEW th \in Threads, NEW t \in ReadClock(th),
           CompleteAuthentication(th, t),
           NEW r \in store'.authRequests, r.id = calls[th].request
    PROVE  calls[th].since <= r.authTime /\ r.authTime < r.expires
<1> DEFINE P == pruneLocked(store, t)
           id == calls[th].request
<1>1. t \in Nat /\ calls[th].since <= t
  BY ClockRead
<1>2. /\ RequestsSound(P, serial)
      /\ P.authRequests = {q \in store.authRequests : t < q.expires}
  BY <1>1, PrunedAt
<1>3. PICK q \in Completable(P, id) :
         store' = completeAuthenticationLocked(P, q, calls[th].user, t)
  BY DEF CompleteAuthentication
<1>4. q \in P.authRequests /\ q.id = id
  BY <1>3 DEF Completable
<1> DEFINE done == [q EXCEPT !.subject = calls[th].user,
                       !.scopes = Granted(q.client, calls[th].user, q.scopes),
                       !.authTime = t, !.done = TRUE]
<1>5. store'.authRequests = (P.authRequests \ {q}) \cup {done}
  BY <1>1, <1>3, PrunedAt DEF completeAuthenticationLocked, UpdateRequest, StoreType
<1>6. r = done
  BY <1>2, <1>4, <1>5 DEF RequestsSound
<1>7. store \in StoreType /\ q \in store.authRequests /\ t < q.expires
  BY <1>2, <1>4 DEF LoginInv, LoginTypes
<1>8. r.authTime = t /\ r.expires = q.expires
  BY <1>6, <1>7 DEF StoreType, AuthRequest
<1>9. QED
  BY <1>1, <1>7, <1>8

\* completeAuthenticationLocked acts on no request that had expired when the
\* credential check ended, however long the check and the wait for the lock
\* take, and it never records a time before that end.
THEOREM SignInInTime == Spec => SignInWithinLifetime
<1>1. ASSUME LoginInv, Next, NEW th \in Threads, NEW r \in store'.authRequests,
             ~At(th, "completed"), calls'[th].stage = "completed",
             r.id = calls[th].request
      PROVE  calls[th].since <= r.authTime /\ r.authTime < r.expires
  BY <1>1, CompletionKnown, CompletedInTime DEF At
<1>2. LoginInv /\ [Next]_vars =>
        [\A th \in Threads : \A r \in store'.authRequests :
          /\ ~At(th, "completed")
          /\ calls'[th].stage = "completed"
          /\ r.id = calls[th].request
          => calls[th].since <= r.authTime /\ r.authTime < r.expires]_vars
  BY <1>1
<1>3. QED
  BY <1>2, LoginInvariant, PTL DEF Spec, SignInWithinLifetime

----------------------------------------------------------------------------
(* What the token handlers of the same realm may rely on, and what they    *)
(* must leave alone.                                                       *)

\* Pruning at a clock reading of a handler only ends what is over now.
LEMMA LoginLapses ==
    ASSUME LoginInv, CodesApart(store), NEW t \in Nat, t <= now
    PROVE  LET n == pruneLocked(store, t) IN
           /\ OnlyLapses(store, n, now)
           /\ n.codes \subseteq store.codes
           /\ n.authRequests \subseteq store.authRequests
BY PruneLapses DEF LoginInv, LoginTypes

\* A step that at most prunes.
LEMMA LapseOnly ==
    ASSUME LoginInv, CodesApart(store), NEW t \in Nat, t <= now,
           store' \in {store, pruneLocked(store, t)}, UNCHANGED serial
    PROVE  SignInChange(store, store', serial, serial', now)
<1>1. OnlyLapses(store, store', now)
  BY LoginLapses DEF OnlyLapses, FamilyIDs
<1>2. /\ store'.codes \subseteq store.codes
      /\ store'.authRequests \subseteq store.authRequests
  BY LoginLapses
<1>3. /\ serial.code \in Nat /\ serial.request \in Nat
      /\ \A q \in store.authRequests : q.code \in Nat /\ q.code <= serial.code
  BY DEF LoginInv, LoginTypes, SerialType, StoreType, AuthRequest, RequestsSound,
     RequestSound
<1>4. \A q \in store.authRequests : q.code # serial.code + 1
  BY <1>3
<1>5. QED
  BY <1>1, <1>2, <1>3, <1>4 DEF SignInChange

\* A new authorization request takes the next number and has no code.
LEMMA AuthorizeSigns ==
    ASSUME LoginInv, CodesApart(store), NEW th \in Threads, NEW t \in ReadClock(th),
           NEW hint, AuthorizeCreate(th, t, hint)
    PROVE  SignInChange(store, store', serial, serial', now)
<1> DEFINE P == pruneLocked(store, t)
           id == serial.request + 1
           q == NewRequest(t, id, calls[th].client, hint, calls[th].scopes)
<1>1. t \in Nat /\ t <= now /\ P \in StoreType
  BY ClockRead, PrunedAt DEF ReadClock, LoginInv, LoginTypes, LoginCall
<1>2. /\ OnlyLapses(store, P, now)
      /\ P.codes \subseteq store.codes
      /\ P.authRequests \subseteq store.authRequests
  BY <1>1, LoginLapses
<1>3. /\ store'.authRequests = P.authRequests \cup {q}
      /\ store'.codes = P.codes /\ store'.access = P.access
      /\ store'.refresh = P.refresh /\ store'.families = P.families
  BY <1>1, NewRequestFields DEF AuthorizeCreate
<1>4. /\ serial \in SerialType /\ serial.request \in Nat
      /\ serial'.request = serial.request + 1 /\ serial'.code = serial.code
      /\ serial'.access = serial.access /\ serial'.refresh = serial.refresh
      /\ serial'.family = serial.family
  BY DEF LoginInv, LoginTypes, SerialType, AuthorizeCreate
<1>5. Fresh(q, serial) /\ serial.request <= serial'.request
  BY <1>4 DEF Fresh, NewRequest
<1>6. store \in StoreType /\ RequestsSound(store, serial)
  BY DEF LoginInv, LoginTypes
<1> HIDE DEF P, q
<1>7. /\ store'.authRequests \subseteq P.authRequests \cup {q}
      /\ P.authRequests \subseteq store'.authRequests
      /\ P.codes \subseteq store'.codes /\ store'.codes \subseteq P.codes
  BY <1>3
<1>8. QED
  BY <1>2, <1>3, <1>4, <1>5, <1>6, <1>7, LapseThenSign

\* A request without a code changes and no code is saved.
LEMMA UpdateSigns ==
    ASSUME LoginInv, CodesApart(store), NEW t \in Nat, t <= now,
           NEW r \in pruneLocked(store, t).authRequests,
           NEW q \in AuthRequest, Signs(r, q, serial, serial'),
           store' = UpdateRequest(pruneLocked(store, t), r, q),
           serial'.access = serial.access, serial'.refresh = serial.refresh,
           serial'.family = serial.family, serial'.request = serial.request,
           serial'.code = serial.code
    PROVE  SignInChange(store, store', serial, serial', now)
<1> DEFINE P == pruneLocked(store, t)
<1>1. P \in StoreType
  BY PrunedAt
<1>2. /\ OnlyLapses(store, P, now)
      /\ P.codes \subseteq store.codes
      /\ P.authRequests \subseteq store.authRequests
  BY LoginLapses
<1>3. /\ store'.authRequests = (P.authRequests \ {r}) \cup {q}
      /\ store'.codes = P.codes /\ store'.access = P.access
      /\ store'.refresh = P.refresh /\ store'.families = P.families
  BY <1>1, UpdateFields
<1>4. /\ store \in StoreType /\ RequestsSound(store, serial)
      /\ serial \in SerialType /\ serial.request \in Nat
  BY DEF LoginInv, LoginTypes, SerialType
<1>5. r.code = 0
  BY DEF Signs
<1> HIDE DEF P
<1>6. QED
  BY <1>2, <1>3, <1>4, <1>5, LapseThenSign DEF P

\* A completion grants scopes the user may have.
LEMMA CompleteSigns ==
    ASSUME LoginInv, CodesApart(store), NEW th \in Threads, NEW t \in ReadClock(th),
           CompleteAuthentication(th, t)
    PROVE  SignInChange(store, store', serial, serial', now)
<1> DEFINE P == pruneLocked(store, t)
           call == calls[th]
<1>1. t \in Nat /\ t <= now
  BY ClockRead DEF ReadClock, LoginInv, LoginTypes, LoginCall
<1>2. P \in StoreType /\ RequestsSound(P, serial)
  BY <1>1, PrunedAt
<1>3. call.user \in Users
  BY DEF LoginInv, LoginTypes, LoginCall, CompleteAuthentication
<1>4. PICK r \in Completable(P, call.request) :
         store' = completeAuthenticationLocked(P, r, call.user, t)
  BY DEF CompleteAuthentication
<1>5. r \in P.authRequests /\ r \in AuthRequest /\ ~r.done /\ r.code = 0
  BY <1>2, <1>4 DEF Completable, StoreType, RequestsSound, RequestSound
<1> DEFINE q == [r EXCEPT !.subject = call.user,
                          !.scopes = Granted(r.client, call.user, r.scopes),
                          !.authTime = t, !.done = TRUE]
<1>6. /\ q \in AuthRequest /\ q.id = r.id /\ q.expires = r.expires
      /\ q.code = 0 /\ q.client = r.client /\ q.subject = call.user
      /\ q.scopes = Granted(r.client, call.user, r.scopes)
  <2>1. Granted(r.client, call.user, r.scopes) \in SUBSET Scopes
    BY <1>5 DEF Granted, AuthRequest
  <2>2. QED
    BY <1>1, <1>3, <1>5, <2>1 DEF AuthRequest
<1>7. store' = UpdateRequest(P, r, q) /\ serial' = serial
  BY <1>4 DEF completeAuthenticationLocked, CompleteAuthentication
<1>8. Signs(r, q, serial, serial')
  BY <1>5, <1>6, PermittedScopes DEF Signs
<1> HIDE DEF q
<1>9. QED
  BY <1>1, <1>5, <1>6, <1>7, <1>8, UpdateSigns

\* A secret is bound to a request that has no code yet.
LEMMA SecretSigns ==
    ASSUME LoginInv, CodesApart(store), NEW th \in Threads, IssueSecret(th)
    PROVE  SignInChange(store, store', serial, serial', now)
<1> DEFINE call == calls[th]
           secret == serial.secret + 1
           request == {r \in AuthRequestByID(Pruned, call.request) : r.done}
<1>1. /\ Pruned \in StoreType /\ Pruned.authRequests \subseteq store.authRequests
      /\ now \in Nat /\ now <= now /\ Pruned = pruneLocked(store, now)
  BY PrunedNow DEF LoginInv, LoginTypes, Pruned
<1>2. /\ serial \in SerialType /\ secret \in Nat /\ call.stage = "completed"
  BY DEF LoginInv, LoginTypes, SerialType, IssueSecret, At
<1>3. CASE store' = Pruned /\ UNCHANGED serial
  BY <1>1, <1>3, LapseOnly
<1>4. ASSUME NEW r \in request,
             store' = IssueCompletionSecret(Pruned, r, secret),
             serial' = [serial EXCEPT !.secret = secret]
      PROVE  SignInChange(store, store', serial, serial', now)
  <2> DEFINE q == [r EXCEPT !.secret = secret]
  <2>1. /\ r \in Pruned.authRequests /\ r \in store.authRequests
        /\ r \in AuthRequest /\ r.id = call.request /\ r.done
    BY <1>1 DEF AuthRequestByID, StoreType
  <2>2. r.code = 0
    BY <1>2, <2>1 DEF LoginInv, OneOutcome, HoldsOutcome
  <2>3. /\ q \in AuthRequest /\ q.id = r.id /\ q.expires = r.expires
        /\ q.code = r.code /\ q.client = r.client /\ q.subject = r.subject
        /\ q.scopes = r.scopes
    BY <1>2, <2>1 DEF AuthRequest
  <2>4. /\ serial'.access = serial.access /\ serial'.refresh = serial.refresh
        /\ serial'.family = serial.family /\ serial'.request = serial.request
        /\ serial'.code = serial.code
    BY <1>2, <1>4 DEF SerialType
  <2>5. store' = UpdateRequest(Pruned, r, q)
    BY <1>4 DEF IssueCompletionSecret
  <2> HIDE DEF q
  <2>6. Signs(r, q, serial, serial')
    BY <2>1, <2>2, <2>3 DEF Signs
  <2>7. QED
    BY <1>1, <2>1, <2>3, <2>4, <2>5, <2>6, UpdateSigns
<1>5. QED
  BY <1>3, <1>4 DEF IssueSecret

\* Presenting the secret takes it from a request that has no code yet.
LEMMA GateSigns ==
    ASSUME LoginInv, CodesApart(store), NEW th \in Threads, NEW b \in Browsers,
           NEW id, callbackGate(th, b, id)
    PROVE  SignInChange(store, store', serial, serial', now)
<1>1. /\ Pruned \in StoreType /\ RequestsSound(Pruned, serial)
      /\ now \in Nat /\ now <= now /\ Pruned = pruneLocked(store, now)
  BY PrunedNow DEF LoginInv, LoginTypes, Pruned
<1>2. serial' = serial
  BY DEF callbackGate
<1>3. CASE store' \in {Pruned, store}
  BY <1>1, <1>2, <1>3, LapseOnly
<1>4. ASSUME NEW cookie, NEW r \in SecretMatches(Pruned, id, cookie[2]),
             store' = ConsumeCompletionSecret(Pruned, r)
      PROVE  SignInChange(store, store', serial, serial', now)
  <2> DEFINE q == [r EXCEPT !.secret = 0]
  <2>1. r \in Pruned.authRequests /\ r \in AuthRequest /\ r.secret # 0
    BY <1>1 DEF SecretMatches, StoreType
  <2>2. r.done /\ r.code = 0
    BY <1>1, <2>1 DEF RequestsSound, RequestSound
  <2>3. /\ q \in AuthRequest /\ q.id = r.id /\ q.expires = r.expires
        /\ q.code = r.code /\ q.client = r.client /\ q.subject = r.subject
        /\ q.scopes = r.scopes
    BY <2>1 DEF AuthRequest
  <2>4. store' = UpdateRequest(Pruned, r, q)
    BY <1>4 DEF ConsumeCompletionSecret
  <2> HIDE DEF q
  <2>5. Signs(r, q, serial, serial')
    BY <2>2, <2>3 DEF Signs
  <2>6. QED
    BY <1>1, <1>2, <2>1, <2>3, <2>4, <2>5, UpdateSigns
<1>5. QED
  BY <1>3, <1>4 DEF callbackGate

\* The code that is saved takes the next number.
LEMMA SaveSigns ==
    ASSUME LoginInv, CodesApart(store), NEW th \in Threads, CallbackSave(th)
    PROVE  SignInChange(store, store', serial, serial', now)
<1> DEFINE id == calls[th].request
           code == serial.code + 1
<1>1. /\ Pruned \in StoreType /\ now \in Nat /\ now <= now
      /\ Pruned = pruneLocked(store, now)
  BY PrunedNow DEF LoginInv, LoginTypes, Pruned
<1>2. /\ serial \in SerialType /\ serial.code \in Nat /\ serial.request \in Nat
      /\ store \in StoreType /\ RequestsSound(store, serial)
  BY DEF LoginInv, LoginTypes, SerialType
<1>3. CASE store' = Pruned /\ UNCHANGED serial
  BY <1>1, <1>3, LapseOnly
<1>4. ASSUME NEW r, SaveAuthCodeOK(Pruned, now, r, code),
             store' = SaveAuthCode(Pruned, r, code),
             serial' = [serial EXCEPT !.code = code]
      PROVE  SignInChange(store, store', serial, serial', now)
  <2> DEFINE q == [r EXCEPT !.code = code]
  <2>1. r \in Pruned.authRequests /\ r \in AuthRequest /\ r.done /\ r.code = 0
    BY <1>1, <1>4 DEF SaveAuthCodeOK, StoreType
  <2>2. /\ OnlyLapses(store, Pruned, now)
        /\ Pruned.codes \subseteq store.codes
        /\ Pruned.authRequests \subseteq store.authRequests
    BY <1>1, LoginLapses
  <2>3. /\ store'.authRequests = (Pruned.authRequests \ {r}) \cup {q}
        /\ store'.codes = Pruned.codes \cup {NewCode(r, code)}
        /\ store'.access = Pruned.access
        /\ store'.refresh = Pruned.refresh /\ store'.families = Pruned.families
    BY <1>1, <1>4, NewCodeFields
  <2>4. /\ serial'.code = serial.code + 1 /\ serial'.request = serial.request
        /\ serial'.access = serial.access /\ serial'.refresh = serial.refresh
        /\ serial'.family = serial.family
    BY <1>2, <1>4 DEF SerialType
  <2>5. NewCode(r, code).code = serial.code + 1
    BY DEF NewCode
  <2>6. /\ q.id = r.id /\ q.expires = r.expires /\ q.code = serial.code + 1
        /\ q.client = r.client /\ q.subject = r.subject /\ q.scopes = r.scopes
    BY <2>1 DEF AuthRequest
  <2> HIDE DEF q, code
  <2>7. Signs(r, q, serial, serial')
    BY <2>1, <2>4, <2>6 DEF Signs
  <2>8. QED
    BY <1>2, <2>1, <2>2, <2>3, <2>4, <2>5, <2>7, LapseThenSign
<1>5. QED
  BY <1>3, <1>4 DEF CallbackSave

\* Every other step of a thread prunes or leaves the store as it is.
LEMMA OthersSign ==
    ASSUME LoginInv, CodesApart(store), NEW th \in Threads,
           \/ \E t \in ReadClock(th) :
                 \/ AuthorizeRefused(th, t) \/ AuthenticateLookup(th, t)
                 \/ CompletionRefused(th, t)
           \/ CompareBegin(th) \/ \E passwordOK \in BOOLEAN : CompareEnd(th, passwordOK)
           \/ LoginResponse(th) \/ CallbackLookup(th)
    PROVE  SignInChange(store, store', serial, serial', now)
<1>1. now \in Nat /\ now <= now
  BY DEF LoginInv, LoginTypes
<1>2. \A t \in ReadClock(th) : t \in Nat /\ t <= now
  BY ClockRead DEF ReadClock, LoginInv, LoginTypes, LoginCall
<1>3. \E t \in Nat : t <= now /\ store' \in {store, pruneLocked(store, t)}
  <2>1. CASE \E t \in ReadClock(th) :
                 \/ AuthorizeRefused(th, t) \/ AuthenticateLookup(th, t)
                 \/ CompletionRefused(th, t)
    BY <1>2, <2>1 DEF AuthorizeRefused, AuthenticateLookup, CompletionRefused
  <2>2. CASE \/ CompareBegin(th) \/ \E passwordOK \in BOOLEAN : CompareEnd(th, passwordOK)
             \/ LoginResponse(th) \/ CallbackLookup(th)
    BY <1>1, <2>2 DEF CompareBegin, CompareEnd, LoginResponse, CallbackLookup, Pruned
  <2>3. QED
    BY <2>1, <2>2
<1>4. serial' = serial
  BY DEF AuthorizeRefused, AuthenticateLookup, CompletionRefused, CompareBegin,
     CompareEnd, LoginResponse, CallbackLookup
<1>5. QED
  BY <1>3, <1>4, LapseOnly

\* No step sets the clock back.
LEMMA LoginClock ==
    ASSUME LoginInv, [Next]_vars
    PROVE  now <= now'
<1>1. now \in Nat /\ now <= now /\ now <= now + 1
  BY DEF LoginInv, LoginTypes
<1>2. ASSUME NEW th \in Threads, Finish(th) PROVE now' = now
  <2>1. CASE \E t \in ReadClock(th) :
                 \/ \E hint \in Hints : AuthorizeCreate(th, t, hint)
                 \/ AuthorizeRefused(th, t)
                 \/ AuthenticateLookup(th, t)
                 \/ CompleteAuthentication(th, t)
                 \/ CompletionRefused(th, t)
    BY <2>1 DEF AuthorizeCreate, AuthorizeRefused, AuthenticateLookup,
       CompleteAuthentication, CompletionRefused
  <2>2. CASE \/ CompareBegin(th) \/ \E passwordOK \in BOOLEAN : CompareEnd(th, passwordOK)
             \/ IssueSecret(th) \/ LoginResponse(th)
             \/ CallbackLookup(th) \/ CallbackSave(th)
    BY <2>2 DEF CompareBegin, CompareEnd, IssueSecret, LoginResponse, CallbackLookup,
       CallbackSave
  <2>3. QED
    BY <1>2, <2>1, <2>2 DEF Finish
<1>3. CASE \E th \in Threads, client \in SPAClients, scopes \in Requested :
              Authorize(th, client, scopes)
  BY <1>1, <1>3 DEF Authorize
<1>4. CASE \E b \in Browsers, id \in 0 .. serial.request :
              \/ loginGET(b, id)
              \/ \E th \in Threads :
                    \/ \E user \in Users \cup {NoID} : loginPOST(th, b, id, user)
                    \/ callbackGate(th, b, id)
  BY <1>1, <1>4 DEF loginGET, loginPOST, callbackGate
<1>5. CASE Advancing \/ UNCHANGED vars
  BY <1>1, <1>5 DEF Advancing, Tick, vars
<1>6. QED
  BY <1>1, <1>2, <1>3, <1>4, <1>5 DEF Next

\* What a step of the sign-in handlers does to the store and the clock.
LEMMA LoginGuarantee ==
    ASSUME LoginInv, CodesApart(store), [Next]_vars
    PROVE  SignInStep
<1>1. now \in Nat /\ now <= now
  BY DEF LoginInv, LoginTypes
<1>2. now <= now'
  BY LoginClock
<1>3. SignInChange(store, store', serial, serial', now)
  <2>1. CASE \E th \in Threads : Finish(th)
    BY <2>1, AuthorizeSigns, CompleteSigns, SecretSigns, SaveSigns, OthersSign
    DEF Finish
  <2>2. CASE \E th \in Threads, client \in SPAClients, scopes \in Requested :
                Authorize(th, client, scopes)
    BY <1>1, <2>2, LapseOnly DEF Authorize
  <2>3. CASE \E b \in Browsers, id \in 0 .. serial.request :
                \/ loginGET(b, id)
                \/ \E th \in Threads :
                      \/ \E user \in Users \cup {NoID} : loginPOST(th, b, id, user)
                      \/ callbackGate(th, b, id)
    BY <1>1, <2>3, LapseOnly, GateSigns DEF loginGET, loginPOST, Pruned
  <2>4. CASE Advancing \/ UNCHANGED vars
    BY <1>1, <2>4, LapseOnly DEF Advancing, vars
  <2>5. QED
    BY <2>1, <2>2, <2>3, <2>4 DEF Next
<1>4. QED
  BY <1>1, <1>2, <1>3 DEF SignInStep

\* The requests that have a code told a browser so.
CodesDelivered ==
    \A r \in store.authRequests : r.code # 0 => \E d \in delivered : d.request = r.id

\* The histories only grow, and a code is drawn only to be saved and sent.
LEMMA HistoryGrows ==
    ASSUME LoginInv, [Next]_vars
    PROVE  /\ signers \subseteq signers' /\ delivered \subseteq delivered'
           /\ \/ serial'.code = serial.code
              \/ \E th \in Threads, r \in Pruned.authRequests :
                    /\ store' = SaveAuthCode(Pruned, r, serial.code + 1)
                    /\ \E d \in delivered' : d.request = r.id
<1>1. serial \in SerialType
  BY DEF LoginInv, LoginTypes
<1>2. ASSUME NEW th \in Threads,
             \E t \in ReadClock(th) :
                 \/ \E hint \in Hints : AuthorizeCreate(th, t, hint)
                 \/ AuthorizeRefused(th, t)
                 \/ AuthenticateLookup(th, t)
                 \/ CompleteAuthentication(th, t)
                 \/ CompletionRefused(th, t)
      PROVE  /\ signers \subseteq signers' /\ delivered \subseteq delivered'
             /\ serial'.code = serial.code
  BY <1>1, <1>2 DEF AuthorizeCreate, AuthorizeRefused, AuthenticateLookup,
     CompleteAuthentication, CompletionRefused, SerialType
<1>3. ASSUME NEW th \in Threads,
             \/ CompareBegin(th) \/ \E passwordOK \in BOOLEAN : CompareEnd(th, passwordOK)
             \/ IssueSecret(th) \/ LoginResponse(th) \/ CallbackLookup(th)
      PROVE  /\ signers \subseteq signers' /\ delivered \subseteq delivered'
             /\ serial'.code = serial.code
  BY <1>1, <1>3 DEF CompareBegin, CompareEnd, IssueSecret, LoginResponse,
     CallbackLookup, SerialType
<1>4. ASSUME NEW th \in Threads, CallbackSave(th)
      PROVE  /\ signers \subseteq signers' /\ delivered \subseteq delivered'
             /\ \/ serial'.code = serial.code
                \/ \E r \in Pruned.authRequests :
                      /\ store' = SaveAuthCode(Pruned, r, serial.code + 1)
                      /\ \E d \in delivered' : d.request = r.id
  <2> DEFINE id == calls[th].request
             d == [browser |-> calls[th].browser, request |-> id,
                   code |-> serial.code + 1]
  <2>1. signers \subseteq signers'
    BY <1>4 DEF CallbackSave
  <2>2. CASE UNCHANGED <<serial, delivered>>
    BY <2>1, <2>2
  <2>3. ASSUME NEW r \in AuthRequestByID(Pruned, id),
               store' = SaveAuthCode(Pruned, r, serial.code + 1),
               delivered' = delivered \cup {d}
        PROVE  /\ delivered \subseteq delivered'
               /\ \E x \in Pruned.authRequests :
                     /\ store' = SaveAuthCode(Pruned, x, serial.code + 1)
                     /\ \E y \in delivered' : y.request = x.id
    <3>1. r \in Pruned.authRequests /\ r.id = d.request /\ d \in delivered'
      BY <2>3 DEF AuthRequestByID
    <3> HIDE DEF d
    <3>2. QED
      BY <2>3, <3>1
  <2>4. QED
    BY <1>4, <2>1, <2>2, <2>3 DEF CallbackSave
<1>5. CASE \/ \E th \in Threads, client \in SPAClients, scopes \in Requested :
                 Authorize(th, client, scopes)
           \/ \E b \in Browsers, id \in 0 .. serial.request :
                 \/ loginGET(b, id)
                 \/ \E th \in Threads :
                       \/ \E user \in Users \cup {NoID} : loginPOST(th, b, id, user)
                       \/ callbackGate(th, b, id)
           \/ Advancing \/ UNCHANGED vars
  BY <1>5 DEF Authorize, loginGET, loginPOST, callbackGate, Advancing, loginVars, vars
<1>6. CASE \E th \in Threads : Finish(th)
  BY <1>2, <1>3, <1>4, <1>6 DEF Finish
<1>7. QED
  BY <1>5, <1>6 DEF Next

\* A step of the sign-in handlers keeps that.
LEMMA DeliveredStep ==
    ASSUME LoginInv, CodesApart(store), CodesDelivered, [Next]_vars
    PROVE  CodesDelivered'
<1>1. SignInChange(store, store', serial, serial', now)
  BY LoginGuarantee DEF SignInStep
<1>2. /\ serial.code \in Nat /\ delivered \subseteq delivered'
      /\ \A r \in Pruned.authRequests : r.code # 0 => \E d \in delivered : d.request = r.id
  BY HistoryGrows, PrunedNow DEF CodesDelivered, LoginInv, LoginTypes, SerialType
<1>3. CASE serial'.code = serial.code
  <2>1. \A q \in store'.authRequests : q.code # 0 => q \in store.authRequests
    BY <1>1, <1>2, <1>3 DEF SignInChange, Signs, Fresh
  <2>2. QED
    BY <1>2, <2>1 DEF CodesDelivered
<1>4. ASSUME NEW r \in Pruned.authRequests,
             store' = SaveAuthCode(Pruned, r, serial.code + 1),
             \E d \in delivered' : d.request = r.id
      PROVE  CodesDelivered'
  <2> DEFINE q == [r EXCEPT !.code = serial.code + 1]
  <2>1. Pruned \in StoreType /\ r \in AuthRequest
    BY PrunedNow DEF StoreType
  <2>2. store'.authRequests = (Pruned.authRequests \ {r}) \cup {q}
    BY <1>4, <2>1, NewCodeFields
  <2>3. q.id = r.id
    BY <2>1 DEF AuthRequest
  <2> HIDE DEF q
  <2>4. QED
    BY <1>2, <1>4, <2>2, <2>3 DEF CodesDelivered
<1>5. QED
  BY <1>3, <1>4, HistoryGrows

\* What the sign-in handlers rely on: others start no request, change none,
\* and keep the store consistent; they may remove requests and draw numbers
\* of other kinds.
LEMMA LoginRely ==
    ASSUME LoginInv,
           store' \in StoreType, serial' \in SerialType, now' \in Nat \ {0},
           Consistent(store', serial'), RequestsSound(store', serial'),
           serial'.request = serial.request,
           store'.authRequests \subseteq store.authRequests,
           UNCHANGED loginVars
    PROVE  LoginInv' /\ (CodesDelivered => CodesDelivered')
<1>1. UNCHANGED <<calls, jar, signers, delivered>>
  BY DEF loginVars
<1>2. LoginTypes'
  BY <1>1, FS_Subset DEF LoginInv, LoginTypes
<1>3. \A b, id : SignedIn(b, id) <=> SignedIn(b, id)'
  BY <1>1 DEF SignedIn
<1>4. SignersKnown'
  <2>1. /\ \A p, q \in signers : p.request = q.request => p = q
        /\ \A p \in signers :
              /\ p.request <= serial'.request
              /\ \A r \in store'.authRequests : r.id = p.request => r.done
        /\ \A r \in store'.authRequests : r.done =>
              \E p \in signers : p.request = r.id /\ p.user = r.subject
    BY DEF LoginInv, SignersKnown
  <2>2. /\ \A th \in Threads : HasSignedIn(calls[th]) =>
              SignedIn(calls[th].browser, calls[th].request)
        /\ \A b \in Browsers : \A cookie \in jar[b] : SignedIn(b, cookie[1])
        /\ \A d \in delivered : SignedIn(d.browser, d.request)
    BY DEF LoginInv, SignersKnown
  <2>3. QED
    BY <1>1, <1>3, <2>1, <2>2 DEF SignersKnown
<1>5. OneOutcome'
  BY <1>1 DEF LoginInv, OneOutcome
<1>6. CodesDelivered => CodesDelivered'
  BY <1>1 DEF CodesDelivered
<1>7. QED
  BY <1>2, <1>4, <1>5, <1>6 DEF LoginInv

============================================================================
