------------------------- MODULE SharedSlotsProofs -------------------------
(***************************************************************************)
(* Proofs about SharedSlots: the slots in use are the password checks of   *)
(* both realms, for any number of threads, browsers and slots.             *)
(***************************************************************************)
EXTENDS SharedSlots, FiniteSetTheorems, TLAPS

Stages == {"idle", "authorizing", "submitted", "looked", "hashing",
           "compared", "completed", "responding", "proved", "located"}

Call ==
    [stage: Stages, browser: Browsers \cup {""}, request: Nat,
     client: SPAClients \cup {""}, scopes: Requested \cup {{}},
     user: Users \cup {""}, found: BOOLEAN, since: Nat, secret: Nat]

Serial == [request: Nat, code: Nat, access: Nat, refresh: Nat, family: Nat,
           secret: Nat]

\* The threads of T that compare a password, when they stand at c.
HashingOf(T, c) == {th \in T : c[th].stage = "hashing"}

SharedInv ==
    /\ now \in Nat
    /\ serialA \in Serial /\ serialB \in Serial
    /\ callsA \in [ThreadsA -> Call] /\ callsB \in [ThreadsB -> Call]
    /\ IsFiniteSet(HashingA) /\ IsFiniteSet(HashingB)
    /\ SlotsCountBothRealms

\* A call goes on from old to new; k and n are the slots before and after.
InUse(call) == IF call.stage = "hashing" THEN 1 ELSE 0
Paid(old, new, k, n) == n = k + InUse(new) - InUse(old)

\* One thread of T goes on, from c to d.
Moves(T, c, d, k, n) ==
    \E th \in T : /\ \A x \in T \ {th} : d[x] = c[x]
                  /\ Paid(c[th], d[th], k, n)

----------------------------------------------------------------------------
\* What one thread does to the number of comparisons.
LEMMA HashingMoves ==
    ASSUME NEW T, NEW c, NEW d, NEW k \in Nat, NEW n, Moves(T, c, d, k, n),
           IsFiniteSet(HashingOf(T, c))
    PROVE  /\ n \in Int /\ IsFiniteSet(HashingOf(T, d))
           /\ n - Cardinality(HashingOf(T, d)) = k - Cardinality(HashingOf(T, c))
<1> DEFINE H == HashingOf(T, c)
           J == HashingOf(T, d)
<1>1. PICK th \in T : /\ \A x \in T \ {th} : d[x] = c[x]
                      /\ n = k + InUse(d[th]) - InUse(c[th])
  BY DEF Moves, Paid
<1>2. IsFiniteSet(H) /\ Cardinality(H) \in Nat
  BY FS_CardinalityType
<1>3. CASE c[th].stage = "hashing" /\ d[th].stage # "hashing"
  <2>1. th \in H /\ J = H \ {th}
    BY <1>1, <1>3 DEF HashingOf
  <2>2. Cardinality(J) = Cardinality(H) - 1 /\ IsFiniteSet(J)
    BY <1>2, <2>1, FS_RemoveElement
  <2>3. n = k - 1
    BY <1>1, <1>3 DEF InUse
  <2> HIDE DEF H, J
  <2>4. QED
    BY <1>2, <2>2, <2>3 DEF H, J
<1>4. CASE c[th].stage # "hashing" /\ d[th].stage = "hashing"
  <2>1. th \notin H /\ J = H \cup {th}
    BY <1>1, <1>4 DEF HashingOf
  <2>2. Cardinality(J) = Cardinality(H) + 1 /\ IsFiniteSet(J)
    BY <1>2, <2>1, FS_AddElement
  <2>3. n = k + 1
    BY <1>1, <1>4 DEF InUse
  <2> HIDE DEF H, J
  <2>4. QED
    BY <1>2, <2>2, <2>3 DEF H, J
<1>5. CASE c[th].stage = "hashing" <=> d[th].stage = "hashing"
  <2>1. J = H
    BY <1>1, <1>5 DEF HashingOf
  <2>2. n = k
    BY <1>1, <1>5 DEF InUse
  <2> HIDE DEF H, J
  <2>3. QED
    BY <1>2, <2>1, <2>2 DEF H, J
<1>6. QED
  BY <1>3, <1>4, <1>5

\* A thread whose call becomes e.
LEMMA CallWritten ==
    ASSUME NEW T, NEW c \in [T -> Call], NEW d, NEW k \in Nat, NEW n,
           NEW th \in T, NEW e \in Call, d = [c EXCEPT ![th] = e],
           Paid(c[th], e, k, n)
    PROVE  d \in [T -> Call] /\ Moves(T, c, d, k, n)
<1>1. /\ d \in [T -> Call] /\ d[th] = e
      /\ \A x \in T \ {th} : d[x] = c[x]
  OBVIOUS
<1>2. QED
  BY <1>1 DEF Moves

\* A thread that goes on to another stage, with what it has learned.
GoesOn(c, d, th, to) ==
    \/ d = [c EXCEPT ![th].stage = to]
    \/ \E found \in BOOLEAN : d = [c EXCEPT ![th].stage = to, ![th].found = found]
    \/ \E since \in Nat : d = [c EXCEPT ![th].stage = to, ![th].since = since]
    \/ \E secret \in Nat : d = [c EXCEPT ![th].stage = to, ![th].secret = secret]

\* A step that moves one thread to a stage leaves the other calls alone.
LEMMA StageWritten ==
    ASSUME NEW T, NEW c \in [T -> Call], NEW d, NEW th \in T, NEW to \in Stages,
           GoesOn(c, d, th, to)
    PROVE  /\ d \in [T -> Call] /\ d[th].stage = to
           /\ \A x \in T \ {th} : d[x] = c[x]
<1>1. CASE d = [c EXCEPT ![th].stage = to]
  <2> DEFINE e == [c[th] EXCEPT !.stage = to]
  <2>1. e \in Call /\ e.stage = to /\ d = [c EXCEPT ![th] = e]
    BY <1>1 DEF Call
  <2>2. QED
    BY <2>1
<1>2. ASSUME NEW found \in BOOLEAN,
             d = [c EXCEPT ![th].stage = to, ![th].found = found]
      PROVE  \E e \in Call : e.stage = to /\ d = [c EXCEPT ![th] = e]
  <2> DEFINE e == [c[th] EXCEPT !.stage = to, !.found = found]
  <2>1. e \in Call /\ e.stage = to /\ d = [c EXCEPT ![th] = e]
    BY <1>2 DEF Call
  <2>2. QED
    BY <2>1
<1>3. ASSUME NEW since \in Nat,
             d = [c EXCEPT ![th].stage = to, ![th].since = since]
      PROVE  \E e \in Call : e.stage = to /\ d = [c EXCEPT ![th] = e]
  <2> DEFINE e == [c[th] EXCEPT !.stage = to, !.since = since]
  <2>1. e \in Call /\ e.stage = to /\ d = [c EXCEPT ![th] = e]
    BY <1>3 DEF Call
  <2>2. QED
    BY <2>1
<1>4. ASSUME NEW secret \in Nat,
             d = [c EXCEPT ![th].stage = to, ![th].secret = secret]
      PROVE  \E e \in Call : e.stage = to /\ d = [c EXCEPT ![th] = e]
  <2> DEFINE e == [c[th] EXCEPT !.stage = to, !.secret = secret]
  <2>1. e \in Call /\ e.stage = to /\ d = [c EXCEPT ![th] = e]
    BY <1>4 DEF Call
  <2>2. QED
    BY <2>1
<1>5. PICK e \in Call : e.stage = to /\ d = [c EXCEPT ![th] = e]
  BY <1>1, <1>2, <1>3, <1>4 DEF GoesOn
<1>6. QED
  BY <1>5

----------------------------------------------------------------------------
(* A step of a realm moves at most one of its threads, and takes or frees  *)
(* the slot of that thread.                                                *)
LEMMA StepOfA ==
    ASSUME SharedInv, RealmA!Next
    PROVE  /\ now' \in Nat /\ serialA' \in Serial /\ callsA' \in [ThreadsA -> Call]
           /\ \/ callsA' = callsA /\ slots' = slots
              \/ Moves(ThreadsA, callsA, callsA', slots, slots')
<1> DEFINE Typed == now' \in Nat /\ serialA' \in Serial
           Moved == /\ callsA' \in [ThreadsA -> Call]
                    /\ Moves(ThreadsA, callsA, callsA', slots, slots')
<1>1. /\ now \in Nat /\ serialA \in Serial /\ callsA \in [ThreadsA -> Call]
      /\ slots \in Nat
  BY FS_CardinalityType DEF SharedInv, SlotsCountBothRealms
<1>2. /\ RealmA!Idle \in Call /\ RealmA!Idle.stage = "idle"
      /\ InUse(RealmA!Idle) = 0
  BY DEF RealmA!Idle, RealmA!NoID, Call, Stages, InUse
<1>4. ASSUME NEW th \in ThreadsA, RealmA!Return(th),
             slots' = slots - InUse(callsA[th])
      PROVE  Moved
  <2>1. Paid(callsA[th], RealmA!Idle, slots, slots')
    BY <1>1, <1>2, <1>4 DEF InUse, Paid
  <2>2. QED
    BY <1>1, <1>2, <1>4, <2>1, CallWritten DEF RealmA!Return
<1>5. ASSUME NEW th \in ThreadsA, callsA[th].stage # "hashing", slots' = slots
      PROVE  /\ RealmA!Return(th) => Moved
             /\ \A e \in Call : /\ e.stage # "hashing"
                                /\ callsA' = [callsA EXCEPT ![th] = e]
                                => Moved
  <2>1. InUse(callsA[th]) = 0 /\ slots' = slots - InUse(callsA[th])
    BY <1>1, <1>5 DEF InUse
  <2>2. ASSUME NEW e \in Call, e.stage # "hashing",
               callsA' = [callsA EXCEPT ![th] = e]
        PROVE  Moved
    <3>1. Paid(callsA[th], e, slots, slots')
      BY <1>1, <1>5, <2>1, <2>2 DEF InUse, Paid
    <3>2. QED
      BY <1>1, <2>2, <3>1, CallWritten
  <2>3. QED
    BY <1>4, <2>1, <2>2
<1>6. ASSUME NEW th \in ThreadsA, NEW to \in Stages,
             GoesOn(callsA, callsA', th, to),
             slots' = slots + (IF to = "hashing" THEN 1 ELSE 0) - InUse(callsA[th])
      PROVE  Moved
  <2>1. callsA' \in [ThreadsA -> Call]
    BY <1>1, <1>6, StageWritten
  <2>2. callsA'[th].stage = to
    BY <1>1, <1>6, StageWritten
  <2>3. \A x \in ThreadsA \ {th} : callsA'[x] = callsA[x]
    BY <1>1, <1>6 DEF GoesOn
  <2>4. Paid(callsA[th], callsA'[th], slots, slots')
    BY <1>1, <1>6, <2>2 DEF InUse, Paid
  <2>5. QED
    BY <2>1, <2>3, <2>4 DEF Moves
<1> HIDE DEF Moved
<1>7. ASSUME NEW th \in ThreadsA, NEW client \in SPAClients,
             NEW scopes \in Requested, RealmA!Authorize(th, client, scopes)
      PROVE  Typed /\ Moved
  <2> DEFINE e == [RealmA!Idle EXCEPT !.stage = "authorizing", !.client = client,
                                      !.scopes = scopes, !.since = now]
  <2>1. e \in Call /\ e.stage # "hashing"
    BY <1>1, <1>2 DEF Call, Stages
  <2> HIDE DEF e
  <2>2. QED
    BY <1>1, <1>5, <1>7, <2>1 DEF RealmA!Authorize, RealmA!At, e
<1>8. ASSUME NEW th \in ThreadsA, NEW b \in Browsers, NEW id \in Nat,
             \/ \E user \in Users \cup {RealmA!NoID} : RealmA!loginPOST(th, b, id, user)
             \/ RealmA!callbackGate(th, b, id)
      PROVE  Typed /\ Moved
  <2>1. callsA[th].stage = "idle" /\ slots' = slots /\ Typed
    BY <1>1, <1>8 DEF RealmA!loginPOST, RealmA!callbackGate, RealmA!BeginPost, RealmA!At
  <2>2. ASSUME NEW user \in Users \cup {RealmA!NoID}
        PROVE  [RealmA!Idle EXCEPT !.stage = "submitted", !.browser = b,
                   !.request = id, !.user = user, !.since = now]
               \in {e \in Call : e.stage # "hashing"}
    BY <1>1, <1>2 DEF Call, Stages, RealmA!NoID
  <2>3. [RealmA!Idle EXCEPT !.stage = "proved", !.browser = b, !.request = id]
        \in {e \in Call : e.stage # "hashing"}
    BY <1>2 DEF Call, Stages
  <2>4. CASE RealmA!callbackGate(th, b, id)
    BY <1>5, <2>1, <2>3, <2>4 DEF RealmA!callbackGate
  <2>5. ASSUME NEW user \in Users \cup {RealmA!NoID}, RealmA!loginPOST(th, b, id, user)
        PROVE  Moved
    BY <1>5, <2>1, <2>2, <2>5 DEF RealmA!loginPOST
  <2>6. QED
    BY <1>8, <2>1, <2>4, <2>5
<1>9. ASSUME NEW th \in ThreadsA, NEW t,
             \/ \E hint \in Hints : RealmA!AuthorizeCreate(th, t, hint)
             \/ RealmA!AuthorizeRefused(th, t) \/ RealmA!AuthenticateLookup(th, t)
             \/ RealmA!CompleteAuthentication(th, t) \/ RealmA!CompletionRefused(th, t)
      PROVE  Typed /\ Moved
  <2>1. callsA[th].stage # "hashing" /\ slots' = slots /\ Typed
    BY <1>1, <1>9 DEF RealmA!AuthorizeCreate, RealmA!AuthorizeRefused,
       RealmA!AuthenticateLookup, RealmA!CompleteAuthentication,
       RealmA!CompletionRefused, RealmA!At, Serial
  <2>2. \/ RealmA!Return(th)
        \/ \E found \in BOOLEAN :
              callsA' = [callsA EXCEPT ![th].stage = "looked", ![th].found = found]
        \/ callsA' = [callsA EXCEPT ![th].stage = "completed"]
    BY <1>9 DEF RealmA!AuthorizeCreate, RealmA!AuthorizeRefused,
       RealmA!AuthenticateLookup, RealmA!CompleteAuthentication,
       RealmA!CompletionRefused
  <2>3. slots' = slots + 0 - InUse(callsA[th])
    BY <1>1, <2>1 DEF InUse
  <2>4. QED
    BY <1>5, <1>6, <2>1, <2>2, <2>3 DEF Stages, GoesOn
<1>10. ASSUME NEW th \in ThreadsA, RealmA!CompareBegin(th)
       PROVE  Typed /\ Moved
  <2>1. callsA[th].stage = "looked" /\ Typed
    BY <1>1, <1>10 DEF RealmA!CompareBegin, RealmA!At
  <2>2. CASE slots' = slots + 1 /\ callsA' = [callsA EXCEPT ![th].stage = "hashing"]
    <3>1. slots' = slots + 1 - InUse(callsA[th])
      BY <1>1, <2>1, <2>2 DEF InUse
    <3>2. QED
      BY <1>6, <2>1, <2>2, <3>1 DEF Stages, GoesOn
  <2>3. CASE slots' = slots /\ RealmA!Return(th)
    BY <1>5, <2>1, <2>3
  <2>4. QED
    BY <1>10, <2>2, <2>3 DEF RealmA!CompareBegin
<1>11. ASSUME NEW th \in ThreadsA, NEW passwordOK, RealmA!CompareEnd(th, passwordOK)
       PROVE  Typed /\ Moved
  <2>1. callsA[th].stage = "hashing" /\ slots' = slots - 1 /\ Typed
    BY <1>1, <1>11 DEF RealmA!CompareEnd, RealmA!At
  <2>2. CASE callsA' = [callsA EXCEPT ![th].stage = "compared", ![th].since = now]
    <3>1. slots' = slots + 0 - InUse(callsA[th])
      BY <1>1, <2>1 DEF InUse
    <3>2. QED
      BY <1>1, <1>6, <2>1, <2>2, <3>1 DEF Stages, GoesOn
  <2>3. CASE RealmA!Return(th)
    BY <1>1, <1>4, <2>1, <2>3 DEF InUse, Moved
  <2>4. QED
    BY <1>11, <2>2, <2>3 DEF RealmA!CompareEnd
<1>12. ASSUME NEW th \in ThreadsA,
              \/ RealmA!IssueSecret(th) \/ RealmA!LoginResponse(th)
              \/ RealmA!CallbackLookup(th) \/ RealmA!CallbackSave(th)
       PROVE  Typed /\ Moved
  <2>1. serialA.secret + 1 \in Nat
    BY <1>1 DEF Serial
  <2>2. callsA[th].stage # "hashing" /\ slots' = slots /\ Typed
    BY <1>1, <1>12 DEF RealmA!IssueSecret, RealmA!LoginResponse,
       RealmA!CallbackLookup, RealmA!CallbackSave, RealmA!At, Serial
  <2>3. \/ RealmA!Return(th)
        \/ callsA' = [callsA EXCEPT ![th].stage = "responding",
                                    ![th].secret = serialA.secret + 1]
        \/ callsA' = [callsA EXCEPT ![th].stage = "located"]
    BY <1>12 DEF RealmA!IssueSecret, RealmA!LoginResponse,
       RealmA!CallbackLookup, RealmA!CallbackSave
  <2>4. slots' = slots + 0 - InUse(callsA[th])
    BY <1>1, <2>2 DEF InUse
  <2>5. QED
    BY <1>5, <1>6, <2>1, <2>2, <2>3, <2>4 DEF Stages, GoesOn
<1>13. ASSUME \/ \E b \in Browsers, id \in Nat : RealmA!loginGET(b, id)
              \/ RealmA!Advancing
       PROVE  Typed /\ callsA' = callsA /\ slots' = slots
  BY <1>1, <1>13 DEF RealmA!loginGET, RealmA!Advancing, RealmA!Tick, RealmA!loginVars
<1>14. CASE \E th \in ThreadsA : RealmA!Finish(th)
  <2>1. Typed /\ Moved
    BY <1>9, <1>10, <1>11, <1>12, <1>14 DEF RealmA!Finish
  <2>2. QED
    BY <2>1 DEF Moved
<1>15. CASE ~\E th \in ThreadsA : RealmA!Finish(th)
  <2>1. 0 .. serialA.request \subseteq Nat
    BY <1>1 DEF Serial
  <2>2. \/ Typed /\ Moved
        \/ Typed /\ callsA' = callsA /\ slots' = slots
    BY <1>7, <1>8, <1>13, <1>15, <2>1 DEF RealmA!Next
  <2>3. QED
    BY <1>1, <2>2 DEF Moved
<1>16. QED
  BY <1>14, <1>15

\* The same of the other realm, whose actions are its own.
LEMMA StepOfB ==
    ASSUME SharedInv, RealmB!Next
    PROVE  /\ now' \in Nat /\ serialB' \in Serial /\ callsB' \in [ThreadsB -> Call]
           /\ \/ callsB' = callsB /\ slots' = slots
              \/ Moves(ThreadsB, callsB, callsB', slots, slots')
<1> DEFINE Typed == now' \in Nat /\ serialB' \in Serial
           Moved == /\ callsB' \in [ThreadsB -> Call]
                    /\ Moves(ThreadsB, callsB, callsB', slots, slots')
<1>1. /\ now \in Nat /\ serialB \in Serial /\ callsB \in [ThreadsB -> Call]
      /\ slots \in Nat
  BY FS_CardinalityType DEF SharedInv, SlotsCountBothRealms
<1>2. /\ RealmB!Idle \in Call /\ RealmB!Idle.stage = "idle"
      /\ InUse(RealmB!Idle) = 0
  BY DEF RealmB!Idle, RealmB!NoID, Call, Stages, InUse
<1>4. ASSUME NEW th \in ThreadsB, RealmB!Return(th),
             slots' = slots - InUse(callsB[th])
      PROVE  Moved
  <2>1. Paid(callsB[th], RealmB!Idle, slots, slots')
    BY <1>1, <1>2, <1>4 DEF InUse, Paid
  <2>2. QED
    BY <1>1, <1>2, <1>4, <2>1, CallWritten DEF RealmB!Return
<1>5. ASSUME NEW th \in ThreadsB, callsB[th].stage # "hashing", slots' = slots
      PROVE  /\ RealmB!Return(th) => Moved
             /\ \A e \in Call : /\ e.stage # "hashing"
                                /\ callsB' = [callsB EXCEPT ![th] = e]
                                => Moved
  <2>1. InUse(callsB[th]) = 0 /\ slots' = slots - InUse(callsB[th])
    BY <1>1, <1>5 DEF InUse
  <2>2. ASSUME NEW e \in Call, e.stage # "hashing",
               callsB' = [callsB EXCEPT ![th] = e]
        PROVE  Moved
    <3>1. Paid(callsB[th], e, slots, slots')
      BY <1>1, <1>5, <2>1, <2>2 DEF InUse, Paid
    <3>2. QED
      BY <1>1, <2>2, <3>1, CallWritten
  <2>3. QED
    BY <1>4, <2>1, <2>2
<1>6. ASSUME NEW th \in ThreadsB, NEW to \in Stages,
             GoesOn(callsB, callsB', th, to),
             slots' = slots + (IF to = "hashing" THEN 1 ELSE 0) - InUse(callsB[th])
      PROVE  Moved
  <2>1. callsB' \in [ThreadsB -> Call]
    BY <1>1, <1>6, StageWritten
  <2>2. callsB'[th].stage = to
    BY <1>1, <1>6, StageWritten
  <2>3. \A x \in ThreadsB \ {th} : callsB'[x] = callsB[x]
    BY <1>1, <1>6 DEF GoesOn
  <2>4. Paid(callsB[th], callsB'[th], slots, slots')
    BY <1>1, <1>6, <2>2 DEF InUse, Paid
  <2>5. QED
    BY <2>1, <2>3, <2>4 DEF Moves
<1> HIDE DEF Moved
<1>7. ASSUME NEW th \in ThreadsB, NEW client \in SPAClients,
             NEW scopes \in Requested, RealmB!Authorize(th, client, scopes)
      PROVE  Typed /\ Moved
  <2> DEFINE e == [RealmB!Idle EXCEPT !.stage = "authorizing", !.client = client,
                                      !.scopes = scopes, !.since = now]
  <2>1. e \in Call /\ e.stage # "hashing"
    BY <1>1, <1>2 DEF Call, Stages
  <2> HIDE DEF e
  <2>2. QED
    BY <1>1, <1>5, <1>7, <2>1 DEF RealmB!Authorize, RealmB!At, e
<1>8. ASSUME NEW th \in ThreadsB, NEW b \in Browsers, NEW id \in Nat,
             \/ \E user \in Users \cup {RealmB!NoID} : RealmB!loginPOST(th, b, id, user)
             \/ RealmB!callbackGate(th, b, id)
      PROVE  Typed /\ Moved
  <2>1. callsB[th].stage = "idle" /\ slots' = slots /\ Typed
    BY <1>1, <1>8 DEF RealmB!loginPOST, RealmB!callbackGate, RealmB!BeginPost, RealmB!At
  <2>2. ASSUME NEW user \in Users \cup {RealmB!NoID}
        PROVE  [RealmB!Idle EXCEPT !.stage = "submitted", !.browser = b,
                   !.request = id, !.user = user, !.since = now]
               \in {e \in Call : e.stage # "hashing"}
    BY <1>1, <1>2 DEF Call, Stages, RealmB!NoID
  <2>3. [RealmB!Idle EXCEPT !.stage = "proved", !.browser = b, !.request = id]
        \in {e \in Call : e.stage # "hashing"}
    BY <1>2 DEF Call, Stages
  <2>4. CASE RealmB!callbackGate(th, b, id)
    BY <1>5, <2>1, <2>3, <2>4 DEF RealmB!callbackGate
  <2>5. ASSUME NEW user \in Users \cup {RealmB!NoID}, RealmB!loginPOST(th, b, id, user)
        PROVE  Moved
    BY <1>5, <2>1, <2>2, <2>5 DEF RealmB!loginPOST
  <2>6. QED
    BY <1>8, <2>1, <2>4, <2>5
<1>9. ASSUME NEW th \in ThreadsB, NEW t,
             \/ \E hint \in Hints : RealmB!AuthorizeCreate(th, t, hint)
             \/ RealmB!AuthorizeRefused(th, t) \/ RealmB!AuthenticateLookup(th, t)
             \/ RealmB!CompleteAuthentication(th, t) \/ RealmB!CompletionRefused(th, t)
      PROVE  Typed /\ Moved
  <2>1. callsB[th].stage # "hashing" /\ slots' = slots /\ Typed
    BY <1>1, <1>9 DEF RealmB!AuthorizeCreate, RealmB!AuthorizeRefused,
       RealmB!AuthenticateLookup, RealmB!CompleteAuthentication,
       RealmB!CompletionRefused, RealmB!At, Serial
  <2>2. \/ RealmB!Return(th)
        \/ \E found \in BOOLEAN :
              callsB' = [callsB EXCEPT ![th].stage = "looked", ![th].found = found]
        \/ callsB' = [callsB EXCEPT ![th].stage = "completed"]
    BY <1>9 DEF RealmB!AuthorizeCreate, RealmB!AuthorizeRefused,
       RealmB!AuthenticateLookup, RealmB!CompleteAuthentication,
       RealmB!CompletionRefused
  <2>3. slots' = slots + 0 - InUse(callsB[th])
    BY <1>1, <2>1 DEF InUse
  <2>4. QED
    BY <1>5, <1>6, <2>1, <2>2, <2>3 DEF Stages, GoesOn
<1>10. ASSUME NEW th \in ThreadsB, RealmB!CompareBegin(th)
       PROVE  Typed /\ Moved
  <2>1. callsB[th].stage = "looked" /\ Typed
    BY <1>1, <1>10 DEF RealmB!CompareBegin, RealmB!At
  <2>2. CASE slots' = slots + 1 /\ callsB' = [callsB EXCEPT ![th].stage = "hashing"]
    <3>1. slots' = slots + 1 - InUse(callsB[th])
      BY <1>1, <2>1, <2>2 DEF InUse
    <3>2. QED
      BY <1>6, <2>1, <2>2, <3>1 DEF Stages, GoesOn
  <2>3. CASE slots' = slots /\ RealmB!Return(th)
    BY <1>5, <2>1, <2>3
  <2>4. QED
    BY <1>10, <2>2, <2>3 DEF RealmB!CompareBegin
<1>11. ASSUME NEW th \in ThreadsB, NEW passwordOK, RealmB!CompareEnd(th, passwordOK)
       PROVE  Typed /\ Moved
  <2>1. callsB[th].stage = "hashing" /\ slots' = slots - 1 /\ Typed
    BY <1>1, <1>11 DEF RealmB!CompareEnd, RealmB!At
  <2>2. CASE callsB' = [callsB EXCEPT ![th].stage = "compared", ![th].since = now]
    <3>1. slots' = slots + 0 - InUse(callsB[th])
      BY <1>1, <2>1 DEF InUse
    <3>2. QED
      BY <1>1, <1>6, <2>1, <2>2, <3>1 DEF Stages, GoesOn
  <2>3. CASE RealmB!Return(th)
    BY <1>1, <1>4, <2>1, <2>3 DEF InUse, Moved
  <2>4. QED
    BY <1>11, <2>2, <2>3 DEF RealmB!CompareEnd
<1>12. ASSUME NEW th \in ThreadsB,
              \/ RealmB!IssueSecret(th) \/ RealmB!LoginResponse(th)
              \/ RealmB!CallbackLookup(th) \/ RealmB!CallbackSave(th)
       PROVE  Typed /\ Moved
  <2>1. serialB.secret + 1 \in Nat
    BY <1>1 DEF Serial
  <2>2. callsB[th].stage # "hashing" /\ slots' = slots /\ Typed
    BY <1>1, <1>12 DEF RealmB!IssueSecret, RealmB!LoginResponse,
       RealmB!CallbackLookup, RealmB!CallbackSave, RealmB!At, Serial
  <2>3. \/ RealmB!Return(th)
        \/ callsB' = [callsB EXCEPT ![th].stage = "responding",
                                    ![th].secret = serialB.secret + 1]
        \/ callsB' = [callsB EXCEPT ![th].stage = "located"]
    BY <1>12 DEF RealmB!IssueSecret, RealmB!LoginResponse,
       RealmB!CallbackLookup, RealmB!CallbackSave
  <2>4. slots' = slots + 0 - InUse(callsB[th])
    BY <1>1, <2>2 DEF InUse
  <2>5. QED
    BY <1>5, <1>6, <2>1, <2>2, <2>3, <2>4 DEF Stages, GoesOn
<1>13. ASSUME \/ \E b \in Browsers, id \in Nat : RealmB!loginGET(b, id)
              \/ RealmB!Advancing
       PROVE  Typed /\ callsB' = callsB /\ slots' = slots
  BY <1>1, <1>13 DEF RealmB!loginGET, RealmB!Advancing, RealmB!Tick, RealmB!loginVars
<1>14. CASE \E th \in ThreadsB : RealmB!Finish(th)
  <2>1. Typed /\ Moved
    BY <1>9, <1>10, <1>11, <1>12, <1>14 DEF RealmB!Finish
  <2>2. QED
    BY <2>1 DEF Moved
<1>15. CASE ~\E th \in ThreadsB : RealmB!Finish(th)
  <2>1. 0 .. serialB.request \subseteq Nat
    BY <1>1 DEF Serial
  <2>2. \/ Typed /\ Moved
        \/ Typed /\ callsB' = callsB /\ slots' = slots
    BY <1>7, <1>8, <1>13, <1>15, <2>1 DEF RealmB!Next
  <2>3. QED
    BY <1>1, <2>2 DEF Moved
<1>16. QED
  BY <1>14, <1>15

----------------------------------------------------------------------------
(* The slots count the comparisons of both realms. *)

\* A step of one realm moves the slots by what it moves its own comparisons.
LEMMA NextSharedInv ==
    ASSUME SharedInv, Next
    PROVE  SharedInv'
<1>1. /\ slots \in Nat /\ HashingA = HashingOf(ThreadsA, callsA)
      /\ HashingB = HashingOf(ThreadsB, callsB)
      /\ HashingA' = HashingOf(ThreadsA, callsA')
      /\ HashingB' = HashingOf(ThreadsB, callsB')
  BY FS_CardinalityType DEF SharedInv, SlotsCountBothRealms, HashingOf,
     HashingA, HashingB, RealmA!At, RealmB!At
<1>2. CASE RealmA!Next /\ UNCHANGED varsB
  <2>1. /\ now' \in Nat /\ serialA' \in Serial /\ callsA' \in [ThreadsA -> Call]
        /\ \/ callsA' = callsA /\ slots' = slots
           \/ Moves(ThreadsA, callsA, callsA', slots, slots')
    BY <1>2, StepOfA
  <2>2. callsB' = callsB /\ serialB' = serialB
    BY <1>2 DEF varsB
  <2>3. HashingB' = HashingB
    BY <1>1, <2>2
  <2>4. CASE callsA' = callsA /\ slots' = slots
    BY <1>1, <2>1, <2>2, <2>4 DEF SharedInv, SlotsCountBothRealms
  <2>5. CASE Moves(ThreadsA, callsA, callsA', slots, slots')
    <3>1. IsFiniteSet(HashingA')
      BY <1>1, <2>5, HashingMoves DEF SharedInv
    <3>2. /\ slots' \in Int
          /\ slots' - Cardinality(HashingA') = slots - Cardinality(HashingA)
      BY <1>1, <2>5, HashingMoves DEF SharedInv
    <3>3. Cardinality(HashingA) \in Nat /\ Cardinality(HashingB) \in Nat
          /\ Cardinality(HashingA') \in Nat
      BY <3>1, FS_CardinalityType DEF SharedInv
    <3>4. slots' = Cardinality(HashingA') + Cardinality(HashingB)
      BY <1>1, <3>2, <3>3 DEF SharedInv, SlotsCountBothRealms
    <3>5. QED
      BY <2>1, <2>2, <2>3, <3>1, <3>4 DEF SharedInv, SlotsCountBothRealms
  <2>6. QED
    BY <2>1, <2>4, <2>5
<1>3. CASE RealmB!Next /\ UNCHANGED varsA
  <2>1. /\ now' \in Nat /\ serialB' \in Serial /\ callsB' \in [ThreadsB -> Call]
        /\ \/ callsB' = callsB /\ slots' = slots
           \/ Moves(ThreadsB, callsB, callsB', slots, slots')
    BY <1>3, StepOfB
  <2>2. callsA' = callsA /\ serialA' = serialA
    BY <1>3 DEF varsA
  <2>3. HashingA' = HashingA
    BY <1>1, <2>2
  <2>4. CASE callsB' = callsB /\ slots' = slots
    BY <1>1, <2>1, <2>2, <2>4 DEF SharedInv, SlotsCountBothRealms
  <2>5. CASE Moves(ThreadsB, callsB, callsB', slots, slots')
    <3>1. IsFiniteSet(HashingB')
      BY <1>1, <2>5, HashingMoves DEF SharedInv
    <3>2. /\ slots' \in Int
          /\ slots' - Cardinality(HashingB') = slots - Cardinality(HashingB)
      BY <1>1, <2>5, HashingMoves DEF SharedInv
    <3>3. Cardinality(HashingA) \in Nat /\ Cardinality(HashingB) \in Nat
          /\ Cardinality(HashingB') \in Nat
      BY <3>1, FS_CardinalityType DEF SharedInv
    <3>4. slots' = Cardinality(HashingA) + Cardinality(HashingB')
      BY <1>1, <3>2, <3>3 DEF SharedInv, SlotsCountBothRealms
    <3>5. QED
      BY <2>1, <2>2, <2>3, <3>1, <3>4 DEF SharedInv, SlotsCountBothRealms
  <2>6. QED
    BY <2>1, <2>4, <2>5
<1>4. QED
  BY <1>2, <1>3 DEF Next

\* It holds at the start, when no call runs.
LEMMA InitSharedInv == Init => SharedInv
<1> SUFFICES ASSUME Init PROVE SharedInv
  OBVIOUS
<1>1. /\ now = 1 /\ slots = 0
      /\ serialA \in Serial /\ serialB \in Serial
      /\ callsA = [th \in ThreadsA |-> RealmA!Idle]
      /\ callsB = [th \in ThreadsB |-> RealmB!Idle]
  BY DEF Init, RealmA!Init, RealmB!Init, Serial
<1>2. /\ RealmA!Idle \in Call /\ RealmA!Idle.stage = "idle"
      /\ RealmB!Idle \in Call /\ RealmB!Idle.stage = "idle"
  BY DEF RealmA!Idle, RealmA!NoID, RealmB!Idle, RealmB!NoID, Call, Stages
<1>3. HashingA = {} /\ HashingB = {}
  BY <1>1, <1>2 DEF HashingA, HashingB, RealmA!At, RealmB!At
<1>4. QED
  BY <1>1, <1>2, <1>3, FS_EmptySet DEF SharedInv, SlotsCountBothRealms

\* The slots in use are the comparisons that run, in whichever realm: no
\* interleaving of the two realms' logins leaks a slot of the process or
\* lets one realm free the other's.
THEOREM SlotsShared == Spec => []SlotsCountBothRealms
<1>1. SharedInv /\ UNCHANGED vars => SharedInv'
  BY DEF SharedInv, SlotsCountBothRealms, HashingA, HashingB, RealmA!At,
     RealmB!At, vars, varsA, varsB
<1>2. SharedInv => SlotsCountBothRealms
  BY DEF SharedInv
<1>3. QED
  BY <1>1, <1>2, InitSharedInv, NextSharedInv, PTL DEF Spec

============================================================================
