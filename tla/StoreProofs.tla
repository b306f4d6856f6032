---------------------------- MODULE StoreProofs ----------------------------
(***************************************************************************)
(* Lemmas about the operators of Store, for every value of the constants.  *)
(***************************************************************************)
EXTENDS Store, WellFoundedInduction, TLAPS

\* A nonempty set of naturals has a least element, and Min is it.
LEMMA MinOfNaturals ==
    ASSUME NEW E \in SUBSET Nat, E # {}
    PROVE  Min(E) \in E /\ \A x \in E : Min(E) <= x
<1> DEFINE Less == {p \in Nat \X Nat : p[1] < p[2]}
<1>1. OpToRel(<, Nat) = Less
  BY DEF OpToRel
<1>2. IsWellFoundedOn(Less, Nat)
  BY <1>1, NatLessThanWellFounded
<1> HIDE DEF Less
<1>3. PICK m \in E : \A x \in E : ~(<<x, m>> \in Less)
  BY <1>2, WFMin
<1>4. ASSUME NEW x \in E PROVE m <= x
  <2>1. x < m => <<x, m>> \in Less
    BY DEF Less
  <2>2. QED
    BY <1>3, <2>1
<1>5. QED
  BY <1>4 DEF Min

\* Earliest bounds a set of instants from below.
LEMMA EarliestBound ==
    ASSUME NEW E \in SUBSET Nat
    PROVE  /\ Earliest(E) \in Nat
           /\ \A x \in E : Earliest(E) <= x
           /\ 0 \notin E /\ E # {} => Earliest(E) # 0
BY MinOfNaturals DEF Earliest

\* The instants at which records of a store expire are naturals.
LEMMA ExpiriesType ==
    ASSUME NEW s \in StoreType PROVE Expiries(s) \in SUBSET Nat
BY DEF Expiries, StoreType, AuthRequest, CodeRecord, AccessRecord, RefreshFamily

\* scheduleExpiryLocked keeps a store a store.
LEMMA ScheduleType ==
    ASSUME NEW s \in StoreType, NEW e \in Nat
    PROVE  scheduleExpiryLocked(s, e) \in StoreType
BY DEF scheduleExpiryLocked, StoreType

\* So does the scan of pruneLocked.
LEMMA SweepType ==
    ASSUME NEW s \in StoreType, NEW t \in Nat
    PROVE  Sweep(s, t) \in StoreType
BY DEF Sweep, StoreType

\* And pruneLocked, which stores the earliest expiry it met.
LEMMA PruneType ==
    ASSUME NEW s \in StoreType, NEW t \in Nat
    PROVE  pruneLocked(s, t) \in StoreType
<1> DEFINE k == Sweep(s, t)
<1>1. k \in StoreType
  BY SweepType
<1>2. Earliest(Expiries(k)) \in Nat
  BY <1>1, ExpiriesType, EarliestBound
<1> HIDE DEF k
<1>3. [k EXCEPT !.nextExpiry = Earliest(Expiries(k))] \in StoreType
  BY <1>1, <1>2 DEF StoreType
<1>4. QED
  BY <1>3 DEF pruneLocked, k

\* And revokeFamilyLocked.
LEMMA RevokeType ==
    ASSUME NEW s \in StoreType, NEW ids
    PROVE  revokeFamilyLocked(s, ids) \in StoreType
<1>1. FamilyIDs(s) \subseteq Nat
  BY DEF FamilyIDs, StoreType, RefreshFamily
<1> DEFINE present == ids \cap FamilyIDs(s)
<1>2. present \subseteq Nat
  BY <1>1
<1> HIDE DEF present
<1>3. QED
  BY <1>2 DEF revokeFamilyLocked, StoreType, present

----------------------------------------------------------------------------
(* Pruning. *)

\* What the scan leaves in each map.
LEMMA SweepFields ==
    ASSUME NEW s \in StoreType, NEW t \in Nat
    PROVE  LET n == Sweep(s, t) IN
           /\ n.authRequests = {r \in s.authRequests : t < r.expires}
           /\ n.codes \subseteq {c \in s.codes : t < c.expires}
           /\ n.access = {a \in s.access : t < a.expires}
           /\ n.refresh = {r \in s.refresh :
                /\ r.consumed => \E f \in s.families :
                                      f.id = r.family /\ t < f.expires
                /\ \A f \in s.families : f.expires <= t => r.token \notin f.tokens}
           /\ n.families = {f \in s.families : t < f.expires}
           /\ n.revoked = s.revoked
BY DEF Sweep, StoreType

\* The scan preserves consistency, apart from nextExpiry, which it leaves to
\* the assignment that follows.
LEMMA SweepConsistent ==
    ASSUME NEW s \in StoreType, NEW t \in Nat, NEW k \in SerialType,
           Consistent(s, k)
    PROVE  LET n == Sweep(s, t) IN
           /\ SubjectsKnown(n)
           /\ IndexSound(n)
           /\ OnePair(n)
           /\ RevokedGone(n)
           /\ Drawn(n, k)
<1> DEFINE n == Sweep(s, t)
<1>1. n \in StoreType
  BY SweepType
<1>2. /\ n.authRequests = {r \in s.authRequests : t < r.expires}
      /\ n.access = {a \in s.access : t < a.expires}
      /\ n.refresh = {r \in s.refresh :
            /\ r.consumed => \E f \in s.families :
                                  f.id = r.family /\ t < f.expires
            /\ \A f \in s.families : f.expires <= t => r.token \notin f.tokens}
      /\ n.families = {f \in s.families : t < f.expires}
      /\ n.revoked = s.revoked
  BY SweepFields
<1>3. \A f \in s.families : f.expires \in Nat
  BY DEF StoreType, RefreshFamily
<1> HIDE DEF n
<1>4. FamilyIDs(n) \subseteq FamilyIDs(s)
  BY <1>2 DEF FamilyIDs
<1>5. SubjectsKnown(n)
  BY <1>2 DEF Consistent, SubjectsKnown
<1>6. IndexSound(n)
  BY <1>2, <1>3 DEF Consistent, IndexSound
\* A usable record of a family that stays is in no ended family's index.
<1>7. ASSUME NEW f \in n.families, NEW r \in s.refresh, r.family = f.id, ~r.consumed
      PROVE  r \in n.refresh
  <2>1. \A g \in s.families : g.expires <= t => r.token \notin g.tokens
    BY <1>2, <1>3, <1>7 DEF Consistent, IndexSound
  <2>2. QED
    BY <1>2, <1>7, <2>1
<1>8. OnePair(n)
  <2>1. \A f \in n.families : \E r \in n.refresh : r.family = f.id /\ ~r.consumed
    BY <1>2, <1>7 DEF Consistent, OnePair
  <2>2. \A a \in n.access : a.family \in FamilyIDs(n) =>
            \E r \in n.refresh :
                r.family = a.family /\ ~r.consumed /\ r.accessID = a.id
    BY <1>2, <1>4, <1>7 DEF Consistent, OnePair, FamilyIDs
  <2>3. QED
    BY <1>2, <2>1, <2>2 DEF Consistent, OnePair
<1>9. RevokedGone(n)
  BY <1>2, <1>4 DEF Consistent, RevokedGone
<1>10. Drawn(n, k)
  BY <1>2 DEF Consistent, Drawn
<1>11. QED
  BY <1>5, <1>6, <1>8, <1>9, <1>10 DEF n

\* Nothing that survives a scan has expired.
LEMMA SweepLive ==
    ASSUME NEW s \in StoreType, NEW t \in Nat
    PROVE  \A e \in Expiries(Sweep(s, t)) : e \in Nat /\ t < e
<1> DEFINE n == Sweep(s, t)
<1>1. n \in StoreType
  BY SweepType
<1>2. /\ n.authRequests = {r \in s.authRequests : t < r.expires}
      /\ n.codes \subseteq {c \in s.codes : t < c.expires}
      /\ n.access = {a \in s.access : t < a.expires}
      /\ n.families = {f \in s.families : t < f.expires}
  BY SweepFields
<1>3. Expiries(n) \subseteq Nat
  BY <1>1, ExpiriesType
<1> HIDE DEF n
<1>4. \A e \in Expiries(n) : t < e
  BY <1>2 DEF Expiries
<1>5. QED
  BY <1>3, <1>4 DEF n

\* pruneLocked preserves consistency, whether it scans or trusts nextExpiry.
LEMMA PruneConsistent ==
    ASSUME NEW s \in StoreType, NEW t \in Nat, NEW k \in SerialType,
           Consistent(s, k)
    PROVE  Consistent(pruneLocked(s, t), k)
<1> DEFINE m == Sweep(s, t)
           n == [m EXCEPT !.nextExpiry = Earliest(Expiries(m))]
<1>1. CASE s.nextExpiry # 0 /\ t < s.nextExpiry
  BY <1>1 DEF pruneLocked
<1>2. CASE ~(s.nextExpiry # 0 /\ t < s.nextExpiry)
  <2>1. m \in StoreType
    BY SweepType
  <2>2. /\ Earliest(Expiries(m)) \in Nat
        /\ \A e \in Expiries(m) : Earliest(Expiries(m)) <= e /\ 0 < Earliest(Expiries(m))
    BY <2>1, ExpiriesType, EarliestBound, SweepLive
  <2>3. /\ SubjectsKnown(m) /\ IndexSound(m) /\ OnePair(m)
        /\ RevokedGone(m) /\ Drawn(m, k)
    BY SweepConsistent
  <2> HIDE DEF m
  <2>4. /\ n.authRequests = m.authRequests /\ n.codes = m.codes
        /\ n.access = m.access /\ n.refresh = m.refresh
        /\ n.families = m.families /\ n.revoked = m.revoked
        /\ n.nextExpiry = Earliest(Expiries(m))
    BY <2>1 DEF StoreType
  <2> HIDE DEF n
  <2>5. Expiries(n) = Expiries(m)
    BY <2>4 DEF Expiries
  <2>6. ExpiryCovered(n)
    BY <2>2, <2>4, <2>5 DEF ExpiryCovered
  <2>7. /\ SubjectsKnown(n) /\ IndexSound(n) /\ OnePair(n)
        /\ RevokedGone(n) /\ Drawn(n, k)
    BY <2>3, <2>4 DEF SubjectsKnown, IndexSound, OnePair, RevokedGone, Drawn, FamilyIDs
  <2>8. pruneLocked(s, t) = n
    BY <1>2 DEF pruneLocked, n, m
  <2>9. QED
    BY <2>6, <2>7, <2>8 DEF Consistent
<1>3. QED
  BY <1>1, <1>2

----------------------------------------------------------------------------
(* Revocation and logout. *)

\* Revoking families preserves consistency: their records go together.
LEMMA RevokeConsistent ==
    ASSUME NEW s \in StoreType, NEW ids, NEW k \in SerialType, Consistent(s, k)
    PROVE  Consistent(revokeFamilyLocked(s, ids), k)
<1> DEFINE present == ids \cap FamilyIDs(s)
           n == revokeFamilyLocked(s, ids)
<1>1. present \subseteq FamilyIDs(s)
  OBVIOUS
<1> HIDE DEF present
<1>2. /\ n.authRequests = s.authRequests
      /\ n.codes = s.codes
      /\ n.access = {a \in s.access : \A r \in s.refresh :
            r.family \in present /\ ~r.consumed => r.accessID # a.id}
      /\ n.refresh = {r \in s.refresh : r.family \notin present}
      /\ n.families = {f \in s.families : f.id \notin present}
      /\ n.revoked = s.revoked \cup present
      /\ n.nextExpiry = s.nextExpiry
  BY DEF revokeFamilyLocked, StoreType, present
<1> HIDE DEF n
<1>3. FamilyIDs(n) = FamilyIDs(s) \ present
  BY <1>2 DEF FamilyIDs
<1>4. SubjectsKnown(n)
  BY <1>2 DEF Consistent, SubjectsKnown
<1>5. ExpiryCovered(n)
  <2>1. Expiries(n) \subseteq Expiries(s)
    BY <1>2 DEF Expiries
  <2>2. QED
    BY <1>2, <2>1 DEF Consistent, ExpiryCovered
<1>6. IndexSound(n)
  BY <1>2 DEF Consistent, IndexSound
<1>7. OnePair(n)
  BY <1>2, <1>3 DEF Consistent, OnePair
\* The access record of a revoked family is the one its usable token names.
<1>8. RevokedGone(n)
  <2>1. \A a \in n.access : a.family \notin present
    BY <1>1, <1>2 DEF Consistent, OnePair
  <2>2. QED
    BY <1>2, <1>3, <2>1 DEF Consistent, RevokedGone
<1>9. Drawn(n, k)
  <2>1. \A id \in present : 0 < id /\ id <= k.family
    BY <1>1 DEF Consistent, Drawn, FamilyIDs
  <2>2. QED
    BY <1>2, <2>1 DEF Consistent, Drawn
<1>10. QED
  BY <1>4, <1>5, <1>6, <1>7, <1>8, <1>9 DEF Consistent, n

\* Deleting access records preserves consistency.
LEMMA DropAccess ==
    ASSUME NEW s \in StoreType, NEW k \in SerialType, Consistent(s, k),
           NEW gone
    PROVE  LET n == [s EXCEPT !.access = @ \ gone] IN
           n \in StoreType /\ Consistent(n, k)
<1> DEFINE n == [s EXCEPT !.access = @ \ gone]
<1>1. n \in StoreType
  BY DEF StoreType
<1>2. /\ n.authRequests = s.authRequests /\ n.codes = s.codes
      /\ n.access \subseteq s.access /\ n.refresh = s.refresh
      /\ n.families = s.families /\ n.revoked = s.revoked
      /\ n.nextExpiry = s.nextExpiry
  BY DEF StoreType
<1> HIDE DEF n
<1>3. Expiries(n) \subseteq Expiries(s)
  BY <1>2 DEF Expiries
<1>4. SubjectsKnown(n) /\ IndexSound(n) /\ OnePair(n) /\ RevokedGone(n) /\ Drawn(n, k)
  BY <1>2 DEF Consistent, SubjectsKnown, IndexSound, OnePair, RevokedGone, Drawn, FamilyIDs
<1>5. ExpiryCovered(n)
  BY <1>2, <1>3 DEF Consistent, ExpiryCovered
<1>6. QED
  BY <1>1, <1>4, <1>5 DEF Consistent, n

\* RevokeToken of an access token preserves consistency.
LEMMA RevokeAccessTokenConsistent ==
    ASSUME NEW s \in StoreType, NEW k \in SerialType, Consistent(s, k),
           NEW client, NEW id
    PROVE  /\ RevokeAccessToken(s, client, id) \in StoreType
           /\ Consistent(RevokeAccessToken(s, client, id), k)
BY DropAccess, RevokeType, RevokeConsistent DEF RevokeAccessToken

\* RevokeToken of a refresh token preserves consistency.
LEMMA RevokeRefreshTokenConsistent ==
    ASSUME NEW s \in StoreType, NEW k \in SerialType, Consistent(s, k),
           NEW client, NEW token
    PROVE  /\ RevokeRefreshToken(s, client, token) \in StoreType
           /\ Consistent(RevokeRefreshToken(s, client, token), k)
BY RevokeType, RevokeConsistent DEF RevokeRefreshToken

\* Logout preserves consistency.
LEMMA TerminateSessionConsistent ==
    ASSUME NEW s \in StoreType, NEW k \in SerialType, Consistent(s, k),
           NEW user, NEW client
    PROVE  /\ TerminateSession(s, user, client) \in StoreType
           /\ Consistent(TerminateSession(s, user, client), k)
BY DropAccess, RevokeType, RevokeConsistent DEF TerminateSession

----------------------------------------------------------------------------
(* Codes. *)

\* DeleteAuthRequest preserves consistency.
LEMMA DeleteAuthRequestConsistent ==
    ASSUME NEW s \in StoreType, NEW k \in SerialType, Consistent(s, k), NEW id
    PROVE  LET n == DeleteAuthRequest(s, id) IN
           n \in StoreType /\ Consistent(n, k)
<1> DEFINE n == DeleteAuthRequest(s, id)
<1>1. n \in StoreType
  BY DEF StoreType, DeleteAuthRequest
<1>2. /\ n.authRequests \subseteq s.authRequests /\ n.codes \subseteq s.codes
      /\ n.access = s.access /\ n.refresh = s.refresh
      /\ n.families = s.families /\ n.revoked = s.revoked
      /\ n.nextExpiry = s.nextExpiry
  BY DEF StoreType, DeleteAuthRequest
<1> HIDE DEF n
<1>3. Expiries(n) \subseteq Expiries(s)
  BY <1>2 DEF Expiries
<1>4. SubjectsKnown(n) /\ IndexSound(n) /\ OnePair(n) /\ RevokedGone(n) /\ Drawn(n, k)
  BY <1>2 DEF Consistent, SubjectsKnown, IndexSound, OnePair, RevokedGone, Drawn, FamilyIDs
<1>5. ExpiryCovered(n)
  BY <1>2, <1>3 DEF Consistent, ExpiryCovered
<1>6. QED
  BY <1>1, <1>4, <1>5 DEF Consistent, n

\* Reserving a code preserves consistency.
LEMMA ReserveConsistent ==
    ASSUME NEW s \in StoreType, NEW k \in SerialType, Consistent(s, k),
           NEW request
    PROVE  LET n == reserveAuthorizationCodeLocked(s, request) IN
           n \in StoreType /\ Consistent(n, k)
<1> DEFINE n == reserveAuthorizationCodeLocked(s, request)
           mark(c) == IF request.auth # 0 /\ OwnsCode(s, request.auth, c)
                      THEN [c EXCEPT !.reserved = TRUE] ELSE c
<1>1. /\ n = [s EXCEPT !.codes = {mark(c) : c \in s.codes}]
      /\ \A c \in s.codes : mark(c) \in CodeRecord /\ mark(c).expires = c.expires
  BY DEF StoreType, reserveAuthorizationCodeLocked, CodeRecord
<1> HIDE DEF mark, n
<1>2. n \in StoreType
  BY <1>1 DEF StoreType
<1>3. /\ n.authRequests = s.authRequests /\ n.codes = {mark(c) : c \in s.codes}
      /\ n.access = s.access /\ n.refresh = s.refresh
      /\ n.families = s.families /\ n.revoked = s.revoked
      /\ n.nextExpiry = s.nextExpiry
  BY <1>1 DEF StoreType
<1>4. Expiries(n) \subseteq Expiries(s)
  BY <1>1, <1>3 DEF Expiries
<1>5. SubjectsKnown(n) /\ IndexSound(n) /\ OnePair(n) /\ RevokedGone(n) /\ Drawn(n, k)
  BY <1>3 DEF Consistent, SubjectsKnown, IndexSound, OnePair, RevokedGone, Drawn, FamilyIDs
<1>6. ExpiryCovered(n)
  BY <1>3, <1>4 DEF Consistent, ExpiryCovered
<1>7. QED
  BY <1>2, <1>5, <1>6 DEF Consistent, n

----------------------------------------------------------------------------
(* Token creation. *)

\* scheduleExpiryLocked only moves nextExpiry, and only to an earlier time.
LEMMA ScheduleFields ==
    ASSUME NEW s \in StoreType, NEW e \in Nat, 0 < e
    PROVE  LET n == scheduleExpiryLocked(s, e) IN
           /\ n \in StoreType
           /\ n.authRequests = s.authRequests /\ n.codes = s.codes
           /\ n.access = s.access /\ n.refresh = s.refresh
           /\ n.families = s.families /\ n.revoked = s.revoked
           /\ 0 < n.nextExpiry /\ n.nextExpiry <= e
           /\ s.nextExpiry # 0 => n.nextExpiry <= s.nextExpiry
BY DEF scheduleExpiryLocked, StoreType

\* The access record a creation stores.
NewAccess(t, id, request, family) ==
    [id |-> id, client |-> request.client, subject |-> request.subject,
     scopes |-> request.scopes, expires |-> t + AccessTTL, family |-> family]

\* What storing an access record changes.
LEMMA AddAccessFields ==
    ASSUME NEW s \in StoreType, NEW t \in Nat, NEW id \in Nat,
           NEW request \in TokenRequest, NEW family \in Nat
    PROVE  LET n == AddAccess(s, t, id, request, family) IN
           /\ n \in StoreType
           /\ n.authRequests = s.authRequests /\ n.codes = s.codes
           /\ n.access = s.access \cup {NewAccess(t, id, request, family)}
           /\ n.refresh = s.refresh
           /\ n.families = s.families /\ n.revoked = s.revoked
           /\ ExpiryCovered(s) => ExpiryCovered(n)
<1> DEFINE a == NewAccess(t, id, request, family)
           m == [s EXCEPT !.access = @ \cup {a}]
           n == scheduleExpiryLocked(m, t + AccessTTL)
<1>1. t + AccessTTL \in Nat /\ 0 < t + AccessTTL
  BY LifetimesAssumption
<1>2. a \in AccessRecord /\ a.expires = t + AccessTTL
  BY <1>1 DEF NewAccess, AccessRecord, TokenRequest
<1>3. AddAccess(s, t, id, request, family) = n
  BY DEF AddAccess, NewAccess
<1> HIDE DEF a
<1>4. m \in StoreType
  BY <1>2 DEF StoreType
<1>5. /\ m.authRequests = s.authRequests /\ m.codes = s.codes
      /\ m.access = s.access \cup {a} /\ m.refresh = s.refresh
      /\ m.families = s.families /\ m.revoked = s.revoked
      /\ m.nextExpiry = s.nextExpiry
  BY DEF StoreType
<1> HIDE DEF m
<1>6. /\ n \in StoreType
      /\ n.authRequests = m.authRequests /\ n.codes = m.codes
      /\ n.access = m.access /\ n.refresh = m.refresh
      /\ n.families = m.families /\ n.revoked = m.revoked
      /\ 0 < n.nextExpiry /\ n.nextExpiry <= t + AccessTTL
      /\ m.nextExpiry # 0 => n.nextExpiry <= m.nextExpiry
  BY <1>1, <1>4, ScheduleFields
<1> HIDE DEF n
<1>7. ASSUME ExpiryCovered(s) PROVE ExpiryCovered(n)
  <2>1. Expiries(n) = Expiries(s) \cup {t + AccessTTL}
    BY <1>2, <1>5, <1>6 DEF Expiries
  <2>2. s.nextExpiry \in Nat /\ n.nextExpiry \in Nat /\ Expiries(s) \subseteq Nat
    BY <1>6, ExpiriesType DEF StoreType
  <2>3. QED
    BY <1>1, <1>5, <1>6, <1>7, <2>1, <2>2 DEF ExpiryCovered
<1>8. QED
  BY <1>3, <1>5, <1>6, <1>7 DEF a

\* An access token outside every family.
LEMMA CreateAccessTokenConsistent ==
    ASSUME NEW s \in StoreType, NEW k \in SerialType, Consistent(s, k),
           NEW t \in Nat, NEW request \in TokenRequest
    PROVE  LET n == CreateAccessToken(s, t, k.access + 1, request) IN
           /\ n \in StoreType
           /\ Consistent(n, [k EXCEPT !.access = @ + 1])
           /\ n.codes = reserveAuthorizationCodeLocked(s, request).codes
           /\ n.authRequests = reserveAuthorizationCodeLocked(s, request).authRequests
<1> DEFINE m == reserveAuthorizationCodeLocked(s, request)
           id == k.access + 1
           none == 0
           l == [k EXCEPT !.access = id]
           a == NewAccess(t, id, request, none)
           n == AddAccess(m, t, id, request, none)
<1>1. m \in StoreType /\ Consistent(m, k)
  BY ReserveConsistent
<1>2. k.access \in Nat /\ k.family \in Nat /\ k.refresh \in Nat
  BY DEF SerialType
<1>3. id \in Nat /\ id = k.access + 1 /\ none \in Nat /\ none = 0 /\ l.access = id /\ l.family = k.family /\ l.refresh = k.refresh
  BY <1>2 DEF SerialType
<1>4. a.id = id /\ a.family = none
  BY DEF NewAccess
<1> HIDE DEF m, l, a, id, none
<1>5. /\ n \in StoreType
      /\ n.authRequests = m.authRequests /\ n.codes = m.codes
      /\ n.access = m.access \cup {a} /\ n.refresh = m.refresh
      /\ n.families = m.families /\ n.revoked = m.revoked
      /\ ExpiryCovered(m) => ExpiryCovered(n)
  <2>1. m \in StoreType /\ id \in Nat /\ none \in Nat
    BY <1>1, <1>3
  <2>2. /\ n \in StoreType
        /\ n.authRequests = m.authRequests /\ n.codes = m.codes
        /\ n.access = m.access \cup {NewAccess(t, id, request, none)}
        /\ n.refresh = m.refresh
        /\ n.families = m.families /\ n.revoked = m.revoked
        /\ ExpiryCovered(m) => ExpiryCovered(n)
    BY <2>1, AddAccessFields
  <2>3. QED
    BY <2>2 DEF a
<1> HIDE DEF n
<1>6. 0 \notin FamilyIDs(m) /\ 0 \notin m.revoked
  BY <1>1 DEF Consistent, Drawn, FamilyIDs
<1>7. FamilyIDs(n) = FamilyIDs(m)
  BY <1>5 DEF FamilyIDs
<1>8. SubjectsKnown(n) /\ IndexSound(n)
  BY <1>1, <1>5 DEF Consistent, SubjectsKnown, IndexSound
<1>9. OnePair(n)
  BY <1>1, <1>3, <1>4, <1>5, <1>6, <1>7 DEF Consistent, OnePair
<1>10. RevokedGone(n)
  BY <1>1, <1>3, <1>4, <1>5, <1>6, <1>7 DEF Consistent, RevokedGone
<1>11. Drawn(n, l)
  <2>1. /\ \A x \in m.access : x.id \in Nat
        /\ \A x \in m.refresh : x.accessID \in Nat
    BY <1>1 DEF StoreType, AccessRecord, RefreshRecord
  <2>2. QED
    BY <1>1, <1>2, <1>3, <1>4, <1>5, <2>1 DEF Consistent, Drawn
<1>12. ExpiryCovered(n)
  BY <1>1, <1>5 DEF Consistent
<1>13. QED
  BY <1>12, <1>5, <1>8, <1>9, <1>10, <1>11 DEF Consistent, CreateAccessToken, m, n, l, id, none

\* The refresh record a creation stores.
NewRefresh(family, token, id, request) ==
    [token |-> token, family |-> family, client |-> request.client,
     subject |-> request.subject, scopes |-> request.scopes,
     consumed |-> FALSE, accessID |-> id]

\* A family once the new token is in its index, if it is the token's.
Join(f, family, token) ==
    IF f.id = family THEN [f EXCEPT !.tokens = @ \cup {token}] ELSE f

\* What storing a pair of tokens changes.
LEMMA AddPairFields ==
    ASSUME NEW s \in StoreType, NEW t \in Nat, NEW family \in Nat,
           NEW token \in Nat, NEW id \in Nat, NEW request \in TokenRequest
    PROVE  LET n == AddPair(s, t, family, token, id, request) IN
           /\ n \in StoreType
           /\ n.authRequests = s.authRequests /\ n.codes = s.codes
           /\ n.access = s.access \cup {NewAccess(t, id, request, family)}
           /\ n.refresh = s.refresh \cup {NewRefresh(family, token, id, request)}
           /\ n.families = {Join(f, family, token) : f \in s.families}
           /\ n.revoked = s.revoked
           /\ ExpiryCovered(s) => ExpiryCovered(n)
<1> DEFINE r == NewRefresh(family, token, id, request)
           m == [s EXCEPT !.families = {Join(f, family, token) : f \in s.families},
                          !.refresh = @ \cup {r}]
           n == AddAccess(m, t, id, request, family)
<1>1. AddPair(s, t, family, token, id, request) = n
  BY DEF AddPair, NewRefresh, Join
<1>2. r \in RefreshRecord
  BY DEF NewRefresh, RefreshRecord, TokenRequest
<1>3. \A f \in s.families : /\ Join(f, family, token) \in RefreshFamily
                            /\ Join(f, family, token).expires = f.expires
  BY DEF StoreType, RefreshFamily, Join
<1> HIDE DEF r
<1>4. m \in StoreType
  BY <1>2, <1>3 DEF StoreType
<1>5. /\ m.authRequests = s.authRequests /\ m.codes = s.codes
      /\ m.access = s.access /\ m.refresh = s.refresh \cup {r}
      /\ m.families = {Join(f, family, token) : f \in s.families}
      /\ m.revoked = s.revoked /\ m.nextExpiry = s.nextExpiry
  BY DEF StoreType
<1> HIDE DEF m
<1>6. Expiries(m) = Expiries(s)
  BY <1>3, <1>5 DEF Expiries
<1>7. ExpiryCovered(s) => ExpiryCovered(m)
  BY <1>5, <1>6 DEF ExpiryCovered
<1>8. /\ n \in StoreType
      /\ n.authRequests = m.authRequests /\ n.codes = m.codes
      /\ n.access = m.access \cup {NewAccess(t, id, request, family)}
      /\ n.refresh = m.refresh
      /\ n.families = m.families /\ n.revoked = m.revoked
      /\ ExpiryCovered(m) => ExpiryCovered(n)
  BY <1>4, AddAccessFields
<1>9. QED
  BY <1>1, <1>5, <1>7, <1>8 DEF r

\* The family a first pair opens.
NewFamily(t, family, request, tokens) ==
    [id |-> family, client |-> request.client, subject |-> request.subject,
     expires |-> t + RefreshTTL, tokens |-> tokens]

\* What has been drawn after each kind of creation.
LEMMA SerialTypes ==
    ASSUME NEW k \in SerialType
    PROVE  /\ [k EXCEPT !.access = @ + 1] \in SerialType
           /\ [k EXCEPT !.access = @ + 1, !.refresh = @ + 1] \in SerialType
           /\ [k EXCEPT !.access = @ + 1, !.refresh = @ + 1, !.family = @ + 1]
                 \in SerialType
<1>1. k.access + 1 \in Nat /\ k.refresh + 1 \in Nat /\ k.family + 1 \in Nat
  BY DEF SerialType
<1>2. QED
  BY <1>1 DEF SerialType

\* What opening a family with its first pair changes.
LEMMA CreateFamilyFields ==
    ASSUME NEW s \in StoreType, NEW t \in Nat, NEW family \in Nat,
           NEW token \in Nat, NEW id \in Nat, NEW request \in TokenRequest,
           ExpiryCovered(reserveAuthorizationCodeLocked(s, request)),
           reserveAuthorizationCodeLocked(s, request) \in StoreType,
           family \notin FamilyIDs(reserveAuthorizationCodeLocked(s, request))
    PROVE  LET m == reserveAuthorizationCodeLocked(s, request)
               n == CreateFamily(s, t, family, token, id, request) IN
           /\ n \in StoreType
           /\ n.authRequests = m.authRequests /\ n.codes = m.codes
           /\ n.access = m.access \cup {NewAccess(t, id, request, family)}
           /\ n.refresh = m.refresh \cup {NewRefresh(family, token, id, request)}
           /\ n.families = m.families \cup {NewFamily(t, family, request, {token})}
           /\ n.revoked = m.revoked
           /\ ExpiryCovered(n)
<1> DEFINE m == reserveAuthorizationCodeLocked(s, request)
           F == NewFamily(t, family, request, {})
           G == NewFamily(t, family, request, {token})
           e == t + RefreshTTL
           o == [m EXCEPT !.families = @ \cup {F}]
           p == scheduleExpiryLocked(o, e)
           n == AddPair(p, t, family, token, id, request)
<1>1. e \in Nat /\ 0 < e
  BY LifetimesAssumption
<1>2. F \in RefreshFamily /\ F.expires = e /\ F.id = family
  BY <1>1 DEF NewFamily, RefreshFamily, TokenRequest
<1>3. Join(F, family, token) = G
  BY DEF NewFamily, Join
<1>4. CreateFamily(s, t, family, token, id, request) = n
  BY DEF CreateFamily, NewFamily
<1>5. m \in StoreType /\ ExpiryCovered(m) /\ family \notin FamilyIDs(m)
  OBVIOUS
<1> HIDE DEF m, F, G, e
<1>6. o \in StoreType
  BY <1>2, <1>5 DEF StoreType
<1>7. /\ o.authRequests = m.authRequests /\ o.codes = m.codes
      /\ o.access = m.access /\ o.refresh = m.refresh
      /\ o.families = m.families \cup {F}
      /\ o.revoked = m.revoked /\ o.nextExpiry = m.nextExpiry
  BY <1>5 DEF StoreType
<1> HIDE DEF o
<1>8. /\ p \in StoreType
      /\ p.authRequests = o.authRequests /\ p.codes = o.codes
      /\ p.access = o.access /\ p.refresh = o.refresh
      /\ p.families = o.families /\ p.revoked = o.revoked
      /\ 0 < p.nextExpiry /\ p.nextExpiry <= e
      /\ o.nextExpiry # 0 => p.nextExpiry <= o.nextExpiry
  BY <1>1, <1>6, ScheduleFields
<1> HIDE DEF p
<1>9. ExpiryCovered(p)
  <2>1. Expiries(p) = Expiries(m) \cup {e}
    BY <1>2, <1>7, <1>8 DEF Expiries
  <2>2. m.nextExpiry \in Nat /\ p.nextExpiry \in Nat /\ Expiries(m) \subseteq Nat
    BY <1>5, <1>8, ExpiriesType DEF StoreType
  <2>3. QED
    BY <1>1, <1>5, <1>7, <1>8, <2>1, <2>2 DEF ExpiryCovered
<1>10. /\ n \in StoreType
       /\ n.authRequests = p.authRequests /\ n.codes = p.codes
       /\ n.access = p.access \cup {NewAccess(t, id, request, family)}
       /\ n.refresh = p.refresh \cup {NewRefresh(family, token, id, request)}
       /\ n.families = {Join(f, family, token) : f \in p.families}
       /\ n.revoked = p.revoked
       /\ ExpiryCovered(p) => ExpiryCovered(n)
  BY <1>8, AddPairFields
<1> HIDE DEF n
<1>11. \A f \in m.families : Join(f, family, token) = f
  BY <1>5 DEF FamilyIDs, Join
<1>12. n.families = m.families \cup {G}
  BY <1>3, <1>7, <1>8, <1>10, <1>11
<1>13. QED
  BY <1>4, <1>7, <1>8, <1>9, <1>10, <1>12 DEF m, G

\* A new family with its first pair of tokens.
LEMMA CreateFamilyConsistent ==
    ASSUME NEW s \in StoreType, NEW k \in SerialType, Consistent(s, k),
           NEW t \in Nat, NEW request \in TokenRequest
    PROVE  LET n == CreateFamily(s, t, k.family + 1, k.refresh + 1, k.access + 1,
                                 request) IN
           /\ n \in StoreType
           /\ Consistent(n, [k EXCEPT !.access = @ + 1, !.refresh = @ + 1,
                                      !.family = @ + 1])
           /\ n.codes = reserveAuthorizationCodeLocked(s, request).codes
           /\ n.authRequests = reserveAuthorizationCodeLocked(s, request).authRequests
<1> DEFINE m == reserveAuthorizationCodeLocked(s, request)
           id == k.access + 1
           token == k.refresh + 1
           family == k.family + 1
           l == [k EXCEPT !.access = id, !.refresh = token, !.family = family]
           a == NewAccess(t, id, request, family)
           r == NewRefresh(family, token, id, request)
           G == NewFamily(t, family, request, {token})
           n == CreateFamily(s, t, family, token, id, request)
<1>1. m \in StoreType /\ Consistent(m, k)
  BY ReserveConsistent
<1>2. k.access \in Nat /\ k.family \in Nat /\ k.refresh \in Nat
  BY DEF SerialType
<1>3. /\ id \in Nat /\ id = k.access + 1 /\ l.access = id
      /\ token \in Nat /\ token = k.refresh + 1 /\ l.refresh = token
      /\ family \in Nat /\ family = k.family + 1 /\ l.family = family
  BY <1>2 DEF SerialType
<1>4. a.id = id /\ a.family = family
  BY DEF NewAccess
<1>5. /\ r.token = token /\ r.family = family /\ r.accessID = id /\ ~r.consumed
      /\ r.subject \in Subjects
  BY DEF NewRefresh, TokenRequest
<1>6. G.id = family /\ G.tokens = {token}
  BY DEF NewFamily
<1> HIDE DEF m, l, id, token, family
<1>7. /\ \A x \in m.access : x.id \in Nat /\ x.family \in Nat
      /\ \A x \in m.refresh : x.accessID \in Nat /\ x.token \in Nat /\ x.family \in Nat
      /\ \A x \in m.families : x.id \in Nat /\ x.tokens \subseteq Nat
      /\ m.revoked \subseteq Nat
  BY <1>1 DEF StoreType, AccessRecord, RefreshRecord, RefreshFamily
<1>8. family \notin FamilyIDs(m) /\ family \notin m.revoked
  BY <1>1, <1>2, <1>3, <1>7 DEF Consistent, Drawn, FamilyIDs
<1>9. /\ n \in StoreType
      /\ n.authRequests = m.authRequests /\ n.codes = m.codes
      /\ n.access = m.access \cup {a}
      /\ n.refresh = m.refresh \cup {r}
      /\ n.families = m.families \cup {G}
      /\ n.revoked = m.revoked
      /\ ExpiryCovered(n)
  <2>1. m \in StoreType /\ ExpiryCovered(m) /\ family \notin FamilyIDs(m)
    BY <1>1, <1>8 DEF Consistent
  <2>2. QED
    BY <1>3, <2>1, CreateFamilyFields DEF m
<1> HIDE DEF a, r, G, n
<1>10. FamilyIDs(n) = FamilyIDs(m) \cup {family}
  BY <1>6, <1>9 DEF FamilyIDs
<1>11. SubjectsKnown(n)
  BY <1>1, <1>5, <1>9 DEF Consistent, SubjectsKnown
<1>12. /\ \A x \in m.refresh : x.family \in FamilyIDs(m) /\ x.token # token
       /\ \A f \in m.families : token \notin f.tokens
  BY <1>1, <1>2, <1>3, <1>7 DEF Consistent, IndexSound, Drawn, FamilyIDs
<1>13. IndexSound(n)
  BY <1>1, <1>5, <1>6, <1>8, <1>9, <1>12 DEF Consistent, IndexSound, FamilyIDs
<1>14. \A x \in m.access : x.family # family
  BY <1>1, <1>2, <1>3, <1>7 DEF Consistent, Drawn
<1>15. OnePair(n)
  BY <1>1, <1>4, <1>5, <1>6, <1>8, <1>9, <1>10, <1>12, <1>14 DEF Consistent, OnePair
<1>16. RevokedGone(n)
  BY <1>1, <1>4, <1>8, <1>9, <1>10 DEF Consistent, RevokedGone
<1>17. Drawn(n, l)
  BY <1>1, <1>2, <1>3, <1>4, <1>5, <1>6, <1>7, <1>9 DEF Consistent, Drawn
<1>18. QED
  BY <1>9, <1>11, <1>13, <1>15, <1>16, <1>17
  DEF Consistent, m, n, l, id, token, family

\* A family once the index of the rotated one is compacted.
Shrink(s, f, family) ==
    IF f.id = family
    THEN [f EXCEPT !.tokens = compactFamilyTokensLocked(s, f)] ELSE f

\* The store between the consumption of a token and the new pair.
LEMMA RotateFields ==
    ASSUME NEW s \in StoreType, NEW t \in Nat, NEW old \in s.refresh,
           NEW token \in Nat, NEW id \in Nat, NEW request \in TokenRequest
    PROVE  LET n == RotateToken(s, t, old, token, id, request) IN
           /\ n \in StoreType
           /\ n.authRequests = s.authRequests /\ n.codes = s.codes
           /\ n.access = {a \in s.access : a.id # old.accessID}
                         \cup {NewAccess(t, id, request, old.family)}
           /\ n.refresh = (s.refresh \ {old}) \cup {consumeRefreshRecord(old)}
                          \cup {NewRefresh(old.family, token, id, request)}
           /\ \A g \in n.families : \E f \in s.families :
                 /\ g.id = f.id
                 /\ g.subject = f.subject /\ g.client = f.client /\ g.expires = f.expires
                 /\ f.id # old.family => g = f
                 /\ f.id = old.family => /\ token \in g.tokens
                                         /\ g.tokens \subseteq f.tokens \cup {token}
           /\ \A f \in s.families : \E g \in n.families :
                 /\ g.id = f.id
                 /\ f.id # old.family => g = f
                 /\ f.id = old.family => token \in g.tokens
           /\ (\A f, g \in s.families : f.id = g.id => f = g) =>
              (\A f, g \in n.families : f.id = g.id => f = g)
           /\ n.revoked = s.revoked
           /\ ExpiryCovered(s) => ExpiryCovered(n)
<1> DEFINE C == consumeRefreshRecord(old)
           family == old.family
           m == [s EXCEPT !.refresh = (@ \ {old}) \cup {C},
                          !.access = {a \in s.access : a.id # old.accessID}]
           S(f) == Shrink(m, f, family)
           o == [m EXCEPT !.families = {S(f) : f \in s.families}]
           n == AddPair(o, t, family, token, id, request)
<1>1. RotateToken(s, t, old, token, id, request) = n
  BY DEF RotateToken, Shrink
<1>2. C \in RefreshRecord /\ family \in Nat
  BY DEF StoreType, RefreshRecord, consumeRefreshRecord
<1> HIDE DEF C, family
<1>3. m \in StoreType
  BY <1>2 DEF StoreType
<1>4. /\ m.authRequests = s.authRequests /\ m.codes = s.codes
      /\ m.access = {a \in s.access : a.id # old.accessID}
      /\ m.refresh = (s.refresh \ {old}) \cup {C}
      /\ m.families = s.families
      /\ m.revoked = s.revoked /\ m.nextExpiry = s.nextExpiry
  BY DEF StoreType
<1> HIDE DEF m
<1>5. \A f \in s.families :
        /\ S(f) \in RefreshFamily
        /\ S(f).expires = f.expires
        /\ S(f).id = f.id
        /\ S(f).subject = f.subject /\ S(f).client = f.client
        /\ f.id # family => S(f) = f
        /\ S(f).tokens \subseteq f.tokens
  BY DEF StoreType, RefreshFamily, Shrink, compactFamilyTokensLocked
<1> HIDE DEF S
<1>6. o \in StoreType
  BY <1>3, <1>5 DEF StoreType
<1>7. /\ o.authRequests = m.authRequests /\ o.codes = m.codes
      /\ o.access = m.access /\ o.refresh = m.refresh
      /\ o.families = {S(f) : f \in s.families}
      /\ o.revoked = m.revoked /\ o.nextExpiry = m.nextExpiry
  BY <1>3 DEF StoreType
<1> HIDE DEF o
<1>8. ExpiryCovered(s) => ExpiryCovered(o)
  <2>1. Expiries(o) \subseteq Expiries(s)
    BY <1>4, <1>5, <1>7 DEF Expiries
  <2>2. QED
    BY <1>4, <1>7, <2>1 DEF ExpiryCovered
<1>9. /\ n \in StoreType
      /\ n.authRequests = o.authRequests /\ n.codes = o.codes
      /\ n.access = o.access \cup {NewAccess(t, id, request, family)}
      /\ n.refresh = o.refresh \cup {NewRefresh(family, token, id, request)}
      /\ n.families = {Join(f, family, token) : f \in o.families}
      /\ n.revoked = o.revoked
      /\ ExpiryCovered(o) => ExpiryCovered(n)
  BY <1>2, <1>6, AddPairFields
<1> HIDE DEF n
<1>10. \A f \in s.families :
         /\ Join(S(f), family, token).id = f.id
         /\ Join(S(f), family, token).subject = f.subject
         /\ Join(S(f), family, token).client = f.client
         /\ Join(S(f), family, token).expires = f.expires
         /\ f.id # family => Join(S(f), family, token) = f
         /\ f.id = family =>
              /\ token \in Join(S(f), family, token).tokens
              /\ Join(S(f), family, token).tokens \subseteq f.tokens \cup {token}
  BY <1>5 DEF Join, RefreshFamily
<1>11. n.families = {Join(S(f), family, token) : f \in s.families}
  BY <1>7, <1>9
<1>12. /\ \A g \in n.families : \E f \in s.families :
             /\ g.id = f.id
             /\ g.subject = f.subject /\ g.client = f.client /\ g.expires = f.expires
             /\ f.id # family => g = f
             /\ f.id = family => /\ token \in g.tokens
                                 /\ g.tokens \subseteq f.tokens \cup {token}
       /\ \A f \in s.families : \E g \in n.families :
             /\ g.id = f.id
             /\ f.id # family => g = f
             /\ f.id = family => token \in g.tokens
  BY <1>10, <1>11
<1>13. (\A f, g \in s.families : f.id = g.id => f = g) =>
       (\A f, g \in n.families : f.id = g.id => f = g)
  BY <1>10, <1>11
<1>14. QED
  BY <1>1, <1>4, <1>7, <1>8, <1>9, <1>12, <1>13 DEF C, family

\* Rotation: the usable token of a family is consumed and replaced.
LEMMA RotateConsistent ==
    ASSUME NEW s \in StoreType, NEW k \in SerialType, Consistent(s, k),
           NEW t \in Nat, NEW old \in s.refresh, ~old.consumed,
           NEW request \in TokenRequest
    PROVE  LET n == RotateToken(s, t, old, k.refresh + 1, k.access + 1, request) IN
           /\ n \in StoreType
           /\ Consistent(n, [k EXCEPT !.access = @ + 1, !.refresh = @ + 1])
           /\ n.codes = s.codes /\ n.authRequests = s.authRequests
<1> DEFINE id == k.access + 1
           token == k.refresh + 1
           family == old.family
           l == [k EXCEPT !.access = id, !.refresh = token]
           a == NewAccess(t, id, request, family)
           r == NewRefresh(family, token, id, request)
           C == consumeRefreshRecord(old)
           n == RotateToken(s, t, old, token, id, request)
<1>1. k.access \in Nat /\ k.family \in Nat /\ k.refresh \in Nat
  BY DEF SerialType
<1>2. /\ id \in Nat /\ id = k.access + 1 /\ l.access = id
      /\ token \in Nat /\ token = k.refresh + 1 /\ l.refresh = token
      /\ l.family = k.family
  BY <1>1 DEF SerialType
<1>3. a.id = id /\ a.family = family
  BY DEF NewAccess
<1>4. /\ r.token = token /\ r.family = family /\ r.accessID = id /\ ~r.consumed
      /\ r.subject \in Subjects
  BY DEF NewRefresh, TokenRequest
<1>5. C.token = old.token /\ C.family = family /\ C.accessID = 0 /\ C.consumed
  BY DEF consumeRefreshRecord, StoreType, RefreshRecord
<1> HIDE DEF l, id, token
<1>6. /\ n \in StoreType
      /\ n.authRequests = s.authRequests /\ n.codes = s.codes
      /\ n.access = {x \in s.access : x.id # old.accessID} \cup {a}
      /\ n.refresh = (s.refresh \ {old}) \cup {C} \cup {r}
      /\ \A g \in n.families : \E f \in s.families :
            /\ g.id = f.id
            /\ g.subject = f.subject /\ g.client = f.client /\ g.expires = f.expires
            /\ f.id # family => g = f
            /\ f.id = family => /\ token \in g.tokens
                                /\ g.tokens \subseteq f.tokens \cup {token}
      /\ \A f \in s.families : \E g \in n.families :
            /\ g.id = f.id
            /\ f.id # family => g = f
            /\ f.id = family => token \in g.tokens
      /\ (\A f, g \in s.families : f.id = g.id => f = g) =>
         (\A f, g \in n.families : f.id = g.id => f = g)
      /\ n.revoked = s.revoked
      /\ ExpiryCovered(s) => ExpiryCovered(n)
  BY <1>2, RotateFields
<1> HIDE DEF a, r, C, n, family
<1>7. /\ \A x \in s.access : x.id \in Nat /\ x.family \in Nat
      /\ \A x \in s.refresh : x.accessID \in Nat /\ x.token \in Nat /\ x.family \in Nat
      /\ \A x \in s.families : x.id \in Nat /\ x.tokens \subseteq Nat
  BY DEF StoreType, AccessRecord, RefreshRecord, RefreshFamily
<1>8. FamilyIDs(n) = FamilyIDs(s)
  BY <1>6 DEF FamilyIDs
<1>9. family \in FamilyIDs(s)
  BY DEF Consistent, IndexSound, FamilyIDs, family
<1>10. SubjectsKnown(n)
  BY <1>4, <1>5, <1>6 DEF Consistent, SubjectsKnown
<1>11. /\ \A x \in s.refresh : x.token # token
       /\ \A f \in s.families : token \notin f.tokens
  BY <1>1, <1>2, <1>7 DEF Consistent, Drawn
<1>12. \A x \in s.refresh : x.family = family /\ ~x.consumed => x = old
  BY DEF Consistent, OnePair, family
<1>13. IndexSound(n)
  <2>1. \A x \in n.refresh : \E f \in n.families :
           f.id = x.family /\ (x.consumed \/ x.token \in f.tokens)
    <3> SUFFICES ASSUME NEW x \in n.refresh
                 PROVE  \E f \in n.families :
                           f.id = x.family /\ (x.consumed \/ x.token \in f.tokens)
      OBVIOUS
    <3>1. CASE x = r \/ x = C
      BY <1>4, <1>5, <1>6, <1>9, <3>1 DEF FamilyIDs
    <3>2. CASE x \in s.refresh \ {old}
      <4>1. PICK f \in s.families :
              f.id = x.family /\ (x.consumed \/ x.token \in f.tokens)
        BY <3>2 DEF Consistent, IndexSound
      <4>2. QED
        BY <1>6, <1>12, <3>2, <4>1
    <3>3. QED
      BY <1>6, <3>1, <3>2
  <2>2. \A f \in n.families, x \in n.refresh : x.token \in f.tokens => x.family = f.id
    <3> SUFFICES ASSUME NEW g \in n.families, NEW x \in n.refresh, x.token \in g.tokens
                 PROVE  x.family = g.id
      OBVIOUS
    <3>1. PICK f \in s.families :
             /\ g.id = f.id
             /\ f.id # family => g = f
             /\ f.id = family => /\ token \in g.tokens
                                 /\ g.tokens \subseteq f.tokens \cup {token}
      BY <1>6
    <3>2. CASE x = r
      BY <1>4, <1>11, <3>1, <3>2
    <3>3. CASE x # r
      <4>1. PICK y \in s.refresh : x.token = y.token /\ x.family = y.family
        BY <1>5, <1>6, <3>3 DEF family
      <4>2. x.token \in f.tokens
        BY <1>11, <3>1, <4>1
      <4>3. QED
        BY <3>1, <4>1, <4>2 DEF Consistent, IndexSound
    <3>4. QED
      BY <3>2, <3>3
  <2>3. QED
    BY <1>6, <2>1, <2>2 DEF Consistent, IndexSound
<1>14. OnePair(n)
  <2>1. \A f \in n.families : \E x \in n.refresh : x.family = f.id /\ ~x.consumed
    <3> SUFFICES ASSUME NEW g \in n.families
                 PROVE  \E x \in n.refresh : x.family = g.id /\ ~x.consumed
      OBVIOUS
    <3>1. PICK f \in s.families : g.id = f.id
      BY <1>6
    <3>2. PICK x \in s.refresh : x.family = f.id /\ ~x.consumed
      BY DEF Consistent, OnePair
    <3>3. QED
      BY <1>4, <1>6, <3>1, <3>2 DEF family
  <2>2. \A x, q \in n.refresh :
           x.family = q.family /\ ~x.consumed /\ ~q.consumed => x = q
    BY <1>4, <1>5, <1>6, <1>12 DEF Consistent, OnePair
  <2>3. \A x \in n.access : x.family \in FamilyIDs(n) =>
           \E q \in n.refresh :
               q.family = x.family /\ ~q.consumed /\ q.accessID = x.id
    <3> SUFFICES ASSUME NEW x \in n.access, x.family \in FamilyIDs(n)
                 PROVE  \E q \in n.refresh :
                           q.family = x.family /\ ~q.consumed /\ q.accessID = x.id
      OBVIOUS
    <3>1. CASE x = a
      BY <1>3, <1>4, <1>6, <3>1
    <3>2. CASE x \in s.access /\ x.id # old.accessID
      <4>1. PICK q \in s.refresh :
              q.family = x.family /\ ~q.consumed /\ q.accessID = x.id
        BY <1>8, <3>2 DEF Consistent, OnePair
      <4>2. QED
        BY <1>6, <3>2, <4>1
    <3>3. QED
      BY <1>6, <3>1, <3>2
  <2>4. QED
    BY <2>1, <2>2, <2>3 DEF OnePair
<1>15. RevokedGone(n)
  BY <1>3, <1>6, <1>8, <1>9 DEF Consistent, RevokedGone
<1>16. Drawn(n, l)
  <2>1. family <= k.family
    BY <1>9 DEF Consistent, Drawn, FamilyIDs
  <2>2. /\ \A x \in n.access : x.id <= l.access /\ x.family <= l.family
        /\ \A x \in n.refresh : x.token <= l.refresh /\ x.accessID <= l.access
    BY <1>1, <1>2, <1>3, <1>4, <1>5, <1>6, <1>7, <2>1 DEF Consistent, Drawn
  <2>3. \A f \in n.families : /\ 0 < f.id /\ f.id <= l.family
                              /\ \A h \in f.tokens : h <= l.refresh
    BY <1>1, <1>2, <1>6, <1>7 DEF Consistent, Drawn
  <2>4. QED
    BY <1>2, <1>6, <2>2, <2>3 DEF Consistent, Drawn
<1>17. ExpiryCovered(n)
  BY <1>6 DEF Consistent
<1>18. QED
  BY <1>6, <1>10, <1>13, <1>14, <1>15, <1>16, <1>17 DEF Consistent, n, l, id, token

----------------------------------------------------------------------------
(* The cache, and codes that were redeemed. *)

\* While now is before nextExpiry the scan would change nothing.
LEMMA SweepIdle ==
    ASSUME NEW s \in StoreType, NEW t \in Nat, NEW k \in SerialType,
           Consistent(s, k), s.nextExpiry # 0, t < s.nextExpiry
    PROVE  Sweep(s, t) = s
<1>1. /\ \A r \in s.authRequests : t < r.expires
      /\ \A c \in s.codes : t < c.expires
      /\ \A a \in s.access : t < a.expires
      /\ \A f \in s.families : t < f.expires /\ ~(f.expires <= t)
  <2>1. \A e \in Expiries(s) : e \in Nat /\ s.nextExpiry <= e /\ s.nextExpiry \in Nat
    BY ExpiriesType DEF Consistent, ExpiryCovered, StoreType
  <2>2. \A e \in Expiries(s) : t < e /\ ~(e <= t)
    BY <2>1
  <2>3. QED
    BY <2>2 DEF Expiries
<1>2. \A r \in s.authRequests : ~(r.expires <= t)
  BY <1>1 DEF StoreType, AuthRequest
<1>3. \A r \in s.refresh : \E f \in s.families : f.id = r.family /\ t < f.expires
  BY <1>1 DEF Consistent, IndexSound
<1>4. QED
  BY <1>1, <1>2, <1>3 DEF Sweep, StoreType

\* In a consistent store a prune that skips the scan leaves what the scan
\* would have left.
LEMMA PruneTransparent ==
    ASSUME NEW s \in StoreType, NEW t \in Nat, NEW k \in SerialType,
           Consistent(s, k)
    PROVE  pruneLocked(s, t) =
              [Sweep(s, t) EXCEPT !.nextExpiry = pruneLocked(s, t).nextExpiry]
<1>1. CASE s.nextExpiry # 0 /\ t < s.nextExpiry
  <2>1. pruneLocked(s, t) = s /\ Sweep(s, t) = s
    BY <1>1, SweepIdle DEF pruneLocked
  <2>2. s = [s EXCEPT !.nextExpiry = s.nextExpiry]
    BY DEF StoreType
  <2>3. QED
    BY <2>1, <2>2
<1>2. CASE ~(s.nextExpiry # 0 /\ t < s.nextExpiry)
  <2> DEFINE m == Sweep(s, t)
             e == Earliest(Expiries(m))
  <2>1. m \in StoreType
    BY SweepType
  <2>2. pruneLocked(s, t) = [m EXCEPT !.nextExpiry = e]
    BY <1>2 DEF pruneLocked
  <2> HIDE DEF m, e
  <2>3. [m EXCEPT !.nextExpiry = e].nextExpiry = e
    BY <2>1 DEF StoreType
  <2>4. QED
    BY <2>2, <2>3 DEF m
<1>3. QED
  BY <1>1, <1>2

\* A prune leaves the unexpired requests, access records and families, and
\* adds nothing.
LEMMA PruneFields ==
    ASSUME NEW s \in StoreType, NEW t \in Nat, NEW k \in SerialType,
           Consistent(s, k)
    PROVE  LET n == pruneLocked(s, t) IN
           /\ n.authRequests = {r \in s.authRequests : t < r.expires}
           /\ n.codes \subseteq s.codes
           /\ n.access = {a \in s.access : t < a.expires}
           /\ n.families = {f \in s.families : t < f.expires}
           /\ n.refresh \subseteq s.refresh
           /\ n.revoked = s.revoked
<1> DEFINE m == Sweep(s, t)
           n == pruneLocked(s, t)
<1>1. m \in StoreType
  BY SweepType
<1>2. /\ m.authRequests = {r \in s.authRequests : t < r.expires}
      /\ m.codes \subseteq s.codes
      /\ m.access = {a \in s.access : t < a.expires}
      /\ m.families = {f \in s.families : t < f.expires}
      /\ m.refresh \subseteq s.refresh
      /\ m.revoked = s.revoked
  BY SweepFields
<1>3. n = [m EXCEPT !.nextExpiry = n.nextExpiry]
  BY PruneTransparent
<1> HIDE DEF m, n
<1>4. /\ n.authRequests = m.authRequests /\ n.codes = m.codes
      /\ n.access = m.access /\ n.refresh = m.refresh
      /\ n.families = m.families /\ n.revoked = m.revoked
  BY <1>1, <1>3 DEF StoreType
<1>5. QED
  BY <1>2, <1>4 DEF n

\* A redeemed code stays redeemed while requests and codes only disappear.
LEMMA SpentSubset ==
    ASSUME NEW s, NEW n, NEW id, Spent(s, id),
           n.codes \subseteq s.codes, n.authRequests \subseteq s.authRequests
    PROVE  Spent(n, id)
BY DEF Spent, OwnsCode

\* Reserving a code keeps redeemed codes spent, and spends the reserved one.
LEMMA SpentReserve ==
    ASSUME NEW s \in StoreType, NEW request \in TokenRequest
    PROVE  LET n == reserveAuthorizationCodeLocked(s, request) IN
           /\ \A id : Spent(s, id) => Spent(n, id)
           /\ request.auth # 0 => Spent(n, request.auth)
<1> DEFINE n == reserveAuthorizationCodeLocked(s, request)
           mark(c) == IF request.auth # 0 /\ OwnsCode(s, request.auth, c)
                      THEN [c EXCEPT !.reserved = TRUE] ELSE c
<1>1. /\ n.codes = {mark(c) : c \in s.codes}
      /\ n.authRequests = s.authRequests
  BY DEF StoreType, reserveAuthorizationCodeLocked
<1>2. \A c \in s.codes :
        /\ mark(c).requestID = c.requestID /\ mark(c).code = c.code
        /\ c.reserved => mark(c).reserved
        /\ request.auth # 0 /\ OwnsCode(s, request.auth, c) => mark(c).reserved
  BY DEF StoreType, CodeRecord
<1> HIDE DEF mark, n
<1>3. ASSUME NEW id, NEW c \in s.codes, OwnsCode(n, id, mark(c))
      PROVE  OwnsCode(s, id, c)
  BY <1>1, <1>2, <1>3 DEF OwnsCode
<1>4. \A id : Spent(s, id) => Spent(n, id)
  BY <1>1, <1>2, <1>3 DEF Spent
<1>5. request.auth # 0 => Spent(n, request.auth)
  BY <1>1, <1>2, <1>3 DEF Spent
<1>6. QED
  BY <1>4, <1>5 DEF n

----------------------------------------------------------------------------
(* Authorization requests and their codes. *)

\* What holds of one request, whoever handles it: an open one has neither
\* secret nor code, a code replaces the secret, and the sign-in came in time.
RequestSound(r, k) ==
    /\ r.id <= k.request /\ r.code <= k.code
    /\ ~r.done => r.secret = 0 /\ r.code = 0
    /\ r.secret # 0 => r.code = 0
    /\ r.done => r.authTime < r.expires

\* Every code has its request, which points back at it.
CodesOwned(s) ==
    \A c \in s.codes :
        /\ 0 < c.code
        /\ \E r \in s.authRequests :
              r.id = c.requestID /\ r.code = c.code /\ r.expires = c.expires

RequestsSound(s, k) ==
    /\ \A r, q \in s.authRequests : r.id = q.id => r = q
    /\ \A r \in s.authRequests : RequestSound(r, k)
    /\ CodesOwned(s)

\* It depends on the requests, the codes and the identifiers drawn for them.
LEMMA SoundKept ==
    ASSUME NEW s \in StoreType, NEW k \in SerialType, RequestsSound(s, k),
           NEW n, NEW l, n.authRequests = s.authRequests, n.codes = s.codes,
           l.request = k.request, l.code = k.code
    PROVE  RequestsSound(n, l)
BY DEF RequestsSound, RequestSound, CodesOwned

\* Requests and their codes expire together.
LEMMA PruneSound ==
    ASSUME NEW s \in StoreType, NEW t \in Nat, NEW k \in SerialType,
           RequestsSound(s, k)
    PROVE  RequestsSound(pruneLocked(s, t), k)
<1> DEFINE m == Sweep(s, t)
           n == pruneLocked(s, t)
<1>1. CASE n = s
  BY <1>1
<1>2. CASE n # s
  <2>1. m \in StoreType
    BY SweepType
  <2>2. /\ m.authRequests = {r \in s.authRequests : t < r.expires}
        /\ m.codes = {c \in s.codes : /\ t < c.expires
                        /\ \A r \in s.authRequests : r.expires <= t => r.code # c.code}
    BY DEF Sweep, StoreType
  <2>3. n = [m EXCEPT !.nextExpiry = Earliest(Expiries(m))]
    BY <1>2 DEF pruneLocked
  <2> HIDE DEF m, n
  <2>4. n.authRequests = m.authRequests /\ n.codes = m.codes
    BY <2>1, <2>3 DEF StoreType
  <2>5. CodesOwned(n)
    BY <2>2, <2>4 DEF RequestsSound, CodesOwned
  <2>6. QED
    BY <2>2, <2>4, <2>5 DEF RequestsSound, n
<1>3. QED
  BY <1>1, <1>2

\* DeleteAuthRequest takes the codes of the request along.
LEMMA DeleteSound ==
    ASSUME NEW s \in StoreType, NEW k \in SerialType, RequestsSound(s, k), NEW id
    PROVE  RequestsSound(DeleteAuthRequest(s, id), k)
<1> DEFINE n == DeleteAuthRequest(s, id)
<1>1. /\ n.authRequests = {r \in s.authRequests : r.id # id}
      /\ n.codes = {c \in s.codes : ~OwnsCode(s, id, c)}
  BY DEF StoreType, DeleteAuthRequest
<1> HIDE DEF n
<1>2. \A c \in n.codes : c.requestID # id
  <2> SUFFICES ASSUME NEW c \in s.codes, c.requestID = id PROVE OwnsCode(s, id, c)
    BY <1>1
  <2>1. PICK r \in s.authRequests : r.id = id /\ r.code = c.code
    BY DEF RequestsSound, CodesOwned
  <2>2. 0 < c.code
    BY DEF RequestsSound, CodesOwned
  <2>3. QED
    BY <2>1, <2>2 DEF OwnsCode
<1>3. CodesOwned(n)
  BY <1>1, <1>2 DEF RequestsSound, CodesOwned
<1>4. QED
  BY <1>1, <1>3 DEF RequestsSound, n

\* Reserving a code leaves its identity and lifetime.
LEMMA ReserveSound ==
    ASSUME NEW s \in StoreType, NEW k \in SerialType, RequestsSound(s, k), NEW request
    PROVE  RequestsSound(reserveAuthorizationCodeLocked(s, request), k)
<1> DEFINE n == reserveAuthorizationCodeLocked(s, request)
           mark(c) == IF request.auth # 0 /\ OwnsCode(s, request.auth, c)
                      THEN [c EXCEPT !.reserved = TRUE] ELSE c
<1>1. /\ n.codes = {mark(c) : c \in s.codes}
      /\ n.authRequests = s.authRequests
  BY DEF StoreType, reserveAuthorizationCodeLocked
<1>2. \A c \in s.codes : /\ mark(c).code = c.code
                         /\ mark(c).requestID = c.requestID
                         /\ mark(c).expires = c.expires
  BY DEF StoreType, CodeRecord
<1> HIDE DEF mark, n
<1>3. CodesOwned(n)
  BY <1>1, <1>2 DEF RequestsSound, CodesOwned
<1>4. QED
  BY <1>1, <1>3 DEF RequestsSound, n

\* What replacing a request changes.
LEMMA UpdateFields ==
    ASSUME NEW s \in StoreType, NEW r, NEW q \in AuthRequest
    PROVE  LET n == UpdateRequest(s, r, q) IN
           /\ n \in StoreType
           /\ n.authRequests = (s.authRequests \ {r}) \cup {q}
           /\ n.codes = s.codes /\ n.access = s.access
           /\ n.refresh = s.refresh /\ n.families = s.families
           /\ n.revoked = s.revoked /\ n.nextExpiry = s.nextExpiry
BY DEF UpdateRequest, StoreType

\* A request that keeps its id and lifetime may change.
LEMMA UpdateConsistent ==
    ASSUME NEW s \in StoreType, NEW k \in SerialType, Consistent(s, k),
           NEW r \in s.authRequests, NEW q \in AuthRequest,
           q.id = r.id, q.expires = r.expires, q.done => q.subject \in Users
    PROVE  Consistent(UpdateRequest(s, r, q), k)
<1> DEFINE n == UpdateRequest(s, r, q)
<1>1. /\ n.authRequests = (s.authRequests \ {r}) \cup {q}
      /\ n.codes = s.codes /\ n.access = s.access
      /\ n.refresh = s.refresh /\ n.families = s.families
      /\ n.revoked = s.revoked /\ n.nextExpiry = s.nextExpiry
  BY UpdateFields
<1> HIDE DEF n
<1>2. Expiries(n) \subseteq Expiries(s)
  BY <1>1 DEF Expiries
<1>3. ExpiryCovered(n)
  BY <1>1, <1>2 DEF Consistent, ExpiryCovered
<1>4. SubjectsKnown(n) /\ IndexSound(n) /\ OnePair(n) /\ RevokedGone(n) /\ Drawn(n, k)
  BY <1>1 DEF Consistent, SubjectsKnown, IndexSound, OnePair, RevokedGone, Drawn, FamilyIDs
<1>5. QED
  BY <1>3, <1>4 DEF Consistent, n

\* And if it also keeps its code, the codes still have their requests.
LEMMA UpdateSound ==
    ASSUME NEW s \in StoreType, NEW k \in SerialType, RequestsSound(s, k),
           NEW r \in s.authRequests, NEW q \in AuthRequest,
           q.id = r.id, q.expires = r.expires, q.code = r.code, RequestSound(q, k)
    PROVE  RequestsSound(UpdateRequest(s, r, q), k)
<1> DEFINE n == UpdateRequest(s, r, q)
<1>1. n.authRequests = (s.authRequests \ {r}) \cup {q} /\ n.codes = s.codes
  BY UpdateFields
<1> HIDE DEF n
<1>2. CodesOwned(n)
  BY <1>1 DEF RequestsSound, CodesOwned
<1>3. \A x, y \in n.authRequests : x.id = y.id => x = y
  BY <1>1 DEF RequestsSound
<1>4. QED
  BY <1>1, <1>2, <1>3 DEF RequestsSound, n

\* The request CreateAuthRequest stores, and the code record of SaveAuthCode.
NewRequest(t, id, client, hint, scopes) ==
    [id |-> id, client |-> client, subject |-> hint, scopes |-> scopes,
     expires |-> t + AuthTTL, authTime |-> 0, done |-> FALSE, code |-> 0,
     secret |-> 0]

NewCode(r, code) ==
    [code |-> code, requestID |-> r.id, expires |-> r.expires, reserved |-> FALSE]

\* What the two methods change.
LEMMA NewRequestFields ==
    ASSUME NEW s \in StoreType, NEW t \in Nat, NEW id, NEW client, NEW hint,
           NEW scopes
    PROVE  LET n == CreateAuthRequest(s, t, id, client, hint, scopes) IN
           /\ n.authRequests = s.authRequests
                               \cup {NewRequest(t, id, client, hint, scopes)}
           /\ n.codes = s.codes /\ n.access = s.access
           /\ n.refresh = s.refresh /\ n.families = s.families
           /\ n.revoked = s.revoked
BY DEF CreateAuthRequest, NewRequest, scheduleExpiryLocked, StoreType

\* What SaveAuthCode writes, field by field.
LEMMA NewCodeFields ==
    ASSUME NEW s \in StoreType, NEW r, NEW code
    PROVE  LET n == SaveAuthCode(s, r, code) IN
           /\ n.authRequests = (s.authRequests \ {r}) \cup {[r EXCEPT !.code = code]}
           /\ n.codes = s.codes \cup {NewCode(r, code)}
           /\ n.access = s.access
           /\ n.refresh = s.refresh /\ n.families = s.families
           /\ n.revoked = s.revoked
BY DEF SaveAuthCode, NewCode, UpdateRequest, scheduleExpiryLocked, StoreType

\* A new request is open and has a new id.
LEMMA CreateAuthRequestOK ==
    ASSUME NEW s \in StoreType, NEW t \in Nat, NEW k \in SerialType,
           Consistent(s, k), RequestsSound(s, k),
           NEW client \in Clients, NEW hint \in Users \cup {NoID},
           NEW scopes \in SUBSET Scopes, NEW id, id = k.request + 1
    PROVE  LET n == CreateAuthRequest(s, t, id, client, hint, scopes)
               l == [k EXCEPT !.request = id] IN
           /\ n \in StoreType /\ l \in SerialType
           /\ Consistent(n, l) /\ RequestsSound(n, l)
<1> DEFINE e == t + AuthTTL
           q == NewRequest(t, id, client, hint, scopes)
           m == [s EXCEPT !.authRequests = @ \cup {q}]
           n == scheduleExpiryLocked(m, e)
           l == [k EXCEPT !.request = id]
<1>1. k.request \in Nat /\ k.code \in Nat /\ e \in Nat /\ 0 < e
  BY LifetimesAssumption DEF SerialType
<1>2. /\ l \in SerialType /\ l.request = k.request + 1 /\ l.code = k.code
      /\ l.access = k.access /\ l.refresh = k.refresh /\ l.family = k.family
  BY <1>1 DEF SerialType
<1>3. /\ q \in AuthRequest /\ q.id = id /\ q.expires = e
      /\ ~q.done /\ q.code = 0 /\ q.secret = 0
  BY <1>1 DEF AuthRequest, NewRequest
<1>4. CreateAuthRequest(s, t, id, client, hint, scopes) = n
  BY DEF CreateAuthRequest, NewRequest
<1> HIDE DEF q, e, l
<1>5. m \in StoreType
  BY <1>3 DEF StoreType
<1>6. /\ m.authRequests = s.authRequests \cup {q}
      /\ m.codes = s.codes /\ m.access = s.access
      /\ m.refresh = s.refresh /\ m.families = s.families
      /\ m.revoked = s.revoked /\ m.nextExpiry = s.nextExpiry
  BY DEF StoreType
<1> HIDE DEF m
<1>7. /\ n \in StoreType
      /\ n.authRequests = m.authRequests /\ n.codes = m.codes
      /\ n.access = m.access /\ n.refresh = m.refresh
      /\ n.families = m.families /\ n.revoked = m.revoked
      /\ 0 < n.nextExpiry /\ n.nextExpiry <= e
      /\ m.nextExpiry # 0 => n.nextExpiry <= m.nextExpiry
  BY <1>1, <1>5, ScheduleFields
<1> HIDE DEF n
<1>8. ExpiryCovered(n)
  <2>1. Expiries(n) = Expiries(s) \cup {e}
    BY <1>3, <1>6, <1>7 DEF Expiries
  <2>2. s.nextExpiry \in Nat /\ n.nextExpiry \in Nat /\ Expiries(s) \subseteq Nat
    BY <1>7, ExpiriesType DEF StoreType
  <2>3. QED
    BY <1>1, <1>6, <1>7, <2>1, <2>2 DEF Consistent, ExpiryCovered
<1>9. Consistent(n, l)
  <2>1. SubjectsKnown(n) /\ IndexSound(n) /\ OnePair(n) /\ RevokedGone(n)
    BY <1>3, <1>6, <1>7
    DEF Consistent, SubjectsKnown, IndexSound, OnePair, RevokedGone, FamilyIDs
  <2>2. Drawn(n, l)
    BY <1>1, <1>2, <1>3, <1>6, <1>7 DEF Consistent, Drawn
  <2>3. QED
    BY <1>8, <2>1, <2>2 DEF Consistent
<1>10. RequestsSound(n, l)
  <2>1. \A r \in s.authRequests : r.id \in Nat /\ r.id # q.id
    BY <1>1, <1>3 DEF RequestsSound, RequestSound, StoreType, AuthRequest
  <2>2. \A r \in s.authRequests : RequestSound(r, l)
    BY <1>1, <1>2, <2>1 DEF RequestsSound, RequestSound
  <2>3. RequestSound(q, l)
    BY <1>1, <1>2, <1>3 DEF RequestSound
  <2>4. CodesOwned(n)
    BY <1>6, <1>7 DEF RequestsSound, CodesOwned
  <2>5. QED
    BY <1>6, <1>7, <2>1, <2>2, <2>3, <2>4 DEF RequestsSound
<1>11. QED
  BY <1>2, <1>4, <1>7, <1>9, <1>10 DEF l, q

\* A completed request gets its code, under a new number.
LEMMA SaveAuthCodeConsistent ==
    ASSUME NEW s \in StoreType, NEW k \in SerialType,
           Consistent(s, k), RequestsSound(s, k),
           NEW r \in s.authRequests, r.done, r.code = 0, r.secret = 0,
           NEW code, code = k.code + 1
    PROVE  LET n == SaveAuthCode(s, r, code)
               l == [k EXCEPT !.code = code] IN
           /\ n \in StoreType /\ l \in SerialType
           /\ Consistent(n, l) /\ RequestsSound(n, l)
<1> DEFINE q == [r EXCEPT !.code = code]
           c == NewCode(r, code)
           u == UpdateRequest(s, r, q)
           m == [u EXCEPT !.codes = @ \cup {c}]
           n == scheduleExpiryLocked(m, r.expires)
           l == [k EXCEPT !.code = code]
<1>1. k.code \in Nat /\ code \in Nat /\ code = k.code + 1
  BY DEF SerialType
<1>2. /\ l \in SerialType /\ l.request = k.request /\ l.code = code
      /\ l.access = k.access /\ l.refresh = k.refresh /\ l.family = k.family
  BY <1>1 DEF SerialType
<1>3. r \in AuthRequest /\ r.expires \in Nat /\ r.id \in Nat
  BY DEF StoreType, AuthRequest
<1>4. /\ q \in AuthRequest /\ q.id = r.id /\ q.expires = r.expires /\ q.code = code
      /\ q.done /\ q.subject = r.subject /\ q.secret = 0 /\ q.authTime = r.authTime
  BY <1>1, <1>3 DEF AuthRequest
<1>5. c \in CodeRecord /\ c.code = code /\ c.requestID = r.id /\ c.expires = r.expires
  BY <1>1, <1>3 DEF CodeRecord, NewCode
<1>6. SaveAuthCode(s, r, code) = n
  BY DEF SaveAuthCode, NewCode
<1>7. 0 < r.expires
  <2>1. r.expires \in Expiries(s)
    BY DEF Expiries
  <2>2. 0 < s.nextExpiry /\ s.nextExpiry <= r.expires /\ s.nextExpiry \in Nat
    BY <2>1 DEF Consistent, ExpiryCovered, StoreType
  <2>3. QED
    BY <1>3, <2>2
<1> HIDE DEF q, c, l
<1>9. /\ u \in StoreType
      /\ u.authRequests = (s.authRequests \ {r}) \cup {q}
      /\ u.codes = s.codes /\ u.access = s.access
      /\ u.refresh = s.refresh /\ u.families = s.families
      /\ u.revoked = s.revoked /\ u.nextExpiry = s.nextExpiry
  BY <1>4, UpdateFields
<1>10. Consistent(u, k)
  BY <1>3, <1>4, UpdateConsistent DEF Consistent, SubjectsKnown
<1> HIDE DEF u
<1>11. m \in StoreType
  BY <1>5, <1>9 DEF StoreType
<1>12. /\ m.authRequests = u.authRequests /\ m.codes = s.codes \cup {c}
       /\ m.access = u.access
       /\ m.refresh = u.refresh /\ m.families = u.families
       /\ m.revoked = u.revoked /\ m.nextExpiry = u.nextExpiry
  BY <1>9 DEF StoreType
<1> HIDE DEF m
<1>13. /\ n \in StoreType
       /\ n.authRequests = m.authRequests /\ n.codes = m.codes
       /\ n.access = m.access /\ n.refresh = m.refresh
       /\ n.families = m.families /\ n.revoked = m.revoked
       /\ 0 < n.nextExpiry /\ n.nextExpiry <= r.expires
       /\ m.nextExpiry # 0 => n.nextExpiry <= m.nextExpiry
  BY <1>3, <1>7, <1>11, ScheduleFields
<1> HIDE DEF n
<1>14. ExpiryCovered(n)
  <2>1. Expiries(n) = Expiries(u)
    BY <1>4, <1>5, <1>9, <1>12, <1>13 DEF Expiries
  <2>2. n.nextExpiry \in Nat /\ u.nextExpiry \in Nat /\ Expiries(u) \subseteq Nat
    BY <1>9, <1>13, ExpiriesType DEF StoreType
  <2>3. QED
    BY <1>10, <1>12, <1>13, <2>1, <2>2 DEF Consistent, ExpiryCovered
<1>15. Consistent(n, l)
  BY <1>2, <1>10, <1>12, <1>13, <1>14
  DEF Consistent, SubjectsKnown, IndexSound, OnePair, RevokedGone, Drawn, FamilyIDs
<1>16. RequestsSound(n, l)
  <2>1. \A x \in s.authRequests : RequestSound(x, l)
    BY <1>1, <1>2 DEF RequestsSound, RequestSound, StoreType, AuthRequest
  <2>2. RequestSound(q, l)
    BY <1>1, <1>2, <1>4 DEF RequestsSound, RequestSound
  <2>3. \A x \in s.authRequests : x.id = q.id => x = r
    BY <1>4 DEF RequestsSound
\* No older code belongs to the request, which had none.
  <2>4. \A x \in s.codes : x.requestID # r.id
    BY DEF RequestsSound, CodesOwned
  <2>5. CodesOwned(n)
    <3>1. \A x \in s.codes : 0 < x.code /\ \E y \in n.authRequests :
             y.id = x.requestID /\ y.code = x.code /\ y.expires = x.expires
      BY <1>9, <1>12, <1>13, <2>4 DEF RequestsSound, CodesOwned
    <3>2. q \in n.authRequests /\ 0 < c.code
      BY <1>1, <1>5, <1>9, <1>12, <1>13
    <3>3. QED
      BY <1>4, <1>5, <1>12, <1>13, <3>1, <3>2 DEF CodesOwned
  <2>6. \A x, y \in n.authRequests : x.id = y.id => x = y
    BY <1>9, <1>12, <1>13, <2>3 DEF RequestsSound
  <2>7. QED
    BY <1>9, <1>12, <1>13, <2>1, <2>2, <2>5, <2>6 DEF RequestsSound
<1>17. QED
  BY <1>2, <1>6, <1>13, <1>15, <1>16 DEF l, c

----------------------------------------------------------------------------
(* What the sign-in handlers do to a store, as the token handlers see it.  *)

\* A code survives a prune with its request.
LEMMA OwnedKept ==
    ASSUME NEW s \in StoreType, NEW t \in Nat, NEW k \in SerialType,
           RequestsSound(s, k),
           \A r, q \in s.authRequests : r.code # 0 /\ r.code = q.code => r = q,
           NEW id, NEW c, OwnsCode(s, id, c),
           \A r \in s.authRequests : r.id = id => t < r.expires
    PROVE  OwnsCode(pruneLocked(s, t), id, c)
<1> DEFINE m == Sweep(s, t)
           n == pruneLocked(s, t)
<1>1. PICK r \in s.authRequests : r.id = id /\ r.code # 0 /\ r.code = c.code
  BY DEF OwnsCode
<1>2. c \in s.codes /\ c.requestID = id /\ t < r.expires
  BY <1>1 DEF OwnsCode
<1>3. c.expires = r.expires
  BY <1>1, <1>2 DEF RequestsSound, CodesOwned
<1>4. CASE n = s
  BY <1>4
<1>5. CASE n # s
  <2>1. m \in StoreType
    BY SweepType
  <2>2. /\ m.authRequests = {x \in s.authRequests : t < x.expires}
        /\ m.codes = {x \in s.codes : /\ t < x.expires
                        /\ \A q \in s.authRequests : q.expires <= t => q.code # x.code}
    BY DEF Sweep, StoreType
  <2>3. n = [m EXCEPT !.nextExpiry = Earliest(Expiries(m))]
    BY <1>5 DEF pruneLocked
  <2> HIDE DEF m, n
  <2>4. n.authRequests = m.authRequests /\ n.codes = m.codes
    BY <2>1, <2>3 DEF StoreType
  <2>5. \A q \in s.authRequests : q.code = c.code => ~(q.expires <= t)
    BY <1>1, <1>2 DEF StoreType, AuthRequest
  <2>6. c \in n.codes /\ r \in n.authRequests
    BY <1>1, <1>2, <1>3, <2>2, <2>4, <2>5
  <2>7. QED
    BY <1>1, <1>2, <2>6 DEF OwnsCode, n
<1>6. QED
  BY <1>4, <1>5

\* A prune keeps the refresh records of the families it keeps.
LEMMA PruneKeepsRefresh ==
    ASSUME NEW s \in StoreType, NEW t \in Nat, NEW k \in SerialType,
           Consistent(s, k),
           NEW r \in s.refresh, r.family \in FamilyIDs(pruneLocked(s, t))
    PROVE  r \in pruneLocked(s, t).refresh
<1> DEFINE m == Sweep(s, t)
           n == pruneLocked(s, t)
<1>1. n.families = {f \in s.families : t < f.expires}
  BY PruneFields
<1>2. m \in StoreType /\
      m.refresh = {x \in s.refresh :
                /\ x.consumed => \E f \in s.families : f.id = x.family /\ t < f.expires
                /\ \A f \in s.families : f.expires <= t => x.token \notin f.tokens}
  BY SweepType, SweepFields
<1>3. n = [m EXCEPT !.nextExpiry = n.nextExpiry]
  BY PruneTransparent
<1>4. PICK f \in s.families : f.id = r.family /\ t < f.expires
  BY <1>1 DEF FamilyIDs
<1> HIDE DEF m, n
<1>5. n.refresh = m.refresh
  BY <1>2, <1>3 DEF StoreType
<1>6. ASSUME NEW g \in s.families, g.expires <= t PROVE r.token \notin g.tokens
  <2>1. r.token \in g.tokens => g = f
    BY <1>4 DEF Consistent, IndexSound
  <2>2. g # f
    BY <1>4, <1>6 DEF StoreType, RefreshFamily
  <2>3. QED
    BY <2>1, <2>2
<1>7. r \in n.refresh
  BY <1>2, <1>4, <1>5, <1>6
<1>8. QED
  BY <1>7 DEF n

\* The scopes a client may carry for a subject.
Permitted(client, subject, scopes) ==
    /\ scopes \subseteq AllowedScopes[client]
    /\ scopes \ StandardScopes \subseteq Permissions[subject]

\* Narrowing keeps scopes permitted, sign-in grants permitted ones, and so
\* does a service's own request.
LEMMA PermittedScopes ==
    /\ \A client, subject, scopes : \A fewer \in SUBSET scopes :
          Permitted(client, subject, scopes) => Permitted(client, subject, fewer)
    /\ \A client, user, scopes : Permitted(client, user, Granted(client, user, scopes))
    /\ \A client : \A scopes \in SUBSET (AllowedScopes[client] \cap Permissions[client]) :
          Permitted(client, client, scopes)
BY DEF Permitted, Granted

\* A code tells its request.
CodesApart(s) ==
    \A r, q \in s.authRequests : r.code # 0 /\ r.code = q.code => r = q

\* Records end, and of those that a token handler relies on only what is
\* over at t: families with the records that go with them, codes with their
\* requests.
OnlyLapses(s, n, t) ==
    /\ n.access \subseteq s.access
    /\ n.families \subseteq s.families
    /\ n.refresh \subseteq s.refresh
    /\ \A f \in s.families : t < f.expires => f \in n.families
    /\ \A r \in s.refresh : r.family \in FamilyIDs(n) => r \in n.refresh
    /\ \A r \in s.authRequests : r.code # 0 /\ t < r.expires =>
          /\ r \in n.authRequests
          /\ \A c \in s.codes : c.requestID = r.id /\ c.code = r.code => c \in n.codes

\* A request without a code changes: it is completed with scopes of its user,
\* it gets or loses a secret, or it gets the next code.
Signs(r, q, k, l) ==
    /\ r.code = 0
    /\ q.id = r.id /\ q.expires = r.expires
    /\ q.code = 0 \/ (q.code = k.code + 1 /\ l.code = k.code + 1)
    /\ q.done => \/ Permitted(q.client, q.subject, q.scopes)
                 \/ /\ r.done
                    /\ q.client = r.client /\ q.subject = r.subject
                    /\ q.scopes = r.scopes

\* A request that was not there.
Fresh(q, k) == k.request < q.id /\ ~q.done /\ q.code = 0

\* A step of the sign-in handlers from the store s to n, with k and l the
\* identifiers drawn before and after.
SignInChange(s, n, k, l, t) ==
    /\ OnlyLapses(s, n, t)
    /\ l.access = k.access /\ l.refresh = k.refresh /\ l.family = k.family
    /\ k.request <= l.request /\ l.code \in {k.code, k.code + 1}
    /\ \A c \in n.codes : c \in s.codes \/ (c.code = k.code + 1 /\ l.code = k.code + 1)
    /\ \A q \in n.authRequests :
          \/ q \in s.authRequests
          \/ Fresh(q, k)
          \/ \E r \in s.authRequests : Signs(r, q, k, l)
    /\ \A q, r \in n.authRequests : q.code = k.code + 1 /\ r.code = k.code + 1 => q = r

SignInStep == SignInChange(store, store', serial, serial', now) /\ now <= now'

\* Pruning ends what is over.
LEMMA PruneLapses ==
    ASSUME NEW s \in StoreType, NEW k \in SerialType, Consistent(s, k),
           RequestsSound(s, k), CodesApart(s),
           NEW t \in Nat, NEW u \in Nat, t <= u
    PROVE  LET n == pruneLocked(s, t) IN
           /\ OnlyLapses(s, n, u)
           /\ n.codes \subseteq s.codes
           /\ n.authRequests \subseteq s.authRequests
<1> DEFINE n == pruneLocked(s, t)
<1>1. /\ n.authRequests = {r \in s.authRequests : t < r.expires}
      /\ n.codes \subseteq s.codes
      /\ n.access = {a \in s.access : t < a.expires}
      /\ n.families = {f \in s.families : t < f.expires}
      /\ n.refresh \subseteq s.refresh
  BY PruneFields
<1>2. \A r \in s.refresh : r.family \in FamilyIDs(n) => r \in n.refresh
  BY PruneKeepsRefresh
<1>3. \A f \in s.families : u < f.expires => f \in n.families
  BY <1>1 DEF StoreType, RefreshFamily
<1>4. ASSUME NEW r \in s.authRequests, r.code # 0, u < r.expires
      PROVE  /\ r \in n.authRequests
             /\ \A c \in s.codes : c.requestID = r.id /\ c.code = r.code => c \in n.codes
  <2>1. t < r.expires
    BY <1>4 DEF StoreType, AuthRequest
  <2>2. \A x \in s.authRequests : x.id = r.id => t < x.expires
    BY <2>1 DEF RequestsSound
  <2>3. ASSUME NEW c \in s.codes, c.requestID = r.id, c.code = r.code
        PROVE  c \in n.codes
    <3>1. OwnsCode(s, r.id, c)
      BY <1>4, <2>3 DEF OwnsCode
    <3>2. OwnsCode(n, r.id, c)
      BY <2>2, <3>1, OwnedKept DEF CodesApart
    <3>3. QED
      BY <3>2 DEF OwnsCode
  <2> HIDE DEF n
  <2>4. QED
    BY <1>1, <2>1, <2>3
<1> HIDE DEF n
<1>5. OnlyLapses(s, n, u)
  BY <1>1, <1>2, <1>3, <1>4 DEF OnlyLapses
<1>6. QED
  BY <1>1, <1>5 DEF n

\* After records have lapsed, a request is created or one without a code
\* changes, and a code of the next number may be saved.
LEMMA LapseThenSign ==
    ASSUME NEW s \in StoreType, NEW k \in SerialType, RequestsSound(s, k),
           NEW m, NEW n, NEW l, NEW t, NEW q,
           OnlyLapses(s, m, t), m.codes \subseteq s.codes,
           m.authRequests \subseteq s.authRequests,
           n.access = m.access, n.families = m.families, n.refresh = m.refresh,
           m.codes \subseteq n.codes,
           \A c \in n.codes : c \in m.codes \/ (c.code = k.code + 1 /\ l.code = k.code + 1),
           n.authRequests \subseteq m.authRequests \cup {q},
           \A r \in m.authRequests : r.code # 0 => r \in n.authRequests,
           \/ q \in m.authRequests
           \/ Fresh(q, k)
           \/ \E r \in m.authRequests : Signs(r, q, k, l),
           l.access = k.access, l.refresh = k.refresh, l.family = k.family,
           k.request <= l.request, l.code \in {k.code, k.code + 1}
    PROVE  SignInChange(s, n, k, l, t)
<1>1. OnlyLapses(s, n, t)
  BY DEF OnlyLapses, FamilyIDs
<1>2. \A r \in s.authRequests : r.code # k.code + 1
  BY DEF RequestsSound, RequestSound, StoreType, SerialType, AuthRequest
<1>3. \A x \in n.authRequests : x \in s.authRequests \/ x = q
  OBVIOUS
<1>4. \A x, y \in n.authRequests : x.code = k.code + 1 /\ y.code = k.code + 1 => x = y
  BY <1>2, <1>3
<1>5. \A x \in n.authRequests :
          \/ x \in s.authRequests
          \/ Fresh(x, k)
          \/ \E r \in s.authRequests : Signs(r, x, k, l)
  BY <1>3
<1>6. QED
  BY <1>1, <1>4, <1>5 DEF SignInChange

============================================================================
