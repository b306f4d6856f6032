---------------------------- MODULE SharedSlots ----------------------------
(***************************************************************************)
(* Two realms of one process.  Each has its own store and its own sign-in  *)
(* handlers; credentialHashSlots is a package variable, so the password    *)
(* checks of both draw on the same slots and a busy realm can make the     *)
(* other refuse.  slots and now are shared, everything else is per realm.  *)
(***************************************************************************)
EXTENDS Integers, FiniteSets

CONSTANTS
    SPAClients, ServiceClients, Users, AppScopes, AllowedScopes, Permissions,
    AuthTTL, AccessTTL, RefreshTTL, maxPendingAuthRequests, HashSlots, MaxTime,
    Browsers, ThreadsA, ThreadsB, SelectMode, Requested, Hints, MaxRequests,
    MaxPosts

VARIABLES
    now, slots,
    storeA, serialA, callsA, begunA, csrfA, jarA, signersA, deliveredA,
    storeB, serialB, callsB, begunB, csrfB, jarB, signersB, deliveredB

RealmA == INSTANCE LoginFlow WITH
    Threads <- ThreadsA, store <- storeA, serial <- serialA, calls <- callsA,
    begun <- begunA, csrf <- csrfA, jar <- jarA, signers <- signersA,
    delivered <- deliveredA
RealmB == INSTANCE LoginFlow WITH
    Threads <- ThreadsB, store <- storeB, serial <- serialB, calls <- callsB,
    begun <- begunB, csrf <- csrfB, jar <- jarB, signers <- signersB,
    delivered <- deliveredB

varsA == <<storeA, serialA, callsA, begunA, csrfA, jarA, signersA, deliveredA>>
varsB == <<storeB, serialB, callsB, begunB, csrfB, jarB, signersB, deliveredB>>
vars == <<now, slots, varsA, varsB>>

Init == RealmA!Init /\ RealmB!Init

Next ==
    \/ RealmA!Next /\ UNCHANGED varsB
    \/ RealmB!Next /\ UNCHANGED varsA

Spec == Init /\ [][Next]_vars

\* A handler that began keeps running, in both realms.
Fairness ==
    /\ \A th \in ThreadsA : WF_vars(RealmA!Finish(th) /\ UNCHANGED varsB)
    /\ \A th \in ThreadsB : WF_vars(RealmB!Finish(th) /\ UNCHANGED varsA)
FairSpec == Spec /\ Fairness

----------------------------------------------------------------------------
(* Properties. *)

HashingA == {th \in ThreadsA : RealmA!At(th, "hashing")}
HashingB == {th \in ThreadsB : RealmB!At(th, "hashing")}

\* The slots in use are the password checks of both realms, however their
\* steps interleave: no realm leaks a slot and none frees the other's.
SlotsCountBothRealms == slots = Cardinality(HashingA) + Cardinality(HashingB)

\* Every login is answered, though each competes with the other realm's: a
\* full set of slots refuses a login and never makes it wait.
CallsReturn == RealmA!CallsReturn /\ RealmB!CallsReturn

============================================================================
