------------------------------- MODULE Realm -------------------------------
(***************************************************************************)
(* One realm: the sign-in handlers (LoginFlow) and the token handlers      *)
(* (TokenEndpoint) over one store, one clock and one set of hash slots, as *)
(* NewServer mounts them.  Codes come out of sign-ins instead of being     *)
(* given, and the handlers of the two sides interleave.                    *)
(***************************************************************************)
EXTENDS GrantsOfStore

CONSTANTS
    Browsers,
    LoginThreads,  \* requests in the sign-in handlers at the same time
    TokenThreads,  \* requests in the token handlers at the same time
    SelectMode, Requested, Hints,
    MaxRequests, MaxPosts, MaxCalls, MaxLogouts

\* What the two sides assume of the realm they share.
ASSUME RealmAssumption ==
    /\ SelectMode \in BOOLEAN
    /\ Requested \subseteq SUBSET Scopes
    /\ Hints \subseteq Users \cup {NoID}
    /\ MaxRequests \in Nat
    /\ MaxPosts \in Nat
    /\ MaxCalls \in Nat
    /\ MaxLogouts \in Nat
    /\ IsFiniteSet(TokenThreads)

VARIABLES
    loginCalls, begun, csrf, jar, signers, delivered,
    tokenCalls, started, audienceTaken, responses, redeemed, logouts

Login == INSTANCE LoginFlow WITH Threads <- LoginThreads, calls <- loginCalls
Tokens == INSTANCE TokenEndpoint WITH
    Threads <- TokenThreads, calls <- tokenCalls, Sessions <- 0, Grants <- {}

sharedVars == <<store, now, slots, serial>>
loginVars == <<loginCalls, begun, csrf, jar, signers, delivered>>
tokenVars == <<tokenCalls, started, audienceTaken, responses, redeemed, logouts>>
vars == <<sharedVars, loginVars, tokenVars>>

Init == Login!Init /\ Tokens!Init

Next ==
    \/ Login!Next /\ UNCHANGED tokenVars
    \/ Tokens!Next /\ UNCHANGED loginVars

Spec == Init /\ [][Next]_vars

----------------------------------------------------------------------------
(* Properties. *)

\* From the form to the token: what an exchange created belongs to the user
\* who signed in to that very request, and its code was sent to the browser
\* of that sign-in and to no other.
TokenOfSigner ==
    \A p \in redeemed : \E signer \in signers :
        /\ signer.request = p[1]
        /\ \A a \in store.access : a.id = p[2] => a.subject = signer.user
        /\ {d.browser : d \in {x \in delivered : x.request = p[1]}} = {signer.browser}

\* What sign-in grants and rotation narrows: a token carries no scope outside
\* the client's allow-list and no custom scope the user has no permission for.
TokenScopesAllowed == Tokens!TokenScopesAllowed

============================================================================
