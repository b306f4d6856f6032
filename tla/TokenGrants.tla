---------------------------- MODULE TokenGrants ----------------------------
(***************************************************************************)
(* What a realm promises about grants, without its maps, indexes, caches   *)
(* and calls in flight: codes that can be redeemed, refresh families with  *)
(* one current token and its access token, and access tokens.  Records end *)
(* at any step (expiry, revocation, logout); none comes back, because      *)
(* every new one takes the next number.                                    *)
(***************************************************************************)
EXTENDS Integers

VARIABLES
    families,    \* [id, client, subject, expires, token, scopes, access]
    access,      \* [id, client, subject, scopes, expires]
    redeemable,  \* the codes that can still be exchanged
    drawn,       \* the last number used for each kind of record
    now

grantVars == <<families, access, redeemable, drawn, now>>

Init ==
    /\ families = {}
    /\ access = {}
    /\ drawn.family = 0 /\ drawn.refresh = 0 /\ drawn.access = 0
    /\ redeemable \subseteq 1 .. drawn.code
    /\ now \in Nat

\* A family ends before its deadline only together with its access token.
EndsWhole ==
    \A f \in families :
        \/ \E g \in families' : g.id = f.id
        \/ f.expires <= now
        \/ \A a \in access' : a.id # f.access

\* The next access token, with no more than the scopes it may carry.
NextAccess(a, scopes) ==
    /\ a.id = drawn.access + 1
    /\ a.scopes \subseteq scopes
    /\ access' \ {a} \subseteq access

Lapse == redeemable' \subseteq redeemable
Redeem == Lapse /\ redeemable' # redeemable

Retire ==
    /\ families' \subseteq families
    /\ access' \subseteq access
    /\ Lapse
    /\ UNCHANGED drawn

Issue ==
    /\ families' \subseteq families
    /\ access' \subseteq access
    /\ drawn' = [drawn EXCEPT !.code = @ + 1]
    /\ redeemable' \ {drawn'.code} \subseteq redeemable

\* A code is exchanged for an access token alone.
GrantAccess ==
    /\ Redeem
    /\ families' \subseteq families
    /\ \E a \in access' : NextAccess(a, a.scopes)
    /\ drawn' = [drawn EXCEPT !.access = @ + 1]

\* A code is exchanged for the first pair of a new family.
OpenFamily ==
    /\ Redeem
    /\ \E f \in families', a \in access' :
        /\ f = [id |-> drawn.family + 1, client |-> a.client,
                subject |-> a.subject, expires |-> f.expires,
                token |-> drawn.refresh + 1, scopes |-> a.scopes,
                access |-> a.id]
        /\ NextAccess(a, a.scopes)
        /\ families' \ {f} \subseteq families
    /\ drawn' = [drawn EXCEPT !.access = @ + 1, !.refresh = @ + 1, !.family = @ + 1]

\* The current token of a family is exchanged for its next pair, and its
\* access token ends with it.
Rotate ==
    /\ Lapse
    /\ \E old \in families, f \in families', a \in access' :
        /\ f = [old EXCEPT !.token = drawn.refresh + 1, !.access = a.id,
                           !.scopes = a.scopes]
        /\ NextAccess(a, old.scopes)
        /\ a.client = old.client /\ a.subject = old.subject
        /\ families' \ {f} \subseteq families \ {old}
        /\ \A x \in access' : x.id # old.access
    /\ drawn' = [drawn EXCEPT !.access = @ + 1, !.refresh = @ + 1]

\* A service gets a token for itself.
GrantService ==
    /\ Lapse
    /\ families' \subseteq families
    /\ \E a \in access' : NextAccess(a, a.scopes) /\ a.subject = a.client
    /\ drawn' = [drawn EXCEPT !.access = @ + 1]

Step == Retire \/ Issue \/ GrantAccess \/ OpenFamily \/ Rotate \/ GrantService

Next == Step /\ EndsWhole /\ now <= now'

Spec == Init /\ [][Next]_grantVars

============================================================================
