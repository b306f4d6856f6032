--------------------------- MODULE GrantsOfStore ---------------------------
(***************************************************************************)
(* The refinement mapping from a store to the grants it stands for.  The   *)
(* token index, the consumed records, nextExpiry and the reservation flag  *)
(* have no counterpart.                                                    *)
(***************************************************************************)
EXTENDS Store

\* A family joined with its usable refresh record.
Current(f, r) ==
    [id |-> f.id, client |-> f.client, subject |-> f.subject,
     expires |-> f.expires, token |-> r.token, scopes |-> r.scopes,
     access |-> r.accessID]

FamiliesOf(s) ==
    {Current(p[1], p[2]) : p \in
        {q \in s.families \X s.refresh : q[2].family = q[1].id /\ ~q[2].consumed}}

AccessOf(s) ==
    {[id |-> a.id, client |-> a.client, subject |-> a.subject,
      scopes |-> a.scopes, expires |-> a.expires] : a \in s.access}

RedeemableOf(s) ==
    {c.code : c \in {x \in s.codes : ~x.reserved /\ OwnsCode(s, x.requestID, x)}}

DrawnOf(k) ==
    [code |-> k.code, access |-> k.access, refresh |-> k.refresh, family |-> k.family]

Abstract == INSTANCE TokenGrants WITH
    families <- FamiliesOf(store),
    access <- AccessOf(store),
    redeemable <- RedeemableOf(store),
    drawn <- DrawnOf(serial)

\* The store, with its handlers in flight, implements the grants: a code
\* opens one family or token, only the current token of a family is ever
\* exchanged, the exchange ends the access token issued with it and widens
\* nothing, and a family that is revoked takes its access token with it.
ImplementsGrants == Abstract!Spec

============================================================================
