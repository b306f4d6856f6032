------------------------ MODULE ConfigurationProofs ------------------------
(***************************************************************************)
(* What an accepted configuration promises, for any catalogues of entries: *)
(* Validate checks each entry against what it has read before, and the     *)
(* invariants say that no two entries of a realm that was read in this way *)
(* clash, whichever came first, and that each of them keeps the rules.     *)
(***************************************************************************)
EXTENDS Configuration, SequenceTheorems, TLAPS

Names == UNION {Catalogues[name].realmNames : name \in DOMAIN Catalogues}
Users == UNION {Catalogues[name].users : name \in DOMAIN Catalogues}
Clients == UNION {Catalogues[name].clients : name \in DOMAIN Catalogues}
Realms == [name : Names, users : Seq(Users), clients : Seq(Clients)]

Policy(realm) == {canonicalRedirectOrigin(u) : u \in Redirects(realm)}

ReadTypes ==
    /\ catalogue \in DOMAIN Catalogues
    /\ given \in Seq(Realms)

\* No two entries of a realm can be taken for each other.
Distinct(realm) ==
    /\ \A i, j \in DOMAIN realm.users : i # j =>
          /\ realm.users[i].id # realm.users[j].id
          /\ CanonicalUsername(realm.users[i].username)
               # CanonicalUsername(realm.users[j].username)
    /\ \A i, j \in DOMAIN realm.clients :
          i # j => realm.clients[i].id # realm.clients[j].id
    /\ \A i \in DOMAIN realm.users, j \in DOMAIN realm.clients :
          realm.users[i].id # realm.clients[j].id

\* These keys and folded names are all that the realm has.
Covered(realm, keys, names) ==
    /\ \A i \in DOMAIN realm.users :
          /\ realm.users[i].id \in keys
          /\ CanonicalUsername(realm.users[i].username) \in names
    /\ \A i \in DOMAIN realm.clients : realm.clients[i].id \in keys

\* Until an entry is rejected, the realms read hold no clash, and the maps
\* have the keys of the one in progress: the check of the next entry sees them.
KeysInv ==
    verdict # "rejected" =>
        /\ \A i \in DOMAIN given : Distinct(given[i])
        /\ given # <<>> => Covered(given[Len(given)], ids, usernames)

\* Each client that was read keeps the rules of its type.
RulesInv ==
    /\ verdict \notin {"unread", "rejected"} => ValidSettings(settings)
    /\ verdict # "rejected" => \A i \in DOMAIN given : \A k \in DOMAIN given[i].clients :
          LET client == given[i].clients[k]
          IN  \/ client.type = "spa" /\ ValidSPA(client)
              \/ client.type = "service" /\ ValidService(client)

\* Sources are those of the realms in their order, and one that failed to
\* be made stops the server.
SourcesInv ==
    /\ Len(sources) <= Len(given)
    /\ sources = [i \in 1 .. Len(sources) |-> Policy(given[i])]
    /\ Len(sources) \in Nat
    /\ sources # <<>> => verdict \in {"accepted", "failed"}
    /\ verdict # "failed" => \A i \in DOMAIN sources : NoSource \notin sources[i]

----------------------------------------------------------------------------
(* Reading an entry. *)

\* One more element at the end of a sequence.
LEMMA AppendOne ==
    ASSUME NEW S, NEW s \in Seq(S), NEW x \in S
    PROVE  /\ Append(s, x) \in Seq(S) /\ Append(s, x) # <<>>
           /\ DOMAIN s = 1 .. Len(s) /\ DOMAIN Append(s, x) = 1 .. Len(s) + 1
           /\ Len(s) \in Nat /\ Len(Append(s, x)) = Len(s) + 1
           /\ Append(s, x)[Len(s) + 1] = x
           /\ \A i \in 1 .. Len(s) : Append(s, x)[i] = s[i] /\ s[i] \in S
BY AppendProperties, LenProperties, ElementOfSeq

\* A sequence is the function of its elements.
LEMMA SequenceIsFunction ==
    ASSUME NEW S, NEW s \in Seq(S) PROVE s = [i \in 1 .. Len(s) |-> s[i]]
<1>1. PICK n \in Nat : s \in [1 .. n -> S]
  BY SeqDef
<1>2. QED
  BY <1>1, LenProperties

\* The last element of a sequence is replaced.
LEMMA ReplaceLast ==
    ASSUME NEW S, NEW s \in Seq(S), s # <<>>, NEW x \in S,
           NEW t, t = [s EXCEPT ![Len(s)] = x]
    PROVE  /\ t \in Seq(S) /\ t # <<>> /\ Len(t) = Len(s)
           /\ Len(s) \in Nat \ {0} /\ DOMAIN s = 1 .. Len(s)
           /\ DOMAIN t = 1 .. Len(s) /\ t[Len(s)] = x /\ s[Len(s)] \in S
           /\ \A i \in 1 .. Len(s) : i # Len(s) => t[i] = s[i]
<1>1. /\ Len(s) \in Nat \ {0} /\ DOMAIN s = 1 .. Len(s) /\ s[Len(s)] \in S
  BY EmptySeq, LenProperties, ElementOfSeq
<1>2. t \in Seq(S) /\ Len(t) = Len(s)
  BY <1>1, ExceptSeq
<1>3. DOMAIN t = 1 .. Len(s) /\ t[Len(s)] = x
  BY <1>1
<1>4. \A i \in 1 .. Len(s) : i # Len(s) => t[i] = s[i]
  BY <1>1
<1>5. t # <<>>
  BY <1>1, <1>2, EmptySeq
<1>6. QED
  BY <1>1, <1>2, <1>3, <1>4, <1>5

\* A realm has one more user.
LEMMA MoreUsers ==
    ASSUME NEW realm \in Realms, NEW user \in Users
    PROVE  LET more == [realm EXCEPT !.users = Append(@, user)]
               n == Len(realm.users)
           IN  /\ more \in Realms /\ more.clients = realm.clients
               /\ n \in Nat /\ DOMAIN realm.users = 1 .. n
               /\ DOMAIN more.users = 1 .. n + 1 /\ more.users[n + 1] = user
               /\ \A i \in 1 .. n : more.users[i] = realm.users[i]
<1>1. realm.users \in Seq(Users)
  BY DEF Realms
<1>2. /\ Append(realm.users, user) \in Seq(Users)
      /\ DOMAIN realm.users = 1 .. Len(realm.users)
      /\ DOMAIN Append(realm.users, user) = 1 .. Len(realm.users) + 1
      /\ Len(realm.users) \in Nat
      /\ Append(realm.users, user)[Len(realm.users) + 1] = user
      /\ \A i \in 1 .. Len(realm.users) : Append(realm.users, user)[i] = realm.users[i]
  BY <1>1, AppendOne
<1>3. QED
  BY <1>2 DEF Realms

\* A realm has one more client.
LEMMA MoreClients ==
    ASSUME NEW realm \in Realms, NEW client \in Clients
    PROVE  LET more == [realm EXCEPT !.clients = Append(@, client)]
               n == Len(realm.clients)
           IN  /\ more \in Realms /\ more.users = realm.users
               /\ n \in Nat /\ DOMAIN realm.clients = 1 .. n
               /\ DOMAIN more.clients = 1 .. n + 1 /\ more.clients[n + 1] = client
               /\ \A i \in 1 .. n : more.clients[i] = realm.clients[i]
<1>1. realm.clients \in Seq(Clients)
  BY DEF Realms
<1>2. /\ Append(realm.clients, client) \in Seq(Clients)
      /\ DOMAIN realm.clients = 1 .. Len(realm.clients)
      /\ DOMAIN Append(realm.clients, client) = 1 .. Len(realm.clients) + 1
      /\ Len(realm.clients) \in Nat
      /\ Append(realm.clients, client)[Len(realm.clients) + 1] = client
      /\ \A i \in 1 .. Len(realm.clients) :
            Append(realm.clients, client)[i] = realm.clients[i]
  BY <1>1, AppendOne
<1>3. QED
  BY <1>2 DEF Realms

\* What ReadRealm puts after the realms that were read.
LEMMA RealmRead ==
    ASSUME ReadTypes, ReadRealm
    PROVE  \E realm \in Realms :
              /\ given' = Append(given, realm) /\ given' \in Seq(Realms)
              /\ realm.users = <<>> /\ realm.clients = <<>>
<1>1. PICK name \in Catalogue.realmNames :
        given' = Append(given, [name |-> name, users |-> <<>>, clients |-> <<>>])
  BY Zenon DEF ReadRealm
<1>2. name \in Names
  BY <1>1 DEF Catalogue, Names, ReadTypes
<1>3. [name |-> name, users |-> <<>>, clients |-> <<>>] \in Realms
  BY <1>2, EmptySeq DEF Realms
<1>4. QED
  BY <1>1, <1>3, AppendProperties DEF ReadTypes

\* What ReadUser makes of the realm in progress.
LEMMA UserRead ==
    ASSUME ReadTypes, ReadUser
    PROVE  /\ given # <<>>
           /\ \E user \in Users :
              /\ given' = [given EXCEPT ![Len(given)] =
                             [given[Len(given)] EXCEPT !.users = Append(@, user)]]
              /\ given' \in Seq(Realms) /\ given[Len(given)] \in Realms
              /\ ids' = ids \cup {user.id}
              /\ usernames' = usernames \cup {CanonicalUsername(user.username)}
              /\ verdict' = IF ValidUser(user) THEN "reading" ELSE "rejected"
<1>1. PICK user \in Catalogue.users :
        /\ given' = [given EXCEPT ![Len(given)].users = Append(@, user)]
        /\ ids' = ids \cup {user.id}
        /\ usernames' = usernames \cup {CanonicalUsername(user.username)}
        /\ Judge(ValidUser(user))
  BY Zenon DEF ReadUser
<1>2. user \in Users /\ given \in Seq(Realms) /\ given # <<>>
  BY <1>1 DEF ReadTypes, Catalogue, Users, ReadUser
<1>3. given[Len(given)] \in Realms
  BY <1>2, EmptySeq, LenProperties, ElementOfSeq
<1>4. [given[Len(given)] EXCEPT !.users = Append(@, user)] \in Realms
  BY <1>2, <1>3, MoreUsers
<1>5. given' = [given EXCEPT ![Len(given)] =
                  [given[Len(given)] EXCEPT !.users = Append(@, user)]]
  BY <1>1
<1>6. given' \in Seq(Realms)
  BY <1>2, <1>4, <1>5, ReplaceLast
<1>7. QED
  BY <1>1, <1>2, <1>3, <1>5, <1>6 DEF Judge

\* What ReadClient makes of the realm in progress.
LEMMA ClientRead ==
    ASSUME ReadTypes, ReadClient
    PROVE  /\ given # <<>>
           /\ \E client \in Clients :
              /\ given' = [given EXCEPT ![Len(given)] =
                             [given[Len(given)] EXCEPT !.clients = Append(@, client)]]
              /\ given' \in Seq(Realms) /\ given[Len(given)] \in Realms
              /\ ids' = ids \cup {client.id} /\ usernames' = usernames
              /\ verdict' = IF ValidClient(client) THEN "reading" ELSE "rejected"
<1>1. PICK client \in Catalogue.clients :
        /\ given' = [given EXCEPT ![Len(given)].clients = Append(@, client)]
        /\ ids' = ids \cup {client.id}
        /\ Judge(ValidClient(client))
  BY Zenon DEF ReadClient
<1>2. client \in Clients /\ given \in Seq(Realms) /\ given # <<>> /\ usernames' = usernames
  BY <1>1 DEF ReadTypes, Catalogue, Clients, ReadClient
<1>3. given[Len(given)] \in Realms
  BY <1>2, EmptySeq, LenProperties, ElementOfSeq
<1>4. [given[Len(given)] EXCEPT !.clients = Append(@, client)] \in Realms
  BY <1>2, <1>3, MoreClients
<1>5. given' = [given EXCEPT ![Len(given)] =
                  [given[Len(given)] EXCEPT !.clients = Append(@, client)]]
  BY <1>1
<1>6. given' \in Seq(Realms)
  BY <1>2, <1>4, <1>5, ReplaceLast
<1>7. QED
  BY <1>1, <1>2, <1>3, <1>5, <1>6 DEF Judge

----------------------------------------------------------------------------
(* The invariants. *)

\* What is read stays typed.
LEMMA TypesStep == ReadTypes /\ [Next]_vars => ReadTypes'
<1> SUFFICES ASSUME ReadTypes, [Next]_vars PROVE ReadTypes'
  OBVIOUS
<1>1. catalogue' = catalogue
  BY DEF Next, vars, ReadSettings, ReadRealm, ReadUser, ReadClient, Finish,
     configuredRedirectOrigins
<1>2. given' \in Seq(Realms)
  <2>1. CASE ReadRealm
    BY <2>1, RealmRead
  <2>2. CASE ReadUser
    BY <2>2, UserRead
  <2>3. CASE ReadClient
    BY <2>3, ClientRead
  <2>4. CASE UNCHANGED given
    BY <2>4 DEF ReadTypes
  <2>5. QED
    BY <2>1, <2>2, <2>3, <2>4 DEF Next, vars, ReadSettings, Finish,
       configuredRedirectOrigins
<1>3. QED
  BY <1>1, <1>2 DEF ReadTypes

\* A user whose id and folded name are new to the maps clashes with none.
LEMMA NewUserDistinct ==
    ASSUME NEW realm \in Realms, NEW user \in Users, NEW keys, NEW names,
           Distinct(realm), Covered(realm, keys, names), user.id \notin keys,
           CanonicalUsername(user.username) \notin names
    PROVE  LET more == [realm EXCEPT !.users = Append(@, user)]
           IN  /\ Distinct(more)
               /\ Covered(more, keys \cup {user.id},
                          names \cup {CanonicalUsername(user.username)})
<1> DEFINE more == [realm EXCEPT !.users = Append(@, user)]
           n == Len(realm.users)
<1>1. /\ more.clients = realm.clients /\ n \in Nat /\ DOMAIN realm.users = 1 .. n
      /\ DOMAIN more.users = 1 .. n + 1 /\ more.users[n + 1] = user
      /\ \A i \in 1 .. n : more.users[i] = realm.users[i]
  BY MoreUsers
<1> HIDE DEF more, n
<1>2. \A i \in 1 .. n : /\ realm.users[i].id \in keys
                        /\ CanonicalUsername(realm.users[i].username) \in names
  BY <1>1 DEF Covered
<1>3. \A i, j \in DOMAIN more.users : i # j =>
          /\ more.users[i].id # more.users[j].id
          /\ CanonicalUsername(more.users[i].username)
               # CanonicalUsername(more.users[j].username)
  <2> SUFFICES ASSUME NEW i \in 1 .. n + 1, NEW j \in 1 .. n + 1, i # j
               PROVE  /\ more.users[i].id # more.users[j].id
                      /\ CanonicalUsername(more.users[i].username)
                           # CanonicalUsername(more.users[j].username)
    BY <1>1
  <2>1. CASE i \in 1 .. n /\ j \in 1 .. n
    BY <1>1, <2>1 DEF Distinct
  <2>2. CASE i = n + 1 /\ j \in 1 .. n
    BY <1>1, <1>2, <2>2
  <2>3. CASE i \in 1 .. n /\ j = n + 1
    BY <1>1, <1>2, <2>3
  <2>4. QED
    BY <1>1, <2>1, <2>2, <2>3
<1>4. \A i, j \in DOMAIN more.clients :
          i # j => more.clients[i].id # more.clients[j].id
  BY <1>1 DEF Distinct
<1>5. \A i \in DOMAIN more.users, j \in DOMAIN more.clients :
          more.users[i].id # more.clients[j].id
  <2> SUFFICES ASSUME NEW i \in 1 .. n + 1, NEW j \in DOMAIN realm.clients
               PROVE  more.users[i].id # realm.clients[j].id
    BY <1>1
  <2>1. CASE i \in 1 .. n
    BY <1>1, <2>1 DEF Distinct
  <2>2. CASE i = n + 1
    BY <1>1, <2>2 DEF Covered
  <2>3. QED
    BY <1>1, <2>1, <2>2
<1>6. Distinct(more)
  BY <1>3, <1>4, <1>5 DEF Distinct
<1>7. Covered(more, keys \cup {user.id}, names \cup {CanonicalUsername(user.username)})
  <2>1. \A i \in 1 .. n + 1 :
          /\ more.users[i].id \in keys \cup {user.id}
          /\ CanonicalUsername(more.users[i].username)
                \in names \cup {CanonicalUsername(user.username)}
    BY <1>1, <1>2
  <2>2. QED
    BY <1>1, <2>1 DEF Covered
<1>8. QED
  BY <1>6, <1>7 DEF more

\* Nor does a client whose id is.
LEMMA NewClientDistinct ==
    ASSUME NEW realm \in Realms, NEW client \in Clients, NEW keys, NEW names,
           Distinct(realm), Covered(realm, keys, names), client.id \notin keys
    PROVE  LET more == [realm EXCEPT !.clients = Append(@, client)]
           IN  Distinct(more) /\ Covered(more, keys \cup {client.id}, names)
<1> DEFINE more == [realm EXCEPT !.clients = Append(@, client)]
           n == Len(realm.clients)
<1>1. /\ more.users = realm.users /\ n \in Nat /\ DOMAIN realm.clients = 1 .. n
      /\ DOMAIN more.clients = 1 .. n + 1 /\ more.clients[n + 1] = client
      /\ \A i \in 1 .. n : more.clients[i] = realm.clients[i]
  BY MoreClients
<1> HIDE DEF more, n
<1>2. \A i \in 1 .. n : realm.clients[i].id \in keys
  BY <1>1 DEF Covered
<1>3. \A i, j \in DOMAIN more.clients :
          i # j => more.clients[i].id # more.clients[j].id
  <2> SUFFICES ASSUME NEW i \in 1 .. n + 1, NEW j \in 1 .. n + 1, i # j
               PROVE  more.clients[i].id # more.clients[j].id
    BY <1>1
  <2>1. CASE i \in 1 .. n /\ j \in 1 .. n
    BY <1>1, <2>1 DEF Distinct
  <2>2. CASE i = n + 1 /\ j \in 1 .. n
    BY <1>1, <1>2, <2>2
  <2>3. CASE i \in 1 .. n /\ j = n + 1
    BY <1>1, <1>2, <2>3
  <2>4. QED
    BY <1>1, <2>1, <2>2, <2>3
<1>4. \A i \in DOMAIN more.users, j \in DOMAIN more.clients :
          more.users[i].id # more.clients[j].id
  <2> SUFFICES ASSUME NEW i \in DOMAIN realm.users, NEW j \in 1 .. n + 1
               PROVE  realm.users[i].id # more.clients[j].id
    BY <1>1
  <2>1. CASE j \in 1 .. n
    BY <1>1, <2>1 DEF Distinct
  <2>2. CASE j = n + 1
    BY <1>1, <2>2 DEF Covered
  <2>3. QED
    BY <1>1, <2>1, <2>2
<1>5. Distinct(more)
  BY <1>1, <1>3, <1>4 DEF Distinct
<1>6. Covered(more, keys \cup {client.id}, names)
  BY <1>1, <1>2 DEF Covered
<1>7. QED
  BY <1>5, <1>6 DEF more

\* Whatever is read next, the realms read hold no clash.
LEMMA KeysStep == ReadTypes /\ KeysInv /\ [Next]_vars => KeysInv'
<1> SUFFICES ASSUME ReadTypes, KeysInv, [Next]_vars, verdict' # "rejected"
             PROVE  /\ \A i \in DOMAIN given' : Distinct(given'[i])
                    /\ given' # <<>> => Covered(given'[Len(given')], ids', usernames')
  BY DEF KeysInv
<1>1. CASE ReadRealm
  <2>1. PICK realm \in Realms :
          /\ given' = Append(given, realm) /\ realm.users = <<>> /\ realm.clients = <<>>
    BY <1>1, RealmRead
  <2>2. verdict # "rejected"
    BY <1>1 DEF ReadRealm
  <2>3. \A i \in DOMAIN given : Distinct(given[i])
    BY <2>2 DEF KeysInv
  <2>4. /\ DOMAIN given = 1 .. Len(given) /\ DOMAIN given' = 1 .. Len(given) + 1
        /\ Len(given) \in Nat /\ Len(given') = Len(given) + 1
        /\ given'[Len(given) + 1] = realm
        /\ \A i \in 1 .. Len(given) : given'[i] = given[i]
    BY <2>1, AppendOne DEF ReadTypes
  <2>5. DOMAIN realm.users = {} /\ DOMAIN realm.clients = {}
    BY <2>1, EmptySeq
  <2>6. Distinct(realm) /\ Covered(realm, ids', usernames')
    BY <2>5 DEF Distinct, Covered
  <2>7. QED
    BY <2>3, <2>4, <2>6
<1>2. CASE ReadUser
  <2> DEFINE last == given[Len(given)]
  <2>1. PICK user \in Users :
          /\ given' = [given EXCEPT ![Len(given)] = [last EXCEPT !.users = Append(@, user)]]
          /\ last \in Realms /\ given # <<>>
          /\ ids' = ids \cup {user.id}
          /\ usernames' = usernames \cup {CanonicalUsername(user.username)}
          /\ verdict' = IF ValidUser(user) THEN "reading" ELSE "rejected"
    BY <1>2, UserRead
  <2>2. ValidUser(user)
    BY <2>1
  <2>3. user.id \notin ids /\ CanonicalUsername(user.username) \notin usernames
    BY <2>2, Zenon DEF ValidUser, requireID, newUsername
  <2>4. verdict # "rejected"
    BY <1>2 DEF ReadUser
  <2>5. (\A i \in DOMAIN given : Distinct(given[i])) /\ Covered(last, ids, usernames)
    BY <2>1, <2>4 DEF KeysInv
  <2> DEFINE more == [last EXCEPT !.users = Append(@, user)]
  <2>6. /\ more \in Realms
        /\ Len(given') = Len(given) /\ DOMAIN given = 1 .. Len(given)
        /\ Len(given) \in 1 .. Len(given)
        /\ DOMAIN given' = 1 .. Len(given) /\ given'[Len(given)] = more
        /\ \A i \in 1 .. Len(given) : i # Len(given) => given'[i] = given[i]
    <3>1. more \in Realms
      BY <2>1, MoreUsers
    <3>2. given' = [given EXCEPT ![Len(given)] = more] /\ given \in Seq(Realms)
      BY <2>1 DEF ReadTypes
    <3> HIDE DEF more
    <3>3. QED
      BY <2>1, <3>1, <3>2, ReplaceLast
  <2>7. Distinct(more) /\ Covered(more, ids', usernames')
    BY <2>1, <2>3, <2>5, <2>6, NewUserDistinct
  <2> HIDE DEF more
  <2>8. QED
    BY <2>5, <2>6, <2>7
<1>3. CASE ReadClient
  <2> DEFINE last == given[Len(given)]
  <2>1. PICK client \in Clients :
          /\ given' = [given EXCEPT ![Len(given)] =
                          [last EXCEPT !.clients = Append(@, client)]]
          /\ last \in Realms /\ given # <<>>
          /\ ids' = ids \cup {client.id} /\ usernames' = usernames
          /\ verdict' = IF ValidClient(client) THEN "reading" ELSE "rejected"
    BY <1>3, ClientRead
  <2>2. ValidClient(client)
    BY <2>1
  <2>3. client.id \notin ids
    BY <2>2, Zenon DEF ValidClient, requireID
  <2>4. verdict # "rejected"
    BY <1>3 DEF ReadClient
  <2>5. (\A i \in DOMAIN given : Distinct(given[i])) /\ Covered(last, ids, usernames)
    BY <2>1, <2>4 DEF KeysInv
  <2> DEFINE more == [last EXCEPT !.clients = Append(@, client)]
  <2>6. /\ more \in Realms
        /\ Len(given') = Len(given) /\ DOMAIN given = 1 .. Len(given)
        /\ Len(given) \in 1 .. Len(given)
        /\ DOMAIN given' = 1 .. Len(given) /\ given'[Len(given)] = more
        /\ \A i \in 1 .. Len(given) : i # Len(given) => given'[i] = given[i]
    <3>1. more \in Realms
      BY <2>1, MoreClients
    <3>2. given' = [given EXCEPT ![Len(given)] = more] /\ given \in Seq(Realms)
      BY <2>1 DEF ReadTypes
    <3> HIDE DEF more
    <3>3. QED
      BY <2>1, <3>1, <3>2, ReplaceLast
  <2>7. Distinct(more) /\ Covered(more, ids', usernames')
    BY <2>1, <2>3, <2>5, <2>6, NewClientDistinct
  <2> HIDE DEF more
  <2>8. QED
    BY <2>5, <2>6, <2>7
<1>4. CASE UNCHANGED <<given, ids, usernames>> /\ verdict # "rejected"
  BY <1>4 DEF KeysInv
<1>5. QED
  BY <1>1, <1>2, <1>3, <1>4 DEF Next, vars, ReadSettings, Finish,
     configuredRedirectOrigins

\* A client was accepted by the rules of its type.
LEMMA RulesStep == ReadTypes /\ RulesInv /\ [Next]_vars => RulesInv'
<1> SUFFICES ASSUME ReadTypes, RulesInv, [Next]_vars, verdict' # "rejected"
             PROVE  RulesInv'
  BY DEF RulesInv
<1> DEFINE Ruled(client) == \/ client.type = "spa" /\ ValidSPA(client)
                            \/ client.type = "service" /\ ValidService(client)
<1> HIDE DEF Ruled
<1>1. verdict' # "unread" => ValidSettings(settings')
  <2>1. settings' = settings
    BY DEF Next, vars, ReadSettings, ReadRealm, ReadUser, ReadClient, Finish,
       configuredRedirectOrigins
  <2>2. CASE ReadSettings
    BY <2>1, <2>2 DEF ReadSettings, Judge
  <2>3. CASE ~ReadSettings /\ verdict' # "unread"
    <3>1. verdict \notin {"unread", "rejected"}
      BY <2>3 DEF Next, vars, ReadRealm, ReadUser, ReadClient, Finish,
         configuredRedirectOrigins
    <3>2. QED
      BY <2>1, <3>1 DEF RulesInv
  <2>4. QED
    BY <2>2, <2>3
<1>2. (\A i \in DOMAIN given : \A k \in DOMAIN given[i].clients : Ruled(given[i].clients[k]))
        => \A i \in DOMAIN given' : \A k \in DOMAIN given'[i].clients :
              Ruled(given'[i].clients[k])
  <2> SUFFICES ASSUME \A i \in DOMAIN given : \A k \in DOMAIN given[i].clients :
                        Ruled(given[i].clients[k]),
                      NEW i \in DOMAIN given', NEW k \in DOMAIN given'[i].clients
               PROVE  Ruled(given'[i].clients[k])
    OBVIOUS
  <2>1. CASE ReadRealm
    <3>1. PICK realm \in Realms :
            /\ given' = Append(given, realm) /\ realm.users = <<>> /\ realm.clients = <<>>
      BY <2>1, RealmRead
    <3>2. /\ DOMAIN given = 1 .. Len(given) /\ DOMAIN given' = 1 .. Len(given) + 1
          /\ Len(given) \in Nat /\ given'[Len(given) + 1] = realm
          /\ \A m \in 1 .. Len(given) : given'[m] = given[m]
      BY <3>1, AppendOne DEF ReadTypes
    <3>3. DOMAIN realm.clients = {}
      BY <3>1, EmptySeq
    <3>4. QED
      BY <3>2, <3>3
  <2>2. CASE ReadUser
    <3> DEFINE last == given[Len(given)]
    <3>1. PICK user \in Users :
            /\ given' = [given EXCEPT ![Len(given)] =
                            [last EXCEPT !.users = Append(@, user)]]
            /\ last \in Realms /\ given # <<>>
      BY <2>2, UserRead
    <3> DEFINE more == [last EXCEPT !.users = Append(@, user)]
    <3>2. more \in Realms /\ more.clients = last.clients
      BY <3>1, MoreUsers
    <3>3. given' = [given EXCEPT ![Len(given)] = more] /\ given \in Seq(Realms)
      BY <3>1 DEF ReadTypes
    <3> HIDE DEF more
    <3>4. /\ DOMAIN given = 1 .. Len(given) /\ Len(given) \in 1 .. Len(given)
          /\ DOMAIN given' = 1 .. Len(given) /\ given'[Len(given)] = more
          /\ \A m \in 1 .. Len(given) : m # Len(given) => given'[m] = given[m]
      BY <3>1, <3>2, <3>3, ReplaceLast
    <3>5. QED
      BY <3>2, <3>4
  <2>3. CASE ReadClient
    <3> DEFINE last == given[Len(given)]
    <3>1. PICK client \in Clients :
            /\ given' = [given EXCEPT ![Len(given)] =
                            [last EXCEPT !.clients = Append(@, client)]]
            /\ last \in Realms /\ given # <<>>
            /\ verdict' = IF ValidClient(client) THEN "reading" ELSE "rejected"
      BY <2>3, ClientRead
    <3>2. Ruled(client)
      <4>1. ValidClient(client)
        BY <3>1
      <4>2. QED
        BY <4>1, Zenon DEF ValidClient, Ruled
    <3> DEFINE more == [last EXCEPT !.clients = Append(@, client)]
               n == Len(last.clients)
    <3>3. /\ more \in Realms /\ n \in Nat /\ DOMAIN last.clients = 1 .. n
          /\ DOMAIN more.clients = 1 .. n + 1 /\ more.clients[n + 1] = client
          /\ \A m \in 1 .. n : more.clients[m] = last.clients[m]
      BY <3>1, MoreClients
    <3>4. given' = [given EXCEPT ![Len(given)] = more] /\ given \in Seq(Realms)
      BY <3>1 DEF ReadTypes
    <3> HIDE DEF more, n
    <3>5. /\ DOMAIN given = 1 .. Len(given) /\ Len(given) \in 1 .. Len(given)
          /\ DOMAIN given' = 1 .. Len(given) /\ given'[Len(given)] = more
          /\ \A m \in 1 .. Len(given) : m # Len(given) => given'[m] = given[m]
      BY <3>1, <3>3, <3>4, ReplaceLast
    <3>6. \A m \in DOMAIN more.clients : Ruled(more.clients[m])
      <4>1. \A m \in 1 .. n : Ruled(last.clients[m])
        BY <3>3, <3>5
      <4> HIDE DEF last
      <4>2. QED
        BY <3>2, <3>3, <4>1
    <3>7. QED
      BY <3>5, <3>6
  <2>4. CASE UNCHANGED given
    BY <2>4
  <2>5. QED
    BY <2>1, <2>2, <2>3, <2>4 DEF Next, vars, ReadSettings, Finish,
       configuredRedirectOrigins
<1>3. verdict # "rejected"
  BY DEF Next, vars, ReadSettings, ReadRealm, ReadUser, ReadClient, Finish,
     configuredRedirectOrigins
<1>4. \A i \in DOMAIN given : \A k \in DOMAIN given[i].clients : Ruled(given[i].clients[k])
  BY <1>3, Zenon DEF RulesInv, Ruled
<1>5. \A i \in DOMAIN given' : \A k \in DOMAIN given'[i].clients : Ruled(given'[i].clients[k])
  BY <1>2, <1>4
<1>6. QED
  BY <1>1, <1>5, Zenon DEF RulesInv, Ruled

\* The sources are made for the realms in their order, after all are read.
LEMMA SourcesStep == ReadTypes /\ SourcesInv /\ [Next]_vars => SourcesInv'
<1> SUFFICES ASSUME ReadTypes, SourcesInv, [Next]_vars PROVE SourcesInv'
  OBVIOUS
<1>1. CASE configuredRedirectOrigins
  <2> DEFINE made == {canonicalRedirectOrigin(u) : u \in Redirects(given[Len(sources) + 1])}
             n == Len(sources)
  <2>1. /\ verdict = "accepted" /\ n < Len(given) /\ UNCHANGED given
        /\ sources' = Append(sources, made)
        /\ verdict' = IF NoSource \in made THEN "failed" ELSE verdict
    BY <1>1 DEF configuredRedirectOrigins
  <2>2. made = Policy(given[n + 1])
    BY DEF Policy
  <2>3. n \in Nat /\ sources = [i \in 1 .. n |-> Policy(given[i])]
        /\ \A i \in 1 .. n : NoSource \notin sources[i]
    BY <2>1 DEF SourcesInv
  <2> HIDE DEF made, n
  <2>4. Append(sources, made) = [i \in 1 .. n + 1 |-> Policy(given[i])]
        /\ Len(Append(sources, made)) = n + 1
    <3> DEFINE S == {Policy(given[i]) : i \in 1 .. n + 1}
    <3>1. sources \in Seq(S)
      <4>1. \A i \in 1 .. n : Policy(given[i]) \in S
        BY <2>3
      <4> HIDE DEF S
      <4>2. sources \in [1 .. n -> S]
        BY <2>3, <4>1
      <4>3. QED
        BY <2>3, <4>2, SeqDef
    <3>2. made \in S
      BY <2>2, <2>3
    <3> HIDE DEF S
    <3>3. /\ Append(sources, made) \in Seq(S)
          /\ DOMAIN Append(sources, made) = 1 .. n + 1
          /\ Len(Append(sources, made)) = n + 1
          /\ Append(sources, made)[n + 1] = made
          /\ \A i \in 1 .. n : Append(sources, made)[i] = sources[i]
      BY <3>1, <3>2, AppendOne DEF n
    <3>4. \A i \in 1 .. n + 1 : Append(sources, made)[i] = Policy(given[i])
      BY <2>2, <2>3, <3>3
    <3>5. Append(sources, made) = [i \in 1 .. n + 1 |-> Append(sources, made)[i]]
      BY <3>3, SequenceIsFunction
    <3>6. QED
      BY <3>3, <3>4, <3>5
  <2>5. Len(sources') = n + 1 /\ sources' = [i \in 1 .. n + 1 |-> Policy(given'[i])]
    BY <2>1, <2>4
  <2>6. Len(given) \in Nat
    BY LenProperties DEF ReadTypes
  <2>7. verdict' # "failed" => \A i \in 1 .. n + 1 : NoSource \notin sources'[i]
    <3> SUFFICES ASSUME verdict' # "failed", NEW i \in 1 .. n + 1
                 PROVE  NoSource \notin sources'[i]
      OBVIOUS
    <3>1. NoSource \notin made
      BY <2>1
    <3>2. CASE i \in 1 .. n
      BY <2>1, <2>3, <2>4, <3>2
    <3>3. CASE i = n + 1
      BY <2>1, <2>2, <2>3, <2>4, <3>1, <3>3
    <3>4. QED
      BY <2>3, <3>2, <3>3
  <2>8. verdict' \in {"accepted", "failed"}
    BY <2>1
  <2>9. QED
    BY <2>1, <2>3, <2>5, <2>6, <2>7, <2>8 DEF SourcesInv
<1>2. CASE ReadRealm \/ ReadUser \/ ReadClient
  <2>1. verdict = "reading" /\ UNCHANGED sources
    BY <1>2 DEF ReadRealm, ReadUser, ReadClient
  <2>2. sources = <<>>
    BY <2>1 DEF SourcesInv
  <2>3. given' \in Seq(Realms)
    BY TypesStep DEF ReadTypes
  <2>4. Len(sources) = 0 /\ Len(given') \in Nat
    BY <2>2, <2>3, EmptySeq, LenProperties
  <2>5. QED
    BY <2>1, <2>2, <2>4 DEF SourcesInv
<1>3. CASE ReadSettings \/ Finish \/ UNCHANGED vars
  <2>1. UNCHANGED <<given, sources>>
    BY <1>3 DEF ReadSettings, Finish, vars
  <2>2. verdict' = verdict \/ (verdict' # "failed" /\ verdict \in {"unread", "reading"})
    BY <1>3 DEF ReadSettings, Finish, vars, Judge
  <2>3. QED
    BY <2>1, <2>2 DEF SourcesInv
<1>4. QED
  BY <1>1, <1>2, <1>3 DEF Next

\* Validate and NewServer keep all of it.
LEMMA ConfigurationInvariant ==
    Spec => [](ReadTypes /\ KeysInv /\ RulesInv /\ SourcesInv)
<1>1. Init => ReadTypes /\ KeysInv /\ RulesInv /\ SourcesInv
  <2> SUFFICES ASSUME Init PROVE ReadTypes /\ KeysInv /\ RulesInv /\ SourcesInv
    OBVIOUS
  <2>1. /\ catalogue \in DOMAIN Catalogues /\ given = <<>> /\ sources = <<>>
        /\ verdict = "unread"
    BY DEF Init
  <2>2. <<>> \in Seq(Realms) /\ DOMAIN <<>> = {} /\ Len(<<>>) = 0
    BY EmptySeq
  <2>3. sources = [i \in 1 .. Len(sources) |-> Policy(given[i])]
    BY <2>1, <2>2
  <2>4. QED
    BY <2>1, <2>2, <2>3 DEF ReadTypes, KeysInv, RulesInv, SourcesInv
<1>2. QED
  BY <1>1, TypesStep, KeysStep, RulesStep, SourcesStep, PTL DEF Spec

----------------------------------------------------------------------------
(* What NewStore makes of an accepted realm. *)

\* A map of keys that do not repeat has each entry under its key.
LEMMA MapFinds ==
    ASSUME NEW n \in Nat, NEW keys, DOMAIN keys = 1 .. n,
           \A i, k \in 1 .. n : i # k => keys[i] # keys[k],
           NEW entries, NEW k \in 1 .. n
    PROVE  /\ keys[k] \in DOMAIN Map(keys, entries)
           /\ Map(keys, entries)[keys[k]] = entries[k]
<1>1. keys[k] \in ToSet(keys)
  BY DEF ToSet
<1>2. {i \in DOMAIN keys : keys[i] = keys[k]} = {k}
  OBVIOUS
<1>3. Max({k}) = k
  BY DEF Max
<1>4. Map(keys, entries)[keys[k]] = entries[Max({i \in DOMAIN keys : keys[i] = keys[k]})]
  BY <1>1, Zenon DEF Map
<1>5. DOMAIN Map(keys, entries) = ToSet(keys)
  BY DEF Map
<1>6. QED
  BY <1>1, <1>2, <1>3, <1>4, <1>5

\* Every spelling of a name folds to what the name folds to.
LEMMA SpellingsFold ==
    ASSUME NEW name,
           NEW typed \in IF name \in {"a", "A"} THEN {"a", "A", " a"} ELSE {name}
    PROVE  CanonicalUsername(typed) = CanonicalUsername(name)
BY DEF CanonicalUsername

\* The maps of a store made of a realm without clashes lose nothing.
LEMMA StoreFinds ==
    ASSUME NEW realm \in Realms, Distinct(realm)
    PROVE  LET store == NewStore(realm)
               Spellings(name) == IF name \in {"a", "A"} THEN {"a", "A", " a"} ELSE {name}
           IN  /\ \A u \in ToSet(realm.users) :
                     /\ store.users[u.id] = u
                     /\ \A typed \in Spellings(u.username) :
                           store.users[store.usernames[CanonicalUsername(typed)]] = u
               /\ \A c \in ToSet(realm.clients) : store.clients[c.id] = c
               /\ DOMAIN store.users \cap DOMAIN store.clients = {}
<1> DEFINE store == NewStore(realm)
           userIDs == [i \in DOMAIN realm.users |-> realm.users[i].id]
           names == [i \in DOMAIN realm.users |-> CanonicalUsername(realm.users[i].username)]
           clientIDs == [i \in DOMAIN realm.clients |-> realm.clients[i].id]
           n == Len(realm.users)
           m == Len(realm.clients)
<1>1. /\ n \in Nat /\ DOMAIN realm.users = 1 .. n
      /\ m \in Nat /\ DOMAIN realm.clients = 1 .. m
  BY LenProperties DEF Realms
<1>2. /\ store.users = Map(userIDs, realm.users)
      /\ store.usernames = Map(names, userIDs)
      /\ store.clients = Map(clientIDs, realm.clients)
  BY DEF NewStore
<1>3. /\ DOMAIN userIDs = 1 .. n /\ \A i \in 1 .. n : userIDs[i] = realm.users[i].id
      /\ DOMAIN names = 1 .. n
      /\ \A i \in 1 .. n : names[i] = CanonicalUsername(realm.users[i].username)
      /\ DOMAIN clientIDs = 1 .. m /\ \A i \in 1 .. m : clientIDs[i] = realm.clients[i].id
  BY <1>1
<1> HIDE DEF store, userIDs, names, clientIDs, n, m
<1>4. /\ \A i, k \in 1 .. n : i # k => userIDs[i] # userIDs[k] /\ names[i] # names[k]
      /\ \A i, k \in 1 .. m : i # k => clientIDs[i] # clientIDs[k]
      /\ \A i \in 1 .. n, k \in 1 .. m : userIDs[i] # clientIDs[k]
  <2>1. ASSUME NEW i \in 1 .. n, NEW k \in 1 .. n, i # k
        PROVE  userIDs[i] # userIDs[k] /\ names[i] # names[k]
    BY <1>1, <1>3, <2>1 DEF Distinct
  <2>2. ASSUME NEW i \in 1 .. m, NEW k \in 1 .. m, i # k
        PROVE  clientIDs[i] # clientIDs[k]
    BY <1>1, <1>3, <2>2 DEF Distinct
  <2>3. ASSUME NEW i \in 1 .. n, NEW k \in 1 .. m PROVE userIDs[i] # clientIDs[k]
    BY <1>1, <1>3, <2>3 DEF Distinct
  <2>4. QED
    BY <2>1, <2>2, <2>3
<1>5. \A i \in 1 .. n :
         /\ store.users[userIDs[i]] = realm.users[i]
         /\ store.usernames[names[i]] = userIDs[i]
  BY <1>1, <1>2, <1>3, <1>4, MapFinds
<1>6. \A i \in 1 .. m : store.clients[clientIDs[i]] = realm.clients[i]
  BY <1>1, <1>2, <1>3, <1>4, MapFinds
<1>7. ASSUME NEW u \in ToSet(realm.users)
      PROVE  /\ store.users[u.id] = u
             /\ \A typed \in IF u.username \in {"a", "A"} THEN {"a", "A", " a"}
                             ELSE {u.username} :
                   store.users[store.usernames[CanonicalUsername(typed)]] = u
  <2>1. PICK i \in 1 .. n : u = realm.users[i]
    BY <1>1 DEF ToSet
  <2>2. userIDs[i] = u.id /\ names[i] = CanonicalUsername(u.username)
    BY <1>3, <2>1
  <2>3. store.users[u.id] = u /\ store.usernames[CanonicalUsername(u.username)] = u.id
    BY <1>5, <2>1, <2>2
  <2>4. QED
    BY <2>3, SpellingsFold
<1>8. ASSUME NEW c \in ToSet(realm.clients) PROVE store.clients[c.id] = c
  <2>1. PICK i \in 1 .. m : c = realm.clients[i]
    BY <1>1 DEF ToSet
  <2>2. QED
    BY <1>3, <1>6, <2>1
<1>9. DOMAIN store.users \cap DOMAIN store.clients = {}
  <2>1. DOMAIN store.users = ToSet(userIDs) /\ DOMAIN store.clients = ToSet(clientIDs)
    BY <1>2 DEF Map
  <2>2. QED
    BY <1>3, <1>4, <2>1 DEF ToSet
<1>10. QED
  BY <1>7, <1>8, <1>9, Zenon DEF store

\* Of whatever entries an accepted configuration is made, the maps of the store
\* lose none, subjects are unambiguous and every spelling finds its user.
THEOREM StoreFindsAll == Spec => []StoreFindsEveryone
<1>1. ASSUME ReadTypes, KeysInv PROVE StoreFindsEveryone
  <2> SUFFICES ASSUME verdict = "accepted", NEW realm \in ToSet(given)
               PROVE  LET store == NewStore(realm)
                          Spellings(name) ==
                              IF name \in {"a", "A"} THEN {"a", "A", " a"} ELSE {name}
                      IN  /\ \A u \in ToSet(realm.users) :
                                /\ store.users[u.id] = u
                                /\ \A typed \in Spellings(u.username) :
                                      store.users[store.usernames[CanonicalUsername(typed)]] = u
                          /\ \A c \in ToSet(realm.clients) : store.clients[c.id] = c
                          /\ DOMAIN store.users \cap DOMAIN store.clients = {}
    BY Zenon DEF StoreFindsEveryone
  <2>1. PICK i \in DOMAIN given : realm = given[i]
    BY DEF ToSet
  <2>2. Distinct(realm)
    BY <1>1, <2>1 DEF KeysInv
  <2>3. realm \in Realms
    BY <1>1, <2>1, LenProperties, ElementOfSeq DEF ReadTypes
  <2>4. QED
    BY <2>2, <2>3, StoreFinds, Zenon
<1>2. QED
  BY <1>1, ConfigurationInvariant, PTL

----------------------------------------------------------------------------
(* What NewServer and newClient make of it. *)

\* Lists of redirects that are joined lose none.
LEMMA JoinedRedirects ==
    ASSUME NEW client \in Clients
    PROVE  ToSet(client.redirects) \subseteq ToSet(client.redirects \o client.postLogout)
<1>1. /\ client.redirects \in Seq(ToSet(client.redirects))
      /\ client.postLogout \in Seq(ToSet(client.postLogout))
  BY TextsAssumption DEF Clients
<1> DEFINE s == client.redirects
           t == client.postLogout
           S == ToSet(client.redirects)
           T == ToSet(client.postLogout)
<1> HIDE DEF s, t, S, T
<1>2. s \in Seq(S \cup T) /\ t \in Seq(S \cup T)
  BY <1>1 DEF s, t, S, T
<1>3. /\ Len(s) \in Nat /\ Len(t) \in Nat /\ DOMAIN s = 1 .. Len(s)
      /\ DOMAIN (s \o t) = 1 .. Len(s) + Len(t)
      /\ \A i \in 1 .. Len(s) : (s \o t)[i] = s[i]
  BY <1>2, ConcatProperties, LenProperties
<1>4. ToSet(s) \subseteq ToSet(s \o t)
  <2> SUFFICES ASSUME NEW i \in 1 .. Len(s) PROVE s[i] \in ToSet(s \o t)
    BY <1>3 DEF ToSet
  <2>1. i \in DOMAIN (s \o t) /\ (s \o t)[i] = s[i]
    BY <1>3
  <2>2. QED
    BY <2>1, Zenon DEF ToSet
<1>5. QED
  BY <1>4 DEF s, t

\* A client accepted by the rules of its type is served: cleartext redirects
\* make it a development client, and a service may be given all its scopes.
LEMMA ClientServed ==
    ASSUME NEW realm, NEW c \in Clients,
           \/ c.type = "spa" /\ ValidSPA(c)
           \/ c.type = "service" /\ ValidService(c)
    PROVE  /\ (\E u \in ToSet(c.redirects) : Lowercase(u.scheme) = "http") => dev(c)
           /\ c.type = "service" =>
                 ToSet(c.scopes) \subseteq
                     {scope \in Obtainable(realm, c) : IsScopeAllowed(c, scope)}
<1>1. CASE c.type = "spa" /\ ValidSPA(c)
  <2>1. \A u \in ToSet(c.redirects) : validateRedirect(u)
    BY <1>1, JoinedRedirects, Zenon DEF ValidSPA
  <2>2. \A u \in ToSet(c.redirects) : Lowercase(u.scheme) = "http" => Cleartext(u)
    BY <2>1 DEF validateRedirect, validateScheme, Cleartext
  <2>3. QED
    BY <1>1, <2>2 DEF dev
<1>2. CASE c.type = "service" /\ ValidService(c)
  <2>1. c.redirects = <<>> /\ ToSet(c.scopes) \subseteq ToSet(c.permissions)
    BY <1>2, Zenon DEF ValidService
  <2>2. ToSet(c.redirects) = {}
    BY <2>1, EmptySeq DEF ToSet
  <2>3. Obtainable(realm, c) = {scope \in ToSet(c.scopes) : scope \in ToSet(c.permissions)}
    BY <1>2 DEF Obtainable, GrantTypes
  <2>4. QED
    BY <2>1, <2>2, <2>3 DEF IsScopeAllowed
<1>3. QED
  BY <1>1, <1>2

\* Whatever is accepted, the server derived from it can serve it: cookies and
\* TLS follow the scheme, cleartext redirects are reached, scopes granted.
THEOREM ServerFits == Spec => []ServerFitsConfiguration
<1>1. ASSUME ReadTypes, RulesInv, verdict = "accepted"
      PROVE  /\ secureCookies <=> Lowercase(settings.base.scheme) = "https"
             /\ allowInsecure <=> Lowercase(settings.base.scheme) = "http"
  <2>1. ValidBase(settings.base)
    <3>1. ValidSettings(settings)
      BY <1>1 DEF RulesInv
    <3>2. QED
      BY <3>1, Zenon DEF ValidSettings
  <2>2. settings.base.scheme = Lowercase(settings.base.scheme)
    BY <2>1 DEF ValidBase
  <2>3. QED
    BY <2>2 DEF secureCookies, allowInsecure
<1>2. ASSUME ReadTypes, RulesInv, verdict = "accepted",
             NEW realm \in ToSet(given), NEW c \in ToSet(realm.clients)
      PROVE  /\ (\E u \in ToSet(c.redirects) : Lowercase(u.scheme) = "http") => dev(c)
             /\ c.type = "service" =>
                   ToSet(c.scopes) \subseteq
                       {scope \in Obtainable(realm, c) : IsScopeAllowed(c, scope)}
  <2>1. PICK i \in DOMAIN given : realm = given[i]
    BY DEF ToSet
  <2>2. PICK k \in DOMAIN realm.clients : c = realm.clients[k]
    BY DEF ToSet
  <2>3. c \in Clients
    <3>1. given[i] \in Realms
      BY <1>2, <2>1, LenProperties, ElementOfSeq DEF ReadTypes
    <3>2. realm.clients \in Seq(Clients)
      BY <2>1, <3>1 DEF Realms
    <3>3. QED
      BY <2>2, <3>2, LenProperties, ElementOfSeq
  <2>4. \/ c.type = "spa" /\ ValidSPA(c)
        \/ c.type = "service" /\ ValidService(c)
    BY <1>2, <2>1, <2>2, Zenon DEF RulesInv
  <2>5. QED
    BY <2>3, <2>4, ClientServed
<1>3. ReadTypes /\ RulesInv => ServerFitsConfiguration
  BY <1>1, <1>2, Zenon DEF ServerFitsConfiguration
<1>4. QED
  BY <1>3, ConfigurationInvariant, PTL

----------------------------------------------------------------------------
(* The policy sources. *)

\* A number is no word, so the names of addresses are in ASCII.
LEMMA DottedNames ==
    ASSUME NEW quad
    PROVE  /\ Dotted(quad).dots = 0 /\ Dotted(quad).upper = FALSE
           /\ canonicalDomainHost(Dotted(quad)) = Dotted(quad)
<1>1. \A d : Number("", d).word # "wide"
  <2> SUFFICES ASSUME NEW d PROVE Number("", d).word # "wide"
    OBVIOUS
  <2>1. Number("", d).word = ""
    BY Zenon DEF Number
  <2>2. "" # "wide"
    BY Zenon
  <2>3. QED
    BY <2>1, <2>2, Zenon
<1>2. \A d : ToASCII(Number("", d)) = Number("", d)
  BY <1>1, Zenon DEF ToASCII
<1> DEFINE labels == [i \in 1 .. 4 |-> Number("", <<quad[i]>>)]
<1>3. Dotted(quad) = Name(labels)
  BY Zenon DEF Dotted
<1>4. \A i \in 1 .. 4 : labels[i] = Number("", <<quad[i]>>)
  BY Zenon
<1>5. DOMAIN labels = 1 .. 4 /\ labels = [i \in 1 .. 4 |-> labels[i]]
  BY Zenon
<1>6. \A i \in 1 .. 4 : ToASCII(labels[i]) = labels[i]
  BY <1>2, <1>4, Zenon
<1> HIDE DEF labels
<1>7. [i \in DOMAIN labels |-> ToASCII(labels[i])] = labels
  BY <1>5, <1>6
<1>8. Name(labels).labels = labels /\ Name(labels).dots = 0 /\ Name(labels).upper = FALSE
  BY DEF Name
<1>9. QED
  BY <1>3, <1>7, <1>8 DEF canonicalDomainHost

\* Of a host as browsers write it, the policy keeps what browsers send.
LEMMA PolicyHost ==
    ASSUME NEW host, StandsForHost(host), host.dots = 0,
           BrowserHosts(host) = {[host EXCEPT !.upper = FALSE]}
    PROVE  IF IsLiteral(host)
           THEN [host EXCEPT !.style = IF @ = "upper" THEN "plain" ELSE @]
                  = [host EXCEPT !.upper = FALSE]
           ELSE canonicalDomainHost(host) = [host EXCEPT !.upper = FALSE]
<1> DEFINE labels == [i \in DOMAIN host.labels |-> ToASCII(host.labels[i])]
           kept == [host EXCEPT !.upper = FALSE]
<1>1. canonicalDomainHost(host) = Name(labels)
  BY DEF canonicalDomainHost
<1>2. CASE IsLiteral(host)
  <2>1. host = Literal(host.pieces, host.gap, host.style)
    BY <1>2 DEF StandsForHost
  <2>2. host = [labels |-> <<>>, dots |-> 0, upper |-> FALSE, pieces |-> host.pieces,
                gap |-> host.gap, style |-> host.style]
    BY <2>1 DEF Literal, Name
  <2>3. kept = host
    BY <2>2
  <2>4. host.style # "upper"
    <3>1. CASE host.style = "zone"
      BY <3>1
    <3>2. CASE host.style # "zone"
      <4>1. BrowserHosts(host) = {Literal(host.pieces, LongestRun(host.pieces), "plain")}
        BY <1>2, <3>2 DEF BrowserHosts
      <4>2. host = Literal(host.pieces, LongestRun(host.pieces), "plain")
        BY <2>3, <4>1
      <4>3. Literal(host.pieces, LongestRun(host.pieces), "plain").style = "plain"
        BY DEF Literal, Name
      <4>4. QED
        BY <4>2, <4>3
    <3>3. QED
      BY <3>1, <3>2
  <2>5. QED
    BY <1>2, <2>2, <2>3, <2>4
<1>3. CASE ~IsLiteral(host) /\ ~EndsInNumber(labels)
  <2>1. BrowserHosts(host) = {[Name(labels) EXCEPT !.dots = host.dots]}
    BY <1>3 DEF BrowserHosts
  <2>2. [Name(labels) EXCEPT !.dots = host.dots] = Name(labels)
    BY DEF Name
  <2>3. QED
    BY <1>1, <1>3, <2>1, <2>2
<1>4. CASE ~IsLiteral(host) /\ EndsInNumber(labels)
  <2>1. BrowserHosts(host) = {Dotted(quad) : quad \in Addresses(labels)}
    BY <1>4 DEF BrowserHosts
  <2>2. PICK quad \in Addresses(labels) : kept = Dotted(quad)
    BY <2>1
  <2>3. host = [Name(host.labels) EXCEPT !.dots = host.dots, !.upper = host.upper]
    BY <1>4 DEF StandsForHost
  <2>4. kept.labels = host.labels
    BY <2>3 DEF Name
  <2>5. canonicalDomainHost(kept) = canonicalDomainHost(host)
    BY <2>4 DEF canonicalDomainHost
  <2>6. QED
    BY <1>4, <2>2, <2>5, DottedNames
<1>5. QED
  BY <1>2, <1>3, <1>4

\* However a port is written, what the policy keeps of it names the port
\* browsers connect to.
LEMMA PolicyPort ==
    ASSUME NEW scheme, NEW port, port = Port(port.value, port.zeros), validPort(port)
    PROVE  LET kept == portSuffix(scheme, port)
           IN  (IF kept.value = DefaultPort(scheme) THEN NoPort ELSE Port(kept.value, FALSE))
                 = IF port.value \in {-2, DefaultPort(scheme)} THEN NoPort
                   ELSE Port(port.value, FALSE)
<1>1. port = NoPort \/ (port.value \in Int /\ port.value >= 1)
  <2>1. MaxPort \in Nat
    BY DEF MaxPort
  <2>2. ASSUME NEW v \in PortNumbers PROVE v \in Int /\ v >= 1
    BY <2>1 DEF PortNumbers
  <2>3. QED
    BY <2>2 DEF validPort
<1>2. DefaultPort(scheme) \in {80, 443}
  BY DEF DefaultPort
<1>3. /\ Port(-1, FALSE) = NoPort /\ NoPort.value = -1 /\ -1 # DefaultPort(scheme)
      /\ Port(DefaultPort(scheme), FALSE).value = DefaultPort(scheme)
  BY <1>2 DEF NoPort, Port
<1>4. CASE port = NoPort
  <2>1. port # Port(DefaultPort(scheme), FALSE)
    BY <1>3, <1>4
  <2>2. portSuffix(scheme, port) = NoPort
    BY <1>4, <2>1 DEF portSuffix
  <2>3. QED
    BY <1>2, <1>3, <1>4, <2>2
<1>5. CASE port.value \in Int /\ port.value >= 1
  <2>1. port.value # -2
    BY <1>5
  <2>2. CASE port = Port(DefaultPort(scheme), FALSE)
    <3>1. portSuffix(scheme, port) = NoPort /\ port.value = DefaultPort(scheme)
      BY <1>3, <2>2 DEF portSuffix
    <3>2. QED
      BY <1>3, <3>1
  <2>3. CASE port # Port(DefaultPort(scheme), FALSE)
    <3>1. portSuffix(scheme, port) = port
      BY <2>3 DEF portSuffix
    <3>2. QED
      BY <2>1, <3>1
  <2>4. QED
    BY <2>2, <2>3
<1>6. QED
  BY <1>1, <1>4, <1>5

\* A source that could be made names the one origin browsers are sent to.
LEMMA PolicyIsOrigin ==
    ASSUME NEW u, StandsForURL(u), AsBrowsersWrite(u),
           canonicalRedirectOrigin(u) # NoSource
    PROVE  BrowserOrigins(u) = {NamedOrigin(canonicalRedirectOrigin(u))}
<1> DEFINE scheme == Lowercase(u.scheme)
           kept == [u.host EXCEPT !.upper = FALSE]
           host == IF IsLiteral(u.host)
                   THEN [u.host EXCEPT !.style = IF @ = "upper" THEN "plain" ELSE @]
                   ELSE canonicalDomainHost(u.host)
           port == IF u.port.value \in {-2, DefaultPort(scheme)} THEN NoPort
                   ELSE Port(u.port.value, FALSE)
<1>1. /\ BrowserHosts(u.host) = {kept} /\ u.host.dots = 0
      /\ StandsForHost(u.host) /\ u.port = Port(u.port.value, u.port.zeros)
  <2>1. u.port = Port(u.port.value, u.port.zeros)
    BY DEF StandsForURL
  <2>2. QED
    BY <2>1 DEF AsBrowsersWrite, StandsForURL
<1>2. host = kept
  BY <1>1, PolicyHost
<1>3. /\ validPort(u.port)
      /\ canonicalRedirectOrigin(u)
           = [scheme |-> scheme, port |-> portSuffix(scheme, u.port), host |-> host]
  BY Zenon DEF canonicalRedirectOrigin
<1> DEFINE suffix == portSuffix(scheme, u.port)
<1>4. (IF suffix.value = DefaultPort(scheme) THEN NoPort ELSE Port(suffix.value, FALSE)) = port
  BY <1>1, <1>3, PolicyPort
<1>5. BrowserOrigins(u) = {[scheme |-> scheme, host |-> kept, port |-> port]}
  BY <1>1 DEF BrowserOrigins
<1>6. canonicalRedirectOrigin(u) = [scheme |-> scheme, port |-> suffix, host |-> host]
  BY <1>3
<1>7. NamedOrigin(canonicalRedirectOrigin(u)) = [scheme |-> scheme, host |-> host, port |-> port]
  <2> DEFINE source == canonicalRedirectOrigin(u)
  <2>1. /\ source = [scheme |-> scheme, port |-> suffix, host |-> host]
        /\ (IF suffix.value = DefaultPort(scheme) THEN NoPort ELSE Port(suffix.value, FALSE))
             = port
    BY <1>4, <1>6
  <2> HIDE DEF source, scheme, suffix, host, port
  <2>2. source.scheme = scheme /\ source.port = suffix
    BY <2>1
  <2>3. [source EXCEPT !.port = port] = [scheme |-> scheme, host |-> host, port |-> port]
    BY <2>1
  <2>4. NamedOrigin(source) = [source EXCEPT !.port = port]
    BY <2>1, <2>2, Zenon DEF NamedOrigin
  <2>5. QED
    BY <2>3, <2>4 DEF source
<1>8. QED
  BY <1>2, <1>5, <1>7

\* The policy of each realm that was built names the origins its browsers are
\* sent to, and no other, for any redirects whose hosts are plainly written.
THEOREM PolicyNames == Spec => []PolicyNamesRedirects
<1>1. ASSUME ReadTypes, SourcesInv PROVE PolicyNamesRedirects
  <2> SUFFICES ASSUME verdict # "failed", NEW i \in DOMAIN sources,
                      \A u \in Redirects(given[i]) : AsBrowsersWrite(u)
               PROVE  {NamedOrigin(source) : source \in sources[i]}
                        = UNION {BrowserOrigins(u) : u \in Redirects(given[i])}
    BY DEF PolicyNamesRedirects
  <2>1. /\ Len(sources) \in Nat /\ Len(sources) <= Len(given)
        /\ sources = [k \in 1 .. Len(sources) |-> Policy(given[k])]
        /\ NoSource \notin sources[i]
    BY <1>1 DEF SourcesInv
  <2>2. i \in 1 .. Len(sources) /\ sources[i] = Policy(given[i])
    BY <2>1
  <2>3. given[i] \in Realms
    <3>1. given \in Seq(Realms) /\ Len(given) \in Nat
      BY <1>1, LenProperties DEF ReadTypes
    <3>2. i \in 1 .. Len(given)
      BY <2>1, <2>2, <3>1
    <3>3. QED
      BY <3>1, <3>2, ElementOfSeq
  <2>4. \A u \in Redirects(given[i]) : StandsForURL(u)
    <3>1. \A c \in ToSet(given[i].clients) : c \in Clients
      <4>1. given[i].clients \in Seq(Clients)
        BY <2>3 DEF Realms
      <4>2. QED
        BY <4>1, LenProperties, ElementOfSeq DEF ToSet
    <3>2. \A c \in Clients : \A u \in ToSet(c.redirects) : StandsForURL(u)
      BY TextsAssumption DEF Clients
    <3>3. QED
      BY <3>1, <3>2 DEF Redirects
  <2>5. \A u \in Redirects(given[i]) : BrowserOrigins(u) = {NamedOrigin(canonicalRedirectOrigin(u))}
    BY <2>1, <2>2, <2>4, PolicyIsOrigin DEF Policy
  <2>6. QED
    BY <2>2, <2>5 DEF Policy
<1>2. QED
  BY <1>1, ConfigurationInvariant, PTL

============================================================================
