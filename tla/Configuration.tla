--------------------------- MODULE Configuration ---------------------------
(***************************************************************************)
(* Validate of internal/config/config.go reads a configuration realm by    *)
(* realm, the users of a realm before its clients, and keeps what it has   *)
(* read in maps; the first error ends it.  NewStore and newClient of       *)
(* internal/idp then index an accepted realm, and NewServer makes the      *)
(* policy sources of its redirects.  The configuration grows here entry by *)
(* entry: given is what has been read, the maps are the locals of Validate. *)
(*                                                                         *)
(* A text is one of a few words; a URL is a record of module Hosts.        *)
(***************************************************************************)
EXTENDS Hosts

\* A catalogue says what configurations are written with: their settings,
\* realm names, user and client entries, and how many a realm has of each.
CONSTANT Catalogues

ASSUME SizeAssumption ==
    \A name \in DOMAIN Catalogues :
        /\ Catalogues[name].maxRealms \in Nat
        /\ Catalogues[name].maxUsers \in Nat
        /\ Catalogues[name].maxClients \in Nat

\* The redirects of a client are a list of texts.
ASSUME TextsAssumption ==
    \A name \in DOMAIN Catalogues : \A client \in Catalogues[name].clients :
        /\ client.redirects \in Seq(ToSet(client.redirects))
        /\ client.postLogout \in Seq(ToSet(client.postLogout))
        /\ \A u \in ToSet(client.redirects) : StandsForURL(u)

VARIABLES
    catalogue,
    settings,    \* base_url, listen, lifetimes, theme and login mode
    given,       \* the realms read so far: name, users and clients
    realmNames,
    ids,         \* the ids of the realm in progress
    usernames,   \* its folded usernames
    verdict,     \* "unread", "reading", "accepted", "rejected", "empty" (no
                 \* realms) or "failed" (no policy)
    sources      \* the policy sources of the realms NewServer has built

vars == <<catalogue, settings, given, realmNames, ids, usernames, verdict, sources>>

Catalogue == Catalogues[catalogue]

----------------------------------------------------------------------------
(* Texts. *)

reservedScopes ==
    {"openid", "profile", "email", "offline_access", "phone", "address"}
Padded == {" a", " read"}
Empty == {""}
Nonempty(text) == text \notin Padded \cup Empty

\* "A" stands for a spelling that folds to "a".
CanonicalUsername(text) == IF text \in {"A", " a"} THEN "a" ELSE text

realmNamePattern == {"one", "two"}
validBcrypt(hash) == hash = "cost 10"

\* Whether each value is new, in one pass as the code makes it.
validateNonemptyUnique(values) ==
    /\ \A i \in DOMAIN values : Nonempty(values[i])
    /\ IsInjective(values)
validateScopeTokens(values) == "not a token" \notin ToSet(values)
validatePermissions(values) ==
    /\ validateNonemptyUnique(values)
    /\ ToSet(values) \cap reservedScopes = {}
    /\ validateScopeTokens(values)

----------------------------------------------------------------------------
(* The settings. *)

\* The text ends in "/", so an empty query or fragment does not pass either.
ValidBase(base) ==
    /\ validateAbsoluteURL(base)
    /\ base.scheme = Lowercase(base.scheme)
    /\ base.path = "root" /\ base.query = "none" /\ base.fragment = "none"
    /\ validateScheme(base)

validateListen(listen) == listen.shape = "host:port" /\ listen.port \in PortNumbers

ValidSettings(s) ==
    /\ ValidBase(s.base)
    /\ validateListen(s.listen)
    /\ s.accessTTL > 0 /\ s.idTTL > 0 /\ s.refreshTTL > 0
    /\ s.theme \notin Padded
    /\ s.mode \in {"", "password", "select"}

\* NewServer reads the scheme off the text, not off the parsed URL.
secureCookies == settings.base.scheme = "https"
allowInsecure == settings.base.scheme = "http"

----------------------------------------------------------------------------
(* The entries. *)

requireID(id) == Nonempty(id) /\ id \notin ids

\* Mutant: usernames are told apart as they are written.
newUsernameAsWritten(username) == username \notin usernames

newUsername(username) == CanonicalUsername(username) \notin usernames

ValidUser(user) ==
    /\ requireID(user.id)
    /\ Nonempty(user.username)
    /\ newUsername(user.username)
    /\ user.hash = "" \/ validBcrypt(user.hash)
    /\ validatePermissions(user.permissions)
    /\ validateNonemptyUnique(user.roles)

ValidSPA(client) ==
    /\ client.hash = ""
    /\ "openid" \in ToSet(client.scopes)
    /\ client.redirects # <<>> /\ client.origins # <<>>
    /\ \A url \in ToSet(client.redirects \o client.postLogout) : validateRedirect(url)
    /\ \A url \in ToSet(client.origins) : validateOrigin(url)

ValidService(client) ==
    /\ validBcrypt(client.hash)
    /\ client.redirects = <<>> /\ client.postLogout = <<>> /\ client.origins = <<>>
    /\ \A scope \in ToSet(client.scopes) :
          scope \notin reservedScopes /\ scope \in ToSet(client.permissions)

ValidClient(client) ==
    /\ requireID(client.id)
    /\ validateNonemptyUnique(client.audiences) /\ client.audiences # <<>>
    /\ validateNonemptyUnique(client.scopes) /\ client.scopes # <<>>
    /\ validateScopeTokens(client.scopes)
    /\ ToSet(client.scopes) \cap {"phone", "address"} = {}
    /\ validatePermissions(client.permissions)
    /\ validateNonemptyUnique(client.roles)
    /\ \/ client.type = "spa" /\ ValidSPA(client)
       \/ client.type = "service" /\ ValidService(client)

----------------------------------------------------------------------------
(* Validate. *)

Init ==
    /\ catalogue \in DOMAIN Catalogues
    /\ settings \in Catalogue.settings
    /\ given = <<>>
    /\ realmNames = {}
    /\ ids = {}
    /\ usernames = {}
    /\ verdict = "unread"
    /\ sources = <<>>

Judge(valid) == verdict' = IF valid THEN "reading" ELSE "rejected"

ReadSettings ==
    /\ verdict = "unread"
    /\ Judge(ValidSettings(settings))
    /\ UNCHANGED <<catalogue, settings, given, realmNames, ids, usernames, sources>>

\* Mutant: the maps of a realm go on into the next.
ReadRealmOnly ==
    /\ verdict = "reading"
    /\ Len(given) < Catalogue.maxRealms
    /\ \E name \in Catalogue.realmNames :
        /\ given' = Append(given, [name |-> name, users |-> <<>>, clients |-> <<>>])
        /\ realmNames' = realmNames \cup {name}
        /\ Judge(name \in realmNamePattern /\ name \notin realmNames)
    /\ UNCHANGED <<catalogue, settings, ids, usernames, sources>>

ReadRealm ==
    /\ verdict = "reading"
    /\ Len(given) < Catalogue.maxRealms
    /\ \E name \in Catalogue.realmNames :
        /\ given' = Append(given, [name |-> name, users |-> <<>>, clients |-> <<>>])
        /\ realmNames' = realmNames \cup {name}
        /\ Judge(name \in realmNamePattern /\ name \notin realmNames)
    /\ ids' = {}
    /\ usernames' = {}
    /\ UNCHANGED <<catalogue, settings, sources>>

ReadUser ==
    /\ verdict = "reading"
    /\ given # <<>>
    /\ Last(given).clients = <<>>
    /\ Len(Last(given).users) < Catalogue.maxUsers
    /\ \E user \in Catalogue.users :
        /\ given' = [given EXCEPT ![Len(given)].users = Append(@, user)]
        /\ ids' = ids \cup {user.id}
        /\ usernames' = usernames \cup {CanonicalUsername(user.username)}
        /\ Judge(ValidUser(user))
    /\ UNCHANGED <<catalogue, settings, realmNames, sources>>

ReadClient ==
    /\ verdict = "reading"
    /\ given # <<>>
    /\ Len(Last(given).clients) < Catalogue.maxClients
    /\ \E client \in Catalogue.clients :
        /\ given' = [given EXCEPT ![Len(given)].clients = Append(@, client)]
        /\ ids' = ids \cup {client.id}
        /\ Judge(ValidClient(client))
    /\ UNCHANGED <<catalogue, settings, realmNames, usernames, sources>>

Finish ==
    /\ verdict = "reading"
    /\ verdict' = IF given = <<>> THEN "empty" ELSE "accepted"
    /\ UNCHANGED <<catalogue, settings, given, realmNames, ids, usernames, sources>>

----------------------------------------------------------------------------
(* What NewStore and newClient make of an accepted realm. *)

\* A map filled in order: a later entry with the same key replaces an earlier.
Map(keys, entries) ==
    [key \in ToSet(keys) |-> entries[Max({i \in DOMAIN keys : keys[i] = key})]]

NewStore(realm) ==
    LET userIDs == [i \in DOMAIN realm.users |-> realm.users[i].id]
        names == [i \in DOMAIN realm.users |-> CanonicalUsername(realm.users[i].username)]
        clientIDs == [i \in DOMAIN realm.clients |-> realm.clients[i].id]
    IN  [users |-> Map(userIDs, realm.users),
         usernames |-> Map(names, userIDs),
         clients |-> Map(clientIDs, realm.clients)]

Cleartext(u) == Lowercase(u.scheme) = "http" /\ IsLocalHost(u.host)

\* Mutant: the first redirect decides.
devOfFirst(client) == client.type = "spa" /\ Cleartext(client.redirects[1])

\* Client.dev: the provider takes cleartext redirects of such clients only.
dev(client) ==
    client.type = "spa" /\ \E u \in ToSet(client.redirects) : Cleartext(u)

IsScopeAllowed(client, scope) == scope \in ToSet(client.scopes)
GrantTypes(client) ==
    IF client.type = "spa" THEN {"authorization_code", "refresh_token"}
    ELSE {"client_credentials"}

\* What a client may ever be given (Granted and serviceRequest of Store).
Obtainable(realm, client) ==
    {scope \in ToSet(client.scopes) :
        IF "client_credentials" \in GrantTypes(client)
        THEN scope \in ToSet(client.permissions)
        ELSE \/ scope \in {"openid", "profile", "email", "offline_access"}
             \/ \E i \in DOMAIN realm.users :
                    scope \in ToSet(realm.users[i].permissions)}

Redirects(realm) ==
    UNION {ToSet(c.redirects) : c \in {x \in ToSet(realm.clients) : x.type = "spa"}}

\* NewServer builds one realm after another, and fails at a redirect that no
\* policy source stands for.
configuredRedirectOrigins ==
    /\ verdict = "accepted"
    /\ Len(sources) < Len(given)
    /\ LET made == {canonicalRedirectOrigin(u) : u \in Redirects(given[Len(sources) + 1])}
       IN  /\ sources' = Append(sources, made)
           /\ verdict' = IF NoSource \in made THEN "failed" ELSE verdict
    /\ UNCHANGED <<catalogue, settings, given, realmNames, ids, usernames>>

Next ==
    \/ ReadSettings \/ ReadRealm \/ ReadUser \/ ReadClient \/ Finish
    \/ configuredRedirectOrigins

Spec == Init /\ [][Next]_vars

----------------------------------------------------------------------------
(* Properties. *)

\* README.md, Validation rules: what a configuration may hold, said of the
\* whole and not of one entry after another.
Tokens(values) == ToSet(values) \cap {"", " a", " read", "not a token"} = {}
NoRepeat(values) == Cardinality(ToSet(values)) = Len(values)
Secure(u) == u.scheme = "https" \/ (u.scheme = "http" /\ IsLocalHost(u.host))
AbsoluteDocumented(u) ==
    /\ ~u.odd /\ ~u.user /\ u.host # NoHost
    /\ u.port = NoPort \/ u.port.value \in PortNumbers
OriginDocumented(u) ==
    /\ AbsoluteDocumented(u) /\ Secure(u)
    /\ u = URL(u.scheme, u.host, u.port)
    /\ BrowserOrigins(u) = {Origin(u)} /\ u.host.dots = 0
RedirectDocumented(u) ==
    /\ AbsoluteDocumented(u) /\ Secure([u EXCEPT !.scheme = Lowercase(@)])
    /\ u.fragment = "none" /\ u.query # "malformed"
SettingsDocumented(s) ==
    /\ AbsoluteDocumented(s.base) /\ Secure(s.base)
    /\ s.base = [URL(s.base.scheme, s.base.host, s.base.port) EXCEPT !.path = "root"]
    /\ s.listen.shape = "host:port" /\ s.listen.port \in PortNumbers
    /\ \A ttl \in {s.accessTTL, s.idTTL, s.refreshTTL} : ttl > 0
    /\ s.theme # " a" /\ s.mode # "other"
RealmDocumented(realm) ==
    LET principals == realm.users \o realm.clients
        Folded(u) == CASE u.username = "A" -> "a" [] OTHER -> u.username
    IN  /\ realm.name \in {"one", "two"}
        /\ \A i, j \in DOMAIN principals :
              i # j => principals[i].id # principals[j].id
        /\ \A p \in ToSet(principals) :
              /\ p.id \notin {"", " a"}
              /\ Tokens(p.permissions) /\ NoRepeat(p.permissions) /\ NoRepeat(p.roles)
              /\ ToSet(p.permissions) \cap reservedScopes = {}
              /\ ToSet(p.roles) \cap {"", " a", " read"} = {}
              /\ p.hash \in {"", "cost 10"}
        /\ \A u \in ToSet(realm.users) : u.username \notin {"", " a"}
        /\ \A i, j \in DOMAIN realm.users :
              i # j => Folded(realm.users[i]) # Folded(realm.users[j])
        /\ \A c \in ToSet(realm.clients) :
              /\ c.scopes # <<>> /\ Tokens(c.scopes) /\ NoRepeat(c.scopes)
              /\ c.audiences # <<>> /\ NoRepeat(c.audiences)
              /\ ToSet(c.audiences) \cap {"", " a", " read"} = {}
              /\ ToSet(c.scopes) \cap {"phone", "address"} = {}
              /\ c.type = "spa" =>
                    /\ c.hash = "" /\ "openid" \in ToSet(c.scopes)
                    /\ c.redirects # <<>> /\ c.origins # <<>>
                    /\ \A u \in ToSet(c.redirects \o c.postLogout) : RedirectDocumented(u)
                    /\ \A u \in ToSet(c.origins) : OriginDocumented(u)
              /\ c.type = "service" =>
                    /\ c.hash # "" /\ c.redirects \o c.postLogout \o c.origins = <<>>
                    /\ ToSet(c.scopes) \subseteq ToSet(c.permissions)
              /\ c.type \in {"spa", "service"}

\* Validate has rejected exactly when the settings and the realms up to the
\* entry read last break a documented rule: nothing read for one realm decides
\* about another, a check that only looks back finds every clash, and the
\* origins let through are the ones browsers send, with nothing after them.
RejectsWhatRulesForbid ==
    LET documented == /\ SettingsDocumented(settings)
                      /\ \A realm \in ToSet(given) : RealmDocumented(realm)
                      /\ NoRepeat([i \in DOMAIN given |-> given[i].name])
    IN  verdict # "unread" => (verdict = "rejected" <=> ~documented)

\* The maps of NewStore lose no entry of an accepted realm, no id is both a
\* user's and a client's, and AuthenticatePassword, which looks a name up as
\* the browser sent it, finds the user whose name it spells.
StoreFindsEveryone ==
    verdict = "accepted" => \A realm \in ToSet(given) :
        LET store == NewStore(realm)
            Spellings(name) == IF name \in {"a", "A"} THEN {"a", "A", " a"} ELSE {name}
        IN  /\ \A u \in ToSet(realm.users) :
                  /\ store.users[u.id] = u
                  /\ \A typed \in Spellings(u.username) :
                        store.users[store.usernames[CanonicalUsername(typed)]] = u
            /\ \A c \in ToSet(realm.clients) : store.clients[c.id] = c
            /\ DOMAIN store.users \cap DOMAIN store.clients = {}

\* What is derived from an accepted configuration serves it: login cookies
\* are Secure and the provider insists on TLS exactly under https, redirects
\* go to every URI a browser client lists, and every scope of a service
\* client can be granted.
ServerFitsConfiguration ==
    verdict = "accepted" =>
        /\ secureCookies <=> Lowercase(settings.base.scheme) = "https"
        /\ allowInsecure <=> Lowercase(settings.base.scheme) = "http"
        /\ \A realm \in ToSet(given) : \A c \in ToSet(realm.clients) :
              /\ (\E u \in ToSet(c.redirects) : Lowercase(u.scheme) = "http") => dev(c)
              /\ c.type = "service" =>
                    ToSet(c.scopes) \subseteq
                        {scope \in Obtainable(realm, c) : IsScopeAllowed(c, scope)}

\* The form an origin is asked to take denotes the host that was written.
SuggestedHostIsTheHost ==
    \A realm \in ToSet(given) : \A c \in ToSet(realm.clients) :
        \A u \in ToSet(c.origins) :
            u.host # NoHost /\ canonicalOriginHost(u.host) # NoHost =>
                BrowserHosts([u.host EXCEPT !.dots = 0]) = {canonicalOriginHost(u.host)}

\* form-action names the origins browsers are sent to after a sign-in, and
\* no other, in a realm whose redirects have hosts as browsers write them,
\* however their ports are written.
AsBrowsersWrite(u) ==
    BrowserHosts(u.host) = {[u.host EXCEPT !.upper = FALSE]} /\ u.host.dots = 0
PolicyNamesRedirects ==
    verdict # "failed" => \A i \in DOMAIN sources :
        (\A u \in Redirects(given[i]) : AsBrowsersWrite(u)) =>
            {NamedOrigin(source) : source \in sources[i]}
                = UNION {BrowserOrigins(u) : u \in Redirects(given[i])}

============================================================================
