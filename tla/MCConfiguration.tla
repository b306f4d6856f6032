-------------------------- MODULE MCConfiguration --------------------------
(***************************************************************************)
(* An instance of Configuration for TLC: sound entries and variants of     *)
(* them that each break one rule; names, numbers in every radix and IPv6   *)
(* literals as origins and redirects.                                      *)
(***************************************************************************)
EXTENDS Configuration

App == URL("https", Name(<<Word("app")>>), NoPort)
Local == URL("http", Name(<<Word("localhost")>>), Port(8080, FALSE))
Other == URL("http", Name(<<Word("app")>>), NoPort)

\* Everything that may stand around the host and the port of a URL.
Around(u) ==
    {[u EXCEPT !.odd = odd, !.user = user, !.path = path, !.query = query, !.fragment = fragment] :
        odd \in BOOLEAN, user \in BOOLEAN, path \in Paths, query \in Queries,
        fragment \in Fragments}

Root == [App EXCEPT !.path = "root"]
Sound == [base |-> Root, listen |-> [shape |-> "host:port", port |-> 8080],
          accessTTL |-> 1, idTTL |-> 1, refreshTTL |-> 1, theme |-> "", mode |-> ""]
Bases ==
    {[u EXCEPT !.scheme = scheme] : u \in {Root, [Local EXCEPT !.path = "root"]},
        scheme \in {"", "http", "HTTP", "https", "HTTPS", "ftp"}}
    \cup {[Root EXCEPT !.port = port] :
        port \in {EmptyPort, Port(443, TRUE), Port(0, FALSE), Port(65536, FALSE)}}
    \cup {[Root EXCEPT !.host = NoHost]} \cup Around(App) \cup Around(Local)
MCSettings ==
    {[Sound EXCEPT !.base = base] : base \in Bases}
    \cup {[Sound EXCEPT !.listen.shape = "host"], [Sound EXCEPT !.listen.port = 65536],
          [Sound EXCEPT !.accessTTL = 0], [Sound EXCEPT !.idTTL = 0],
          [Sound EXCEPT !.refreshTTL = -1], [Sound EXCEPT !.theme = " a"],
          [Sound EXCEPT !.mode = "select"], [Sound EXCEPT !.mode = "other"]}

User == [id |-> "u", username |-> "a", hash |-> "", permissions |-> <<"read">>,
         roles |-> <<>>]
MCUsers ==
    {User, [User EXCEPT !.id = "v", !.username = "b"], [User EXCEPT !.id = "v", !.username = "A"],
     [User EXCEPT !.username = "b"], [User EXCEPT !.id = ""], [User EXCEPT !.username = " a"],
     [User EXCEPT !.hash = "cost 4"], [User EXCEPT !.permissions = <<"email">>],
     [User EXCEPT !.permissions = <<"read", "read">>],
     [User EXCEPT !.permissions = <<"not a token">>], [User EXCEPT !.roles = <<" read">>]}

SPA == [id |-> "c", type |-> "spa", hash |-> "", redirects |-> <<App, Local>>,
        postLogout |-> <<>>, origins |-> <<App>>, audiences |-> <<"api">>,
        scopes |-> <<"openid", "read">>, roles |-> <<>>, permissions |-> <<>>]
Service == [SPA EXCEPT !.id = "s", !.type = "service", !.hash = "cost 10",
            !.redirects = <<>>, !.origins = <<>>, !.scopes = <<"read">>,
            !.permissions = <<"read", "write">>]
MCClients ==
    {SPA, [SPA EXCEPT !.id = "u"], [SPA EXCEPT !.id = "s"], [SPA EXCEPT !.redirects = <<App>>],
     [SPA EXCEPT !.hash = "cost 10"], [SPA EXCEPT !.scopes = <<"read">>],
     [SPA EXCEPT !.scopes = <<>>], [SPA EXCEPT !.scopes = <<"openid", "phone">>],
     [SPA EXCEPT !.audiences = <<>>], [SPA EXCEPT !.audiences = <<"api", "api">>],
     [SPA EXCEPT !.redirects = <<>>], [SPA EXCEPT !.postLogout = <<Other>>],
     [SPA EXCEPT !.origins = <<Other>>], [SPA EXCEPT !.type = "native"],
     Service, [Service EXCEPT !.id = " a"], [Service EXCEPT !.hash = ""],
     [Service EXCEPT !.scopes = <<"write", "admin">>], [Service EXCEPT !.origins = <<App>>],
     [Service EXCEPT !.permissions = <<"openid", "read">>],
     [Service EXCEPT !.scopes = <<"openid">>]}

Words == {<<Word("app")>>, <<Word("localhost")>>, <<Word("app"), Word("localhost")>>,
          <<Word("a_b")>>, <<Word("-a")>>, <<Word("wide")>>, <<Word("xn--wide")>>}
Numbers == {Number("", <<d>>) : d \in {0, 1, 3, 4}} \cup
           {Number("", <<2, 5, 5>>), Number("", <<2, 5, 6>>), Number("0", <<3>>),
            Number("0", <<8>>), Number("0x", <<>>), Number("0x", <<3>>),
            Number("0x", <<15, 15>>), Word("app")}
FewNumbers == {Number("", <<3>>), Number("", <<4>>), Number("0", <<3>>),
               Number("", <<1, 5>>), Number("", <<1, 6>>), Word("app")}
Names ==
    {[Name(labels) EXCEPT !.dots = dots, !.upper = upper] :
        labels \in Words, dots \in 0..2, upper \in BOOLEAN}
    \cup {[Name(labels) EXCEPT !.dots = dots] :
        labels \in UNION {[1..n -> Numbers] : n \in 1..2} \cup [1..3 -> FewNumbers], dots \in 0..1}
    \cup {Name(labels) : labels \in [1..4 -> {Number("", <<1>>), Number("0", <<1>>), Number("", <<4>>)}]}
    \cup {Name([i \in 1..5 |-> Number("", <<1>>)])}

Literals ==
    LET texts == [1..8 -> {0, 1}]
    IN  {Literal(p, <<0, 0>>, "plain") : p \in texts}
        \cup UNION {{Literal(p, run, "plain") : run \in Runs(p)} : p \in texts}
        \cup UNION {{Literal(p, <<i, 1>>, "plain") : i \in {k \in 1..8 : p[k] = 0}} : p \in texts}
        \cup {Literal([i \in 1..8 |-> IF i = 8 THEN 1 ELSE 0], <<1, 7>>, style) :
                style \in {"upper", "zone", "dotted"}}

FewHosts ==
    {Name(labels) : labels \in Words}
    \cup {Name(<<Number("", <<1>>), Number("", <<0>>), Number("", <<0>>), Number(prefix, <<1>>)>>) :
            prefix \in {"", "0", "0x"}}
    \cup {Literal([i \in 1..8 |-> IF i = 8 THEN 1 ELSE 0], <<1, 7>>, "plain")}
Ports == {NoPort, EmptyPort, Port(80, FALSE), Port(443, FALSE), Port(443, TRUE),
          Port(80, TRUE), Port(8080, FALSE), Port(8080, TRUE), Port(0, FALSE),
          Port(65536, FALSE)}
Schemes == {"http", "HTTP", "https", "HTTPS", "ftp", ""}

\* Every port under every scheme for a few hosts, every name, every literal,
\* and everything around a host and a port, sound and not.
URLs ==
    {URL(scheme, host, port) : scheme \in Schemes, host \in FewHosts, port \in Ports}
    \cup {URL(scheme, host, NoPort) : scheme \in {"http", "https"}, host \in Names}
    \cup {URL("https", host, NoPort) : host \in Literals}
    \cup UNION {Around(u) : u \in {App, Local, [App EXCEPT !.host = NoHost],
                                   [App EXCEPT !.port = Port(443, FALSE)]}}

\* TLC keeps the value of a definition without parameters only.
URLClients == {[SPA EXCEPT !.origins = <<u>>] : u \in URLs}
              \cup {[SPA EXCEPT !.redirects = <<u>>] : u \in URLs}

\* One realm under any settings, one of any entries, then two realms that share names and ids.
MCCatalogues == [
    settings |-> [settings |-> MCSettings, realmNames |-> {"one"}, users |-> {},
                  clients |-> {SPA}, maxRealms |-> 1, maxUsers |-> 0, maxClients |-> 1],
    entries |-> [settings |-> {Sound}, realmNames |-> {"one", "-one"},
                 users |-> MCUsers, clients |-> MCClients,
                 maxRealms |-> 1, maxUsers |-> 2, maxClients |-> 2],
    realms |-> [settings |-> {Sound, [Sound EXCEPT !.mode = "select"]},
                realmNames |-> {"one", "two", "-one"},
                users |-> {User, [User EXCEPT !.id = "v", !.username = "b"],
                           [User EXCEPT !.id = ""]},
                clients |-> {SPA, [SPA EXCEPT !.id = "u"], [SPA EXCEPT !.redirects = <<App>>],
                             Service, [Service EXCEPT !.hash = ""]},
                maxRealms |-> 2, maxUsers |-> 2, maxClients |-> 2],
    urls |-> [settings |-> {Sound}, realmNames |-> {"one"},
              users |-> {}, clients |-> URLClients,
              maxRealms |-> 1, maxUsers |-> 0, maxClients |-> 1]]
============================================================================
