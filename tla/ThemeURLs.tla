----------------------------- MODULE ThemeURLs -----------------------------
(***************************************************************************)
(* validateRealmRelativeURLs of internal/idp/server.go: no live URL of a   *)
(* rendered theme page may be rooted at /login or /assets, where no realm  *)
(* answers.  A page is a run of templates and of attributes that hold      *)
(* URLs; the code's scan and a browser's (the HTML standard) read the same *)
(* text, piece by piece.                                                   *)
(***************************************************************************)
EXTENDS Integers, Sequences, SequencesExt

CONSTANTS
    Pieces,     \* what an attribute's text is made of, of URLs and marks
    Bare,       \* a candidate of a srcset may end in a comma and a space
    MaxPieces,  \* in the texts of the page
    MaxDepth    \* of templates

VARIABLES
    scopes,     \* the code's stack: whether each template is inert
    open,       \* the browser's: the templates around, "inert" or "shadow"
    attribute,  \* the kind of attribute in progress, "" between two
    code,       \* how far srcsetCandidates, Fields or the plain test is
    browser,    \* how far the browser's parser is
    pieces,     \* how many were written
    rejected,   \* validateRealmRelativeURLs has returned its error
    loads       \* the browser has a live reference out of the realm

vars == <<scopes, open, attribute, code, browser, pieces, rejected, loads>>

----------------------------------------------------------------------------
(* Texts.  The pieces of a path are the segments between its slashes.      *)

Marks == {",", " "}
Paths == [
    assets |-> [network |-> FALSE, path |-> <<"assets", "a">>],
    login |-> [network |-> FALSE, path |-> <<"login">>],
    detour |-> [network |-> FALSE, path |-> <<"x", "..", "assets", "a">>],
    away |-> [network |-> FALSE, path |-> <<"assets", "..", "x">>],
    host |-> [network |-> TRUE, path |-> <<"assets", "a">>],
    realm |-> [network |-> FALSE, path |-> <<"realms", "dev", "assets", "a">>]]

Clean(path) ==
    FoldLeft(LAMBDA done, segment :
        CASE segment = ".." -> IF done = <<>> THEN done ELSE Front(done)
          [] OTHER -> Append(done, segment), <<>>, path)

\* A URL is the pieces up to a mark that ends it; what follows the first
\* piece is part of its last segment.
isRootRelativeLoginURL(url) ==
    LET normalized == Clean(Paths[url[1]].path)
    IN  /\ ~Paths[url[1]].network
        /\ normalized # <<>>
        /\ normalized[1] = "assets" \/ (normalized[1] = "login" /\ Len(url) = 1)

----------------------------------------------------------------------------
(* The two parsers of one attribute.  urls are the candidates that ended;  *)
(* mode is "gap", "url" or "descriptor".                                   *)

NewParser == [mode |-> "gap", url |-> <<>>, urls |-> {}]

Trim(url) ==
    LET kept == {i \in DOMAIN url : url[i] \notin Marks}
    IN  SubSeq(url, 1, CHOOSE i \in kept : \A j \in kept : j <= i)

Ended(p, next) == [mode |-> next, url |-> <<>>, urls |-> p.urls \cup {Trim(p.url)}]

\* Mutant: a comma ends a candidate wherever it stands.
SrcsetAtCommas(p, piece) ==
    CASE p.mode = "gap" -> IF piece \in {",", " "} THEN p
                           ELSE [p EXCEPT !.mode = "url", !.url = <<piece>>]
      [] p.mode = "url" -> IF piece \in {" ", ","} THEN Ended(p, "gap")
                           ELSE [p EXCEPT !.url = Append(@, piece)]
      [] OTHER -> IF piece = "," THEN [p EXCEPT !.mode = "gap"] ELSE p

\* What follows a candidate is skipped to the next comma.
srcsetCandidates(p, piece) ==
    CASE p.mode = "gap" -> IF piece \in {",", " "} THEN p
                           ELSE [p EXCEPT !.mode = "url", !.url = <<piece>>]
      [] p.mode = "url" -> IF piece = " " THEN Ended(p, "descriptor")
                           ELSE [p EXCEPT !.url = Append(@, piece)]
      [] OTHER -> IF piece = "," THEN [p EXCEPT !.mode = "gap"] ELSE p

Fields(p, piece) ==
    CASE p.mode = "gap" -> IF piece = " " THEN p
                           ELSE [p EXCEPT !.mode = "url", !.url = <<piece>>]
      [] OTHER -> IF piece = " " THEN Ended(p, "gap")
                  ELSE [p EXCEPT !.url = Append(@, piece)]

\* One URL: the spaces around it do not count, those in it do.
Plain(p, piece) ==
    IF p.mode = "gap" /\ piece = " " THEN p
    ELSE [p EXCEPT !.mode = "url", !.url = Append(@, piece)]

\* A candidate that ends in a comma has no descriptor.
BrowserSrcset(p, piece) ==
    CASE p.mode = "gap" -> IF piece \in {",", " "} THEN p
                           ELSE [p EXCEPT !.mode = "url", !.url = <<piece>>]
      [] p.mode = "url" -> IF piece # " " THEN [p EXCEPT !.url = Append(@, piece)]
                           ELSE Ended(p, IF Last(p.url) = "," THEN "gap" ELSE "descriptor")
      [] OTHER -> IF piece = "," THEN [p EXCEPT !.mode = "gap"] ELSE p

Candidates(p) == IF p.mode = "url" THEN Ended(p, "gap").urls ELSE p.urls

\* What the page asks for at the server's root, in a browser: the place a
\* path leads to, its detours taken.
LeadsOut(url) ==
    LET path == Paths[url[1]].path
        last == {i \in DOMAIN path : path[i] = ".."}
        place == IF last = {} THEN path ELSE SubSeq(path, 1 + CHOOSE i \in last : TRUE, Len(path))
    IN  ~Paths[url[1]].network /\ ( \/ place[1] = "assets"
                                    \/ place[1] = "login" /\ Len(url) = 1 )

----------------------------------------------------------------------------
(* The page. *)

Init ==
    /\ scopes = <<FALSE>>
    /\ open = <<>>
    /\ attribute = ""
    /\ code = NewParser
    /\ browser = NewParser
    /\ pieces = 0
    /\ rejected = FALSE
    /\ loads = FALSE

Reading == ~rejected /\ ~loads

\* A template is inert unless it may become a shadow root of something live.
\* On these pages every shadow template stands in a div of its own, to which a
\* browser attaches it; LoginForm has those that it does not attach.
Inert(kind) == Last(scopes) \/ kind = "inert"

OpenTemplate ==
    /\ Reading /\ attribute = ""
    /\ Len(open) < MaxDepth
    /\ \E kind \in {"inert", "shadow"} :
        /\ open' = Append(open, kind)
        /\ scopes' = Append(scopes, Inert(kind))
    /\ UNCHANGED <<attribute, code, browser, pieces, rejected, loads>>

CloseTemplate ==
    /\ Reading /\ attribute = ""
    /\ open # <<>>
    /\ open' = Front(open)
    /\ scopes' = Front(scopes)
    /\ UNCHANGED <<attribute, code, browser, pieces, rejected, loads>>

BeginAttribute ==
    /\ Reading /\ attribute = ""
    /\ \E kind \in {"plain", "srcset", "list"} : attribute' = kind
    /\ code' = NewParser
    /\ browser' = NewParser
    /\ UNCHANGED <<scopes, open, pieces, rejected, loads>>

\* Commas belong to srcsets, and two paths never touch.
WritePiece ==
    /\ attribute # ""
    /\ pieces < MaxPieces
    /\ pieces' = pieces + 1
    /\ \E piece \in Pieces :
        /\ piece = "," => attribute = "srcset"
        /\ piece \notin Marks /\ browser.mode = "url" => Last(browser.url) \in Marks
        /\ Bare \/ ~(piece = " " /\ browser.mode = "url" /\ Last(browser.url) = ",")
        /\ code' = CASE attribute = "srcset" -> srcsetCandidates(code, piece)
                     [] attribute = "list" -> Fields(code, piece)
                     [] OTHER -> Plain(code, piece)
        /\ browser' = CASE attribute = "srcset" -> BrowserSrcset(browser, piece)
                        [] attribute = "list" -> Fields(browser, piece)
                        [] OTHER -> Plain(browser, piece)
    /\ UNCHANGED <<scopes, open, attribute, rejected, loads>>

EndAttribute ==
    /\ attribute # ""
    /\ attribute' = ""
    /\ rejected' = (~Last(scopes) /\ \E url \in Candidates(code) : isRootRelativeLoginURL(url))
    /\ loads' = ("inert" \notin ToSet(open) /\ \E url \in Candidates(browser) : LeadsOut(url))
    /\ UNCHANGED <<scopes, open, code, browser, pieces>>

Next == OpenTemplate \/ CloseTemplate \/ BeginAttribute \/ WritePiece \/ EndAttribute

Spec == Init /\ [][Next]_vars

----------------------------------------------------------------------------
(* Properties. *)

\* README.md on login themes: start-up rejects root-relative /login and
\* /assets/ references.
RootRelativeRejected == loads => rejected

\* And nothing else: a page that keeps to its realm starts.
RealmRelativeAccepted == rejected => loads

============================================================================
