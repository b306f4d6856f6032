------------------------------- MODULE Hosts -------------------------------
(***************************************************************************)
(* The URLs of a client's configuration: validateOrigin and                *)
(* validateRedirect of internal/config/config.go, with the canonical       *)
(* hosts under them, and canonicalRedirectOrigin of internal/idp/server.go, *)
(* which makes a redirect a source of the realm's form-action policy.      *)
(* What a browser makes of the same URL (the WHATWG URL standard) is the   *)
(* reference they are compared with.                                       *)
(*                                                                         *)
(* A host is a record that stands for one text: a name's labels are words  *)
(* or numbers, an IPv6 literal is its pieces and the place of "::".        *)
(***************************************************************************)
EXTENDS Integers, Sequences, SequencesExt, FiniteSets

CONSTANT Byte    \* the values of an address byte, 256; smaller in the model

ASSUME ByteAssumption == Byte \in 2..10

----------------------------------------------------------------------------
(* Texts.  A number is its prefix "", "0" or "0x" and its digits; a word   *)
(* has no digits that matter.                                              *)

Word(text) == [word |-> text, prefix |-> "", digits |-> <<>>]
Number(prefix, digits) == [word |-> "", prefix |-> prefix, digits |-> digits]
Name(labels) ==
    [labels |-> labels, dots |-> 0, upper |-> FALSE,
     pieces |-> <<>>, gap |-> <<0, 0>>, style |-> "plain"]

\* gap is the first piece "::" stands for and how many; style "dotted" ends
\* in an IPv4 address, "zone" has a zone identifier.
Literal(pieces, gap, style) ==
    [Name(<<>>) EXCEPT !.pieces = pieces, !.gap = gap, !.style = style]
IsLiteral(host) == host.pieces # <<>>

\* A record stands for a text if it says no more than the text does.
StandsForHost(host) ==
    IF IsLiteral(host) THEN host = Literal(host.pieces, host.gap, host.style)
    ELSE host = [Name(host.labels) EXCEPT !.dots = host.dots, !.upper = host.upper]

Port(value, zeros) == [value |-> value, zeros |-> zeros]
NoPort == Port(-1, FALSE)
EmptyPort == Port(-2, FALSE)
MaxPort == 65535
PortNumbers == 1..MaxPort
DefaultPort(scheme) == IF scheme = "http" THEN 80 ELSE 443

Lowercase(scheme) ==
    CASE scheme = "HTTP" -> "http" [] scheme = "HTTPS" -> "https" [] OTHER -> scheme

\* What else the text of a URL may have: a wildcard or a backslash somewhere
\* (odd), credentials, a path, a query, a fragment; an empty query or fragment
\* is its mark alone.
URL(scheme, host, port) ==
    [scheme |-> scheme, host |-> host, port |-> port, odd |-> FALSE, user |-> FALSE,
     path |-> "none", query |-> "none", fragment |-> "none"]
Paths == {"none", "root", "other"}
Queries == {"none", "empty", "some", "malformed"}
Fragments == {"none", "empty", "some"}

StandsForURL(u) ==
    /\ u.port = Port(u.port.value, u.port.zeros)
    /\ StandsForHost(u.host)

\* NoHost stands for the empty text, and for the error of a canonical form.
NoHost == Name(<<>>)

NoSource == [scheme |-> "", host |-> Name(<<>>), port |-> NoPort]

----------------------------------------------------------------------------
(* IPv4. *)

isRadixDigits(label, base) ==
    label.digits # <<>> /\ \A i \in DOMAIN label.digits : label.digits[i] < base

endsInIPv4Number(labels) ==
    LET last == Last(labels)
    IN  /\ last.word = ""
        /\ \/ last.prefix # "0x" /\ isRadixDigits(last, 10)
           \/ last.prefix = "0x"

\* -1 stands for the error.
parseBrowserIPv4Number(label) ==
    LET base == CASE label.prefix = "0x" -> 16 [] label.prefix = "0" -> 8 [] OTHER -> 10
        Shift(value, digit) ==
            IF value < 0 \/ digit >= base \/ value * base + digit >= Byte ^ 4 THEN -1
            ELSE value * base + digit
    IN  IF label.word # "" THEN -1 ELSE FoldLeft(Shift, 0, label.digits)

Quad(value) == [i \in 1..4 |-> (value \div Byte ^ (4 - i)) % Byte]

\* Mutant: the last number fills one byte however few there are.
parseBytewise(labels) ==
    LET numbers == [i \in DOMAIN labels |-> parseBrowserIPv4Number(labels[i])]
    IN  IF Len(labels) > 4 \/ \E i \in DOMAIN numbers : numbers[i] \notin 0..(Byte - 1)
        THEN <<>>
        ELSE [i \in 1..4 |-> IF i \in DOMAIN numbers THEN numbers[i] ELSE 0]

\* The four bytes, <<>> for an error.
parseBrowserIPv4Host(labels) ==
    LET n == Len(labels)
        numbers == [i \in DOMAIN labels |-> parseBrowserIPv4Number(labels[i])]
        Add(value, i) == value + numbers[i] * Byte ^ (IF i = n THEN 0 ELSE 4 - i)
    IN  IF \/ n > 4
           \/ \E i \in 1..n : numbers[i] < 0
           \/ \E i \in 1..(n - 1) : numbers[i] >= Byte
           \/ numbers[n] >= Byte ^ (5 - n)
        THEN <<>>
        ELSE Quad(FoldLeft(Add, 0, [i \in 1..n |-> i]))

Dotted(quad) == Name([i \in 1..4 |-> Number("", <<quad[i]>>)])

----------------------------------------------------------------------------
(* IPv6. *)

\* The scan for the longest run of zero pieces: the run in progress replaces
\* the best when it ends and is longer.
Better(scan) ==
    IF scan.length > scan.bestLength
    THEN [scan EXCEPT !.best = scan.start, !.bestLength = scan.length] ELSE scan

Scan(pieces) ==
    LET Step(scan, i) ==
            CASE pieces[i] # 0 -> [Better(scan) EXCEPT !.start = 0, !.length = 0]
              [] scan.start = 0 -> [scan EXCEPT !.start = i, !.length = @ + 1]
              [] OTHER -> [scan EXCEPT !.length = @ + 1]
    IN  FoldLeft(Step, [best |-> 0, bestLength |-> 1, start |-> 0, length |-> 0],
                 [i \in DOMAIN pieces |-> i])

serializeIPv6(pieces) ==
    LET scan == Better(Scan(pieces))
    IN  Literal(pieces, IF scan.best = 0 THEN <<0, 0>> ELSE <<scan.best, scan.bestLength>>,
                "plain")

----------------------------------------------------------------------------
(* Canonical hosts. *)

ToASCII(label) == IF label.word = "wide" THEN Word("xn--wide") ELSE label

canonicalDomainHost(host) ==
    Name([i \in DOMAIN host.labels |-> ToASCII(host.labels[i])])

canonicalIPv6Host(host) ==
    IF host.style = "zone" THEN NoHost ELSE serializeIPv6(host.pieces)

canonicalOriginHost(host) ==
    LET name == canonicalDomainHost(host)
        quad == parseBrowserIPv4Host(name.labels)
    IN  CASE IsLiteral(host) -> canonicalIPv6Host(host)
          [] ~IsLiteral(host) /\ ~endsInIPv4Number(name.labels) -> name
          [] OTHER -> IF quad = <<>> THEN NoHost ELSE Dotted(quad)

\* Loopback is 127.0.0.0/8, whose first byte is the highest of the model's
\* seven-bit values, and ::1.
Loopback == Byte \div 2 - 1
IsLocalHost(host) ==
    \/ host.dots <= 1 /\ ~IsLiteral(host) /\ Last(host.labels).word = "localhost"
    \/ /\ host.dots <= 1 /\ Len(host.labels) = 4
       /\ \A i \in 1..4 : host.labels[i].word = "" /\ host.labels[i].prefix = ""
                          /\ parseBrowserIPv4Number(host.labels[i]) \in 0..(Byte - 1)
       /\ parseBrowserIPv4Number(host.labels[1]) = Loopback
    \/ host.pieces = <<0, 0, 0, 0, 0, 0, 0, 1>> /\ host.style # "zone"

----------------------------------------------------------------------------
(* The checks of the configuration. *)

\* A text without a scheme has none that is absolute.
validateAbsoluteURL(u) ==
    /\ ~u.odd
    /\ u.scheme # "" /\ u.host # NoHost /\ ~u.user
    /\ u.port = NoPort \/ u.port.value \in PortNumbers

validateScheme(u) ==
    \/ Lowercase(u.scheme) = "https"
    \/ Lowercase(u.scheme) = "http" /\ IsLocalHost(u.host)

canonicalPort(u) ==
    IF u.port.value = DefaultPort(Lowercase(u.scheme)) THEN NoPort
    ELSE Port(u.port.value, FALSE)

\* The canonical form ends after the port, empty marks included.
validateOrigin(u) ==
    /\ validateAbsoluteURL(u)
    /\ u.path = "none" /\ u.query \in {"none", "empty"} /\ u.fragment \in {"none", "empty"}
    /\ canonicalOriginHost(u.host) # NoHost
    /\ u = URL(Lowercase(u.scheme), canonicalOriginHost(u.host), canonicalPort(u))
    /\ validateScheme(u)

validateRedirect(u) ==
    /\ validateAbsoluteURL(u)
    /\ u.query # "malformed" /\ u.fragment = "none"
    /\ validateScheme(u)

----------------------------------------------------------------------------
(* The policy. *)

validPort(port) == port = NoPort \/ port.value \in PortNumbers

\* Mutant: a port that is some scheme's default is left out of both.
portSuffixAnyDefault(scheme, port) ==
    IF port \in {Port(80, FALSE), Port(443, FALSE)} THEN NoPort ELSE port

\* The default port is recognised by its text.
portSuffix(scheme, port) ==
    IF port = Port(DefaultPort(scheme), FALSE) THEN NoPort ELSE port

PolicyLabel(label) == label.word \notin {"", "a_b", "-a"} \/ label.digits # <<>> \/ label.prefix = "0x"

\* An IPv6 literal is lowercased and otherwise kept.
canonicalRedirectOrigin(u) ==
    LET scheme == Lowercase(u.scheme)
        name == canonicalDomainHost(u.host)
    IN  IF \/ u.host = NoHost \/ scheme \notin {"http", "https"} \/ ~validPort(u.port)
           \/ IF IsLiteral(u.host) THEN u.host.style = "zone"
              ELSE u.host.dots > 1 \/ \E i \in DOMAIN name.labels : ~PolicyLabel(name.labels[i])
        THEN NoSource
        ELSE [scheme |-> scheme, port |-> portSuffix(scheme, u.port),
              host |-> IF IsLiteral(u.host)
                       THEN [u.host EXCEPT !.style = IF @ = "upper" THEN "plain" ELSE @]
                       ELSE name]

----------------------------------------------------------------------------
(* The URL standard. *)

Radix(label) == CASE label.prefix = "0x" -> 16 [] label.prefix = "0" -> 8 [] OTHER -> 10
Value(label) ==
    LET n == Len(label.digits)
    IN  FoldLeft(LAMBDA sum, i : sum + label.digits[i] * Radix(label) ^ (n - i), 0,
                 [i \in 1..n |-> i])

\* The addresses a name denotes: its numbers are the leading bytes, the last
\* one all the bytes that are left.
Addresses(labels) ==
    LET n == Len(labels)
    IN  {quad \in [1..4 -> 0..(Byte - 1)] :
            /\ n <= 4
            /\ \A i \in 1..n : /\ labels[i].word = ""
                               /\ \A d \in ToSet(labels[i].digits) : d < Radix(labels[i])
            /\ \A i \in 1..(n - 1) : quad[i] = Value(labels[i])
            /\ Value(labels[n]) =
                 FoldLeft(LAMBDA sum, i : sum + quad[i] * Byte ^ (4 - i), 0,
                          [k \in 1..(5 - n) |-> k + n - 1])}

\* The first of the longest runs of two or more zero pieces.
Runs(pieces) ==
    {run \in (1..8) \X (2..8) :
        /\ run[1] + run[2] <= 9
        /\ \A i \in run[1]..(run[1] + run[2] - 1) : pieces[i] = 0}
LongestRun(pieces) ==
    IF Runs(pieces) = {} THEN <<0, 0>>
    ELSE CHOOSE run \in Runs(pieces) : \A other \in Runs(pieces) :
            other[2] < run[2] \/ (other[2] = run[2] /\ run[1] <= other[1])

EndsInNumber(labels) ==
    /\ Last(labels).word = ""
    /\ \/ Last(labels).prefix = "0x"
       \/ \A d \in ToSet(Last(labels).digits) : d < 10

\* The host of the origin a browser sends; a name keeps its final dot.
BrowserHosts(host) ==
    LET labels == [i \in DOMAIN host.labels |-> ToASCII(host.labels[i])]
    IN  CASE IsLiteral(host) ->
                IF host.style = "zone" THEN {}
                ELSE {Literal(host.pieces, LongestRun(host.pieces), "plain")}
          [] ~IsLiteral(host) /\ EndsInNumber(labels) ->
                IF host.dots > 1 THEN {} ELSE {Dotted(quad) : quad \in Addresses(labels)}
          [] OTHER -> {[Name(labels) EXCEPT !.dots = host.dots]}
BrowserOrigins(u) ==
    {[scheme |-> Lowercase(u.scheme), host |-> host,
      port |-> IF u.port.value \in {-2, DefaultPort(Lowercase(u.scheme))} THEN NoPort
               ELSE Port(u.port.value, FALSE)] : host \in BrowserHosts(u.host)}

Origin(u) == [scheme |-> u.scheme, host |-> u.host, port |-> u.port]

\* The port a source names: it is compared as a number, and none is the
\* default one.
NamedOrigin(source) ==
    [source EXCEPT !.port =
        IF source.port.value = DefaultPort(source.scheme) THEN NoPort
        ELSE Port(source.port.value, FALSE)]

============================================================================
