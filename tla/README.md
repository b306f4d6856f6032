# A TLA+ model of hoocloak

hoocloak is a small OpenID Connect provider for development and tests. One
process serves several realms; all protocol state of a realm is in memory. This
directory holds TLA+ modules translated from the Go source, TLC configurations
that check them on small instances, and TLAPS proofs of most of the checked safety
properties for every value of the constants. `PROJECT.json` maps each definition
to the lines it models.

## The system

| Part | Source | State | Operations | Interacts with |
|---|---|---|---|---|
| Store | `internal/idp/storage.go` | maps of authorization requests, codes, access records, refresh records and families, the cached `nextExpiry`, one mutex | create, complete and delete requests; save and reserve codes; create and rotate tokens; revoke; end a session; look up; prune | called by every handler; reads the clock |
| Token endpoints | the OpenID library over the store | what a handler holds between two store calls | code exchange, refresh, client credentials, revocation, logout, introspection, userinfo | several store calls per request, other requests in between |
| Sign-in | `internal/idp/server.go` over the store | CSRF and completion cookies in browsers, the one-time secret of a request | authorize, login form, credential check, callback | bcrypt runs outside the mutex |
| Credential hashing limit | `compareCredential` | a channel of `GOMAXPROCS` slots | take a slot or refuse, give it back | logins and client credentials |
| Process | `cmd/hoocloak/main.go`, `NewServer` | effective configuration, keys, realms, listener goroutine, error channel, signal | load, override, validate, build, listen, shut down | environment, operating system, `net/http` |
| Protocol gates | `internal/idp/server.go` | none | method, body, repeated parameters, client authentication, PKCE shape | in front of the library |
| Userinfo answer | `internal/idp/server.go`, `SetUserinfoFromToken` | the captured answer of one call | compare the origin, capture, rewrite refusals | around the library; beside the CORS policy |
| Configuration | `internal/config/config.go` | the maps of `Validate` while it reads | load, validate, canonicalise hosts | read once; `NewStore` and `newClient` index it |
| Theme validation | `internal/idp/server.go` | the walker's stack and the form record while it reads | load templates, walk the HTML, check the form and the links | read once; judges what browsers will see |
| Rest | `client.go`, assets, discovery, `hash`, `health`, chart, UI, examples | none | static answers, one-shot commands | |

What is hard here: handlers that hold data across several locked sections
(exchange, refresh, revocation, password login), clocks read before a lock, an
expiry cache that decides whether a scan is made at all, one-time values (code,
refresh token, completion secret) raced by concurrent or repeated requests, hash
slots shared by realms, and a shutdown that races the listener's failure. Then
there is code that predicts what other software does with the same input: the
gates (which occurrence of a parameter the library takes), the origin and host
rules (what a browser sends), the theme checks (what a browser makes of a page). Nothing is persisted: a restart
loses all state, so there is no recovery to model. The correctness properties
that follow from this are listed with the runs; `PROJECT.json` lists the hazards
at their lines.

## Modules

`Store` is the store as a record of sets; each set is a Go map, its records carry
their key. The methods of the source are operators on a store value, with the
source's names. Every method runs under the mutex from its prune to its last
assignment, so each is applied in one step by the modules that EXTEND `Store`.
Identifiers, drawn at random in the code, are consecutive numbers from `serial`;
0 is the empty string, the zero hash and the zero time. `revoked` is a history of
the families whose `revoked` flag was set, because the same call drops the object.
The assumptions of the module are what configuration validation guarantees: users
and clients share one namespace, custom scopes are not standard ones, lifetimes
are positive.

`TokenEndpoint` is what happens after a sign-in. A thread is a goroutine that
serves a request; `calls[th]` is what it holds between two store calls and the
stage names the call it made last. An exchange is `ExchangeLookup`,
`ExchangeCreate` (or `ExchangeRefused`), `SignAccessToken`, `SignIDToken`,
`ExchangeFinish`; a refresh is `RefreshLookup`, then `RefreshRotate` or
`RefreshRefused`; a revocation of a refresh token is `RevokeLookup`,
`RevokeToken`, the second also when the lookup found nothing, as the library then
passes the token on as it came; client credentials take and give back a hash slot before the
service's token is created. Handlers with one store call are one action
(`RevokeAccess`, `EndSession`, `Query`). The order of calls inside a handler is
the library's; the comparisons it makes (client, redirect, verifier, scope
narrowing) may refuse what the store found. The model starts after `Sessions`
completed sign-ins; every client, user and scope set is an initial state.

`LoginFlow` is what happens before: `/authorize`, the form, the password check
between two locked sections, identity selection, the completion secret and its
cookie, the callback that saves the code. Browsers are explicit, any of them may
open any login page and submit any user, and every answer that sets or clears a
cookie may be lost. A clock read that precedes a lock (`CreateAuthRequest`,
`Authenticate`, `SelectIdentity`) is some time between the thread's previous step
and now (`ReadClock`).

`Serve` is the process: the start-up steps, each of which may fail, then the
listener's goroutine, the handlers, the signal and the bounded `Shutdown`.
`net/http` is external: `Shutdown` makes `ListenAndServe` return
`ErrServerClosed` and waits for the handlers until its context ends. Time is
counted only while `Shutdown` waits.

`TokenGrants` is the abstract specification of the two: codes that can be
redeemed, families with one current token and its access token, access tokens,
and steps that each change one grant. Records end at any step; none returns.
`GrantsOfStore` is the refinement mapping: a family is joined with its usable
refresh record, a code counts while it is unreserved; index, consumed records,
expiry cache and calls in flight have no counterpart. `ImplementsGrants` says
that every step of the handlers is a step of the grants or a stutter.

`Realm` composes `LoginFlow` and `TokenEndpoint` by INSTANCE over one store,
clock, slots and serial numbers, as `NewServer` mounts them: codes come out of
sign-ins, both sides interleave. `SharedSlots` composes two `LoginFlow`s, each
with its own store, over the slots of the process.

`ProtocolGates` is `protocolGates` and what it calls, a filter per request. A
client drafts a well-formed request of some endpoint, changes it in up to
`MaxEdits` places (method, authorization, origin, body, parameters in the query or
the body, removed or repeated) and sends it. The gates decide on `Form`, the
order `net/http` gives the values; the properties ask about every occurrence
(`Taken`), because the library may take any. Parameters with the same treatment
share a name (`state` for `nonce`, `token` for `code` and `refresh_token`). The
second half is the userinfo answer: the library writes to `responseCapture` in any
order, `userinfoResponse` sends what was captured.

`Configuration` is `Validate`: one action per realm, user and client read, the maps
`realmNames`, `ids` and `usernames` as variables, and on top of it what `NewStore`,
`newClient` and `configuredRedirectOrigins` make of the result. A text is one of a
few values that the rules tell apart; a catalogue says which entries a
configuration is put together from. `Hosts`, which it extends, is the rules for
URLs (origins, redirects and `base_url`): a URL is a scheme, a host that may be missing
and a port, with what may stand around them, a wildcard or backslash (`odd`),
credentials, a path, a query and a fragment. Hosts are names with labels, numbers of every radix, or IPv6 pieces; the URL
standard, written as a relation (which addresses a name denotes, the longest run
among all runs), is what the code's loops are compared with. An address byte has
`Byte` = 4 values instead of 256.

`LoginForm` is `validateLoginHTML` with the HTML walker, one action per tag or
text of the page; the checker is a record with the code's stacks, `page` what a
browser has built from the same tags: form owners across templates and shadow
roots, disabled fieldsets, options that can be sent, foreign content. A browser
attaches a shadow root to the live body or a live `div` that has none; elsewhere, in a form, a
fieldset, a select or a template, the template stays inert (`Hosts`). The mode of the
realm belongs to the vocabulary a page is written in. `csrf` stands for both hidden
inputs, `identity` for the control that names the user (the username in password
mode). Pages are well nested, and their tags are those in the body. `ThemeURLs` is `validateRealmRelativeURLs`: an attribute is read piece by
piece by the code's scan and by a browser's parser; its shadow templates each stand in a
`div` of their own. `Preflight` is
`preflightUITemplates`, which gives the pages of a theme to both.

`MCTokenEndpoint`, `MCLoginFlow`, `MCServe`, `MCRealm`, `MCSharedSlots`,
`MCProtocolGates`, `MCConfiguration` and `MCPreflight` give the constants values.
The proofs are in modules of their own: `StoreProofs` has the lemmas about the
store's methods; `TokenEndpointProofs` those about the token handlers, in order the
invariant of single steps, the calls that span several, and the refinement of
`TokenGrants`; `LoginFlowProofs`, `SharedSlotsProofs`, `ServeProofs`,
`ProtocolGatesProofs` and `ConfigurationProofs` are about the module in their name, and
`RealmProofs` puts the two sides of a realm together. Definitions marked
*Mutant* are plausible mistakes in the code; each property is violated when one
of them replaces the definition that follows it.

## Runs

| Run | What it shows |
|---|---|
| `TokenRace` | Two requests at a time on one sign-in, four in all. A code creates tokens once (`CodeRedeemedOnce`) and its winner loses the request only to the five minutes (`WinnerKeepsItsRequest`); the two tokens keep their audiences (`AudienceOrder`); a family has one usable pair (`FamilyHoldsOnePair`); a revocation ends the family of its token although the token was rotated before it or is rotated meanwhile (`RevocationIsFinal`); cleanup finds every record (`RefreshIndexComplete`). |
| `TokenOwners` | Two offline sign-ins at one or two clients, three requests, one at a time, access tokens that outlive their family. A revoked family leaves nothing (`RevokedFamilyIsGone`), answers are live (`AnswersAreLive`), logout takes all of one owner for good (`LogoutIsFinal`), and every request is answered (`CallsReturn`). |
| `LogoutSignIns` | Expected violation: see Findings. |
| `LoginRace` | Two browsers race with passwords for one request: one sign-in, which nothing changes later (`OneSignInPerRequest`), and none by a credential check that ended after the request's lifetime: the time of authentication it records is within that lifetime and no earlier than the end of the check, while the completion itself, whose clock is read before the lock, may come later (`SignInWithinLifetime`); the code reaches the browser that signed in (`CodeReachesSigner`); the secret passes one callback (`SecretPassesOnce`); codes share their request's lifetime (`CodesFollowRequests`). |
| `LoginQueue` | Three authorizations for two places, clocks read before the lock, identities selected without a password: expired requests hold no place (`RefusedOnlyWhenFull`), the cache stays safe when requests are stored out of clock order (`CacheIsTransparent`), and the one locked section of a selection decides as the two of a password do (`OneSignInPerRequest`). |
| `RealmFlow` | One realm, two browsers, two users, a service, from `/authorize` to logout. A token belongs to the user who signed in to the request it came from, and its code went to that browser only (`TokenOfSigner`); scopes stay within what was granted (`TokenScopesAllowed`); the whole implements `TokenGrants` (`ImplementsGrants`). |
| `TwoRealms` | Two realms, a login in each, one slot: the slots in use are the checks of both (`SlotsCountBothRealms`), and every login is answered although each competes with the other realm's (`CallsReturn`). |
| `ServeRace` | All environments and all orders of requests, listener failure and signal: a clean exit cut no handler off (`CleanExitIsDrained`), a failed listener is reported (`FailureIsReported`), requests are served by all realms with the configured mode and theme (`ServedAsConfigured`), and a signal ends serve even if a handler hangs (`SignalEndsServe`). |
| `Gates` | What passes meets the documented rules whichever occurrence of a parameter is used, with a bounded body (`MandatoryParametersHold`), and has one client identity (`OneClientIdentity`). A userinfo answer is what the library would have sent, refusals apart, and claims reach only pages of the token's client (`UserinfoAnswers`). |
| `Validate` | `Validate` rejects exactly when the settings or the realms read so far break a rule of `README.md`, said of whole configurations; origins are accepted exactly as browsers send them, with nothing after them (`RejectsWhatRulesForbid`). Of what it accepts: the store's maps lose no entry, subjects are unambiguous and every spelling of a username finds its user (`StoreFindsEveryone`); service scopes can be granted, cleartext redirects are served, cookies and TLS follow the scheme (`ServerFitsConfiguration`); the policy sources of redirects with plainly written hosts name their origins, however the ports are written (`PolicyNamesRedirects`). The form suggested for a rejected origin is the same host (`SuggestedHostIsTheHost`). |
| `Preflight` | An accepted login page has one live POST form, which goes to the realm's login in the encoding its handler reads (`OnePostForm`) and sends each mandatory value once, a password from a password input (`ControlsSubmitOnce`), whatever fieldsets, templates, options and kinds of control it uses, and no submit button of it redirects the credentials (`NoOverride`). With one SVG at a time, walker and browser agree on where HTML is (`NamespacesAgree`). A page is rejected exactly when a browser would ask for `/login` or `/assets` at the server's root (`RealmRelativeOnly`). |
| `ThemeSrcset` | Expected violation: see Findings. |

**Bounds.** Two threads are enough for every race of two handlers; a third adds
no new pair of locked sections, and each property is about one code, family or
request. `MaxCalls` = 4 in `TokenRace` allows an exchange and three more requests, so a
rotation, its replay and a revocation overlap; `TokenOwners` has two sign-ins to tell
apart and takes three requests, two exchanges and what ends one of them. `MaxTime` lets authorization requests,
access tokens and families expire in different orders: `RefreshTTL` is above
`AccessTTL` in `TokenRace` and below it in `TokenOwners`. `HashSlots` = 1 makes
the slots run out with two threads. `maxPendingAuthRequests` is 1 or 2 so that
the limit is met. The bounds on time, calls, requests and logouts are guards of
the actions; reaching them ends nothing but new input. Threads and browsers are
symmetric.

`RealmFlow` has one request and one thread a side: the races inside a side are
those of the other runs, its own are between the sides. Its lifetimes are one tick of
two, enough for a request or a token to expire between any two steps. `TwoRealms`
has one login per realm and one slot, so that either finds it taken by the other. `Gates` takes two changes,
because a gate is fooled by a pair (a parameter here and another there); every
single value of every parameter occurs. `Validate` has catalogues for one question
each: one realm of any two users or clients (a clash needs two), two realms of a few
entries (a map kept too long needs a second), one realm under settings that each break a
rule or not, and single clients with URLs over all names of up to two
labels of numbers, three and four over fewer, every port and scheme, everything that may
stand around host and port in all combinations, and all 256
patterns of zero pieces of an IPv6 literal; with four values a byte, carries and
limits occur at every position. `Preflight` allows pages of 7 to 10 tags to a depth
of 3 to 5, in seven vocabularies for one question each: a hidden second form, an
exempted fieldset or an option in a disabled group need fewer.

Four restrictions keep known disagreements out of the passing runs, see Findings:
`plain` keeps controls, templates and nested SVG out of SVG content, `hosted` keeps
shadow templates that a browser would not attach out of live content other than selects,
`Bare` keeps candidates without a descriptor out of a `srcset`, and `AsBrowsersWrite` takes
redirect hosts without a final dot. `ThemeSrcset` lifts the third.

`CHECK_DEADLOCK FALSE` is used where the system really stops: a process that
returned, a request that was answered, a configuration or page that was judged.
In the others `Query` or `loginGET` may always happen.

**Fairness.** A thread that began keeps running (`WF` of its own steps): no store
method waits for anything but the mutex, and the slot channel is not waited for.
Nothing makes a client send a request or time pass. In `Serve`, `serve` itself
is fair, time passes while `Shutdown` waits, and a listener that `Shutdown`
closed returns; a handler may hang for ever.

## Proofs

All theorems hold for every value of the constants that meets the named assumptions,
and so for any number of threads, browsers, clients, users, realms, calls and ticks.
The assumptions are those of `Store` (what `Validate` guarantees), the ranges of the
bounds in `TokenEndpoint`, `LoginFlow`, `Realm` and `Serve`, and what makes a record
stand for a text: no configured origin is the empty one, which is a request without
`Origin` (`ProtocolGates`), and redirects are lists of URLs whose records say no more
than the text does (`Configuration`). TLC evaluates each of them.

**Store** (`StoreProofs`). One lemma per method: it keeps the type and `Consistent`;
what it adds, keeps and takes away; and for the methods of a sign-in that it keeps
`RequestsSound`. `Consistent(store, serial)` is the part of every invariant below that
is about the maps:

- subjects of completed requests and usable tokens are known (`SubjectsKnown`);
- nothing expires before `nextExpiry` (`ExpiryCovered`), without which the prune that
  skips its scan could keep an expired record;
- families are unique, each refresh record has its family and each usable one is in
  its index (`IndexSound`);
- a family has one usable token and its access record is that token's (`OnePair`),
  which is why revocation, which finds access records only through usable refresh
  records, leaves none behind; revoked families are absent (`RevokedGone`);
- all identifiers in use were drawn before (`Drawn`), so that a new one collides with
  nothing.

`RequestsSound` says of authorization requests and codes that ids and codes are
unique, a code exists with its request and for as long, a secret is with a completed
request without a code, and the recorded time of an authentication was within the lifetime.

**Token handlers** (`TokenEndpointProofs`). `InvariantHolds` proves `Spec => []IInv`,
by one lemma per action. Its core, `HandlerInv`, is what the handlers keep whoever else
takes hashing slots, and the other proofs build on it: the types of the handlers' state,
`Consistent`, `CallReady` (what a thread may rely on between two calls, which is the type
of what it holds and never that the store still holds it), `RedeemedSpent` (the code of a
redeemed request is reserved or gone, the fact that makes `CodeRedeemedOnce` inductive)
and `CodeRedeemedOnce`. `IInv` adds `TypeOK` and `SlotsBalanced`, the slots that the token
handlers take themselves. From it: `TypeCorrect`, `CodeRedeemedAtMostOnce`, `OnePairPerFamily`,
`RevokedStaysGone`, `PruneCacheTransparent`, `AnswersLive`, `IndexComplete` and
`SlotsNeverLeak`.

**Calls that span several steps** (`TokenEndpointProofs`, second part). Each of these properties
relates what a handler found to what it does later; each needs a strengthening of its
own on top of `HandlerInv`, because the store may change in between:

| Theorem | Property | Invariant, and why it is needed |
|---|---|---|
| `AudienceInOrder` | `AudienceOrder` | `ExchangeInv`: exchanges under way are of different requests, so the flag a thread finds is the one it set |
| `WinnerKeeps` | `WinnerKeepsItsRequest` | `RequestInv`: requests have distinct codes, and a thread knows when its request expires; otherwise a delete of another exchange could hit the winner's request |
| `RevocationFinal` | `RevocationIsFinal` (action property) | `RevokeInv`: while the family is there, so is the record of the revoked token, consumed or not, whatever the lookup answered; the second call can then reach the family |
| `LogoutFinal` | `LogoutIsFinal` | `LogoutInv`: records of a family have its owner, a refresh in flight speaks for the owner of its token, and a logout knows of no identifier drawn later |
| `ScopesPermitted` | `TokenScopesAllowed` | `ScopesInv`: the scopes of completed requests, usable tokens and requests in hand are permitted, not only those of access records |

**Refinement** (`TokenEndpointProofs`, third part). `GrantsImplemented` proves `Spec => ImplementsGrants`:
the initial store maps to an initial state of `TokenGrants`, and every step of a
handler to a step of it or a stutter. `FamilyOf` and `AccessSeen` compute the mapping;
then there is one lemma per kind of step: a prune lets grants end (and takes a family
whole, `EndWhole`), an exchange redeems a code for a family or a token, a rotation
replaces the current token for no more scopes, revocation and logout end what they
name, the rest stutters. It uses `HandlerInv`, `RequestInv` (a code is redeemed for its
own request) and `LogoutInv` (narrowed scopes are those of the record that is rotated
now, not of the copy taken at the lookup).

**Sign-in** (`LoginFlowProofs`). `LoginInvariant` proves `LoginInv`: types, `Consistent`,
`RequestsSound`, that whoever completed a request is recorded as its one signer and the
completion secret and cookies that lead to it are that signer's (`SignersKnown`), and
that a request has one outcome on its way to a code (`OneOutcome`). It yields
`SignInUnique`, `CodeToSigner`, `SecretOnce`, `CodesHaveRequests`,
`LoginCacheTransparent`, and two action properties: `SignInInTime`, about the time a
completion records (its clock is read after the check and before the lock, and the prune
with the same clock takes what had expired by then), and `RefusedWhenFull`, which counts
the requests left by the handler's own prune.

**Realm** (`RealmProofs`). Neither side owns the store, so each proof module also says
what its side relies on and what it guarantees the other. A step of sign-in draws no identifier of
a token or family, ends only what its clock has passed (`OnlyLapses`), and changes a
request only before it has a code (`SignInStep`); under it the token invariants are kept
(`TokenRely`). A step of a token handler starts no request and changes none, it only takes
them away; under it `LoginInv` is kept (`LoginRely`). `RealmInv` is both invariants with
three facts about what passes between the sides:

- `Grounded` (of the token side): what is redeemed, or found by an exchange, is a request
  that had a code already, so that no step of sign-in changes it any more;
- `CodesDelivered`: a request that has a code was sent to a browser, so that an exchange
  that finds a request finds one whose redirect is on record;
- `Traced`: an exchange between lookup and redemption speaks for the signer of its request,
  and so does the token of one that is done. It is kept from the lookup on, because the
  request is gone when the exchange has ended.

Every `INSTANCE` makes its own copy of the definitions of `Store`. The lemmas whose
names end in `Same` state that the handlers `Realm` composes are the ones that were proved about.

| Theorem | What it establishes |
|---|---|
| `RealmInvariant` | `RealmInv`, with one lemma per side (`LoginSide`, `TokenSide`) |
| `TokenIsSigners` | `TokenOfSigner`, from `/authorize` to the token |
| `RealmScopes` | `TokenScopesAllowed` |
| `RealmGrants` | `ImplementsGrants`: a step of sign-in issues at most one code and otherwise ends what is over (`SignInGrants`), the token side as before |
| `RealmSignIns`, `RealmTokens`, `RealmRevocations` | what each side promises alone, it promises also with the other at work |

**Two realms** (`SharedSlotsProofs`). `SlotsShared`: a step of one realm moves one of its
threads and pays for the slot it takes or gives back (`StepOfA`, `StepOfB`), so the slots
in use stay the number of comparisons of both (`HashingMoves`).

**Process** (`ServeProofs`). `ServeInvariant` proves `ServeInv`: the configuration of each
phase follows file and environment, the state of the listener and the error channel
follows the phase, and so does the exit. It yields `CleanExit`, `FailureReported` and
`ServedRight`.

**Gates** (`ProtocolGatesProofs`). `GatesInv`: a request is well typed, and what reached
the library passed the gates unchanged. The proofs of `MandatoryHold` and `OneIdentity`
rest on `TakenIsGet`: of a parameter that is not repeated in body and query together,
every occurrence is the one the gate looked at. There is one lemma per kind of endpoint.
`UserinfoHolds` proves `UserinfoAnswers` for any number of writes in any order. Its
invariant `AnswerInv` relates the capture to what was written: the first status counts,
a write without one means 200, and the body is the data of the writes in their order,
stated as a correspondence between the two that keeps the order and misses nothing
(`DataInOrder`), which one more write extends.

**Configuration** (`ConfigurationProofs`), for any catalogue of entries:

| Theorem | Property | Invariant, and why it is needed |
|---|---|---|
| `StoreFindsAll` | `StoreFindsEveryone` | `KeysInv`: no two entries of a realm read so far share a key, whichever came first, and the maps hold all keys of the realm in progress, so that looking back is enough |
| `ServerFits` | `ServerFitsConfiguration` | `RulesInv`: each entry read keeps the rules of its type, until one is rejected |
| `PolicyNames` | `PolicyNamesRedirects` | `SourcesInv`: the sources are those of the realms in their order, none of them missing; with `PolicyIsOrigin`, that for a host as browsers write it the code's canonical form names the origin, literal included, ports compared as numbers |

**Model-checked only**

- `RejectsWhatRulesForbid` and `SuggestedHostIsTheHost`: the code's loops over the
  numbers and pieces of an address are folds, and what a fold computes for every input is
  an induction over data that the installed provers cannot do. What of the former is about
  clashes between entries is in `KeysInv`.
- `RealmRelativeOnly`: the scan of a `srcset` is compared with a browser's parser, piece
  by piece, over a text of any length.
- `OnePostForm`, `ControlsSubmitOnce`, `NoOverride` and `NamespacesAgree`: the
  last does not hold for every vocabulary (the last of the disagreements below) and the
  others rest on it where there is SVG, so that a theorem would need the restrictions of
  `MCPreflight` as assumptions, and an invariant that relates the five stacks of the checker
  to the one tree of the browser.
- `CallsReturn` and `SignalEndsServe`: liveness under fairness is out of their reach, as
  is ENABLED.

## Findings

- `LogoutSignIns`: `README.md` says of `/end_session` that it "Terminates provider
  state for the verified subject and client." `TerminateSession` removes access
  records and refresh families. A completed authorization request and its code
  stay, and the code can be redeemed after the logout.
- `ThemeSrcset`: root-relative references are to be rejected. In
  `srcset="{{.BasePath}}/assets/a.png, /assets/b.png 2x"` the second candidate is
  skipped as if it were the first one's descriptor.

Five more disagreements were met while modelling. The first four are the reason for
the restrictions `plain`, `hosted` and `AsBrowsersWrite`, the last for which words stand
beside `svg`:

- The documentation of login themes requires the mandatory controls to be enabled
  controls that submit one value. `validateLoginHTML` (`server.go:639`) goes by a
  tag's name, so an `input` inside `svg` is accepted as control; a browser makes an
  SVG element of it, which submits nothing.
- It requires exactly one POST form. `truncateForeign` (`server.go:337`) empties the
  whole foreign stack at an element that breaks out; a browser goes back to the
  nearest integration point. With an SVG in a `foreignObject` in an SVG, the two
  disagree from there on, and a second POST form is taken for inert content.
- It forbids inert template content to supply mandatory controls. `validateLoginHTML`
  (`server.go:519`) takes every template with a `shadowrootmode` for live unless it stands in
  a select or in inert content. A browser attaches it only to an element that may host a
  shadow root and has none: one directly in another template, in a form or fieldset, or
  the second of its parent is an ordinary template. A page whose only login form stands
  in such a template starts, and nobody can log in. `OnePostForm` and
  `ControlsSubmitOnce` fail within eight tags (a form with two controls, say in a
  template in a template) when `hosted` is `FALSE` for the vocabulary `templates`.
- `form-action` is to allow the redirect origins. For a host written with a final
  dot `canonicalRedirectOrigin` (`server.go:1392`) writes the source without, which
  is another origin.
- The walker's `close` (`server.go:382`) looks for an end tag's name among the foreign
  elements, also when the tag ends an HTML element in an integration point. In
  `<svg><legend><foreignObject><legend></legend>` it closes the outer, foreign `legend` and
  goes on as if in `svg`; a browser closes the inner one and stays in the
  `foreignObject`. `NamespacesAgree` fails within five tags when `legend` joins the words of the
  vocabulary `foreign`.

## Not modelled

Cryptography, JWT encoding and claims; discovery, assets and the signed-out page;
the `hash`, `health` and `version` commands; the chart, the UI sources and the
examples. They keep no protocol state and are static answers or one-shot commands.
A failure of the random source is not modelled: Go's `crypto/rand` does not return
one. YAML decoding and the reading of files are a start-up step that may fail.

Of themes: the tokenizer with the checks on raw tags and attribute names
(`validatedHTMLTag`), MathML, raw text in foreign content, the rendering of what stands
beside a shadow root, and the execution of templates; of links, parentheses in
descriptors, empty path segments, percent encoding and control characters. Of hosts:
IDNA beyond one label that changes, a host that is only dots, and percent escapes in
paths, fragments and credentials, which `url.Parse` may refuse.

Of the process: a request whose handler starts on an accepted connection while `Shutdown`
is waiting. In `Serve` no handler starts after the signal has closed the listener.

## Plan

Done: the store and its handlers, `Realm` and `SharedSlots`, `TokenGrants` and its
refinement, the gates, configuration and hosts, the theme checks, and the proofs
above, those of `Realm` included. What is left, should the code change there:

1. `LoginForm` with the restrictions of `MCPreflight` as assumptions, and an invariant that
   relates the walker's stacks to the open elements of the browser.
2. Two realms with all their handlers: `SharedSlots` composes only logins, because nothing but
   the slots is shared.
