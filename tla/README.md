# A verification project for easy-sso

easy-sso validates OpenID Connect tokens of Microsoft Entra ID and Google in
web servers. It exists twice, as a Node package (`src/packages/node`) and as a
Go package (`src/packages/go`), which are meant to behave alike. This directory
holds TLA+ models of both, TLC runs that check them on small instances, and
proofs that TLAPS checks for every instance.

Run `tlc -config <run>.cfg <module>` with the module named in the table of
runs, and `tlapm <module>.tla` for each `*_proofs` module.

## The system

| component | state | operations | talks to |
|---|---|---|---|
| key cache (`cache/memory-key-cache.ts`, `cache/memory_key_cache.go`) | entries with expiry, loads in flight, disposed, refresh timer or goroutine | get, refresh, delete, clear, evictExpired, dispose, the background refresh | calls a loader; is called by the JWKS client |
| JWKS client (`jwks/jwks-client.ts`, `internal/oidc/jwks.go`) | its cache | resolve keys, refresh, prime, dispose | fetches the provider's key set |
| validators (`providers/*/token-validator.ts`, `provider/*`, `internal/oidc/jwt.go`) | none | validate a token | JWKS client, jose (Node) |
| configuration (`config/`, `providers/google/config.ts`, `provider/google/config.go`) | none | validate and normalise | read by everything above |
| claims mapping | none | claims to `AuthUser` | called by the providers |
| middleware and guards (`middleware/`) | the request's user | authenticate a request, require a user or roles | providers, the application's handler |
| login webapp (`examples/login-webapp`, `packages/go/examples/login-webapp`) | sessions in memory, cookies in the browser | start a login, handle the callback, logout, /api/me | the providers' validators, the identity provider |
| errors, core types, facades, other examples | none | data types and wiring | |

What is hard to test here:

* **Concurrency in the cache.** In Node, callers, the timer and the handlers of
  a load's promise interleave at microtasks; in Go, goroutines are preempted
  between critical sections. Single flight, a forced refresh that joins an
  older load, a load that lands after `dispose`, a stale entry that stands in
  for a failing load, all meet there.
* **Key rotation.** How soon a new key is accepted and how long an old one
  still is depends on cache, refresh, stand-in and on the duration of fetches.
* **Clocks.** Node reads the clock before it waits for the key set, Go after.
* **The two-step trust of Microsoft tokens.** Unverified claims choose the
  issuer that the verified token is compared with.
* **Two implementations** that apply defaults, compare times and read headers
  each in their own way.
* **Tabs.** The login webapp keeps one state, nonce and flow per session, which
  all tabs and all callbacks under way share. The Go demo also reads and writes
  them from several goroutines without a lock.

What makes each component correct: of the cache, single flight, no lost
waiter, no roll-back of versions, bounded staleness, and that calls are
answered; of key rotation, the bound on a withdrawn key and the pick-up of a
new one; of validation and the middleware, that the handler runs exactly for
the requests the configuration wants; of the webapp, that only the newest login
attempt of a session signs someone in, once, and that logout lasts; of the Go
demo, what of this remains when the fields are written one by one, and what does
not.

## Modules

| module | models | correspondence |
|---|---|---|
| `KeyCache` | what both caches promise: per key an entry and at most one flight, which opens, decides and closes | abstract; entries and their expiry are the code's, the flight abstracts promise chains and goroutines |
| `MemoryKeyCache` | `cache/memory-key-cache.ts` | `entries`, `inFlight`, `disposed` are the fields; `loads` are the promise chains (slots stand for promise identities) and `.then`, `.catch`, `.finally` are actions of their own, for other code runs between them; `task` is what each caller awaits; `newest` is history |
| `GoKeyCache` | `cache/memory_key_cache.go` | one action per critical section; `proc` holds each goroutine's place between them; `refreshLoop` is a goroutine of its own; releasing the lock and `wg.Done` are two steps |
| `TokenValidation` | JWKS client and the validators' retry over rotating keys (Node) | an instance of `MemoryKeyCache` with one key, the JWKS URI; its source is the provider's endpoint, whose version v publishes `KeysOf[v]`, perhaps nothing |
| `GoTokenValidation` | `internal/oidc/jwks.go` and `VerifySignature` (Go) | the same over an instance of `GoKeyCache`; a document without usable keys is a failed load here, and `GetKey` and `RefreshKey` are calls between which goroutines are preempted |
| `ProviderConfig` | the four configuration validators | a raw record is rejected or normalised, for Node and Go |
| `TokenPolicy` | what the validators ask of a token | each check with its error code, in the order of the code; what happens before and after the key set is awaited is kept apart |
| `ClaimsMapping` | claims to user | first matching source, texts and lists; `words[p]` are the words package p reads in a value, for Go splits a text at any white space and Node at blanks; roles are a set, for a guard asks only which ones are held |
| `Middleware` | one request in Node and in Go side by side | `NodeReceives`/`NodeVerifies` are the stretches before and after the await of the key set, `GoReceives`/`GoVerifies` those around `GetKey`; when the set lacks the token's kid, `NodeRetries` and `GoRetries` follow a second fetch, Node's with the clock of the first |
| `LoginWebapp` | `examples/login-webapp/src/server.ts` | `session` are the session objects (a callback keeps its reference over two awaits), `stored` the ids in the map, `cookie` and `setCookie` the browser's cookies and those on their way |
| `GoLoginWebapp` | `packages/go/examples/login-webapp/main.go` | the same routes, one access to one field at a time: `left` are the fields a request has still to read or write, in any order, for nothing orders the accesses of two goroutines; a read that races with a write may also be torn (a Go string is two words), which ends the request |
| `MC*` | the instances TLC checks | |
| `MemoryKeyCache_proofs`, `GoKeyCache_proofs` | theorems about either cache, and that it implements `KeyCache` | |
| `TokenValidation_proofs`, `GoTokenValidation_proofs` | theorems about the clients: which keys are no longer accepted, and which tokens are never turned down | |
| `Middleware_proofs` | theorems about one request in both packages | the configuration, the checks and the mapping are reasoned about here, too |
| `LoginWebapp_proofs`, `GoLoginWebapp_proofs` | theorems about either webapp | |

`MemoryKeyCache` and `GoKeyCache` both state `ImplementsKeyCache`, the
refinement of `KeyCache`. The mapping reads off the flight of a key from the
load that runs: before its decision it is open, after `.then` or `.catch` (Go:
after the last critical section of `load`) it is decided, and it closes when the
waiters get their answer.

Several definitions have a sibling that does the same thing with a mistake in it
(`SharesNothing` beside `Shares`, `NoNonceCheck` beside `NonceMatches`). They
are used by no specification; `PROJECT.json` lists under `mutants` which
property notices which mistake.

## Runs

| run (cfg) | module | instance | shows |
|---|---|---|---|
| `node_cache` | `MemoryKeyCache` | 1 key, 2 callers, 2 slots, TTL 1, grace 1, time to 2, 2 versions | type correctness, single flight, no orphaned wait, no roll-back, stand-ins within grace, every call is answered, refinement of `KeyCache` |
| `go_cache` | `MCGoKeyCache` | 1 key, 1 caller and the refresher, loaders that may panic, time to 3, 2 versions | as for Node; the refresher ends after `Dispose` |
| `go_cache_dispose` | `MCGoKeyCache` | 1 key, 2 callers, no grace | violation: `Get` after `Dispose` may return a value |
| `go_cache_panic` | `MCGoKeyCache` | 1 key, 2 callers | violation: whoever waits for a load whose loader panicked waits for ever |
| `node_validation` | `MCTokenValidation` | 2 key ids, key sets {a}, {}, {b}, 1 request at a time, fetches up to 1 unit, time to 4 | withdrawn keys are accepted for less than two TTLs and two fetches; new keys are picked up; outages are tolerated; every request is decided |
| `go_validation` | `MCGoTokenValidation` | the same with the background goroutine, time to 3 | withdrawn keys are accepted for less than two TTLs and one load; new keys are picked up; outages, the empty document included, are tolerated |
| `middleware` | `MCMiddleware` | 8527 cases, time to 4 | no way in for a bad token, no good token refused, times, agreement of Node and Go |
| `middleware_exp` | `MCMiddleware` | same | violation: Node serves a token without `exp` |
| `login_webapp` | `LoginWebapp` | 1 browser, 2 providers, 2 sessions, 2 attempts, 2 callbacks at once | newest attempt only, once, logout lasts, callbacks end |
| `go_login_webapp` | `MCGoLoginWebapp` | 2 providers, 2 sessions, 2 attempts, 2 requests at once | but for tokens without a nonce of a login that a sign-in overtook, no outdated attempt signs in, and none again after a sign-in with its nonce was complete; undisturbed logins go through, logout lasts |
| `go_login_provider` | `MCGoLoginWebapp` | same, 1 session | violation: a code may go to the provider of another login |
| `go_login_replay` | `MCGoLoginWebapp` | 2 providers, 1 session, 2 attempts, 2 requests at once | violation: two callbacks of one login pass, the second after the first has finished |

**Bounds.** Two versions are the least for a value to become old while someone
waits for it, and two slots for two loads of one key to overlap if single
flight failed. In `node_cache` two callers and the timer, in `go_cache` a caller
and the background goroutine compete for one key; the theorems below hold for
any number of them, and of keys. With TTL 1 and grace 1, time 2 reaches the end
of the grace of what was loaded at 0, and time 3 of what was loaded later. In
`node_validation` the bound on a withdrawn key is `TTL + TTL + 2 * Latency`, 4
units, in `go_validation` `TTL + TTL + Latency`, 3 units: an authentication that
begins at the last time breaks it if a key withdrawn at 0 is still accepted. Its
three key sets hold two rotations, from keys to an empty set and back, and an
abrupt one for whoever does not ask in between; no set holds the old and the new
key, which is the harder case. The cases of `middleware` vary together the
fields that the code looks at together (tenant mode, allow-list and tenant;
version, issuer and hosts; tolerance and times, which may be missing or no
numbers; key id, key sets, algorithm and signature; mapping, claims and roles;
header and guards), from a base case that is served. A fetch takes up to one
unit there; a token that expires at 1 or 2 can wait for two of them and be
decided before the time ends.
In `login_webapp` and `go_login_webapp` two attempts and two callbacks give every
overlap of an older and a newer attempt and of a repeated callback; sessions run
out after two, which stops a browser that has lost its cookie twice. Flows,
sessions and requests of `go_login_webapp` are interchangeable and it checks no
liveness, so its symmetry is sound. All bounds are constants: `MaxTime`,
`MaxVersion`, `MaxAttempt`, `Latency`, and the sizes of the sets.

`CHECK_DEADLOCK FALSE` is set where the system may stop: at the end of the
bounded time, of the versions, of the attempts, or after the request is
answered.

**Fairness.** In Node the event loop runs every pending microtask, and in Go
the scheduler runs every runnable goroutine: weak fairness of each load's
chain, of each goroutine and of each request's continuation. That a fetch
settles at all is an assumption about the injected `fetch` or HTTP client, not
something the code ensures (it sets no timeout); `TokenValidation` and
`Middleware` bound it by `Latency`, and only the properties that speak of time
use the bound. Callers, tabs, the endpoint, disposal and deletions are never
obliged to do anything. `EveryCallReturns` and `LoopEnds` of `GoKeyCache` except
the states in which a loader has panicked, for which `go_cache_panic` shows that
they fail. The select of `refreshLoop` draws at random among what is ready, so
that a stop which stays ready is drawn in the end: strong fairness of `LoopStops`.
No liveness is checked of `GoTokenValidation` and `GoLoginWebapp`, whose requests
are straight-line code around calls of the cache or the provider.

## Proofs

`MemoryKeyCache_proofs` proves, for all keys, callers, slots, TTLs and graces,
and without bounds on what the clock or the source reach:

| theorem | says |
|---|---|
| `TypeCorrect` | `Spec => []TypeOK` |
| `SingleFlightTheorem` | two loads of one key never run together |
| `NoOrphanWaitTheorem` | whoever waits, waits for a load that runs |
| `NeverGoesBackTheorem` | no call returns a version older than what had landed when it was made |
| `ServedWithinGraceTheorem` | what a load hands out had not run out of grace when the load began |

They use only `CacheAssumption`. Single flight alone is not inductive: a step
that starts a load must know that an empty `inFlight` means that no load runs,
and disposal empties it while loads run on. `FlightInv` therefore adds that in
a cache not disposed every running load is the registered one, that a
registration points to a running load, and that whoever waits waits for one;
it yields the second and the third theorem. `VersionInv` relates every version
to `newest`: the entry held is the newest that landed, what a loader has read
but not stored is no older, what a load resolves to is exactly `newest`, and the
floor of a waiting caller is not above it. Its preservation rests on single
flight: with two loads of a key, the older answer could land last. For
`ServedWithinGrace` it is enough that no load began in the future, for the code
compares the clock when the load fails. Each is proved as an initial condition,
a preservation step with one case per action, and a temporal step.

`GoKeyCache_proofs` proves the same five for the Go cache, for any number of
goroutines, from `GoCacheAssumption`; loaders that panic are included. Here the
registration names a goroutine, and disposal does not empty `inflight`, so that
`FlightInv` has every leader registered, whether or not the cache is disposed
(`LeadersRegistered`), every registration point to a leader (`RegisteredLead`),
and every waiter wait for a goroutine that leads a load of its key or has
published one (`WaitersAttended`). Between the deregistration and `wg.Done`
another load of the key may begin; `VersionInv` therefore says of a published
result that it meets the floor of its leader and of everyone who still waits for
it (`FloorsMet`). `SideStep` treats at once the steps of goroutines that neither
lead nor wait.

Both modules end with `Refinement`, `Spec => ImplementsKeyCache`, for any
number of keys and callers. `RefInv` adds
to the invariants above what the abstract steps ask of dates (`Dated`): the
source has not gone back behind where it was when a load began, a loader's
answer is no older than that, and (Node) an outcome is there exactly when the
load has landed. One lemma per kind of step gives the abstract step: a load that
starts opens a flight, a shared one boards it, `.then` and `.catch` decide it and
`.finally` closes it, while in Go `Publish` decides and closes and `Done`, which
only hands over what was decided, is a stutter. Which loader runs is read off by
a CHOOSE among the running ones; single flight makes it unique.

`LoginWebapp_proofs` proves, for any number of browsers, providers, sessions,
attempts and callbacks under way:

| theorem | says |
|---|---|
| `LoginTypeCorrect` | `Spec => []TypeOK` |
| `CodeGoesToItsProviderTheorem` | a code goes to the provider that issued it |
| `OnlyNewestSignsInTheorem` | only the newest attempt of a session signs in to it |
| `SignsInOnceTheorem` | an attempt signs in once |
| `NewestIsNotRefusedTheorem` | the newest attempt's callback is refused only once the attempt has signed in |
| `LogoutLastsTheorem` | a session that left the store does not come back |

They use only `WebappAssumption`. A step of a callback knows nothing but what
the session object and the callback hold, so `LoginInv` says what these mean:
a callback past the state check belongs to the session and the provider of its
attempt (`CallsBelong`); the nonce a session expects is that of its newest
attempt (`NonceIsNewest`), which another tab's login replaces and a sign-in
takes away; no session expects the nonce of an attempt that has signed in
(`CompletedAreSpent`); and a session that was never handed out has neither
attempts nor a user (`UndrawnAreUnused`). The nonce check then gives the second
and third property together: what it finds is the newest attempt, and one not
yet completed. `NoNewAttempt` treats every action but `StartLogin`, the only one
after which another attempt is the newest. `NewestIsNotRefused` needs the converse
(`NewestInv`): until it has signed in, a session still expects the nonce of its
newest attempt, and no callback that is under way has been refused already.

`TokenValidation_proofs` proves, for any key ids, sequences of key sets, numbers
of requests and loads, TTLs and latencies:

| theorem | says |
|---|---|
| `CacheBehaves` | `Spec` implies the specification of the cache inside it |
| `ClientKeepsKeyCache` | the cache of a running client implements `KeyCache` |
| `TypeCorrect` | `Spec => []TypeOK` |
| `RevocationBoundTheorem` | a withdrawn key is accepted for less than two TTLs and two fetches |
| `RotationPickedUpTheorem` | a key that stays published is accepted, unless a fetch fails or an older one was under way |
| `OutageToleratedTheorem` | a token of the held set is turned down only once the set may not stand in any more |

They use only `ValidationAssumption`. `CacheBehaves` shows that each step of the
client is a step of `MemoryKeyCache` with one key or leaves the cache alone, so
that its theorems hold here; the types and `NoOrphanWait` are taken from there.
The three properties are about single steps, those that decide a request
(`DecideStep`), and each rests on an invariant that ties what a request, a load
and the cache have in hand to the endpoint:

* `RevocationInv` dates the sets in hand. Whatever key a set has that the
  endpoint has not was withdrawn, and not long before: no more than `TTL` and
  one fetch before the expiry of a set that is stored or handed out, and not
  before the start of the load for one that is still on its way. `TrailsOn`
  carries this over any rotation and any passing of time.
* `DueInv` says of a request that must succeed that its key is published, that
  every running load brings a set with the key, and that what the second look
  got has it.
* `SparedInv` says of a request whose key is in the held set that the set may
  stand in no more, or is still held (or a newer one that has the key, too), and
  is what the call answers.

The last two need that the client has one load at most and that what it brings
is no older than what is held, or is what is held (`OrderInv`); this is true
until disposal, which ends both promises. `RequestStep` says once what a step
can do to a request it does not belong to.

`GoTokenValidation_proofs` proves theorems of the same six names for the Go
client, from `GoValidationAssumption` alone, for any number of goroutines, key
ids and versions:

| theorem | says |
|---|---|
| `CacheBehaves` | `Spec` implies the specification of the Go cache inside it |
| `ClientKeepsKeyCache` | the cache of a running client implements `KeyCache` |
| `TypeCorrect` | `Spec => []TypeOK`; no set without keys is handed out |
| `RevocationBoundTheorem` | a withdrawn key is accepted for less than two TTLs and one load |
| `RotationPickedUpTheorem` | a key that stays published is accepted, unless a fetch fails or a load was under way |
| `OutageToleratedTheorem` | a token of the held set is turned down only once the set may not stand in any more |

The invariants have the names they have for Node. What differs is where an
answer can come from: `Moves` says of any step that a goroutine's call stays as
it is, or is settled with what the step supplies (`Supplied`): the entry, fresh
or standing in for a failed load, the value that lands, or the refusal of a
disposed cache. A call is settled as soon as its load has published, before
`wg.Done`; nobody can join a load from then on, since the same critical section
takes it out of `c.inflight`. That is why the bound has one `Latency` here and
two in Node, where a promise can be shared until `.finally` has run.

`Middleware_proofs` proves, for any set of well-typed cases (configurations,
headers, tokens and guards), any latency and any clock:

| theorem | says |
|---|---|
| `Invariance` | `Spec => []Inv`, the inductive invariant |
| `TypeCorrect` | `Spec => []TypeOK`; an answer is one of the error codes, or "handled" |
| `HandlerOnlyForTrustedTheorem` | the handler runs only for a token the configuration trusts, and with the roles the guard asks for |
| `ServedInTimeTheorem` | Node serves no token with an `exp` later than one fetch after it, or two if the first key set lacked its kid, and Go none after it; neither serves one before its `nbf` (the tolerance allowed for) |
| `TrustedIsServedTheorem` | a token that is trusted, in time and identified, signed by a key of the first or the refreshed set, is served, behind a role guard too if the claims grant the roles |
| `SameDecisionTheorem` | both packages decide alike, outside `KnownDifference` |

`TrustedIsServed` and `HandlerOnlyForTrusted` compare lists of checks, written in
the order of the code, with `Trusted`, which says directly what the
configuration means. The proof has five layers:

* *A list of checks is a condition.* `VerdictOk` and `VerdictConcat` say that a
  list of checks passes when each of its conditions holds; `NodePeekOk`,
  `NodeRestOk`, `GoPeekOk`, `GoRestOk`, `UserOk` and `AnonymousOk` give this
  condition for the lists of the two packages.
* *What is not refused is sane.* `NodeSane` and `GoSane` say of a configuration
  that validation accepted that its tenant is a mode or the text of a GUID, its
  versions and hosts are known ones, its tolerance is a number and no source of a
  claim is blank.
* *Acceptance is trust.* `AcceptedIsTrusted` and `TrustedIsAccepted` are the two
  directions for one token and one sane configuration. This is where the
  issuer derived from unverified claims meets the verified token.
* *Roles are granted.* `Grants` says which roles a token gives without the
  mapping: those that the first source which is a text or an array names.
  `GrantedIsMapped` finds them among the user's, and `GrantedPasses` takes them
  past the guard, whether it asks for all or any.
* *The invariant.* `Inv` says of either server that it is misconfigured exactly
  if validation refused the configuration or a guard is misused (`Wired`), that
  it answered "handled" exactly if the checks hold at the time it compared with
  (`Answered`), and how old that time is (`NodeInTime`, `GoInTime`): in Node
  one fetch, or two for the second try, which only a token whose kid the first
  set lacked comes to. The properties only speak of answered requests; what the
  peek found before the key set arrived must be remembered to say anything about
  them.

For `SameDecision`, `SameConfig`, `SameRejection` and `SameChecks` compare the
definitions of the two packages pairwise where no known difference applies;
`SameUsers` does so for the roles a guard looks at, which are the same when no
source of roles is a text that the packages split differently.

Assumed are `ConfigAssumption`, `TextAssumption`, `PolicyAssumption`,
`MappingAssumption` and `CaseAssumption`, which TLC evaluates on the instance.
They say that the defaults are of the kind they stand in for, that constants for
different things differ, and that the fields of a case have the types the code
declares for them. One goes further: a token that
Microsoft's keys signed carries a tenant's GUID as `tid`, or none. Its issuers
do so, and the code relies on it when it compares a tenant of the configuration
with `tid`. Claim names and error codes are finite sets of the model because the
provers do not find that a string literal is in `STRING`.

`GoLoginWebapp_proofs` proves, for any number of sessions, requests at once,
providers and attempts, and whatever the order of the accesses:

| theorem | says |
|---|---|
| `Invariance` | `Spec => []GInv`, the inductive invariant |
| `TypeCorrect` | `Spec => []TypeOK` |
| `NoReplay` | once a sign-in is complete, no other callback with its nonce passes |
| `NewestLoginCounts` | no attempt with a nonce that was over when a later login of its session began passes after that one has written its fields |
| `OvertakenInvariance` | `Spec => []OInv`: a token without a nonce is asked for only by a login that a sign-in overtook |
| `LogoutIsFinal` | a session that left the store does not come back, and a new one has no user |
| `OnlyOthersSpoil` | an attempt that nobody else's write disturbed is not refused |

`NoReplay` and `NewestLoginCounts` except tokens without a nonce, which the check
takes for the nonce of a session that expects none. Such a token is no oversight
of the model: a login builds its query from the session, and a callback that
clears the nonce meanwhile leaves it without one. What is proved is that nothing
else makes one: `overtaken` holds the attempts during whose login a sign-in wrote
to the session, `asked` the queries sent, and a callback without a nonce comes
from an overtaken login (`Unbound`). `go_login_replay` shows that the exception
happens.

They use only `GoWebappAssumption`. No step is atomic beyond one field, so
`GInv` says for each field separately what it means and until when:

* whom a goroutine works for: a login for the attempt it made, a callback for
  the one its query names (`LoginsBelong`, `CallbacksBelong`); all numbers
  around are of attempts made (`NumbersAreMade`), and a state or nonce in a
  session is of an attempt made in that session (`NoncesBelong`);
* when a nonce is gone for good: an attempt written has no write under way
  (`WrittenAreOver`), one that passed has its nonce cleared as soon as the
  callback has got to that field (`PassedAreSpent`), and a later login of the
  session replaces it with its own (`LaterNonceReplaces`). `NoReplay` follows
  from the second, `NewestLoginCounts` from the third;
* what an undisturbed attempt can rely on: the first write of a login disturbs
  all others of its session (`LoginsDisturb`), until then what it wrote stands
  (`UndisturbedStand`), nobody else's query names it (`UndisturbedAreTheirOwn`),
  and so its callback reads what it looks for (`CallbacksRead`).

A torn read only ever ends its goroutine, which every part of `GInv` survives;
the proof treats it together with the other ways a request ends
(`GoroutineEndsInv`).

Every safety property of a passing run has a theorem. Only model-checked are the
liveness properties, `EveryCallAnswered`, `EveryCallReturns`, `LoopEnds`,
`EveryRequestDecided` and `EveryCallbackEnds`: the prover knows neither weak
fairness (ENABLED) nor induction over a well-founded order.

## What the checks found

* "ErrDisposed is returned by a cache method called after Dispose"
  (`memory_key_cache.go:9`), but `Get` looks at the entries before it looks at
  `disposed`, and a load in flight at `Dispose` stores its value afterwards
  (`:227`). The Node cache also stores it (`memory-key-cache.ts:182`), where only
  `peek` and `has` see it.
* "All callers receive the same result" (`memory_key_cache.go:57`), unless the
  loader panics: the deregistration and `wg.Done` are not deferred, so that
  waiters and later callers of the key wait for ever.
* The Go demo resolves the provider "from the session (recorded at login)"
  (`main.go:239`), but the field may be another login's by then: the code of one
  provider goes to the other.
* "Bind the validated token to this login attempt (replay defense)"
  (`main.go:275`), but two overlapping callbacks of one attempt may both pass
  before either has cleared the nonce, and worse: a login whose nonce an earlier
  attempt's callback clears before its query is built asks for a token
  without a nonce. The session expects none either, `"" == ""`, and a callback of
  that login passes even after another one has finished (`go_login_replay`, in
  program order as well). With a nonce this does not happen, which
  `NoReplayAfterSignIn` checks.
* "Issuer, audience, `exp`, and `nbf` are always checked"
  (`packages/node/README.md:31`), but `jose` checks `exp` only in a token that
  has one, and no option requires it: Node serves a token without `exp` for ever.
  Go refuses it.
* The class comment of the Node cache speaks of "a periodic sweep"
  (`memory-key-cache.ts:43`); nothing calls `evictExpired`.
* Node and Go differ where `KnownDifference` in `Middleware` says: values that
  mean "not given" in Go, a tab after `Bearer`, white space other than blanks
  between the roles a guard asks for (`jwt.go:211`, `claims-mapper.ts:47`), a
  token without `kid` when the set has one key, a token without `exp`, the very
  end of `exp`, and an `nbf` or `iat` that is no number, which Node refuses and Go
  ignores.

Two more were read from the code and no run is about them: `jwks.ttlMs` "must be
a positive number" (`validate.ts:133`), but NaN passes, and nothing ever expires;
"the first present, non-empty claim wins" (`config/types.ts:18`), but an empty
array also wins (`claims-mapper.ts:43`).

## Not modelled

* `onError` and `OnError` hooks of the cache and custom error handlers; a
  handler that throws inside `next()` (which Node answers with 401).
* What a forced `refresh()` resolves to when its load fails: the old entry may
  stand in, which is the behaviour of `.catch` in the model and no error of it.
* RSA key parsing; cryptography (a signature is genuine or not); which keys of a
  set `jose` and the Go client leave out for their use or algorithm; the `crit`
  header; times with a fraction.
* White space around configured texts (Go trims a client id and a host, Node
  does not), `jwksUri`, and mutation of arrays after they were configured.
* email, name, tenantId and scopes, which are mapped like id and roles.
* Errors' wording and serialisation, the pages and set-up of the login webapps,
  facades and the other examples, which wire the middleware to a server and keep
  no state of their own. Core types are data without behaviour; tokens, claims
  and users are sets of the model.

## Where to go from here

The components with state of their own are modelled, and the safety properties
of all of them are proved. Worth adding: an abstract specification of key
resolution that the key clients of both packages implement, as the caches
implement `KeyCache`.
