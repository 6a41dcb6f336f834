----------------------------- MODULE Middleware -----------------------------
(***************************************************************************)
(* One request through the middleware, a built-in provider and the guards, *)
(* in the Node package and in the Go package side by side: both are wired  *)
(* from the same configuration, receive the same request and may take      *)
(* their time over the key set (which TokenValidation models).             *)
(*                                                                         *)
(* onError is the default one, and the handler behind the guards neither   *)
(* throws nor panics.                                                      *)
(***************************************************************************)
EXTENDS ClaimsMapping

CONSTANTS Case,     \* what the application configured, and the request it gets
          Latency,  \* the longest one fetch of the key set takes
          MaxTime

VARIABLES case, \* the chosen case: [raw, opts, header, token]
          now,
          node, \* the Node server: how far it is with the request
          go    \* the Go server

vars == <<case, now, node, go>>

(* A token that a Microsoft key signed names a tenant by its GUID. *)
ASSUME CaseAssumption ==
  /\ Latency \in Nat
  /\ Absent \notin User \cup {"handled"}
  /\ \A c \in Case :
       /\ IsRawConfig(c.raw) /\ IsToken(c.token)
       /\ c.token.claims \in [ClaimName -> ClaimValue]
       /\ c.raw.kind = "microsoft" /\ c.token.genuine => c.token.tid \in TenantText \cup {Absent}
       /\ Absent \notin Or(c.raw.domains, {})
       /\ c.opts.required \in BOOLEAN
       /\ c.opts.guard \in {"none", "auth", "roles"}

(* A server that is verifying awaits the key set, and one that is retrying *)
(* awaits the refreshed one.                                               *)
Stages == {"down", "misconfigured", "listening", "verifying", "retrying", "answered"}

(* since: when the present wait began.  comparedAt: the clock the claims   *)
(* are compared with.  answeredAt: when the answer was given.  answer: an  *)
(* error code, or "handled".                                               *)
Server == [stage : Stages, since : Nat, comparedAt : Nat, answeredAt : Nat, tokened : BOOLEAN,
           roles : SUBSET STRING, answer : Codes \cup {"handled", Absent}]

TypeOK ==
  /\ now \in Nat
  /\ node \in Server
  /\ go \in Server

Down == [stage |-> "down", since |-> 0, comparedAt |-> 0, answeredAt |-> 0, tokened |-> FALSE,
         roles |-> {}, answer |-> Absent]

Init ==
  /\ case \in Case
  /\ now = 0
  /\ node = Down
  /\ go = Down
-----------------------------------------------------------------------------
(* requireAuth and requireRoles, or no guard.  user is the user of the     *)
(* request, Absent for an anonymous one.                                   *)

(* EveryRole takes "any of" for "all of". *)
EveryRole(opts, user) == opts.roles \subseteq user.roles
HasRoles(opts, user) ==
  IF opts.mode = "all" THEN opts.roles \subseteq user.roles
  ELSE opts.roles \cap user.roles # {}

RequireAuth(user) == << Check(user # Absent, "authentication_error") >>

(* A lack of roles is the user's fault (403), never the server's (500), as *)
(* it would be with the code in RolesMisconfigured.                        *)
RolesMisconfigured(opts, user) ==
  RequireAuth(user) \o
  << Check(user # Absent => HasRoles(opts, user), "configuration_error") >>
RequireRoles(opts, user) ==
  RequireAuth(user) \o
  << Check(user # Absent => HasRoles(opts, user), "authorization_error") >>

Guards(opts, user) ==
  CASE opts.guard = "none"  -> <<>>
    [] opts.guard = "auth"  -> RequireAuth(user)
    [] opts.guard = "roles" -> RequireRoles(opts, user)

(* requireRoles() refuses an empty list when the server is wired. *)
GuardMisused(opts) == opts.guard = "roles" /\ opts.roles = {}

(* The Authorization headers that carry a token: Node lets any white space *)
(* follow the scheme, Go wants a blank.                                    *)
NodeCarriesToken(header) == header \in {"bearer", "bearer-tab"}
GoCarriesToken(header)   == header = "bearer"

(* The server answers with the verdict of these checks. *)
Answers(server, checks, tokened, roles) ==
  [server EXCEPT !.stage = "answered", !.answeredAt = now,
                 !.tokened = tokened, !.roles = roles,
                 !.answer = IF Verdict(checks) = Ok THEN "handled" ELSE Verdict(checks)]

(* Without a token: refused if credentials are required, else anonymous.   *)
AnonymousChecks(opts) ==
  << Check(~opts.required, "missing_token") >> \o Guards(opts, Absent)

(* Once the token has passed: map its claims, then the guards. *)
UserChecks(cfg, package) == Mapped(cfg, case.token.claims)
                              \o Guards(case.opts, MapClaims(cfg, case.token.claims, package))
UserRoles(cfg, package)  == MapClaims(cfg, case.token.claims, package).roles

(* AcceptsUnverified is what would happen if a failure of the token were   *)
(* taken for no token at all.                                              *)
AcceptsUnverified(cfg, package, checks) ==
  IF Verdict(checks) = Ok THEN UserChecks(cfg, package) ELSE AnonymousChecks(case.opts)
TokenChecks(cfg, package, checks) ==
  IF Verdict(checks) = Ok THEN UserChecks(cfg, package) ELSE checks
-----------------------------------------------------------------------------
NodeWires ==
  /\ node.stage = "down"
  /\ node' = [node EXCEPT !.stage = IF NodeRejects(case.raw) \/ GuardMisused(case.opts)
                                    THEN "misconfigured" ELSE "listening"]
  /\ UNCHANGED <<case, now, go>>

(* createAuthMiddleware up to the await of the key set: the clock is read  *)
(* before it.                                                              *)
NodeReceives ==
  /\ node.stage = "listening"
  /\ LET cfg == NodeConfig(case.raw)
         peek == NodePeek(cfg, case.token)
     IN \/ /\ ~NodeCarriesToken(case.header)
           /\ node' = Answers(node, AnonymousChecks(case.opts), FALSE, {})
        \/ /\ NodeCarriesToken(case.header)
           /\ Verdict(peek) # Ok
           /\ node' = Answers(node, TokenChecks(cfg, "node", peek), TRUE, {})
        \/ /\ NodeCarriesToken(case.header)
           /\ Verdict(peek) = Ok
           /\ node' = [node EXCEPT !.stage = "verifying", !.since = now, !.comparedAt = now]
  /\ UNCHANGED <<case, now, go>>

(* The key set is there, and has what the token takes.                     *)
NodeAnswers ==
  LET cfg == NodeConfig(case.raw) IN
    node' = Answers(node, TokenChecks(cfg, "node", NodeRest(cfg, case.token, node.comparedAt)),
                    TRUE, UserRoles(cfg, "node"))

(* ... or lacks the kid, and is fetched once more.                         *)
NodeVerifies ==
  /\ node.stage = "verifying"
  /\ \/ ~NeedsRefresh(case.token) /\ NodeAnswers
     \/ /\ NeedsRefresh(case.token)
        /\ node' = [node EXCEPT !.stage = "retrying", !.since = now]
  /\ UNCHANGED <<case, now, go>>

(* The second try compares with the clock of the first.                    *)
NodeRetries ==
  /\ node.stage = "retrying"
  /\ NodeAnswers
  /\ UNCHANGED <<case, now, go>>

GoWires ==
  /\ go.stage = "down"
  /\ GoCanExpress(case.raw)
  /\ go' = [go EXCEPT !.stage = IF GoRejects(case.raw) \/ GuardMisused(case.opts)
                                THEN "misconfigured" ELSE "listening"]
  /\ UNCHANGED <<case, now, node>>

(* New's handler up to GetKey. *)
GoReceives ==
  /\ go.stage = "listening"
  /\ LET cfg == GoConfig(case.raw)
         peek == GoPeek(cfg, case.token)
     IN \/ /\ ~GoCarriesToken(case.header)
           /\ go' = Answers(go, AnonymousChecks(case.opts), FALSE, {})
        \/ /\ GoCarriesToken(case.header)
           /\ Verdict(peek) # Ok
           /\ go' = Answers(go, TokenChecks(cfg, "go", peek), TRUE, {})
        \/ /\ GoCarriesToken(case.header)
           /\ Verdict(peek) = Ok
           /\ go' = [go EXCEPT !.stage = "verifying", !.since = now]
  /\ UNCHANGED <<case, now, node>>

(* Go reads the clock once the signature is verified. *)
GoAnswers ==
  LET cfg == GoConfig(case.raw) IN
    go' = [Answers(go, TokenChecks(cfg, "go", GoRest(cfg, case.token, now)),
                   TRUE, UserRoles(cfg, "go")) EXCEPT !.comparedAt = now]

GoVerifies ==
  /\ go.stage = "verifying"
  /\ \/ ~NeedsRefresh(case.token) /\ GoAnswers
     \/ /\ NeedsRefresh(case.token)
        /\ go' = [go EXCEPT !.stage = "retrying", !.since = now]
  /\ UNCHANGED <<case, now, node>>

GoRetries ==
  /\ go.stage = "retrying"
  /\ GoAnswers
  /\ UNCHANGED <<case, now, node>>

Waiting(server) == server.stage \in {"verifying", "retrying"}

(* Time passes, but one fetch of a key set never takes longer than Latency.*)
Tick ==
  /\ now < MaxTime
  /\ Waiting(node) => now < node.since + Latency
  /\ Waiting(go) => now < go.since + Latency
  /\ now' = now + 1
  /\ UNCHANGED <<case, node, go>>

Next == NodeWires \/ NodeReceives \/ NodeVerifies \/ NodeRetries
          \/ GoWires \/ GoReceives \/ GoVerifies \/ GoRetries \/ Tick

Spec == Init /\ [][Next]_vars
-----------------------------------------------------------------------------
(* The reference the properties compare with: what the documentation of    *)
(* MicrosoftAuthConfig and GoogleAuthConfig says of a token, as sets.      *)

PermittedTenants(raw) ==
  LET ofMode == CASE raw.tenant = "organizations" -> Guid \ {MSA}
                  [] raw.tenant = "consumers"     -> {MSA}
                  [] raw.tenant \in TenantText    -> {GuidOf[raw.tenant]}
                  [] OTHER                        -> Guid
      listed == {GuidOf[text] : text \in Or(raw.allowed, {})}
  IN IF listed = {} THEN ofMode ELSE ofMode \cap listed

(* The issuer and the version of the token agree on one permitted tenant.  *)
IssuedForTenant(cfg, raw, tok) ==
  \E text \in TenantText, version \in cfg.versions :
    /\ GuidOf[text] \in PermittedTenants(raw)
    /\ tok.tid = text
    /\ tok.ver \in Versions => tok.ver = version
    /\ tok.iss = IF version = "2.0"
                 THEN [host |-> cfg.authority, tid |-> text, tail |-> "v2.0"]
                 ELSE [host |-> cfg.v1Host, tid |-> text, tail |-> "/"]

IssuedByGoogle(cfg, tok) ==
  /\ tok.iss # Absent /\ tok.iss.host = GoogleHost
  /\ cfg.domains # {} => tok.hd \in cfg.domains

Trusted(cfg, raw, tok) ==
  /\ tok.wellFormed /\ tok.genuine /\ tok.alg = "RS256" /\ tok.kid # "unknown"
  /\ tok.aud \cap cfg.audiences # {}
  /\ IF raw.kind = "google" THEN IssuedByGoogle(cfg, tok) ELSE IssuedForTenant(cfg, raw, tok)

(* The roles the token's claims can be said to hold. *)
RolesHeld(cfg, tok, package) ==
  LET sources == Names(Or(cfg.rolesFrom, Defaults(cfg).roles))
  IN (UNION {ToSet(tok.claims[name].words[package]) : name \in sources}) \ {Junk}

(* The first source of roles that is a text or an array names a role.      *)
Grants(cfg, tok, package, role) ==
  LET sources == Or(cfg.rolesFrom, Defaults(cfg).roles)
      Read(i) == tok.claims[sources[i]]
  IN \E i \in DOMAIN sources :
       /\ Read(i).kind \in {"text", "list"}
       /\ \A j \in DOMAIN sources : j < i => Read(j).kind \in {"blank", "absent"}
       /\ role # Junk
       /\ \E k \in DOMAIN Read(i).words[package] : Read(i).words[package][k] = role

(* The roles a guard asks for: any of them, or all.                        *)
RolesGranted(cfg, tok, package, opts) ==
  /\ opts.mode # "all" => \E role \in opts.roles : Grants(cfg, tok, package, role)
  /\ opts.mode = "all" => \A role \in opts.roles : Grants(cfg, tok, package, role)

Identified(cfg, tok) ==
  \E name \in Names(Or(cfg.idFrom, Defaults(cfg).id)) : tok.claims[name].kind = "text"

(* No way in for a bad token or without the roles: the handler runs behind *)
(* a token, or behind a guard, only if the token is one the configuration  *)
(* trusts and the roles the guard wants are in its claims.  "There is no   *)
(* way to pass an invalid token" (auth.ts lines 14-18).                    *)
Guarded(server, cfg, package) ==
  server.answer = "handled" /\ (server.tokened \/ case.opts.guard # "none") =>
    /\ server.tokened
    /\ KeysObtained(case.token)
    /\ Trusted(cfg, case.raw, case.token)
    /\ Identified(cfg, case.token)
    /\ case.opts.guard = "roles" => case.opts.roles \cap RolesHeld(cfg, case.token, package) # {}
    /\ case.opts.guard = "roles" /\ case.opts.mode = "all"
         => case.opts.roles \subseteq RolesHeld(cfg, case.token, package)

HandlerOnlyForTrusted ==
  Guarded(node, NodeConfig(case.raw), "node") /\ Guarded(go, GoConfig(case.raw), "go")

(* Both packages keep their promise in the other direction too: a request  *)
(* whose token is trusted, in time and identified, whose signing key is in *)
(* the key set or in the one a refresh brings, and whose claims grant the  *)
(* roles its guard asks for, is served.                                    *)
Good(server, cfg, package) ==
  LET tok == case.token IN
    /\ server.tokened
    /\ Trusted(cfg, case.raw, tok)
    /\ KeysObtained(tok) /\ tok.kid \in {"known", "rotated"}
    /\ tok.kid = "rotated" => tok.keys # "once"
    /\ Given(tok.exp) /\ server.comparedAt < tok.exp + cfg.tolerance
    /\ tok.nbf # Absent => Given(tok.nbf) /\ server.comparedAt >= tok.nbf - cfg.tolerance
    /\ tok.iat # Malformed
    /\ Identified(cfg, tok)
    /\ case.opts.guard = "roles" => RolesGranted(cfg, tok, package, case.opts)

TrustedIsServed ==
  /\ node.stage = "answered" /\ Good(node, NodeConfig(case.raw), "node") => node.answer = "handled"
  /\ go.stage = "answered" /\ Good(go, GoConfig(case.raw), "go") => go.answer = "handled"

(* Time: Node compares the claims with a clock it read before it waited    *)
(* for the keys, so that it may serve a token which expired up to one      *)
(* fetch ago, and up to two when the first key set lacked its kid; one     *)
(* without exp it serves at any time (ExpAlwaysChecked).  Go reads the     *)
(* clock afterwards, serves no token late and none without exp.            *)
ServedInTime ==
  LET tok == case.token
      Served(server) == server.answer = "handled" /\ server.tokened
      Fetching == IF tok.kid = "rotated" THEN Latency + Latency ELSE Latency
  IN /\ Served(node) /\ tok.exp # Absent
          => /\ Given(tok.exp)
             /\ node.answeredAt < tok.exp + NodeConfig(case.raw).tolerance + Fetching
     /\ Served(go)
          => Given(tok.exp) /\ go.answeredAt <= tok.exp + GoConfig(case.raw).tolerance
     /\ Served(node) /\ tok.nbf # Absent
          => Given(tok.nbf) /\ node.answeredAt >= tok.nbf - NodeConfig(case.raw).tolerance
     /\ Served(go) /\ Given(tok.nbf)
          => go.answeredAt >= tok.nbf - GoConfig(case.raw).tolerance

(* "Issuer, audience, exp, and nbf are always checked" (README.md lines 31 *)
(* and 32 of packages/node): of a token without exp, nothing is.           *)
ExpAlwaysChecked ==
  node.answer = "handled" /\ node.tokened => case.token.exp # Absent

(* What the two packages are known to treat differently: values Go takes   *)
(* for "not given", the tab after Bearer, white space other than blanks    *)
(* between the roles a guard asks for, a token without kid, one without    *)
(* exp or at the very end of it, and an nbf or iat that is not a number.   *)
KnownDifference ==
  LET raw == case.raw
      tok == case.token
  IN \/ ~GoCanExpress(raw)
     \/ raw.tolerance = 0 \/ raw.ttl = 0 \/ raw.refresh = 0
     \/ raw.audience = {} \/ raw.versions = {} \/ raw.idFrom = <<>> \/ raw.rolesFrom = <<>>
     \/ Blank \in {raw.tenant, raw.authority, raw.v1Host}
     \/ case.header = "bearer-tab"
     \/ tok.kid = "none" /\ tok.keys = "one"
     \/ /\ case.opts.guard = "roles"
        /\ \E name \in Names(Or(NodeConfig(raw).rolesFrom, Defaults(raw).roles)) :
             tok.claims[name].words["node"] # tok.claims[name].words["go"]
     \/ Malformed \in {tok.nbf, tok.iat}
     \/ tok.exp = Absent
     \/ Given(tok.exp) /\ node.comparedAt = tok.exp + NodeConfig(raw).tolerance

(* Apart from that, an application sees no difference between the two      *)
(* packages: they refuse the same configurations, and the same requests at *)
(* the same time.                                                          *)
SameDecision ==
  ~KnownDifference =>
    /\ node.stage # "down" /\ go.stage # "down"
         => (node.stage = "misconfigured" <=> go.stage = "misconfigured")
    /\ node.stage = "answered" /\ go.stage = "answered" /\ node.comparedAt = go.comparedAt
         => (node.answer = "handled" <=> go.answer = "handled")
=============================================================================
