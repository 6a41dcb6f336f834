---------------------------- MODULE MCMiddleware ----------------------------
(* A catalogue of cases: one configuration and one token that fit, and     *)
(* families of cases that vary a few of their fields together.             *)
EXTENDS Middleware

CONSTANTS u, blank, junk, nan, absent, malformed, ok,
          home, partner, personal,
          homeText, HOMETEXT, partnerText, personalText,
          login, loginUrl, gov, sts,
          loginHost, govHost, stsHost, googleHost, noHost,
          app, other, corp

Tenants  == homeText :> home @@ HOMETEXT :> home @@ partnerText :> partner
              @@ personalText :> personal
Hosts    == login :> loginHost @@ loginUrl :> loginHost @@ gov :> govHost
              @@ sts :> stsHost @@ blank :> noHost

Same(words)   == [package \in Package |-> words]
Text(words)   == [kind |-> "text", words |-> Same(words)]
List(entries) == [kind |-> "list", words |-> Same(entries)]
Empty         == [kind |-> "blank", words |-> Same(<<>>)]
Missing       == [kind |-> "absent", words |-> Same(<<>>)]
Tabbed        == [kind |-> "text",
                  words |-> [node |-> <<"admin<tab>dev">>, go |-> <<"admin", "dev">>]]

Claims(id, roles, groups) ==
  [name \in ClaimName |->
     CASE name = "oid"    -> id
       [] name = "sub"    -> Missing
       [] name = "roles"  -> roles
       [] name = "groups" -> groups]

Raw == [kind |-> "microsoft", clientId |-> app, tenant |-> u, allowed |-> u,
        versions |-> u, domains |-> u, audience |-> u, tolerance |-> u, ttl |-> u,
        refresh |-> u, authority |-> u, v1Host |-> u, idFrom |-> u, rolesFrom |-> u]
Token == [wellFormed |-> TRUE, alg |-> "RS256", kid |-> "known", keys |-> "many",
          genuine |-> TRUE, ver |-> "2.0", tid |-> homeText, hd |-> absent,
          iss |-> [host |-> loginHost, tid |-> homeText, tail |-> "v2.0"],
          aud |-> {app}, exp |-> 2, nbf |-> absent, iat |-> absent,
          claims |-> Claims(Text(<<"ann">>), Missing, Missing)]
Open == [required |-> FALSE, guard |-> "none", roles |-> {}, mode |-> "any"]
Base == [raw |-> Raw, opts |-> Open, header |-> "bearer", token |-> Token]
Late(case_) == [case_ EXCEPT !.token.exp = 9]

Issuers == {absent} \cup
  {[host |-> h, tid |-> t, tail |-> tail] :
     h \in {loginHost, stsHost, govHost}, t \in {homeText, HOMETEXT, personalText},
     tail \in {"v2.0", "/"}}

TenantCases ==
  {[Late(Base) EXCEPT !.raw.tenant = tenant, !.raw.allowed = allowed,
                      !.token.tid = tid, !.token.iss.tid = tid] :
     tenant \in {u, "common", "organizations", "consumers", homeText, junk, blank},
     allowed \in {u, {}, {homeText}, {personalText, partnerText}, {junk}},
     tid \in {homeText, HOMETEXT, partnerText, personalText}}

IssuerCases ==
  {[Late(Base) EXCEPT !.raw.versions = versions, !.raw.authority = authority,
                      !.raw.v1Host = v1Host, !.raw.tenant = "organizations",
                      !.token.ver = ver, !.token.iss = iss, !.token.tid = tid] :
     versions \in {u, {"1.0"}, {"2.0"}, {}, {"3.0"}}, authority \in {u, loginUrl, gov, blank},
     v1Host \in {u, blank}, ver \in {"1.0", "2.0", "3.0", absent}, iss \in Issuers,
     tid \in {homeText, absent}}

TimeCases ==
  {[Base EXCEPT !.raw.tolerance = tolerance, !.token.exp = exp, !.token.nbf = nbf,
                !.token.kid = kid] :
     tolerance \in {u, 0, 2, nan}, exp \in {absent, malformed, 1, 2},
     nbf \in {absent, malformed, 1, 3}, kid \in {"known", "rotated"}}
  \cup {[Base EXCEPT !.token.iat = iat] : iat \in {0, malformed}}

ConfigCases ==
  {[Late(Base) EXCEPT !.raw.ttl = ttl, !.raw.refresh = refresh] :
     ttl \in {u, 0, 1, nan}, refresh \in {u, 0, 1, nan}}
  \cup {[Late(Base) EXCEPT !.raw.clientId = id, !.raw.audience = audience, !.token.aud = aud] :
          id \in {app, blank}, audience \in {u, {}, {other}, {app, blank}},
          aud \in {{app}, {other}, {<<"api", app>>, other}}}

SignatureCases ==
  {[Late(Base) EXCEPT !.raw.kind = kind, !.token.wellFormed = wellFormed, !.token.alg = alg,
                      !.token.kid = kid, !.token.keys = keys, !.token.genuine = genuine,
                      !.token.iss.host = IF kind = "google" THEN googleHost ELSE loginHost,
                      !.token.claims["sub"] = Text(<<"ann">>)] :
     kind \in {"google", "microsoft"}, wellFormed \in BOOLEAN, alg \in {"RS256", "HS256"},
     kid \in {"known", "rotated", "unknown", "none"}, keys \in {"one", "many", "none", "once"},
     genuine \in BOOLEAN}

GoogleCases ==
  {[Late(Base) EXCEPT !.raw.kind = "google", !.raw.domains = domains, !.token.hd = hd,
                      !.token.iss = iss, !.token.claims["sub"] = sub] :
     domains \in {u, {}, {corp}, {blank}}, hd \in {absent, corp, other},
     iss \in {absent, [host |-> googleHost, tid |-> absent, tail |-> "/"], Token.iss},
     sub \in {Missing, Empty, Text(<<"ann">>)}}

MappingCases ==
  {[Late(Base) EXCEPT !.raw.idFrom = idFrom, !.raw.rolesFrom = rolesFrom,
                      !.opts.guard = "roles", !.opts.roles = roles, !.opts.mode = mode,
                      !.token.claims = Claims(id, direct, groups)] :
     idFrom \in {u, <<>>, <<"sub">>, <<"oid", blank>>},
     rolesFrom \in {u, <<>>, <<"roles", "groups">>},
     id \in {Missing, Text(<<"ann">>)},
     direct \in {Missing, Empty, List(<<>>), List(<<junk, "admin">>), Text(<<"admin", "dev">>),
                 Tabbed},
     groups \in {Missing, List(<<"dev">>)},
     roles \in {{}, {"admin"}, {"admin", "dev"}}, mode \in {"any", "all"}}

HeaderCases ==
  {[Base EXCEPT !.header = header, !.opts.required = required, !.opts.guard = guard,
                !.raw.rolesFrom = <<"roles", "groups">>,
                !.token.claims = Claims(Text(<<"ann">>), List(<<>>), List(<<"dev">>)),
                !.opts.roles = {"dev"}, !.token.genuine = genuine] :
     header \in {"none", "basic", "bearer", "bearer-tab"}, required \in BOOLEAN,
     guard \in {"none", "auth", "roles"}, genuine \in BOOLEAN}

Cases == TenantCases \cup IssuerCases \cup TimeCases \cup ConfigCases
           \cup SignatureCases \cup GoogleCases \cup MappingCases \cup HeaderCases
=============================================================================
