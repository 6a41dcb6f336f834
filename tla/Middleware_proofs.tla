-------------------------- MODULE Middleware_proofs -------------------------
(***************************************************************************)
(* Middleware: for every configuration, token and guard, a handler runs    *)
(* only for a trusted token and the required roles, in time, and always    *)
(* for a trusted one; the packages differ only where they are known to.    *)
(*                                                                         *)
(* First, what each list of checks amounts to as a condition on the token; *)
(* then what a configuration that is not rejected looks like; then that    *)
(* the checks accept exactly what the reference trusts; then the           *)
(* invariant, and the properties from it.                                  *)
(***************************************************************************)
EXTENDS Middleware, WellFoundedInduction, TLAPS

(***************************************************************************)
(* Verdicts.                                                               *)

OneOf    == [holds : BOOLEAN, code : Codes]
CheckSeq == Seq(OneOf)

LEMMA MinOfNaturals ==
  ASSUME NEW S \in SUBSET Nat, S # {}
  PROVE  Min(S) \in S /\ \A y \in S : Min(S) <= y
<1>1. PICK x \in S : \A y \in S : ~(<<y, x>> \in OpToRel(<, Nat))
  BY NatLessThanWellFounded, WFMin
<1>2. ASSUME NEW y \in S PROVE x <= y
  <2>1. ~(y < x)
    BY <1>1 DEF OpToRel
  <2> QED BY <2>1
<1> QED BY <1>2 DEF Min

LEMMA CheckIsOne ==
  ASSUME NEW holds \in BOOLEAN, NEW code \in Codes
  PROVE  Check(holds, code) \in OneOf /\ Check(holds, code).holds = holds
  BY DEF Check, OneOf

LEMMA VerdictOk ==
  ASSUME NEW checks \in CheckSeq
  PROVE  /\ Verdict(checks) \in Codes \cup {Ok}
         /\ Verdict(checks) = Ok <=> \A i \in DOMAIN checks : checks[i].holds
<1> DEFINE F == {i \in DOMAIN checks : ~checks[i].holds}
<1> USE DEF CheckSeq
<1>1. CASE F = {}
  BY <1>1 DEF Verdict
<1>2. CASE F # {}
  <2>1. F \in SUBSET Nat
    OBVIOUS
  <2>2. Min(F) \in F
    <3> HIDE DEF F
    <3> QED BY <1>2, <2>1, MinOfNaturals
  <2>3. checks[Min(F)].code \in Codes
    <3>1. \A i \in DOMAIN checks : checks[i] \in OneOf
      OBVIOUS
    <3>2. Min(F) \in DOMAIN checks
      BY <2>2
    <3> HIDE DEF F, CheckSeq
    <3> QED BY <3>1, <3>2 DEF OneOf
  <2>4. checks[Min(F)].code # Ok
    BY <2>3, PolicyAssumption
  <2>5. Verdict(checks) = checks[Min(F)].code
    BY <1>2 DEF Verdict
  <2> QED BY <2>2, <2>3, <2>4, <2>5
<1> QED BY <1>1, <1>2

(* One list of checks after another passes if both do. *)
LEMMA VerdictConcat ==
  ASSUME NEW a \in CheckSeq, NEW b \in CheckSeq
  PROVE  /\ a \o b \in CheckSeq
         /\ Verdict(a \o b) = Ok <=> Verdict(a) = Ok /\ Verdict(b) = Ok
<1>1. a \o b \in CheckSeq
  BY DEF CheckSeq
<1>2. ASSUME Verdict(a \o b) = Ok, NEW i \in DOMAIN a PROVE a[i].holds
  <2>1. i \in DOMAIN (a \o b) /\ (a \o b)[i] = a[i]
    BY DEF CheckSeq
  <2> QED BY <1>1, <1>2, <2>1, VerdictOk
<1>3. ASSUME Verdict(a \o b) = Ok, NEW i \in DOMAIN b PROVE b[i].holds
  <2>1. /\ Len(a) + i \in DOMAIN (a \o b)
        /\ (a \o b)[Len(a) + i] = b[i]
    BY DEF CheckSeq
  <2> QED BY <1>1, <1>3, <2>1, VerdictOk
<1>4. ASSUME \A i \in DOMAIN a : a[i].holds, \A i \in DOMAIN b : b[i].holds,
             NEW i \in DOMAIN (a \o b)
      PROVE  (a \o b)[i].holds
  <2>1. CASE i <= Len(a)
    BY <1>4, <2>1 DEF CheckSeq
  <2>2. CASE i > Len(a)
    <3>1. i - Len(a) \in DOMAIN b /\ (a \o b)[i] = b[i - Len(a)]
      BY <2>2 DEF CheckSeq
    <3> QED BY <1>4, <3>1
  <2>3. i \in Nat /\ Len(a) \in Nat
    BY <1>1 DEF CheckSeq
  <2> QED BY <2>1, <2>2, <2>3
<1> QED BY <1>1, <1>2, <1>3, <1>4, VerdictOk

LEMMA NoChecks == <<>> \in CheckSeq /\ Verdict(<<>>) = Ok
<1>1. <<>> \in CheckSeq
  BY DEF CheckSeq
<1> QED BY <1>1, VerdictOk

LEMMA OneCheck ==
  ASSUME NEW h \in BOOLEAN, NEW c \in Codes
  PROVE  << Check(h, c) >> \in CheckSeq /\ (Verdict(<< Check(h, c) >>) = Ok <=> h)
<1> DEFINE list == << Check(h, c) >>
<1>1. list \in CheckSeq
  BY CheckIsOne DEF CheckSeq
<1>2. DOMAIN list = {1} /\ list[1].holds = h
  BY DEF Check
<1> QED BY <1>1, <1>2, VerdictOk

LEMMA TwoChecks ==
  ASSUME NEW h1 \in BOOLEAN, NEW h2 \in BOOLEAN, NEW c1 \in Codes, NEW c2 \in Codes
  PROVE  LET list == << Check(h1, c1), Check(h2, c2) >> IN
           list \in CheckSeq /\ (Verdict(list) = Ok <=> h1 /\ h2)
<1> DEFINE list == << Check(h1, c1), Check(h2, c2) >>
<1>1. list \in CheckSeq
  BY CheckIsOne DEF CheckSeq
<1>2. DOMAIN list = {1, 2} /\ list[1].holds = h1 /\ list[2].holds = h2
  BY DEF Check
<1> QED BY <1>1, <1>2, VerdictOk
-----------------------------------------------------------------------------
(***************************************************************************)
(* What the validators ask, as conditions.                                 *)

(* The conditions a server's checks consist of are truth values. *)
LEMMA ConditionsAreBoolean ==
  ASSUME NEW tok, IsToken(tok), NEW cfg, NEW at, NEW version
  PROVE  /\ tok.wellFormed \in BOOLEAN /\ tok.genuine \in BOOLEAN
         /\ HasTid(tok) \in BOOLEAN /\ KeysObtained(tok) \in BOOLEAN
         /\ JoseKeyIsClear(tok) \in BOOLEAN /\ RefreshObtained(tok) \in BOOLEAN
         /\ AudienceMatches(cfg, tok) \in BOOLEAN /\ Given(tok.exp) \in BOOLEAN
         /\ JoseNotTooEarly(cfg, tok, at) \in BOOLEAN /\ GoNotTooEarly(cfg, tok, at) \in BOOLEAN
         /\ JoseNotExpired(cfg, tok, at) \in BOOLEAN /\ GoNotExpired(cfg, tok, at) \in BOOLEAN
         /\ IssuerHolds(cfg, tok, version) \in BOOLEAN
         /\ HostedDomainAllowed(cfg, tok.hd) \in BOOLEAN
         /\ TenantAllowed(cfg, tok.tid) \in BOOLEAN
         /\ VersionAccepted(cfg, version) \in BOOLEAN
<1>1. tok.wellFormed \in BOOLEAN /\ tok.genuine \in BOOLEAN
  BY DEF IsToken
<1>2. /\ HasTid(tok) \in BOOLEAN /\ KeysObtained(tok) \in BOOLEAN
      /\ JoseKeyIsClear(tok) \in BOOLEAN /\ RefreshObtained(tok) \in BOOLEAN
  BY DEF HasTid, KeysObtained, JoseKeyIsClear, RefreshObtained
<1>3. /\ AudienceMatches(cfg, tok) \in BOOLEAN /\ Given(tok.exp) \in BOOLEAN
      /\ JoseNotTooEarly(cfg, tok, at) \in BOOLEAN /\ GoNotTooEarly(cfg, tok, at) \in BOOLEAN
      /\ JoseNotExpired(cfg, tok, at) \in BOOLEAN /\ GoNotExpired(cfg, tok, at) \in BOOLEAN
  BY DEF AudienceMatches, Given, JoseNotTooEarly, GoNotTooEarly, JoseNotExpired, GoNotExpired
<1>4. IssuerHolds(cfg, tok, version) \in BOOLEAN
  BY DEF IssuerHolds, GoogleIssuer
<1>5. /\ HostedDomainAllowed(cfg, tok.hd) \in BOOLEAN /\ TenantAllowed(cfg, tok.tid) \in BOOLEAN
      /\ VersionAccepted(cfg, version) \in BOOLEAN
  BY DEF HostedDomainAllowed, TenantAllowed, VersionAccepted
<1> QED BY <1>1, <1>2, <1>3, <1>4, <1>5

LEMMA MicrosoftPeekOk ==
  ASSUME NEW tok, IsToken(tok), NEW version
  PROVE  /\ MicrosoftPeek(tok, version) \in CheckSeq
         /\ Verdict(MicrosoftPeek(tok, version)) = Ok
              <=> tok.wellFormed /\ version # "unknown" /\ HasTid(tok)
<1> DEFINE list == MicrosoftPeek(tok, version)
<1>1. {"invalid_token", "invalid_issuer"} \subseteq Codes
  BY DEF Codes
<1>2. tok.wellFormed \in BOOLEAN /\ HasTid(tok) \in BOOLEAN
  BY ConditionsAreBoolean
<1>3. list \in CheckSeq
  <2>1. /\ Check(tok.wellFormed, "invalid_token") \in OneOf
        /\ Check(version # "unknown", "invalid_token") \in OneOf
        /\ Check(HasTid(tok), "invalid_issuer") \in OneOf
    BY <1>1, <1>2 DEF Check, OneOf
  <2> QED BY <2>1 DEF MicrosoftPeek, CheckSeq
<1>4. /\ DOMAIN list = 1 .. 3
      /\ list[1].holds = tok.wellFormed /\ list[2].holds = (version # "unknown")
      /\ list[3].holds = HasTid(tok)
  BY DEF MicrosoftPeek, Check
<1> HIDE DEF list
<1>5. Verdict(list) = Ok <=> \A i \in 1 .. 3 : list[i].holds
  BY <1>3, <1>4, VerdictOk
<1>6. (\A i \in 1 .. 3 : list[i].holds) <=> list[1].holds /\ list[2].holds /\ list[3].holds
  OBVIOUS
<1> QED BY <1>2, <1>3, <1>4, <1>5, <1>6 DEF list

LEMMA PolicyOk ==
  ASSUME NEW tok, IsToken(tok), NEW cfg, NEW version
  PROVE  /\ Policy(cfg, tok, version) \in CheckSeq
         /\ Verdict(Policy(cfg, tok, version)) = Ok
              <=> IF cfg.kind = "google" THEN HostedDomainAllowed(cfg, tok.hd)
                  ELSE TenantAllowed(cfg, tok.tid) /\ VersionAccepted(cfg, version)
<1>1. {"invalid_token", "invalid_issuer"} \subseteq Codes
  BY DEF Codes
<1>2. /\ HostedDomainAllowed(cfg, tok.hd) \in BOOLEAN
      /\ TenantAllowed(cfg, tok.tid) \in BOOLEAN
      /\ VersionAccepted(cfg, version) \in BOOLEAN
  BY ConditionsAreBoolean
<1> QED BY <1>1, <1>2, OneCheck, TwoChecks DEF Policy

LEMMA JwtVerifyOk ==
  ASSUME NEW tok, IsToken(tok), NEW cfg, NEW at, NEW issuer \in BOOLEAN
  PROVE  /\ JwtVerify(cfg, tok, at, issuer) \in CheckSeq
         /\ Verdict(JwtVerify(cfg, tok, at, issuer)) = Ok
              <=> /\ tok.wellFormed /\ tok.alg = "RS256" /\ JoseKeyIsClear(tok)
                  /\ RefreshObtained(tok) /\ tok.kid # "unknown" /\ tok.genuine
                  /\ issuer /\ AudienceMatches(cfg, tok) /\ tok.iat # Malformed
                  /\ JoseNotTooEarly(cfg, tok, at)
                  /\ tok.exp # Malformed /\ JoseNotExpired(cfg, tok, at)
<1> DEFINE list == JwtVerify(cfg, tok, at, issuer)
<1>1. {"invalid_token", "authentication_error", "invalid_signature", "invalid_issuer",
       "invalid_audience", "token_not_yet_valid", "token_expired"} \subseteq Codes
  BY DEF Codes
<1>2. /\ tok.wellFormed \in BOOLEAN /\ JoseKeyIsClear(tok) \in BOOLEAN
      /\ RefreshObtained(tok) \in BOOLEAN
      /\ tok.genuine \in BOOLEAN /\ AudienceMatches(cfg, tok) \in BOOLEAN
      /\ JoseNotTooEarly(cfg, tok, at) \in BOOLEAN /\ JoseNotExpired(cfg, tok, at) \in BOOLEAN
  BY ConditionsAreBoolean
<1>3. list \in CheckSeq
  <2>1. /\ Check(tok.wellFormed, "invalid_token") \in OneOf
        /\ Check(tok.alg = "RS256", "authentication_error") \in OneOf
        /\ Check(JoseKeyIsClear(tok), "authentication_error") \in OneOf
        /\ Check(RefreshObtained(tok), "authentication_error") \in OneOf
        /\ Check(tok.kid # "unknown", "invalid_signature") \in OneOf
        /\ Check(tok.genuine, "invalid_signature") \in OneOf
    BY <1>1, <1>2 DEF Check, OneOf
  <2>2. /\ Check(issuer, "invalid_issuer") \in OneOf
        /\ Check(AudienceMatches(cfg, tok), "invalid_audience") \in OneOf
        /\ Check(tok.iat # Malformed, "authentication_error") \in OneOf
        /\ Check(JoseNotTooEarly(cfg, tok, at), "token_not_yet_valid") \in OneOf
        /\ Check(tok.exp # Malformed, "authentication_error") \in OneOf
        /\ Check(JoseNotExpired(cfg, tok, at), "token_expired") \in OneOf
    BY <1>1, <1>2 DEF Check, OneOf
  <2> QED BY <2>1, <2>2 DEF JwtVerify, CheckSeq
<1>4. DOMAIN list = 1 .. 12
  BY DEF JwtVerify
<1>5. /\ list[1].holds = tok.wellFormed /\ list[2].holds = (tok.alg = "RS256")
      /\ list[3].holds = JoseKeyIsClear(tok) /\ list[4].holds = RefreshObtained(tok)
      /\ list[5].holds = (tok.kid # "unknown") /\ list[6].holds = tok.genuine
      /\ list[7].holds = issuer /\ list[8].holds = AudienceMatches(cfg, tok)
      /\ list[9].holds = (tok.iat # Malformed)
      /\ list[10].holds = JoseNotTooEarly(cfg, tok, at)
      /\ list[11].holds = (tok.exp # Malformed)
      /\ list[12].holds = JoseNotExpired(cfg, tok, at)
  BY DEF JwtVerify, Check
<1> HIDE DEF list
<1>6. Verdict(list) = Ok <=> \A i \in 1 .. 12 : list[i].holds
  BY <1>3, <1>4, VerdictOk
<1>7. (\A i \in 1 .. 12 : list[i].holds)
        <=> /\ list[1].holds /\ list[2].holds /\ list[3].holds /\ list[4].holds
            /\ list[5].holds /\ list[6].holds /\ list[7].holds /\ list[8].holds
            /\ list[9].holds /\ list[10].holds /\ list[11].holds /\ list[12].holds
  OBVIOUS
<1> QED BY <1>2, <1>3, <1>5, <1>6, <1>7 DEF list

LEMMA VerifySignatureOk ==
  ASSUME NEW tok, IsToken(tok)
  PROVE  /\ VerifySignature(tok) \in CheckSeq
         /\ Verdict(VerifySignature(tok)) = Ok
              <=> /\ tok.alg = "RS256" /\ tok.kid # "none" /\ KeysObtained(tok)
                  /\ RefreshObtained(tok) /\ tok.kid # "unknown" /\ tok.genuine
<1> DEFINE list == VerifySignature(tok)
<1>1. {"invalid_signature", "authentication_error"} \subseteq Codes
  BY DEF Codes
<1>2. /\ KeysObtained(tok) \in BOOLEAN /\ RefreshObtained(tok) \in BOOLEAN
      /\ tok.genuine \in BOOLEAN
  BY ConditionsAreBoolean
<1>3. list \in CheckSeq
  <2>1. /\ Check(tok.alg = "RS256", "invalid_signature") \in OneOf
        /\ Check(tok.kid # "none", "invalid_signature") \in OneOf
        /\ Check(KeysObtained(tok), "authentication_error") \in OneOf
        /\ Check(RefreshObtained(tok), "authentication_error") \in OneOf
        /\ Check(tok.kid # "unknown", "invalid_signature") \in OneOf
        /\ Check(tok.genuine, "invalid_signature") \in OneOf
    BY <1>1, <1>2 DEF Check, OneOf
  <2> QED BY <2>1 DEF VerifySignature, CheckSeq
<1>4. DOMAIN list = 1 .. 6
  BY DEF VerifySignature
<1>5. /\ list[1].holds = (tok.alg = "RS256") /\ list[2].holds = (tok.kid # "none")
      /\ list[3].holds = KeysObtained(tok) /\ list[4].holds = RefreshObtained(tok)
      /\ list[5].holds = (tok.kid # "unknown") /\ list[6].holds = tok.genuine
  BY DEF VerifySignature, Check
<1> HIDE DEF list
<1>6. Verdict(list) = Ok <=> \A i \in 1 .. 6 : list[i].holds
  BY <1>3, <1>4, VerdictOk
<1>7. (\A i \in 1 .. 6 : list[i].holds)
        <=> /\ list[1].holds /\ list[2].holds /\ list[3].holds
            /\ list[4].holds /\ list[5].holds /\ list[6].holds
  OBVIOUS
<1> QED BY <1>2, <1>3, <1>5, <1>6, <1>7 DEF list

LEMMA VerifyStandardClaimsOk ==
  ASSUME NEW tok, IsToken(tok), NEW cfg, NEW at, NEW issuer \in BOOLEAN
  PROVE  /\ VerifyStandardClaims(cfg, tok, at, issuer) \in CheckSeq
         /\ Verdict(VerifyStandardClaims(cfg, tok, at, issuer)) = Ok
              <=> /\ issuer /\ AudienceMatches(cfg, tok) /\ Given(tok.exp)
                  /\ GoNotExpired(cfg, tok, at) /\ GoNotTooEarly(cfg, tok, at)
<1> DEFINE list == VerifyStandardClaims(cfg, tok, at, issuer)
<1>1. {"invalid_issuer", "invalid_audience", "invalid_token", "token_expired",
       "token_not_yet_valid"} \subseteq Codes
  BY DEF Codes
<1>2. /\ AudienceMatches(cfg, tok) \in BOOLEAN /\ Given(tok.exp) \in BOOLEAN
      /\ GoNotTooEarly(cfg, tok, at) \in BOOLEAN /\ GoNotExpired(cfg, tok, at) \in BOOLEAN
  BY ConditionsAreBoolean
<1>3. list \in CheckSeq
  <2>1. /\ Check(issuer, "invalid_issuer") \in OneOf
        /\ Check(AudienceMatches(cfg, tok), "invalid_audience") \in OneOf
        /\ Check(Given(tok.exp), "invalid_token") \in OneOf
        /\ Check(GoNotExpired(cfg, tok, at), "token_expired") \in OneOf
        /\ Check(GoNotTooEarly(cfg, tok, at), "token_not_yet_valid") \in OneOf
    BY <1>1, <1>2 DEF Check, OneOf
  <2> QED BY <2>1 DEF VerifyStandardClaims, CheckSeq
<1>4. DOMAIN list = 1 .. 5
  BY DEF VerifyStandardClaims
<1>5. /\ list[1].holds = issuer /\ list[2].holds = AudienceMatches(cfg, tok)
      /\ list[3].holds = Given(tok.exp) /\ list[4].holds = GoNotExpired(cfg, tok, at)
      /\ list[5].holds = GoNotTooEarly(cfg, tok, at)
  BY DEF VerifyStandardClaims, Check
<1> HIDE DEF list
<1>6. Verdict(list) = Ok <=> \A i \in 1 .. 5 : list[i].holds
  BY <1>3, <1>4, VerdictOk
<1>7. (\A i \in 1 .. 5 : list[i].holds)
        <=> /\ list[1].holds /\ list[2].holds /\ list[3].holds
            /\ list[4].holds /\ list[5].holds
  OBVIOUS
<1> QED BY <1>2, <1>3, <1>5, <1>6, <1>7 DEF list

(* What is asked of a token before the key set is awaited, and after.      *)
NodePeekHolds(cfg, tok) ==
  cfg.kind # "google" => tok.wellFormed /\ ResolveVersion(cfg, tok) # "unknown" /\ HasTid(tok)
GoPeekHolds(cfg, tok) ==
  /\ tok.wellFormed
  /\ cfg.kind # "google" => GoResolveVersion(cfg, tok) # "unknown" /\ HasTid(tok)

PolicyHolds(cfg, tok, version) ==
  IF cfg.kind = "google" THEN HostedDomainAllowed(cfg, tok.hd)
  ELSE TenantAllowed(cfg, tok.tid) /\ VersionAccepted(cfg, version)

NodeRestHolds(cfg, tok, at) ==
  LET version == ResolveVersion(cfg, tok) IN
    /\ KeysObtained(tok)
    /\ tok.wellFormed /\ tok.alg = "RS256" /\ JoseKeyIsClear(tok)
    /\ RefreshObtained(tok) /\ tok.kid # "unknown" /\ tok.genuine
    /\ IssuerHolds(cfg, tok, version) /\ AudienceMatches(cfg, tok) /\ tok.iat # Malformed
    /\ JoseNotTooEarly(cfg, tok, at)
    /\ tok.exp # Malformed /\ JoseNotExpired(cfg, tok, at)
    /\ PolicyHolds(cfg, tok, version)
GoRestHolds(cfg, tok, at) ==
  LET version == GoResolveVersion(cfg, tok) IN
    /\ tok.alg = "RS256" /\ tok.kid \in {"known", "rotated"}
    /\ KeysObtained(tok) /\ RefreshObtained(tok) /\ tok.genuine
    /\ IssuerHolds(cfg, tok, version) /\ AudienceMatches(cfg, tok)
    /\ Given(tok.exp)
    /\ GoNotExpired(cfg, tok, at) /\ GoNotTooEarly(cfg, tok, at)
    /\ PolicyHolds(cfg, tok, version)

LEMMA NodePeekOk ==
  ASSUME NEW tok, IsToken(tok), NEW cfg
  PROVE  /\ NodePeek(cfg, tok) \in CheckSeq
         /\ Verdict(NodePeek(cfg, tok)) = Ok <=> NodePeekHolds(cfg, tok)
  BY MicrosoftPeekOk, NoChecks DEF NodePeek, NodePeekHolds

LEMMA GoPeekOk ==
  ASSUME NEW tok, IsToken(tok), NEW cfg
  PROVE  /\ GoPeek(cfg, tok) \in CheckSeq
         /\ Verdict(GoPeek(cfg, tok)) = Ok <=> GoPeekHolds(cfg, tok)
<1>1. "invalid_token" \in Codes /\ tok.wellFormed \in BOOLEAN
  BY ConditionsAreBoolean DEF Codes
<1> QED BY <1>1, MicrosoftPeekOk, OneCheck DEF GoPeek, GoPeekHolds

LEMMA NodeRestOk ==
  ASSUME NEW tok, IsToken(tok), NEW cfg, NEW at
  PROVE  /\ NodeRest(cfg, tok, at) \in CheckSeq
         /\ Verdict(NodeRest(cfg, tok, at)) = Ok <=> NodeRestHolds(cfg, tok, at)
<1> DEFINE version == ResolveVersion(cfg, tok)
           keys    == << Check(KeysObtained(tok), "authentication_error") >>
           issuer  == IssuerHolds(cfg, tok, version)
           jwt     == JwtVerify(cfg, tok, at, issuer)
           policy  == Policy(cfg, tok, version)
<1>1. keys \in CheckSeq /\ (Verdict(keys) = Ok <=> KeysObtained(tok))
  <2>1. "authentication_error" \in Codes /\ KeysObtained(tok) \in BOOLEAN
    BY ConditionsAreBoolean DEF Codes
  <2> QED BY <2>1, OneCheck
<1>2. jwt \in CheckSeq /\ (Verdict(jwt) = Ok <=>
         /\ tok.wellFormed /\ tok.alg = "RS256" /\ JoseKeyIsClear(tok)
         /\ RefreshObtained(tok) /\ tok.kid # "unknown" /\ tok.genuine
         /\ issuer /\ AudienceMatches(cfg, tok) /\ tok.iat # Malformed
         /\ JoseNotTooEarly(cfg, tok, at)
         /\ tok.exp # Malformed /\ JoseNotExpired(cfg, tok, at))
  <2>1. issuer \in BOOLEAN
    BY ConditionsAreBoolean
  <2> HIDE DEF issuer
  <2> QED BY <2>1, JwtVerifyOk
<1>3. policy \in CheckSeq /\ (Verdict(policy) = Ok <=> PolicyHolds(cfg, tok, version))
  <2> HIDE DEF version
  <2> QED BY PolicyOk DEF PolicyHolds
<1>4. NodeRest(cfg, tok, at) = (keys \o jwt) \o policy
  BY DEF NodeRest
<1> HIDE DEF keys, jwt, policy
<1>5. /\ (keys \o jwt) \in CheckSeq
      /\ Verdict(keys \o jwt) = Ok <=> Verdict(keys) = Ok /\ Verdict(jwt) = Ok
  BY <1>1, <1>2, VerdictConcat
<1>6. /\ (keys \o jwt) \o policy \in CheckSeq
      /\ Verdict((keys \o jwt) \o policy) = Ok
           <=> Verdict(keys \o jwt) = Ok /\ Verdict(policy) = Ok
  BY <1>3, <1>5, VerdictConcat
<1> QED BY <1>1, <1>2, <1>3, <1>4, <1>5, <1>6 DEF NodeRestHolds

LEMMA GoRestOk ==
  ASSUME NEW tok, IsToken(tok), NEW cfg, NEW at
  PROVE  /\ GoRest(cfg, tok, at) \in CheckSeq
         /\ Verdict(GoRest(cfg, tok, at)) = Ok <=> GoRestHolds(cfg, tok, at)
<1> DEFINE version == GoResolveVersion(cfg, tok)
           sig     == VerifySignature(tok)
           issuer  == IssuerHolds(cfg, tok, version)
           claims  == VerifyStandardClaims(cfg, tok, at, issuer)
           policy  == Policy(cfg, tok, version)
<1>1. sig \in CheckSeq /\ (Verdict(sig) = Ok <=>
         /\ tok.alg = "RS256" /\ tok.kid # "none" /\ KeysObtained(tok)
         /\ RefreshObtained(tok) /\ tok.kid # "unknown" /\ tok.genuine)
  BY VerifySignatureOk
<1>2. claims \in CheckSeq /\ (Verdict(claims) = Ok <=>
         /\ issuer /\ AudienceMatches(cfg, tok) /\ Given(tok.exp)
         /\ GoNotExpired(cfg, tok, at) /\ GoNotTooEarly(cfg, tok, at))
  <2>1. issuer \in BOOLEAN
    BY ConditionsAreBoolean
  <2> HIDE DEF issuer
  <2> QED BY <2>1, VerifyStandardClaimsOk
<1>3. policy \in CheckSeq /\ (Verdict(policy) = Ok <=> PolicyHolds(cfg, tok, version))
  <2> HIDE DEF version
  <2> QED BY PolicyOk DEF PolicyHolds
<1>4. GoRest(cfg, tok, at) = (sig \o claims) \o policy
  BY DEF GoRest
<1> HIDE DEF sig, claims, policy
<1>5. /\ (sig \o claims) \in CheckSeq
      /\ Verdict(sig \o claims) = Ok <=> Verdict(sig) = Ok /\ Verdict(claims) = Ok
  BY <1>1, <1>2, VerdictConcat
<1>6. /\ (sig \o claims) \o policy \in CheckSeq
      /\ Verdict((sig \o claims) \o policy) = Ok
           <=> Verdict(sig \o claims) = Ok /\ Verdict(policy) = Ok
  BY <1>3, <1>5, VerdictConcat
<1> QED BY <1>1, <1>2, <1>3, <1>4, <1>5, <1>6 DEF GoRestHolds, IsToken
-----------------------------------------------------------------------------
(***************************************************************************)
(* What the claims mapping and the guards ask.                             *)

LEMMA NamedByList ==
  ASSUME NEW S, NEW list \in Seq(S), NEW i \in DOMAIN list
  PROVE  list[i] \in S /\ list[i] \in Names(list)
  BY DEF Names

(* The first element a test accepts is one it accepts, and none is found   *)
(* only if there is none.                                                  *)
LEMMA IdSourceOk ==
  ASSUME NEW claims, NEW cfg,
         Or(cfg.idFrom, Defaults(cfg).id) \in Seq(ClaimName)
  PROVE  /\ IdSource(cfg, claims) \in ClaimName \cup {Absent}
         /\ IdSource(cfg, claims) # Absent
              <=> \E name \in Names(Or(cfg.idFrom, Defaults(cfg).id)) : claims[name].kind = "text"
<1> DEFINE sources == Or(cfg.idFrom, Defaults(cfg).id)
           I       == {i \in 1 .. Len(sources) : IsText(claims[sources[i]])}
<1>1. IdSource(cfg, claims) =
        LET found == IF I # {} THEN Min(I) ELSE 0
        IN IF found = 0 THEN Absent ELSE sources[found]
  BY DEF IdSource, SourcesFor, FirstString, FirstSource, SelectInSeq
<1> HIDE DEF sources
<1>2. CASE I = {}
  <2>1. IdSource(cfg, claims) = Absent
    BY <1>1, <1>2
  <2>2. ASSUME NEW name \in Names(sources), claims[name].kind = "text" PROVE FALSE
    <3>1. PICK i \in DOMAIN sources : name = sources[i]
      BY DEF Names
    <3>2. i \in I
      BY <2>2, <3>1 DEF IsText, sources
    <3> QED BY <1>2, <3>2
  <2> QED BY <2>1, <2>2 DEF sources
<1>3. CASE I # {}
  <2>1. Min(I) \in I
    <3>1. I \in SUBSET Nat
      OBVIOUS
    <3> HIDE DEF I
    <3> QED BY <1>3, <3>1, MinOfNaturals
  <2>2. IdSource(cfg, claims) = sources[Min(I)]
    BY <1>1, <1>3, <2>1
  <2>3. sources[Min(I)] \in ClaimName /\ sources[Min(I)] \in Names(sources)
    <3>1. sources \in Seq(ClaimName)
      BY DEF sources
    <3>2. Min(I) \in DOMAIN sources
      BY <2>1, <3>1
    <3> HIDE DEF I
    <3> QED BY <3>1, <3>2, NamedByList
  <2>4. claims[sources[Min(I)]].kind = "text"
    BY <2>1 DEF IsText
  <2> QED BY <2>2, <2>3, <2>4, MappingAssumption DEF sources
<1> QED BY <1>2, <1>3

LEMMA FirstIsNamed ==
  ASSUME NEW claims, NEW sources \in Seq(ClaimName)
  PROVE  LET source == FirstSource(claims, sources, IsCollection) IN
           source = Absent \/ source \in Names(sources)
<1> DEFINE I == {i \in 1 .. Len(sources) : IsCollection(claims[sources[i]])}
           source == FirstSource(claims, sources, IsCollection)
<1>1. source = LET found == IF I # {} THEN Min(I) ELSE 0
               IN IF found = 0 THEN Absent ELSE sources[found]
  BY DEF FirstSource, SelectInSeq
<1> HIDE DEF source
<1>2. CASE I = {}
  BY <1>1, <1>2 DEF source
<1>3. CASE I # {}
  <2>1. Min(I) \in I
    <3>1. I \in SUBSET Nat
      OBVIOUS
    <3> HIDE DEF I
    <3> QED BY <1>3, <3>1, MinOfNaturals
  <2>2. source = sources[Min(I)] /\ Min(I) \in DOMAIN sources
    BY <1>1, <1>3, <2>1
  <2> HIDE DEF I
  <2> QED BY <2>2 DEF source, Names
<1> QED BY <1>2, <1>3

(* The roles are the words of the first source that is a text or an array. *)
LEMMA RolesAre ==
  ASSUME NEW claims \in [ClaimName -> ClaimValue], NEW cfg, NEW package \in Package,
         Or(cfg.rolesFrom, Defaults(cfg).roles) \in Seq(ClaimName)
  PROVE  LET sources == Or(cfg.rolesFrom, Defaults(cfg).roles)
             roles   == MapClaims(cfg, claims, package).roles
         IN \/ /\ \A i \in DOMAIN sources : ~IsCollection(claims[sources[i]])
               /\ roles = {}
            \/ \E i \in DOMAIN sources :
                 /\ IsCollection(claims[sources[i]])
                 /\ \A j \in DOMAIN sources : j < i => ~IsCollection(claims[sources[j]])
                 /\ roles = ToSet(claims[sources[i]].words[package]) \ {Junk}
<1> DEFINE sources == Or(cfg.rolesFrom, Defaults(cfg).roles)
           I       == {i \in 1 .. Len(sources) : IsCollection(claims[sources[i]])}
           source  == FirstSource(claims, sources, IsCollection)
<1>1. source = LET found == IF I # {} THEN Min(I) ELSE 0
               IN IF found = 0 THEN Absent ELSE sources[found]
  BY DEF FirstSource, SelectInSeq
<1>2. MapClaims(cfg, claims, package).roles
        = IF source = Absent THEN {} ELSE ToSet(claims[source].words[package]) \ {Junk}
  BY DEF MapClaims, StringArray, SourcesFor
<1> HIDE DEF source
<1>3. sources \in Seq(ClaimName) /\ DOMAIN sources = 1 .. Len(sources)
  OBVIOUS
<1> HIDE DEF sources
<1>4. CASE I = {}
  <2>1. source = Absent /\ \A i \in DOMAIN sources : ~IsCollection(claims[sources[i]])
    BY <1>1, <1>3, <1>4
  <2>2. MapClaims(cfg, claims, package).roles = {}
    BY <1>2, <2>1
  <2> QED BY <2>1, <2>2 DEF sources
<1>5. CASE I # {}
  <2> DEFINE m == Min(I)
  <2>1. m \in I /\ \A i \in I : m <= i
    <3>1. I \in SUBSET Nat
      OBVIOUS
    <3> HIDE DEF I
    <3> QED BY <1>5, <3>1, MinOfNaturals
  <2> HIDE DEF m
  <2>2. m \in DOMAIN sources /\ m \in Nat /\ m # 0 /\ IsCollection(claims[sources[m]])
    BY <1>3, <2>1
  <2>3. source = sources[m]
    BY <1>1, <1>5, <2>2 DEF m
  <2>4. source # Absent
    BY <1>3, <2>2, <2>3, MappingAssumption
  <2>5. ASSUME NEW j \in DOMAIN sources, j < m PROVE ~IsCollection(claims[sources[j]])
    <3>1. SUFFICES ASSUME IsCollection(claims[sources[j]]) PROVE FALSE
      OBVIOUS
    <3>2. j \in I
      BY <1>3, <3>1
    <3>3. m <= j /\ j \in Nat
      BY <1>3, <2>1, <3>2
    <3> QED BY <2>2, <2>5, <3>3
  <2>6. MapClaims(cfg, claims, package).roles = ToSet(claims[sources[m]].words[package]) \ {Junk}
    BY <1>2, <2>3, <2>4
  <2> QED BY <2>2, <2>5, <2>6 DEF sources
<1> QED BY <1>4, <1>5

LEMMA WordsType ==
  ASSUME NEW claims \in [ClaimName -> ClaimValue], NEW name \in ClaimName,
         NEW package \in Package
  PROVE  claims[name].words[package] \in Seq(STRING \cup {Junk})
  BY DEF ClaimValue

(* The roles are those one of the sources holds. *)
LEMMA RolesAreHeld ==
  ASSUME NEW claims \in [ClaimName -> ClaimValue], NEW cfg, NEW package \in Package,
         Or(cfg.rolesFrom, Defaults(cfg).roles) \in Seq(ClaimName)
  PROVE  /\ MapClaims(cfg, claims, package).roles
              \subseteq (UNION {ToSet(claims[name].words[package]) :
                                 name \in Names(Or(cfg.rolesFrom, Defaults(cfg).roles))}) \ {Junk}
         /\ MapClaims(cfg, claims, package).roles \subseteq STRING
<1> DEFINE sources == Or(cfg.rolesFrom, Defaults(cfg).roles)
           roles   == MapClaims(cfg, claims, package).roles
<1>1. \/ roles = {}
      \/ \E i \in DOMAIN sources : roles = ToSet(claims[sources[i]].words[package]) \ {Junk}
  BY RolesAre
<1> HIDE DEF roles, sources
<1>2. CASE roles = {}
  BY <1>2 DEF roles
<1>3. ASSUME NEW i \in DOMAIN sources, roles = ToSet(claims[sources[i]].words[package]) \ {Junk}
      PROVE  /\ roles \subseteq (UNION {ToSet(claims[name].words[package]) :
                                         name \in Names(sources)}) \ {Junk}
             /\ roles \subseteq STRING
  <2>1. sources[i] \in ClaimName /\ sources[i] \in Names(sources)
    BY NamedByList DEF sources
  <2>2. claims[sources[i]].words[package] \in Seq(STRING \cup {Junk})
    BY <2>1, WordsType
  <2>3. ToSet(claims[sources[i]].words[package]) \subseteq STRING \cup {Junk}
    BY <2>2 DEF ToSet
  <2>4. ToSet(claims[sources[i]].words[package])
          \subseteq UNION {ToSet(claims[name].words[package]) : name \in Names(sources)}
    BY <2>1
  <2> QED BY <1>3, <2>3, <2>4
<1> QED BY <1>1, <1>2, <1>3 DEF roles, sources

(* A role the claims grant is one the user has. *)
LEMMA GrantedIsMapped ==
  ASSUME NEW tok, tok.claims \in [ClaimName -> ClaimValue], NEW cfg, NEW package \in Package,
         Or(cfg.rolesFrom, Defaults(cfg).roles) \in Seq(ClaimName),
         NEW role, Grants(cfg, tok, package, role)
  PROVE  role \in MapClaims(cfg, tok.claims, package).roles
<1> DEFINE claims  == tok.claims
           sources == Or(cfg.rolesFrom, Defaults(cfg).roles)
           roles   == MapClaims(cfg, claims, package).roles
<1>1. PICK i \in DOMAIN sources :
        /\ claims[sources[i]].kind \in {"text", "list"}
        /\ \A j \in DOMAIN sources : j < i => claims[sources[j]].kind \in {"blank", "absent"}
        /\ role # Junk
        /\ \E k \in DOMAIN claims[sources[i]].words[package] :
             claims[sources[i]].words[package][k] = role
  BY DEF Grants
<1>2. \/ /\ \A n \in DOMAIN sources : ~IsCollection(claims[sources[n]])
         /\ roles = {}
      \/ \E n \in DOMAIN sources :
           /\ IsCollection(claims[sources[n]])
           /\ \A j \in DOMAIN sources : j < n => ~IsCollection(claims[sources[j]])
           /\ roles = ToSet(claims[sources[n]].words[package]) \ {Junk}
  BY RolesAre
<1>3. DOMAIN sources \subseteq Nat
  OBVIOUS
<1> HIDE DEF claims, sources, roles
<1>4. IsCollection(claims[sources[i]])
  BY <1>1 DEF IsCollection
<1>5. PICK n \in DOMAIN sources :
        /\ IsCollection(claims[sources[n]])
        /\ \A j \in DOMAIN sources : j < n => ~IsCollection(claims[sources[j]])
        /\ roles = ToSet(claims[sources[n]].words[package]) \ {Junk}
  BY <1>2, <1>4
<1>6. n = i
  <2>1. ~(i < n)
    BY <1>4, <1>5
  <2>2. ~(n < i)
    BY <1>1, <1>5 DEF IsCollection
  <2> QED BY <1>3, <2>1, <2>2
<1>7. claims[sources[i]].words[package] \in Seq(STRING \cup {Junk})
  <2>1. sources[i] \in ClaimName
    BY NamedByList DEF sources
  <2> QED BY <2>1, WordsType DEF claims
<1>8. role \in ToSet(claims[sources[i]].words[package])
  BY <1>1, <1>7 DEF ToSet
<1> QED BY <1>1, <1>5, <1>6, <1>8 DEF roles, claims

GuardHolds(opts, user) ==
  opts.guard # "none" =>
    /\ user # Absent
    /\ opts.guard = "roles" => HasRoles(opts, user)

LEMMA GuardsOk ==
  ASSUME NEW opts, opts.guard \in {"none", "auth", "roles"}, NEW user
  PROVE  /\ Guards(opts, user) \in CheckSeq
         /\ Verdict(Guards(opts, user)) = Ok <=> GuardHolds(opts, user)
<1> DEFINE auth  == << Check(user # Absent, "authentication_error") >>
           roles == << Check(user # Absent => HasRoles(opts, user), "authorization_error") >>
<1>1. auth \in CheckSeq /\ (Verdict(auth) = Ok <=> user # Absent)
  <2>1. "authentication_error" \in Codes /\ (user # Absent) \in BOOLEAN
    BY DEF Codes
  <2> QED BY <2>1, OneCheck
<1>2. roles \in CheckSeq /\ (Verdict(roles) = Ok <=> (user # Absent => HasRoles(opts, user)))
  <2>1. "authorization_error" \in Codes /\ (user # Absent => HasRoles(opts, user)) \in BOOLEAN
    BY DEF Codes
  <2> QED BY <2>1, OneCheck
<1>3. RequireAuth(user) = auth /\ RequireRoles(opts, user) = auth \o roles
  BY DEF RequireAuth, RequireRoles
<1> HIDE DEF auth, roles
<1>4. auth \o roles \in CheckSeq
      /\ (Verdict(auth \o roles) = Ok <=> Verdict(auth) = Ok /\ Verdict(roles) = Ok)
  BY <1>1, <1>2, VerdictConcat
<1>5. CASE opts.guard = "none"
  <2>1. Guards(opts, user) = <<>>
    BY <1>5 DEF Guards
  <2> QED BY <1>5, <2>1, NoChecks DEF GuardHolds
<1>6. CASE opts.guard = "auth"
  <2>1. Guards(opts, user) = auth
    BY <1>3, <1>6 DEF Guards
  <2> QED BY <1>1, <1>6, <2>1 DEF GuardHolds
<1>7. CASE opts.guard = "roles"
  <2>1. Guards(opts, user) = auth \o roles
    BY <1>3, <1>7 DEF Guards
  <2> QED BY <1>1, <1>2, <1>4, <1>7, <2>1 DEF GuardHolds
<1> QED BY <1>5, <1>6, <1>7

LEMMA AnonymousOk ==
  ASSUME NEW opts, opts.guard \in {"none", "auth", "roles"}, opts.required \in BOOLEAN
  PROVE  /\ AnonymousChecks(opts) \in CheckSeq
         /\ Verdict(AnonymousChecks(opts)) = Ok <=> ~opts.required /\ opts.guard = "none"
<1> DEFINE first == << Check(~opts.required, "missing_token") >>
<1>1. first \in CheckSeq /\ (Verdict(first) = Ok <=> ~opts.required)
  <2>1. "missing_token" \in Codes /\ (~opts.required) \in BOOLEAN
    BY DEF Codes
  <2> QED BY <2>1, OneCheck
<1>2. /\ Guards(opts, Absent) \in CheckSeq
      /\ Verdict(Guards(opts, Absent)) = Ok <=> opts.guard = "none"
  BY GuardsOk DEF GuardHolds
<1>3. AnonymousChecks(opts) = first \o Guards(opts, Absent)
  BY DEF AnonymousChecks
<1> HIDE DEF first
<1> QED BY <1>1, <1>2, <1>3, VerdictConcat

LEMMA UserOk ==
  ASSUME case \in Case, NEW cfg, NEW package
  PROVE  /\ UserChecks(cfg, package) \in CheckSeq
         /\ Verdict(UserChecks(cfg, package)) = Ok
              <=> /\ IdSource(cfg, case.token.claims) # Absent
                  /\ GuardHolds(case.opts, MapClaims(cfg, case.token.claims, package))
<1> DEFINE id     == Mapped(cfg, case.token.claims)
           guards == Guards(case.opts, MapClaims(cfg, case.token.claims, package))
<1>1. id \in CheckSeq /\ (Verdict(id) = Ok <=> IdSource(cfg, case.token.claims) # Absent)
  <2>1. "authentication_error" \in Codes /\ (IdSource(cfg, case.token.claims) # Absent) \in BOOLEAN
    BY DEF Codes
  <2> QED BY <2>1, OneCheck DEF Mapped
<1>2. /\ guards \in CheckSeq
      /\ Verdict(guards) = Ok <=> GuardHolds(case.opts, MapClaims(cfg, case.token.claims, package))
  BY CaseAssumption, GuardsOk
<1>3. UserChecks(cfg, package) = id \o guards
  BY DEF UserChecks
<1> HIDE DEF id, guards
<1> QED BY <1>1, <1>2, <1>3, VerdictConcat
-----------------------------------------------------------------------------
(***************************************************************************)
(* A configuration that is not rejected is a sane one, in both packages.   *)

Sane(raw, cfg) ==
  /\ cfg.kind = raw.kind
  /\ cfg.tolerance \in Int
  /\ Or(cfg.idFrom, Defaults(cfg).id) \in Seq(ClaimName)
  /\ Or(cfg.rolesFrom, Defaults(cfg).roles) \in Seq(ClaimName)
  /\ raw.kind = "microsoft" =>
       /\ cfg.tenant \in Modes \cup TenantText
       /\ cfg.tenant = raw.tenant \/ (cfg.tenant = "common" /\ raw.tenant \in {Undefined, Blank})
       /\ cfg.allowed = Or(raw.allowed, {}) /\ cfg.allowed \subseteq TenantText
       /\ cfg.versions \subseteq Versions
       /\ {cfg.authority, cfg.v1Host} \subseteq {Bare[text] : text \in HostText}

LEMMA WithoutBlank ==
  ASSUME NEW list \in Seq(ClaimName \cup {Blank}), Blank \notin Names(list)
  PROVE  list \in Seq(ClaimName)
<1>1. \A i \in DOMAIN list : list[i] \in ClaimName
  BY DEF Names
<1> QED BY <1>1

LEMMA DefaultNames ==
  ASSUME NEW cfg
  PROVE  Defaults(cfg).id \in Seq(ClaimName) /\ Defaults(cfg).roles \in Seq(ClaimName)
<1>1. "oid" \in ClaimName /\ "sub" \in ClaimName /\ "roles" \in ClaimName
  BY MappingAssumption
<1>2. <<"oid", "sub">> \in Seq(ClaimName) /\ <<"sub">> \in Seq(ClaimName)
      /\ <<"roles">> \in Seq(ClaimName) /\ <<>> \in Seq(ClaimName)
  BY <1>1
<1>3. Defaults(cfg) \in {MicrosoftDefaults, GoogleDefaults}
  BY DEF Defaults
<1>4. /\ MicrosoftDefaults.id = <<"oid", "sub">> /\ MicrosoftDefaults.roles = <<"roles">>
      /\ GoogleDefaults.id = <<"sub">> /\ GoogleDefaults.roles = <<>>
  BY DEF MicrosoftDefaults, GoogleDefaults
<1>5. CASE Defaults(cfg) = MicrosoftDefaults
  BY <1>2, <1>4, <1>5
<1>6. CASE Defaults(cfg) = GoogleDefaults
  BY <1>2, <1>4, <1>6
<1> QED BY <1>3, <1>5, <1>6

LEMMA NodeSane ==
  ASSUME NEW raw, IsRawConfig(raw), ~NodeRejects(raw)
  PROVE  Sane(raw, NodeConfig(raw))
<1> DEFINE cfg == NodeConfig(raw)
<1>1. /\ cfg.kind = raw.kind /\ cfg.tenant = Or(raw.tenant, "common")
      /\ cfg.allowed = Or(raw.allowed, {}) /\ cfg.versions = Or(raw.versions, Versions)
      /\ cfg.tolerance = Or(raw.tolerance, DefaultTolerance)
      /\ cfg.authority = Bare[Or(raw.authority, DefaultAuthority)]
      /\ cfg.v1Host = Bare[Or(raw.v1Host, DefaultV1Host)]
      /\ cfg.idFrom = raw.idFrom /\ cfg.rolesFrom = raw.rolesFrom
  BY DEF NodeConfig
<1> HIDE DEF cfg
<1>2. cfg.tolerance \in Int
  BY <1>1, ConfigAssumption DEF IsRawConfig, NodeRejects, NodeNumbersRejected, Or
<1>3. ASSUME NEW list \in Seq(ClaimName \cup {Blank}) \cup {Undefined}, ~NodeMappingRejected(list),
             NEW default \in Seq(ClaimName)
      PROVE  Or(list, default) \in Seq(ClaimName)
  BY <1>3, WithoutBlank DEF NodeMappingRejected, Or
<1>4. /\ Or(cfg.idFrom, Defaults(cfg).id) \in Seq(ClaimName)
      /\ Or(cfg.rolesFrom, Defaults(cfg).roles) \in Seq(ClaimName)
  BY <1>1, <1>3, DefaultNames DEF IsRawConfig, NodeRejects
<1>5. ASSUME raw.kind = "microsoft"
      PROVE  /\ cfg.tenant \in Modes \cup TenantText
             /\ cfg.tenant = raw.tenant
                  \/ (cfg.tenant = "common" /\ raw.tenant \in {Undefined, Blank})
             /\ cfg.allowed = Or(raw.allowed, {}) /\ cfg.allowed \subseteq TenantText
             /\ cfg.versions \subseteq Versions
  <2>1. ~NodeMicrosoftRejected(raw)
    BY <1>5 DEF NodeRejects
  <2>2. IsValidTenantId(cfg.tenant) /\ \A text \in cfg.allowed : IsTenantGuid(text)
    BY <1>1, <2>1 DEF NodeMicrosoftRejected
  <2>3. cfg.versions \subseteq Versions
    BY <1>1, <2>1 DEF NodeMicrosoftRejected
  <2> QED BY <1>1, <2>2, <2>3 DEF IsValidTenantId, IsTenantGuid, Or
<1>6. {cfg.authority, cfg.v1Host} \subseteq {Bare[text] : text \in HostText}
  <2>1. /\ Or(raw.authority, DefaultAuthority) \in HostText
        /\ Or(raw.v1Host, DefaultV1Host) \in HostText
    BY ConfigAssumption DEF IsRawConfig, Or
  <2> QED BY <1>1, <2>1
<1>7. Sane(raw, cfg)
  BY <1>1, <1>2, <1>4, <1>5, <1>6 DEF Sane
<1> QED BY <1>7 DEF cfg

LEMMA GoSane ==
  ASSUME NEW raw, IsRawConfig(raw), GoCanExpress(raw), ~GoRejects(raw)
  PROVE  Sane(raw, GoConfig(raw))
<1> DEFINE cfg == GoConfig(raw)
<1>1. /\ cfg.kind = raw.kind /\ cfg.tenant = OrDefault(raw.tenant, Blank, "common")
      /\ cfg.allowed = Or(raw.allowed, {}) /\ cfg.versions = OrDefault(raw.versions, {}, Versions)
      /\ cfg.tolerance = OrDefault(raw.tolerance, 0, DefaultTolerance)
      /\ cfg.authority = Bare[OrDefault(raw.authority, Blank, DefaultAuthority)]
      /\ cfg.v1Host = Bare[OrDefault(raw.v1Host, Blank, DefaultV1Host)]
      /\ cfg.idFrom = OrDefault(raw.idFrom, <<>>, Undefined)
      /\ cfg.rolesFrom = OrDefault(raw.rolesFrom, <<>>, Undefined)
  BY DEF GoConfig
<1> HIDE DEF cfg
<1>2. cfg.tolerance \in Int
  BY <1>1, ConfigAssumption DEF IsRawConfig, GoCanExpress, OrDefault
<1>3. ASSUME NEW list \in Seq(ClaimName \cup {Blank}) \cup {Undefined}, ~GoMappingRejected(list),
             NEW default \in Seq(ClaimName)
      PROVE  Or(OrDefault(list, <<>>, Undefined), default) \in Seq(ClaimName)
  <2>1. CASE list \in {Undefined, <<>>}
    BY <2>1 DEF OrDefault, Or
  <2>2. CASE list \notin {Undefined, <<>>}
    <3>1. Blank \notin Names(list)
      BY <1>3, <2>2 DEF GoMappingRejected, OrDefault
    <3> QED BY <2>2, <3>1, WithoutBlank DEF OrDefault, Or
  <2> QED BY <2>1, <2>2
<1>4. /\ Or(cfg.idFrom, Defaults(cfg).id) \in Seq(ClaimName)
      /\ Or(cfg.rolesFrom, Defaults(cfg).roles) \in Seq(ClaimName)
  BY <1>1, <1>3, DefaultNames DEF IsRawConfig, GoRejects
<1>5. ASSUME raw.kind = "microsoft"
      PROVE  /\ cfg.tenant \in Modes \cup TenantText
             /\ cfg.tenant = raw.tenant
                  \/ (cfg.tenant = "common" /\ raw.tenant \in {Undefined, Blank})
             /\ cfg.allowed = Or(raw.allowed, {}) /\ cfg.allowed \subseteq TenantText
             /\ cfg.versions \subseteq Versions
  <2>1. ~GoMicrosoftRejected(raw)
    BY <1>5 DEF GoRejects
  <2>2. IsValidTenantId(cfg.tenant) /\ \A text \in cfg.allowed : IsTenantGuid(text)
    BY <1>1, <2>1 DEF GoMicrosoftRejected
  <2>3. cfg.versions \subseteq Versions
    BY <1>1, <2>1 DEF GoMicrosoftRejected
  <2> QED BY <1>1, <2>2, <2>3 DEF IsValidTenantId, IsTenantGuid, OrDefault
<1>6. {cfg.authority, cfg.v1Host} \subseteq {Bare[text] : text \in HostText}
  <2>1. /\ OrDefault(raw.authority, Blank, DefaultAuthority) \in HostText
        /\ OrDefault(raw.v1Host, Blank, DefaultV1Host) \in HostText
    BY ConfigAssumption DEF IsRawConfig, OrDefault
  <2> QED BY <1>1, <2>1
<1>7. Sane(raw, cfg)
  BY <1>1, <1>2, <1>4, <1>5, <1>6 DEF Sane
<1> QED BY <1>7 DEF cfg
-----------------------------------------------------------------------------
(***************************************************************************)
(* What the checks accept is what the reference trusts.                    *)

LEMMA TenantIsPermitted ==
  ASSUME NEW raw, NEW cfg, Sane(raw, cfg), raw.kind = "microsoft", NEW tid \in TenantText
  PROVE  TenantAllowed(cfg, tid) <=> GuidOf[tid] \in PermittedTenants(raw)
<1> DEFINE ofMode == CASE raw.tenant = "organizations" -> Guid \ {MSA}
                       [] raw.tenant = "consumers"     -> {MSA}
                       [] raw.tenant \in TenantText    -> {GuidOf[raw.tenant]}
                       [] OTHER                        -> Guid
           ModeAllows == /\ cfg.tenant \in TenantText => GuidOf[tid] = GuidOf[cfg.tenant]
                         /\ cfg.tenant = "consumers" => GuidOf[tid] = MSA
                         /\ cfg.tenant = "organizations" => GuidOf[tid] # MSA
           listed == {GuidOf[text] : text \in Or(raw.allowed, {})}
<1>1. GuidOf[tid] \in Guid
  BY ConfigAssumption
<1>2. ModeAllows <=> GuidOf[tid] \in ofMode
  <2>1. /\ cfg.tenant \in Modes \cup TenantText
        /\ cfg.tenant = raw.tenant
             \/ (cfg.tenant = "common" /\ raw.tenant \in {Undefined, Blank})
    BY DEF Sane
  <2>2. "organizations" \notin TenantText /\ "consumers" \notin TenantText
        /\ "common" \notin TenantText /\ Undefined \notin TenantText /\ Blank \notin TenantText
        /\ Undefined \notin {"organizations", "consumers"}
        /\ Blank \notin {"organizations", "consumers"}
    BY TextAssumption DEF Modes
  <2>3. CASE raw.tenant = "organizations"
    <3>1. cfg.tenant = "organizations" /\ ofMode = Guid \ {MSA}
      BY <2>1, <2>2, <2>3
    <3> QED BY <1>1, <2>2, <3>1
  <2>4. CASE raw.tenant = "consumers"
    <3>1. cfg.tenant = "consumers" /\ ofMode = {MSA}
      BY <2>1, <2>2, <2>4
    <3> QED BY <1>1, <2>2, <3>1
  <2>5. CASE raw.tenant \in TenantText
    <3>1. cfg.tenant = raw.tenant /\ ofMode = {GuidOf[raw.tenant]}
      BY <2>1, <2>2, <2>5
    <3> QED BY <1>1, <2>2, <2>5, <3>1
  <2>6. CASE raw.tenant \notin {"organizations", "consumers"} \cup TenantText
    <3>1. cfg.tenant = "common" /\ ofMode = Guid
      BY <2>1, <2>2, <2>6 DEF Modes
    <3> QED BY <1>1, <2>2, <3>1
  <2> QED BY <2>3, <2>4, <2>5, <2>6
<1>3. /\ TenantAllowed(cfg, tid) <=> ModeAllows /\ (cfg.allowed # {} => GuidOf[tid] \in listed)
      /\ listed = {} <=> cfg.allowed = {}
  <2>1. cfg.allowed = Or(raw.allowed, {})
    BY DEF Sane
  <2> QED BY <2>1 DEF TenantAllowed, IsTenantGuid
<1>4. PermittedTenants(raw) = IF listed = {} THEN ofMode ELSE ofMode \cap listed
  BY ONLY DEF PermittedTenants
<1> HIDE DEF ofMode, ModeAllows, listed
<1> QED BY <1>2, <1>3, <1>4

(* The version a token implies is one the code knows. *)
LEMMA VersionKnown ==
  ASSUME NEW cfg, NEW tok
  PROVE  /\ ResolveVersion(cfg, tok) \in Versions \cup {"unknown"}
         /\ GoResolveVersion(cfg, tok) \in {ResolveVersion(cfg, tok), "unknown"}
         /\ tok.ver \in Versions => /\ ResolveVersion(cfg, tok) = tok.ver
                                    /\ GoResolveVersion(cfg, tok) = tok.ver
  BY DEF ResolveVersion, GoResolveVersion, Versions

(* Genuine tokens name a tenant: a token that Microsoft signed carries the *)
(* GUID of one, or no tid.                                                 *)
Signed(raw, tok) ==
  raw.kind = "microsoft" /\ tok.genuine => tok.tid \in TenantText \cup {Absent}

LEMMA AcceptedIsTrusted ==
  ASSUME NEW raw, IsRawConfig(raw), NEW cfg, Sane(raw, cfg),
         NEW tok, Signed(raw, tok), NEW version,
         tok.wellFormed, tok.genuine, tok.alg = "RS256", tok.kid # "unknown",
         AudienceMatches(cfg, tok), IssuerHolds(cfg, tok, version),
         PolicyHolds(cfg, tok, version),
         cfg.kind # "google" => HasTid(tok),
         tok.ver \in Versions => version = tok.ver
  PROVE  Trusted(cfg, raw, tok)
<1>1. CASE raw.kind = "google"
  <2>1. cfg.kind = "google"
    BY <1>1 DEF Sane
  <2>2. IssuedByGoogle(cfg, tok)
    BY <2>1 DEF IssuedByGoogle, IssuerHolds, GoogleIssuer, PolicyHolds, HostedDomainAllowed
  <2> QED BY <1>1, <2>2 DEF Trusted, AudienceMatches
<1>2. CASE raw.kind = "microsoft"
  <2>1. cfg.kind # "google"
    BY <1>2 DEF Sane
  <2>2. tok.tid \in TenantText
    BY <1>2, <2>1 DEF Signed, HasTid
  <2>3. version \in cfg.versions /\ GuidOf[tok.tid] \in PermittedTenants(raw)
    BY <1>2, <2>1, <2>2, TenantIsPermitted DEF PolicyHolds, VersionAccepted
  <2>4. tok.iss = ResolveExpectedIssuer(cfg, tok.tid, version)
    BY <2>1 DEF IssuerHolds
  <2>5. IssuedForTenant(cfg, raw, tok)
    BY <2>2, <2>3, <2>4 DEF IssuedForTenant, ResolveExpectedIssuer
  <2> QED BY <1>2, <2>5 DEF Trusted, AudienceMatches
<1> QED BY <1>1, <1>2 DEF IsRawConfig

(* Both packages read the version of a trusted token as it was meant.      *)
LEMMA TrustedIsAccepted ==
  ASSUME NEW raw, IsRawConfig(raw), NEW cfg, Sane(raw, cfg), Absent \notin cfg.domains,
         NEW tok, Trusted(cfg, raw, tok)
  PROVE  LET version == ResolveVersion(cfg, tok) IN
         /\ GoResolveVersion(cfg, tok) = version
         /\ cfg.kind # "google" => version # "unknown" /\ HasTid(tok)
         /\ IssuerHolds(cfg, tok, version)
         /\ PolicyHolds(cfg, tok, version)
<1>1. CASE raw.kind = "google"
  <2>1. cfg.kind = "google" /\ IssuedByGoogle(cfg, tok)
    BY <1>1 DEF Sane, Trusted
  <2>2. tok.iss # Absent
    BY <2>1 DEF IssuedByGoogle
  <2>3. GoResolveVersion(cfg, tok) = ResolveVersion(cfg, tok)
    BY <2>2 DEF GoResolveVersion
  <2>4. cfg.domains # {} => tok.hd \in cfg.domains /\ tok.hd # Absent
    BY <2>1 DEF IssuedByGoogle
  <2> QED BY <2>1, <2>3, <2>4
          DEF IssuedByGoogle, IssuerHolds, GoogleIssuer, PolicyHolds, HostedDomainAllowed
<1>2. CASE raw.kind = "microsoft"
  <2>1. cfg.kind # "google" /\ IssuedForTenant(cfg, raw, tok)
    BY <1>2 DEF Sane, Trusted
  <2>2. PICK text \in TenantText, v \in cfg.versions :
          /\ GuidOf[text] \in PermittedTenants(raw)
          /\ tok.tid = text
          /\ tok.ver \in Versions => tok.ver = v
          /\ tok.iss = IF v = "2.0"
                       THEN [host |-> cfg.authority, tid |-> text, tail |-> "v2.0"]
                       ELSE [host |-> cfg.v1Host, tid |-> text, tail |-> "/"]
    BY <2>1 DEF IssuedForTenant
  <2>3. v \in {"1.0", "2.0"}
    BY <1>2 DEF Sane, Versions
  <2>4. /\ cfg.authority \in {Bare[x] : x \in HostText}
        /\ cfg.v1Host \in {Bare[x] : x \in HostText}
    BY <1>2 DEF Sane
  <2>5. tok.iss \in Issuer
    BY <2>2, <2>4 DEF Issuer
  <2>6. tok.iss # Absent /\ HasTid(tok)
    BY <2>2, <2>5, PolicyAssumption DEF HasTid
  <2>7. ResolveVersion(cfg, tok) = v
    <3>1. CASE tok.ver \in Versions
      BY <2>2, <3>1, VersionKnown
    <3>2. CASE tok.ver \notin Versions /\ v = "2.0"
      <4>1. EndsWithV2(tok.iss)
        BY <2>2, <2>6, <3>2 DEF EndsWithV2
      <4> QED BY <3>2, <4>1 DEF ResolveVersion
    <3>3. CASE tok.ver \notin Versions /\ v = "1.0"
      <4>1. tok.iss.tail = "/" /\ tok.iss.host = cfg.v1Host
        BY <2>2, <3>3
      <4>2. ~EndsWithV2(tok.iss) /\ Includes(tok.iss, cfg.v1Host)
        BY <2>6, <4>1 DEF EndsWithV2, Includes
      <4> QED BY <3>3, <4>2 DEF ResolveVersion
    <3> QED BY <2>3, <3>1, <3>2, <3>3
  <2>8. GoResolveVersion(cfg, tok) = v
    BY <2>6, <2>7 DEF GoResolveVersion
  <2>9. IssuerHolds(cfg, tok, v)
    BY <2>1, <2>2 DEF IssuerHolds, ResolveExpectedIssuer
  <2>10. PolicyHolds(cfg, tok, v)
    BY <1>2, <2>1, <2>2, TenantIsPermitted DEF PolicyHolds, VersionAccepted
  <2> QED BY <2>3, <2>6, <2>7, <2>8, <2>9, <2>10
<1> QED BY <1>1, <1>2 DEF IsRawConfig
-----------------------------------------------------------------------------
(***************************************************************************)
(* The invariant.  A server that got as far as an answer was wired without *)
(* complaint, and its answer is the one its checks give at the time the    *)
(* claims were compared.                                                   *)

NodeCfg == NodeConfig(case.raw)
GoCfg   == GoConfig(case.raw)

(* What the checks of a token say when they are all made at time at. *)
NodeServes(at) ==
  /\ Verdict(NodePeek(NodeCfg, case.token)) = Ok
  /\ Verdict(NodeRest(NodeCfg, case.token, at)) = Ok
  /\ Verdict(UserChecks(NodeCfg, "node")) = Ok
GoServes(at) ==
  /\ Verdict(GoPeek(GoCfg, case.token)) = Ok
  /\ Verdict(GoRest(GoCfg, case.token, at)) = Ok
  /\ Verdict(UserChecks(GoCfg, "go")) = Ok

Wired(server, rejects) ==
  server.stage # "down"
    => (server.stage = "misconfigured" <=> rejects \/ GuardMisused(case.opts))

Answered(server, carries, serves) ==
  IF server.stage = "answered"
  THEN /\ server.tokened <=> carries
       /\ ~carries => (server.answer = "handled" <=> Verdict(AnonymousChecks(case.opts)) = Ok)
       /\ carries => (server.answer = "handled" <=> serves)
  ELSE server.answer = Absent

(* Node compares with a clock that is as old as the fetches it waited for. *)
Fetching == IF NeedsRefresh(case.token) THEN Latency + Latency ELSE Latency

NodeInTime ==
  /\ Waiting(node) =>
       /\ NodeCarriesToken(case.header)
       /\ Verdict(NodePeek(NodeCfg, case.token)) = Ok
       /\ node.since <= now /\ now <= node.since + Latency
  /\ node.stage = "verifying" => node.comparedAt = node.since
  /\ node.stage = "retrying" =>
       /\ NeedsRefresh(case.token)
       /\ node.comparedAt <= node.since /\ node.since <= node.comparedAt + Latency
  /\ node.stage = "answered" /\ node.tokened /\ node.answer = "handled" =>
       node.comparedAt <= node.answeredAt /\ node.answeredAt <= node.comparedAt + Fetching

GoInTime ==
  /\ go.stage # "down" => GoCanExpress(case.raw)
  /\ Waiting(go) =>
       /\ GoCarriesToken(case.header)
       /\ Verdict(GoPeek(GoCfg, case.token)) = Ok
  /\ go.stage = "answered" /\ go.tokened /\ go.answer = "handled" =>
       go.answeredAt = go.comparedAt

NodeInv ==
  /\ node \in Server
  /\ Wired(node, NodeRejects(case.raw))
  /\ Answered(node, NodeCarriesToken(case.header), NodeServes(node.comparedAt))
  /\ NodeInTime
GoInv ==
  /\ go \in Server
  /\ Wired(go, GoRejects(case.raw))
  /\ Answered(go, GoCarriesToken(case.header), GoServes(go.comparedAt))
  /\ GoInTime

Inv == case \in Case /\ now \in Nat /\ NodeInv /\ GoInv

LEMMA InitInv == Init => Inv
<1> SUFFICES ASSUME Init PROVE Inv
  OBVIOUS
<1>1. Down \in Server /\ Down.stage = "down" /\ Down.answer = Absent
  BY DEF Down, Server, Stages
<1> QED BY <1>1 DEF Init, Inv, NodeInv, GoInv, Wired, Answered, NodeInTime, Waiting, GoInTime

(* An answer is "handled" exactly if the checks pass. *)
LEMMA AnswersAre ==
  ASSUME now \in Nat, NEW server \in Server, NEW checks \in CheckSeq,
         NEW tokened \in BOOLEAN, NEW roles \in SUBSET STRING
  PROVE  LET new == Answers(server, checks, tokened, roles) IN
         /\ new \in Server
         /\ new.stage = "answered" /\ new.tokened = tokened
         /\ new.comparedAt = server.comparedAt /\ new.answeredAt = now
         /\ new.answer = "handled" <=> Verdict(checks) = Ok
<1> DEFINE new == Answers(server, checks, tokened, roles)
           answer == IF Verdict(checks) = Ok THEN "handled" ELSE Verdict(checks)
<1>1. answer \in Codes \cup {"handled", Absent} /\ (answer = "handled" <=> Verdict(checks) = Ok)
  <2>1. "handled" \notin Codes
    BY DEF Codes
  <2> QED BY <2>1, VerdictOk
<1>2. new = [server EXCEPT !.stage = "answered", !.answeredAt = now, !.tokened = tokened,
                           !.roles = roles, !.answer = answer]
  BY DEF Answers
<1> HIDE DEF new, answer
<1>3. new \in Server
  BY <1>1, <1>2 DEF Server, Stages
<1>4. /\ new.stage = "answered" /\ new.tokened = tokened /\ new.answer = answer
      /\ new.comparedAt = server.comparedAt /\ new.answeredAt = now
  BY <1>2 DEF Server
<1> QED BY <1>1, <1>3, <1>4 DEF new

LEMMA TokenChecksOk ==
  ASSUME case \in Case, NEW cfg, NEW package, NEW checks \in CheckSeq
  PROVE  /\ TokenChecks(cfg, package, checks) \in CheckSeq
         /\ Verdict(TokenChecks(cfg, package, checks)) = Ok
              <=> Verdict(checks) = Ok /\ Verdict(UserChecks(cfg, package)) = Ok
  BY UserOk DEF TokenChecks

LEMMA CaseIsToken == ASSUME case \in Case PROVE IsToken(case.token) /\ IsRawConfig(case.raw)
  BY CaseAssumption

LEMMA UserRolesType ==
  ASSUME case \in Case, NEW cfg, Sane(case.raw, cfg), NEW package \in Package
  PROVE  UserRoles(cfg, package) \in SUBSET STRING
<1>1. case.token.claims \in [ClaimName -> ClaimValue]
  BY CaseAssumption
<1> QED BY <1>1, RolesAreHeld DEF UserRoles, Sane

LEMMA AnonymousType ==
  ASSUME case \in Case PROVE AnonymousChecks(case.opts) \in CheckSeq
  BY CaseAssumption, AnonymousOk

(* A step of one server leaves the other alone. *)
LEMMA NodeFrame == NodeInv /\ UNCHANGED <<case, now, node>> => NodeInv'
  BY DEF NodeInv, Wired, Answered, NodeInTime, Waiting, Fetching, NodeServes, NodeCfg, UserChecks

LEMMA GoFrame == GoInv /\ UNCHANGED <<case, go>> => GoInv'
  BY DEF GoInv, Wired, Answered, GoInTime, Waiting, GoServes, GoCfg, UserChecks

LEMMA NodeWiresInv == Inv /\ NodeWires => NodeInv'
<1> SUFFICES ASSUME Inv, NodeWires PROVE NodeInv'
  OBVIOUS
<1>1. node \in Server /\ node.stage = "down" /\ node.answer = Absent
  BY DEF Inv, NodeInv, NodeWires, Answered
<1>2. case' = case /\ node' = [node EXCEPT !.stage =
        IF NodeRejects(case.raw) \/ GuardMisused(case.opts) THEN "misconfigured" ELSE "listening"]
  BY DEF NodeWires
<1>3. /\ node' \in Server /\ node'.stage \in {"misconfigured", "listening"}
      /\ node'.answer = Absent
      /\ node'.stage = "misconfigured" <=> NodeRejects(case.raw) \/ GuardMisused(case.opts)
  BY <1>1, <1>2 DEF Server, Stages
<1> QED BY <1>2, <1>3 DEF NodeInv, Wired, Answered, NodeInTime, Waiting

LEMMA NoRoles == {} \in SUBSET STRING
  OBVIOUS

LEMMA NodeReceivesInv == Inv /\ NodeReceives => NodeInv'
<1> SUFFICES ASSUME Inv, NodeReceives PROVE NodeInv'
  OBVIOUS
<1> DEFINE tok == case.token
           peek == NodePeek(NodeCfg, tok)
<1>1. /\ node \in Server /\ node.stage = "listening" /\ node.answer = Absent
      /\ case \in Case /\ now \in Nat /\ Latency \in Nat /\ case' = case /\ now' = now
      /\ ~NodeRejects(case.raw) /\ ~GuardMisused(case.opts)
  BY CaseAssumption DEF Inv, NodeInv, NodeReceives, Answered, Wired
<1>2. peek \in CheckSeq
  BY <1>1, CaseIsToken, NodePeekOk
<1>3. CASE ~NodeCarriesToken(case.header) /\ node' = Answers(node, AnonymousChecks(case.opts), FALSE, {})
  <2>1. /\ node' \in Server /\ node'.stage = "answered" /\ node'.tokened = FALSE
        /\ node'.answer = "handled" <=> Verdict(AnonymousChecks(case.opts)) = Ok
    BY <1>1, <1>3, NoRoles, AnonymousType, AnswersAre
  <2> QED BY <1>1, <1>3, <2>1 DEF NodeInv, Wired, Answered, NodeInTime, Waiting
<1>4. CASE /\ NodeCarriesToken(case.header) /\ Verdict(peek) # Ok
           /\ node' = Answers(node, TokenChecks(NodeCfg, "node", peek), TRUE, {})
  <2>1. /\ TokenChecks(NodeCfg, "node", peek) \in CheckSeq
        /\ Verdict(TokenChecks(NodeCfg, "node", peek)) # Ok
    BY <1>1, <1>2, <1>4, TokenChecksOk
  <2>2. /\ node' \in Server /\ node'.stage = "answered" /\ node'.tokened = TRUE
        /\ node'.answer # "handled"
    BY <1>1, <1>4, <2>1, NoRoles, AnswersAre
  <2>3. ~NodeServes(node'.comparedAt) /\ NodeServes(node.comparedAt)' = NodeServes(node'.comparedAt)
    BY <1>1, <1>4 DEF NodeServes, NodeCfg, UserChecks
  <2> QED BY <1>1, <1>4, <2>2, <2>3 DEF NodeInv, Wired, Answered, NodeInTime, Waiting
<1>5. CASE /\ NodeCarriesToken(case.header) /\ Verdict(peek) = Ok
           /\ node' = [node EXCEPT !.stage = "verifying", !.since = now, !.comparedAt = now]
  <2>1. /\ node' \in Server /\ node'.stage = "verifying" /\ node'.answer = Absent
        /\ node'.since = now /\ node'.comparedAt = now
    BY <1>1, <1>5 DEF Server, Stages
  <2>2. now <= now + Latency
    BY <1>1
  <2> QED BY <1>1, <1>5, <2>1, <2>2 DEF NodeInv, Wired, Answered, NodeInTime, Waiting, NodeCfg
<1> QED BY <1>3, <1>4, <1>5 DEF NodeReceives, NodeCfg

(* An answer after the first fetch, or after the second. *)
LEMMA NodeAnswersInv ==
  ASSUME Inv, Waiting(node), NodeAnswers, case' = case, now' = now,
         node.comparedAt <= now, now <= node.comparedAt + Fetching
  PROVE  NodeInv'
<1> DEFINE tok == case.token
           rest == NodeRest(NodeCfg, tok, node.comparedAt)
<1>1. /\ node \in Server
      /\ case \in Case /\ now \in Nat
      /\ ~NodeRejects(case.raw) /\ ~GuardMisused(case.opts)
      /\ NodeCarriesToken(case.header) /\ Verdict(NodePeek(NodeCfg, tok)) = Ok
  BY DEF Inv, NodeInv, NodeInTime, Wired, Waiting
<1>2. rest \in CheckSeq
  BY <1>1, CaseIsToken, NodeRestOk
<1>3. UserRoles(NodeCfg, "node") \in SUBSET STRING
  BY <1>1, CaseIsToken, NodeSane, UserRolesType DEF NodeCfg, Package
<1>4. /\ TokenChecks(NodeCfg, "node", rest) \in CheckSeq
      /\ Verdict(TokenChecks(NodeCfg, "node", rest)) = Ok <=> NodeServes(node.comparedAt)
  BY <1>1, <1>2, TokenChecksOk DEF NodeServes
<1>5. node' = Answers(node, TokenChecks(NodeCfg, "node", rest), TRUE, UserRoles(NodeCfg, "node"))
  BY DEF NodeAnswers, NodeCfg
<1> HIDE DEF rest
<1>6. /\ node' \in Server /\ node'.stage = "answered" /\ node'.tokened = TRUE
      /\ node'.comparedAt = node.comparedAt /\ node'.answeredAt = now
      /\ node'.answer = "handled" <=> NodeServes(node.comparedAt)
  BY <1>1, <1>3, <1>4, <1>5, AnswersAre
<1>7. NodeServes(node.comparedAt)' = NodeServes(node.comparedAt) /\ Fetching' = Fetching
  BY <1>1, <1>6 DEF NodeServes, NodeCfg, UserChecks, Fetching
<1> QED BY <1>1, <1>6, <1>7 DEF NodeInv, Wired, Answered, NodeInTime, Waiting

(* The clocks a waiting server has written down. *)
LEMMA NodeWaits ==
  ASSUME Inv, Waiting(node)
  PROVE  /\ node \in Server /\ case \in Case
         /\ now \in Nat /\ node.since \in Nat /\ node.comparedAt \in Nat /\ Latency \in Nat
         /\ node.since <= now /\ now <= node.since + Latency
         /\ node.comparedAt <= node.since
         /\ node.stage = "verifying" => node.comparedAt = node.since
         /\ node.stage = "retrying" => NeedsRefresh(case.token) /\ node.since <= node.comparedAt + Latency
<1>1. node \in Server /\ case \in Case /\ now \in Nat /\ Latency \in Nat
  BY CaseAssumption DEF Inv, NodeInv
<1>2. node.since \in Nat /\ node.comparedAt \in Nat
  BY <1>1 DEF Server
<1> QED BY <1>1, <1>2 DEF Inv, NodeInv, NodeInTime, Waiting

LEMMA NodeVerifiesInv == Inv /\ NodeVerifies => NodeInv'
<1> SUFFICES ASSUME Inv, NodeVerifies PROVE NodeInv'
  OBVIOUS
<1>1. node.stage = "verifying" /\ Waiting(node) /\ case' = case /\ now' = now
  BY DEF NodeVerifies, Waiting
<1>2. CASE NodeAnswers
  <2>1. node.comparedAt <= now /\ now <= node.comparedAt + Fetching
    BY <1>1, NodeWaits DEF Fetching
  <2> QED BY <1>1, <1>2, <2>1, NodeAnswersInv
<1>3. CASE NeedsRefresh(case.token) /\ node' = [node EXCEPT !.stage = "retrying", !.since = now]
  <2>1. /\ node' \in Server /\ node'.stage = "retrying" /\ node'.since = now
        /\ node'.comparedAt = node.comparedAt /\ node'.answer = node.answer
    BY <1>1, <1>3, NodeWaits DEF Server, Stages
  <2>2. node'.since <= now' /\ now' <= node'.since + Latency
        /\ node'.comparedAt <= node'.since /\ node'.since <= node'.comparedAt + Latency
    BY <1>1, <2>1, NodeWaits
  <2>3. /\ NodeCarriesToken(case.header) /\ Verdict(NodePeek(NodeCfg, case.token)) = Ok
        /\ node.answer = Absent /\ ~NodeRejects(case.raw) /\ ~GuardMisused(case.opts)
    BY <1>1 DEF Inv, NodeInv, NodeInTime, Wired, Answered
  <2> QED BY <1>1, <1>3, <2>1, <2>2, <2>3 DEF NodeInv, Wired, Answered, NodeInTime, Waiting, NodeCfg
<1> QED BY <1>2, <1>3 DEF NodeVerifies

LEMMA NodeRetriesInv == Inv /\ NodeRetries => NodeInv'
<1> SUFFICES ASSUME Inv, NodeRetries PROVE NodeInv'
  OBVIOUS
<1>1. /\ node.stage = "retrying" /\ Waiting(node) /\ NodeAnswers
      /\ case' = case /\ now' = now
  BY DEF NodeRetries, Waiting
<1>2. node.comparedAt <= now /\ now <= node.comparedAt + Fetching
  BY <1>1, NodeWaits DEF Fetching
<1> QED BY <1>1, <1>2, NodeAnswersInv

LEMMA GoWiresInv == Inv /\ GoWires => GoInv'
<1> SUFFICES ASSUME Inv, GoWires PROVE GoInv'
  OBVIOUS
<1>1. go \in Server /\ go.stage = "down" /\ go.answer = Absent
  BY DEF Inv, GoInv, GoWires, Answered
<1>2. GoCanExpress(case.raw) /\ case' = case /\ go' = [go EXCEPT !.stage =
        IF GoRejects(case.raw) \/ GuardMisused(case.opts) THEN "misconfigured" ELSE "listening"]
  BY DEF GoWires
<1>3. /\ go' \in Server /\ go'.stage \in {"misconfigured", "listening"}
      /\ go'.answer = Absent
      /\ go'.stage = "misconfigured" <=> GoRejects(case.raw) \/ GuardMisused(case.opts)
  BY <1>1, <1>2 DEF Server, Stages
<1> QED BY <1>2, <1>3 DEF GoInv, Wired, Answered, GoInTime, Waiting

LEMMA GoReceivesInv == Inv /\ GoReceives => GoInv'
<1> SUFFICES ASSUME Inv, GoReceives PROVE GoInv'
  OBVIOUS
<1> DEFINE tok == case.token
           peek == GoPeek(GoCfg, tok)
<1>1. /\ go \in Server /\ go.stage = "listening" /\ go.answer = Absent
      /\ case \in Case /\ now \in Nat /\ case' = case
      /\ ~GoRejects(case.raw) /\ ~GuardMisused(case.opts) /\ GoCanExpress(case.raw)
  BY DEF Inv, GoInv, GoReceives, Answered, Wired, GoInTime
<1>2. peek \in CheckSeq
  BY <1>1, CaseIsToken, GoPeekOk
<1>3. CASE ~GoCarriesToken(case.header) /\ go' = Answers(go, AnonymousChecks(case.opts), FALSE, {})
  <2>1. /\ go' \in Server /\ go'.stage = "answered" /\ go'.tokened = FALSE
        /\ go'.answer = "handled" <=> Verdict(AnonymousChecks(case.opts)) = Ok
    BY <1>1, <1>3, NoRoles, AnonymousType, AnswersAre
  <2> QED BY <1>1, <1>3, <2>1 DEF GoInv, Wired, Answered, GoInTime, Waiting
<1>4. CASE /\ GoCarriesToken(case.header) /\ Verdict(peek) # Ok
           /\ go' = Answers(go, TokenChecks(GoCfg, "go", peek), TRUE, {})
  <2>1. /\ TokenChecks(GoCfg, "go", peek) \in CheckSeq
        /\ Verdict(TokenChecks(GoCfg, "go", peek)) # Ok
    BY <1>1, <1>2, <1>4, TokenChecksOk
  <2>2. /\ go' \in Server /\ go'.stage = "answered" /\ go'.tokened = TRUE
        /\ go'.answer # "handled"
    BY <1>1, <1>4, <2>1, NoRoles, AnswersAre
  <2>3. ~GoServes(go'.comparedAt) /\ GoServes(go.comparedAt)' = GoServes(go'.comparedAt)
    BY <1>1, <1>4 DEF GoServes, GoCfg, UserChecks
  <2> QED BY <1>1, <1>4, <2>2, <2>3 DEF GoInv, Wired, Answered, GoInTime, Waiting
<1>5. CASE /\ GoCarriesToken(case.header) /\ Verdict(peek) = Ok
           /\ go' = [go EXCEPT !.stage = "verifying", !.since = now]
  <2>1. /\ go' \in Server /\ go'.stage = "verifying" /\ go'.answer = Absent
    BY <1>1, <1>5 DEF Server, Stages
  <2> QED BY <1>1, <1>5, <2>1 DEF GoInv, Wired, Answered, GoInTime, Waiting, GoCfg
<1> QED BY <1>3, <1>4, <1>5 DEF GoReceives, GoCfg

LEMMA GoAnswersInv ==
  ASSUME Inv, Waiting(go), GoAnswers, case' = case PROVE GoInv'
<1> DEFINE tok == case.token
           rest == GoRest(GoCfg, tok, now)
<1>1. /\ go \in Server /\ case \in Case /\ now \in Nat
      /\ ~GoRejects(case.raw) /\ ~GuardMisused(case.opts) /\ GoCanExpress(case.raw)
      /\ GoCarriesToken(case.header) /\ Verdict(GoPeek(GoCfg, tok)) = Ok
  BY DEF Inv, GoInv, GoInTime, Wired, Waiting
<1>2. rest \in CheckSeq
  BY <1>1, CaseIsToken, GoRestOk
<1>3. UserRoles(GoCfg, "go") \in SUBSET STRING
  BY <1>1, CaseIsToken, GoSane, UserRolesType DEF GoCfg, Package
<1>4. /\ TokenChecks(GoCfg, "go", rest) \in CheckSeq
      /\ Verdict(TokenChecks(GoCfg, "go", rest)) = Ok <=> GoServes(now)
  BY <1>1, <1>2, TokenChecksOk DEF GoServes
<1> DEFINE answered == Answers(go, TokenChecks(GoCfg, "go", rest), TRUE, UserRoles(GoCfg, "go"))
<1>5. go' = [answered EXCEPT !.comparedAt = now]
  BY DEF GoAnswers, GoCfg
<1> HIDE DEF rest
<1>6. /\ answered \in Server /\ answered.stage = "answered" /\ answered.tokened = TRUE
      /\ answered.answeredAt = now
      /\ answered.answer = "handled" <=> GoServes(now)
  BY <1>1, <1>3, <1>4, AnswersAre
<1> HIDE DEF answered
<1>7. /\ go' \in Server /\ go'.stage = "answered" /\ go'.tokened = TRUE
      /\ go'.comparedAt = now /\ go'.answeredAt = now
      /\ go'.answer = "handled" <=> GoServes(now)
  BY <1>1, <1>5, <1>6 DEF Server
<1>8. GoServes(go.comparedAt)' = GoServes(now)
  BY <1>1, <1>7 DEF GoServes, GoCfg, UserChecks
<1> QED BY <1>1, <1>7, <1>8 DEF GoInv, Wired, Answered, GoInTime, Waiting

LEMMA GoVerifiesInv == Inv /\ GoVerifies => GoInv'
<1> SUFFICES ASSUME Inv, GoVerifies PROVE GoInv'
  OBVIOUS
<1>1. go.stage = "verifying" /\ Waiting(go) /\ case' = case /\ now' = now
  BY DEF GoVerifies, Waiting
<1>2. CASE GoAnswers
  BY <1>1, <1>2, GoAnswersInv
<1>3. CASE go' = [go EXCEPT !.stage = "retrying", !.since = now]
  <2>1. /\ go \in Server /\ now \in Nat /\ go.answer = Absent /\ GoCanExpress(case.raw)
        /\ GoCarriesToken(case.header) /\ Verdict(GoPeek(GoCfg, case.token)) = Ok
        /\ ~GoRejects(case.raw) /\ ~GuardMisused(case.opts)
    BY <1>1 DEF Inv, GoInv, GoInTime, Wired, Answered
  <2>2. go' \in Server /\ go'.stage = "retrying" /\ go'.answer = Absent
    BY <1>3, <2>1 DEF Server, Stages
  <2> QED BY <1>1, <2>1, <2>2 DEF GoInv, Wired, Answered, GoInTime, Waiting, GoCfg
<1> QED BY <1>2, <1>3 DEF GoVerifies

LEMMA GoRetriesInv == Inv /\ GoRetries => GoInv'
  BY GoAnswersInv DEF GoRetries, Waiting

LEMMA TickInv == Inv /\ Tick => NodeInv' /\ GoInv'
<1> SUFFICES ASSUME Inv, Tick PROVE NodeInv' /\ GoInv'
  OBVIOUS
<1>1. GoInv'
  BY GoFrame DEF Tick, Inv
<1>2. /\ case' = case /\ node' = node /\ now' = now + 1 /\ now \in Nat /\ node \in Server
      /\ Waiting(node) => now < node.since + Latency
  BY DEF Tick, Inv, NodeInv
<1>3. Waiting(node) /\ node.since <= now
        => node.since <= now' /\ now' <= node.since + Latency
  <2>1. node.since \in Nat /\ Latency \in Nat
    BY <1>2, CaseAssumption DEF Server
  <2> QED BY <1>2, <2>1
<1>4. NodeInv
  BY DEF Inv
<1> QED BY <1>1, <1>2, <1>3, <1>4
        DEF NodeInv, Wired, Answered, NodeInTime, Waiting, Fetching, NodeServes, NodeCfg, UserChecks

LEMMA StepInv == Inv /\ [Next]_vars => Inv'
<1> SUFFICES ASSUME Inv, [Next]_vars PROVE Inv'
  OBVIOUS
<1>1. CASE NodeWires
  BY <1>1, NodeWiresInv, GoFrame DEF Inv, NodeWires
<1>2. CASE NodeReceives
  BY <1>2, NodeReceivesInv, GoFrame DEF Inv, NodeReceives
<1>3. CASE NodeVerifies
  BY <1>3, NodeVerifiesInv, GoFrame DEF Inv, NodeVerifies
<1>4. CASE GoWires
  BY <1>4, GoWiresInv, NodeFrame DEF Inv, GoWires
<1>5. CASE GoReceives
  BY <1>5, GoReceivesInv, NodeFrame DEF Inv, GoReceives
<1>6. CASE GoVerifies
  BY <1>6, GoVerifiesInv, NodeFrame DEF Inv, GoVerifies
<1>7. CASE NodeRetries
  BY <1>7, NodeRetriesInv, GoFrame DEF Inv, NodeRetries
<1>8. CASE GoRetries
  BY <1>8, GoRetriesInv, NodeFrame DEF Inv, GoRetries
<1>9. CASE Tick
  BY <1>9, TickInv DEF Inv, Tick
<1>10. CASE UNCHANGED vars
  BY <1>10, NodeFrame, GoFrame DEF Inv, vars
<1> QED BY <1>1, <1>2, <1>3, <1>4, <1>5, <1>6, <1>7, <1>8, <1>9, <1>10 DEF Next

(* What an answered request says of the checks that led to it holds        *)
(* throughout, whatever the case, the clock and the interleaving.          *)
THEOREM Invariance == Spec => []Inv
<1> QED BY InitInv, StepInv, PTL DEF Spec
-----------------------------------------------------------------------------
(***************************************************************************)
(* The properties, from the invariant.                                     *)

(* Every reachable state is well typed: the checks only ever answer with   *)
(* the codes of authentication and authorisation errors.                   *)
THEOREM TypeCorrect == Spec => []TypeOK
<1>1. Inv => TypeOK
  BY DEF Inv, NodeInv, GoInv, TypeOK
<1> QED BY <1>1, Invariance, PTL

(* A request that the Node server handles has passed all the checks. *)
LEMMA NodeHandled ==
  ASSUME Inv, node.answer = "handled"
  PROVE  /\ node.stage = "answered" /\ node.answeredAt \in Nat /\ node.comparedAt \in Nat
         /\ node.tokened \in BOOLEAN
         /\ Sane(case.raw, NodeCfg) /\ ~GuardMisused(case.opts)
         /\ ~node.tokened => ~case.opts.required /\ case.opts.guard = "none"
         /\ node.tokened =>
              /\ NodePeekHolds(NodeCfg, case.token)
              /\ NodeRestHolds(NodeCfg, case.token, node.comparedAt)
              /\ IdSource(NodeCfg, case.token.claims) # Absent
              /\ GuardHolds(case.opts, MapClaims(NodeCfg, case.token.claims, "node"))
              /\ node.comparedAt <= node.answeredAt
              /\ node.answeredAt <= node.comparedAt + Fetching
<1>1. /\ case \in Case /\ node \in Server
      /\ Answered(node, NodeCarriesToken(case.header), NodeServes(node.comparedAt))
      /\ Wired(node, NodeRejects(case.raw)) /\ NodeInTime
  BY DEF Inv, NodeInv
<1>2. node.stage = "answered"
  BY <1>1, CaseAssumption DEF Answered
<1>3. ~NodeRejects(case.raw) /\ ~GuardMisused(case.opts)
  BY <1>1, <1>2 DEF Wired
<1>4. Sane(case.raw, NodeCfg)
  BY <1>1, <1>3, CaseIsToken, NodeSane DEF NodeCfg
<1>5. /\ node.answeredAt \in Nat /\ node.comparedAt \in Nat /\ node.tokened \in BOOLEAN
  BY <1>1 DEF Server
<1>6. ~node.tokened => ~case.opts.required /\ case.opts.guard = "none"
  BY <1>1, <1>2, AnonymousOk, CaseAssumption DEF Answered
<1>7. ASSUME node.tokened
      PROVE  /\ NodePeekHolds(NodeCfg, case.token)
             /\ NodeRestHolds(NodeCfg, case.token, node.comparedAt)
             /\ IdSource(NodeCfg, case.token.claims) # Absent
             /\ GuardHolds(case.opts, MapClaims(NodeCfg, case.token.claims, "node"))
  <2>1. NodeServes(node.comparedAt)
    BY <1>1, <1>2, <1>7 DEF Answered
  <2> QED BY <1>1, <2>1, CaseIsToken, NodePeekOk, NodeRestOk, UserOk DEF NodeServes
<1>8. node.tokened => /\ node.comparedAt <= node.answeredAt
                      /\ node.answeredAt <= node.comparedAt + Fetching
  BY <1>1, <1>2 DEF NodeInTime
<1> QED BY <1>2, <1>3, <1>4, <1>5, <1>6, <1>7, <1>8

LEMMA GoHandled ==
  ASSUME Inv, go.answer = "handled"
  PROVE  /\ go.stage = "answered" /\ go.answeredAt \in Nat /\ go.tokened \in BOOLEAN
         /\ Sane(case.raw, GoCfg) /\ ~GuardMisused(case.opts)
         /\ ~go.tokened => ~case.opts.required /\ case.opts.guard = "none"
         /\ go.tokened =>
              /\ GoPeekHolds(GoCfg, case.token)
              /\ GoRestHolds(GoCfg, case.token, go.comparedAt)
              /\ IdSource(GoCfg, case.token.claims) # Absent
              /\ GuardHolds(case.opts, MapClaims(GoCfg, case.token.claims, "go"))
              /\ go.answeredAt = go.comparedAt
<1>1. /\ case \in Case /\ go \in Server
      /\ Answered(go, GoCarriesToken(case.header), GoServes(go.comparedAt))
      /\ Wired(go, GoRejects(case.raw)) /\ GoInTime
  BY DEF Inv, GoInv
<1>2. go.stage = "answered"
  BY <1>1, CaseAssumption DEF Answered
<1>3. ~GoRejects(case.raw) /\ ~GuardMisused(case.opts) /\ GoCanExpress(case.raw)
  BY <1>1, <1>2 DEF Wired, GoInTime
<1>4. Sane(case.raw, GoCfg)
  BY <1>1, <1>3, CaseIsToken, GoSane DEF GoCfg
<1>5. go.answeredAt \in Nat /\ go.tokened \in BOOLEAN
  BY <1>1 DEF Server
<1>6. ~go.tokened => ~case.opts.required /\ case.opts.guard = "none"
  BY <1>1, <1>2, AnonymousOk, CaseAssumption DEF Answered
<1>7. ASSUME go.tokened
      PROVE  /\ GoPeekHolds(GoCfg, case.token)
             /\ GoRestHolds(GoCfg, case.token, go.comparedAt)
             /\ IdSource(GoCfg, case.token.claims) # Absent
             /\ GuardHolds(case.opts, MapClaims(GoCfg, case.token.claims, "go"))
  <2>1. GoServes(go.comparedAt)
    BY <1>1, <1>2, <1>7 DEF Answered
  <2> QED BY <1>1, <2>1, CaseIsToken, GoPeekOk, GoRestOk, UserOk DEF GoServes
<1>8. go.tokened => go.answeredAt = go.comparedAt
  BY <1>1, <1>2 DEF GoInTime
<1> QED BY <1>2, <1>3, <1>4, <1>5, <1>6, <1>7, <1>8

(* Who is let in holds what the guard asks for. *)
LEMMA GuardIsMet ==
  ASSUME case \in Case, NEW cfg, Sane(case.raw, cfg), ~GuardMisused(case.opts),
         NEW package \in Package, IdSource(cfg, case.token.claims) # Absent,
         GuardHolds(case.opts, MapClaims(cfg, case.token.claims, package))
  PROVE  /\ Identified(cfg, case.token)
         /\ case.opts.guard = "roles" => case.opts.roles \cap RolesHeld(cfg, case.token, package) # {}
         /\ case.opts.guard = "roles" /\ case.opts.mode = "all"
              => case.opts.roles \subseteq RolesHeld(cfg, case.token, package)
<1>1. Identified(cfg, case.token)
  BY IdSourceOk DEF Sane, Identified
<1> DEFINE user == MapClaims(cfg, case.token.claims, package)
<1>2. user.roles \subseteq RolesHeld(cfg, case.token, package)
  <2>1. case.token.claims \in [ClaimName -> ClaimValue]
    BY CaseAssumption
  <2> QED BY <2>1, RolesAreHeld DEF Sane, RolesHeld
<1> HIDE DEF user
<1>3. ASSUME case.opts.guard = "roles"
      PROVE  /\ case.opts.roles \cap RolesHeld(cfg, case.token, package) # {}
             /\ case.opts.mode = "all" => case.opts.roles \subseteq RolesHeld(cfg, case.token, package)
  <2>1. HasRoles(case.opts, user) /\ case.opts.roles # {}
    BY <1>3 DEF GuardHolds, GuardMisused, user
  <2> QED BY <1>2, <2>1 DEF HasRoles
<1> QED BY <1>1, <1>3

LEMMA SignedToken == ASSUME case \in Case PROVE Signed(case.raw, case.token)
  BY CaseAssumption DEF Signed

(* No way in for a bad token or without the roles, for any configuration,  *)
(* any token and any guard.                                                *)
THEOREM HandlerOnlyForTrustedTheorem == Spec => []HandlerOnlyForTrusted
<1>1. ASSUME Inv PROVE Guarded(node, NodeCfg, "node")
  <2> SUFFICES ASSUME node.answer = "handled", node.tokened \/ case.opts.guard # "none"
               PROVE  /\ node.tokened
                      /\ KeysObtained(case.token)
                      /\ Trusted(NodeCfg, case.raw, case.token)
                      /\ Identified(NodeCfg, case.token)
                      /\ case.opts.guard = "roles"
                           => case.opts.roles \cap RolesHeld(NodeCfg, case.token, "node") # {}
                      /\ case.opts.guard = "roles" /\ case.opts.mode = "all"
                           => case.opts.roles \subseteq RolesHeld(NodeCfg, case.token, "node")
    BY DEF Guarded
  <2>1. node.tokened /\ case \in Case /\ Sane(case.raw, NodeCfg)
    BY <1>1, NodeHandled DEF Inv
  <2>2. /\ NodePeekHolds(NodeCfg, case.token)
        /\ NodeRestHolds(NodeCfg, case.token, node.comparedAt)
    BY <1>1, <2>1, NodeHandled
  <2>3. KeysObtained(case.token)
    BY <2>2 DEF NodeRestHolds
  <2>4. Trusted(NodeCfg, case.raw, case.token)
    BY <2>1, <2>2, CaseIsToken, SignedToken, AcceptedIsTrusted, VersionKnown
       DEF NodeRestHolds, NodePeekHolds
  <2> QED BY <1>1, <2>1, <2>3, <2>4, NodeHandled, GuardIsMet DEF Package
<1>2. ASSUME Inv PROVE Guarded(go, GoCfg, "go")
  <2> SUFFICES ASSUME go.answer = "handled", go.tokened \/ case.opts.guard # "none"
               PROVE  /\ go.tokened
                      /\ KeysObtained(case.token)
                      /\ Trusted(GoCfg, case.raw, case.token)
                      /\ Identified(GoCfg, case.token)
                      /\ case.opts.guard = "roles"
                           => case.opts.roles \cap RolesHeld(GoCfg, case.token, "go") # {}
                      /\ case.opts.guard = "roles" /\ case.opts.mode = "all"
                           => case.opts.roles \subseteq RolesHeld(GoCfg, case.token, "go")
    BY DEF Guarded
  <2>1. go.tokened /\ case \in Case /\ Sane(case.raw, GoCfg)
    BY <1>2, GoHandled DEF Inv
  <2>2. /\ GoPeekHolds(GoCfg, case.token)
        /\ GoRestHolds(GoCfg, case.token, go.comparedAt)
    BY <1>2, <2>1, GoHandled
  <2>3. KeysObtained(case.token)
    BY <2>2 DEF GoRestHolds
  <2>4. Trusted(GoCfg, case.raw, case.token)
    BY <2>1, <2>2, CaseIsToken, SignedToken, AcceptedIsTrusted, VersionKnown
       DEF GoRestHolds, GoPeekHolds
  <2> QED BY <1>2, <2>1, <2>3, <2>4, GoHandled, GuardIsMet DEF Package
<1>3. Inv => HandlerOnlyForTrusted
  BY <1>1, <1>2 DEF HandlerOnlyForTrusted, NodeCfg, GoCfg
<1> QED BY <1>3, Invariance, PTL

(* Node serves a token that expired as long ago as the fetches took which  *)
(* it waited for, one or two, and Go none, by the clock of the moment it   *)
(* answers; neither serves one before its nbf.                             *)
THEOREM ServedInTimeTheorem == Spec => []ServedInTime
<1> DEFINE tok == case.token
           Waits == IF tok.kid = "rotated" THEN Latency + Latency ELSE Latency
<1>1. ASSUME Inv, node.answer = "handled", node.tokened
      PROVE  /\ tok.exp # Absent =>
                  Given(tok.exp) /\ node.answeredAt < tok.exp + NodeCfg.tolerance + Waits
             /\ tok.nbf # Absent =>
                  Given(tok.nbf) /\ node.answeredAt >= tok.nbf - NodeCfg.tolerance
  <2>1. /\ NodeRestHolds(NodeCfg, tok, node.comparedAt)
        /\ node.comparedAt <= node.answeredAt /\ node.answeredAt <= node.comparedAt + Fetching
        /\ node.comparedAt \in Nat /\ node.answeredAt \in Nat /\ NodeCfg.tolerance \in Int
    BY <1>1, NodeHandled DEF Sane
  <2>2. Latency \in Nat /\ {tok.exp, tok.nbf} \subseteq Int \cup {Absent, Malformed}
    BY <1>1, CaseAssumption, CaseIsToken DEF Inv, IsToken
  <2>3. /\ tok.exp # Absent => Given(tok.exp) /\ node.comparedAt < tok.exp + NodeCfg.tolerance
        /\ tok.nbf # Absent => Given(tok.nbf) /\ node.comparedAt >= tok.nbf - NodeCfg.tolerance
    BY <2>1 DEF NodeRestHolds, JoseNotExpired, JoseNotTooEarly, Given
  <2>4. Fetching = Waits
    <3>1. NeedsRefresh(tok) => tok.kid = "rotated"
      BY <2>1 DEF NodeRestHolds, NeedsRefresh, KidMissing
    <3>2. tok.kid = "rotated" => NeedsRefresh(tok)
      BY <2>1 DEF NodeRestHolds, NeedsRefresh, KidMissing
    <3> QED BY <3>1, <3>2 DEF Fetching
  <2>5. Waits \in Nat
    BY <2>2
  <2>6. tok.exp # Absent => tok.exp \in Int
    BY <2>2, <2>3 DEF Given
  <2>7. tok.nbf # Absent => tok.nbf \in Int
    BY <2>2, <2>3 DEF Given
  <2> HIDE DEF Waits
  <2> QED BY <2>1, <2>3, <2>4, <2>5, <2>6, <2>7
<1>2. ASSUME Inv, go.answer = "handled", go.tokened
      PROVE  /\ Given(tok.exp) /\ go.answeredAt <= tok.exp + GoCfg.tolerance
             /\ Given(tok.nbf) => go.answeredAt >= tok.nbf - GoCfg.tolerance
  <2>1. GoRestHolds(GoCfg, tok, go.answeredAt)
    BY <1>2, GoHandled
  <2> QED BY <2>1 DEF GoRestHolds, GoNotExpired, GoNotTooEarly
<1>3. Inv => ServedInTime
  BY <1>1, <1>2 DEF ServedInTime, NodeCfg, GoCfg
<1> QED BY <1>3, Invariance, PTL

(* A user that is identified passes every guard, if the claims grant the   *)
(* roles it asks for.                                                      *)
LEMMA GrantedPasses ==
  ASSUME case \in Case, NEW cfg, Sane(case.raw, cfg), Identified(cfg, case.token),
         NEW package \in Package,
         case.opts.guard = "roles" => RolesGranted(cfg, case.token, package, case.opts)
  PROVE  Verdict(UserChecks(cfg, package)) = Ok
<1> DEFINE user == MapClaims(cfg, case.token.claims, package)
<1>1. /\ IdSource(cfg, case.token.claims) # Absent
      /\ IdSource(cfg, case.token.claims) \in ClaimName \cup {Absent}
  BY IdSourceOk DEF Sane, Identified
<1>2. user \in User
  <2>1. UserRoles(cfg, package) \in SUBSET STRING
    BY UserRolesType
  <2> QED BY <1>1, <2>1 DEF UserRoles, MapClaims, User
<1>3. user # Absent
  BY <1>2, CaseAssumption
<1>4. ASSUME case.opts.guard = "roles" PROVE HasRoles(case.opts, user)
  <2>1. \A role : Grants(cfg, case.token, package, role) => role \in user.roles
    BY CaseAssumption, GrantedIsMapped DEF Sane
  <2> HIDE DEF user
  <2> QED BY <1>4, <2>1 DEF RolesGranted, HasRoles
<1> HIDE DEF user
<1>5. GuardHolds(case.opts, user)
  BY <1>3, <1>4 DEF GuardHolds
<1> QED BY <1>1, <1>5, UserOk DEF user

LEMMA NoAbsentDomain ==
  ASSUME case \in Case PROVE Absent \notin NodeCfg.domains /\ Absent \notin GoCfg.domains
<1>1. NodeCfg.domains = Or(case.raw.domains, {}) /\ GoCfg.domains = Or(case.raw.domains, {})
  BY DEF NodeCfg, GoCfg, NodeConfig, GoConfig
<1> QED BY <1>1, CaseAssumption

(* A token that is trusted, in time and identified, with the roles that    *)
(* the guard asks for, is served by both.                                  *)
THEOREM TrustedIsServedTheorem == Spec => []TrustedIsServed
<1> DEFINE tok == case.token
<1>1. ASSUME Inv, node.stage = "answered", Good(node, NodeCfg, "node") PROVE node.answer = "handled"
  <2>1. /\ case \in Case /\ ~NodeRejects(case.raw)
        /\ node.answer = "handled" <=> NodeServes(node.comparedAt)
    BY <1>1 DEF Inv, NodeInv, Wired, Answered, Good
  <2>2. Sane(case.raw, NodeCfg) /\ IsToken(tok) /\ IsRawConfig(case.raw)
    BY <2>1, CaseIsToken, NodeSane DEF NodeCfg
  <2>3. /\ Trusted(NodeCfg, case.raw, tok) /\ tok.kid \in {"known", "rotated"}
        /\ KeysObtained(tok) /\ RefreshObtained(tok)
        /\ Given(tok.exp) /\ node.comparedAt < tok.exp + NodeCfg.tolerance
        /\ tok.nbf # Absent => Given(tok.nbf) /\ node.comparedAt >= tok.nbf - NodeCfg.tolerance
        /\ tok.iat # Malformed /\ Identified(NodeCfg, tok)
        /\ case.opts.guard = "roles" => RolesGranted(NodeCfg, tok, "node", case.opts)
    BY <1>1 DEF Good, RefreshObtained, KidMissing
  <2>4. LET version == ResolveVersion(NodeCfg, tok) IN
        /\ NodeCfg.kind # "google" => version # "unknown" /\ HasTid(tok)
        /\ IssuerHolds(NodeCfg, tok, version) /\ PolicyHolds(NodeCfg, tok, version)
    BY <2>1, <2>2, <2>3, NoAbsentDomain, TrustedIsAccepted
  <2>5. tok.wellFormed /\ tok.genuine /\ tok.alg = "RS256" /\ AudienceMatches(NodeCfg, tok)
    BY <2>3 DEF Trusted, AudienceMatches
  <2>6. NodePeekHolds(NodeCfg, tok)
    BY <2>4, <2>5 DEF NodePeekHolds
  <2>7. NodeRestHolds(NodeCfg, tok, node.comparedAt)
    BY <2>3, <2>4, <2>5 DEF NodeRestHolds, JoseKeyIsClear, JoseNotTooEarly, JoseNotExpired, Given
  <2>8. Verdict(UserChecks(NodeCfg, "node")) = Ok
    BY <2>1, <2>2, <2>3, GrantedPasses DEF Package
  <2> QED BY <2>1, <2>2, <2>6, <2>7, <2>8, NodePeekOk, NodeRestOk DEF NodeServes
<1>2. ASSUME Inv, go.stage = "answered", Good(go, GoCfg, "go") PROVE go.answer = "handled"
  <2>1. /\ case \in Case /\ ~GoRejects(case.raw) /\ GoCanExpress(case.raw)
        /\ go.answer = "handled" <=> GoServes(go.comparedAt)
    BY <1>2 DEF Inv, GoInv, GoInTime, Wired, Answered, Good
  <2>2. Sane(case.raw, GoCfg) /\ IsToken(tok) /\ IsRawConfig(case.raw)
    BY <2>1, CaseIsToken, GoSane DEF GoCfg
  <2>3. /\ Trusted(GoCfg, case.raw, tok) /\ tok.kid \in {"known", "rotated"}
        /\ KeysObtained(tok) /\ RefreshObtained(tok)
        /\ Given(tok.exp) /\ go.comparedAt < tok.exp + GoCfg.tolerance
        /\ tok.nbf # Absent => Given(tok.nbf) /\ go.comparedAt >= tok.nbf - GoCfg.tolerance
        /\ tok.iat # Malformed /\ Identified(GoCfg, tok)
        /\ case.opts.guard = "roles" => RolesGranted(GoCfg, tok, "go", case.opts)
    BY <1>2 DEF Good, RefreshObtained, KidMissing
  <2>4. LET version == GoResolveVersion(GoCfg, tok) IN
        /\ GoCfg.kind # "google" => version # "unknown" /\ HasTid(tok)
        /\ IssuerHolds(GoCfg, tok, version) /\ PolicyHolds(GoCfg, tok, version)
    BY <2>1, <2>2, <2>3, NoAbsentDomain, TrustedIsAccepted
  <2>5. tok.wellFormed /\ tok.genuine /\ tok.alg = "RS256" /\ AudienceMatches(GoCfg, tok)
    BY <2>3 DEF Trusted, AudienceMatches
  <2>6. GoPeekHolds(GoCfg, tok)
    BY <2>4, <2>5 DEF GoPeekHolds
  <2>7. go.comparedAt <= tok.exp + GoCfg.tolerance
    <3>1. go.comparedAt \in Nat /\ tok.exp \in Int /\ GoCfg.tolerance \in Int
      BY <1>2, <2>2, <2>3 DEF Inv, GoInv, Server, IsToken, Sane, Given
    <3> QED BY <2>3, <3>1
  <2>8. GoRestHolds(GoCfg, tok, go.comparedAt)
    BY <2>3, <2>4, <2>5, <2>7 DEF GoRestHolds, GoNotTooEarly, GoNotExpired, Given
  <2>9. Verdict(UserChecks(GoCfg, "go")) = Ok
    BY <2>1, <2>2, <2>3, GrantedPasses DEF Package
  <2> QED BY <2>1, <2>2, <2>6, <2>8, <2>9, GoPeekOk, GoRestOk DEF GoServes
<1>3. Inv => TrustedIsServed
  BY <1>1, <1>2 DEF TrustedIsServed, NodeCfg, GoCfg
<1> QED BY <1>3, Invariance, PTL
-----------------------------------------------------------------------------
(***************************************************************************)
(* The two packages decide alike.                                          *)

(* Nothing in the configuration that Go would take for "not given".        *)
AllGiven(raw) ==
  /\ GoCanExpress(raw)
  /\ raw.tolerance # 0 /\ raw.ttl # 0 /\ raw.refresh # 0
  /\ raw.audience # {} /\ raw.versions # {} /\ raw.idFrom # <<>> /\ raw.rolesFrom # <<>>
  /\ Blank \notin {raw.tenant, raw.authority, raw.v1Host}

LEMMA SameConfig ==
  ASSUME NEW raw, AllGiven(raw)
  PROVE  NodeConfig(raw) = GoConfig(raw)
<1>1. ASSUME NEW value, NEW zero, value # zero, NEW default
      PROVE  Or(value, default) = OrDefault(value, zero, default)
  BY <1>1 DEF Or, OrDefault
<1>2. /\ Or(raw.tenant, "common") = OrDefault(raw.tenant, Blank, "common")
      /\ Or(raw.versions, Versions) = OrDefault(raw.versions, {}, Versions)
      /\ Or(raw.audience, DefaultAudiences(raw)) = OrDefault(raw.audience, {}, DefaultAudiences(raw))
      /\ Or(raw.tolerance, DefaultTolerance) = OrDefault(raw.tolerance, 0, DefaultTolerance)
      /\ Or(raw.ttl, DefaultTTL) = OrDefault(raw.ttl, 0, DefaultTTL)
      /\ Or(raw.authority, DefaultAuthority) = OrDefault(raw.authority, Blank, DefaultAuthority)
      /\ Or(raw.v1Host, DefaultV1Host) = OrDefault(raw.v1Host, Blank, DefaultV1Host)
  BY <1>1 DEF AllGiven
<1>3. /\ raw.refresh = OrDefault(raw.refresh, 0, Undefined)
      /\ raw.idFrom = OrDefault(raw.idFrom, <<>>, Undefined)
      /\ raw.rolesFrom = OrDefault(raw.rolesFrom, <<>>, Undefined)
  BY DEF AllGiven, OrDefault
<1> QED BY <1>2, <1>3 DEF NodeConfig, GoConfig

LEMMA SameNumbers ==
  ASSUME NEW raw, IsRawConfig(raw), AllGiven(raw)
  PROVE  NodeNumbersRejected(raw) <=> GoNumbersRejected(raw)
<1> DEFINE tolerance == Or(raw.tolerance, DefaultTolerance)
           ttl       == Or(raw.ttl, DefaultTTL)
<1>1. /\ tolerance = OrDefault(raw.tolerance, 0, DefaultTolerance)
      /\ ttl = OrDefault(raw.ttl, 0, DefaultTTL)
  BY DEF AllGiven, Or, OrDefault
<1>2. {raw.tolerance, raw.ttl, raw.refresh} \subseteq Int \cup {Undefined}
  BY DEF AllGiven, GoCanExpress, IsRawConfig
<1>3. tolerance \in Int /\ ttl \in Int /\ NaN \notin Int
  BY <1>2, ConfigAssumption DEF Or
<1>4. (raw.refresh # Undefined /\ AtMostZero(raw.refresh)) <=> OrDefault(raw.refresh, 0, 0) < 0
  <2>1. CASE raw.refresh = Undefined
    BY <2>1 DEF OrDefault
  <2>2. CASE raw.refresh # Undefined
    <3>1. raw.refresh \in Int /\ raw.refresh # 0 /\ raw.refresh # NaN
      BY <1>2, <1>3, <2>2 DEF AllGiven
    <3> QED BY <2>2, <3>1 DEF OrDefault, AtMostZero
  <2> QED BY <2>1, <2>2
<1> HIDE DEF tolerance, ttl
<1>5. /\ tolerance # NaN /\ (Negative(tolerance) <=> tolerance < 0)
      /\ AtMostZero(ttl) <=> ttl <= 0
  BY <1>3 DEF Negative, AtMostZero
<1> QED BY <1>1, <1>4, <1>5 DEF NodeNumbersRejected, GoNumbersRejected, tolerance, ttl

LEMMA SameRejection ==
  ASSUME NEW raw, IsRawConfig(raw), AllGiven(raw)
  PROVE  NodeRejects(raw) <=> GoRejects(raw)
<1>1. NodeMicrosoftRejected(raw) <=> GoMicrosoftRejected(raw)
  <2>1. /\ Or(raw.tenant, "common") = OrDefault(raw.tenant, Blank, "common")
        /\ Or(raw.authority, DefaultAuthority) = OrDefault(raw.authority, Blank, DefaultAuthority)
        /\ Or(raw.versions, Versions) = OrDefault(raw.versions, {}, Versions)
    BY DEF AllGiven, Or, OrDefault
  <2>2. Or(raw.versions, Versions) # {}
    BY DEF AllGiven, Or, Versions
  <2> QED BY <2>1, <2>2 DEF NodeMicrosoftRejected, GoMicrosoftRejected
<1>2. NodeGoogleRejected(raw) <=> GoGoogleRejected(raw)
  BY DEF NodeGoogleRejected, GoGoogleRejected
<1>3. NodeAudienceRejected(raw) <=> Blank \in Or(raw.audience, {})
  BY DEF NodeAudienceRejected, AllGiven, Or
<1>4. ASSUME NEW list, list # <<>> PROVE NodeMappingRejected(list) <=> GoMappingRejected(list)
  <2>1. Names(<<>>) = {}
    BY DEF Names
  <2> QED BY <1>4, <2>1 DEF NodeMappingRejected, GoMappingRejected, OrDefault
<1>5. /\ NodeMappingRejected(raw.idFrom) <=> GoMappingRejected(raw.idFrom)
      /\ NodeMappingRejected(raw.rolesFrom) <=> GoMappingRejected(raw.rolesFrom)
  BY <1>4 DEF AllGiven
<1> QED BY <1>1, <1>2, <1>3, <1>5, SameNumbers DEF NodeRejects, GoRejects

(* Of one token, at the same time and with the same configuration. *)
LEMMA SameChecks ==
  ASSUME NEW raw, IsRawConfig(raw), NEW cfg, Sane(raw, cfg),
         NEW tok, IsToken(tok), Signed(raw, tok), NEW at \in Nat,
         ~(tok.kid = "none" /\ tok.keys = "one"), tok.exp # Absent,
         Malformed \notin {tok.nbf, tok.iat},
         ~(Given(tok.exp) /\ at = tok.exp + cfg.tolerance)
  PROVE  NodePeekHolds(cfg, tok) /\ NodeRestHolds(cfg, tok, at)
           <=> GoPeekHolds(cfg, tok) /\ GoRestHolds(cfg, tok, at)
<1>1. /\ tok.exp # Malformed /\ JoseNotExpired(cfg, tok, at)
           <=> Given(tok.exp) /\ GoNotExpired(cfg, tok, at)
      /\ JoseNotTooEarly(cfg, tok, at) <=> GoNotTooEarly(cfg, tok, at)
  <2>1. Given(tok.exp) => tok.exp \in Int /\ cfg.tolerance \in Int
    BY DEF IsToken, Sane, Given
  <2>2. Given(tok.exp) <=> tok.exp # Malformed
    BY DEF Given
  <2>3. Given(tok.nbf) <=> tok.nbf # Absent
    BY DEF Given
  <2>4. Given(tok.exp) => (JoseNotExpired(cfg, tok, at) <=> GoNotExpired(cfg, tok, at))
    BY <2>1 DEF JoseNotExpired, GoNotExpired
  <2> QED BY <2>2, <2>3, <2>4 DEF JoseNotTooEarly, GoNotTooEarly
<1>2. JoseKeyIsClear(tok) /\ tok.kid # "unknown" <=> tok.kid \in {"known", "rotated"}
  BY DEF JoseKeyIsClear, IsToken
<1>3. ASSUME cfg.kind = "google", NEW v, NEW w
      PROVE  /\ IssuerHolds(cfg, tok, v) <=> IssuerHolds(cfg, tok, w)
             /\ PolicyHolds(cfg, tok, v) <=> PolicyHolds(cfg, tok, w)
  BY <1>3 DEF IssuerHolds, PolicyHolds
<1>4. ASSUME cfg.kind # "google", GoResolveVersion(cfg, tok) # ResolveVersion(cfg, tok)
      PROVE  /\ ~(NodePeekHolds(cfg, tok) /\ NodeRestHolds(cfg, tok, at))
             /\ ~GoPeekHolds(cfg, tok)
  <2>1. GoResolveVersion(cfg, tok) = "unknown" /\ tok.iss = Absent /\ tok.ver \notin Versions
    BY <1>4 DEF GoResolveVersion
  <2>2. ~GoPeekHolds(cfg, tok)
    BY <1>4, <2>1 DEF GoPeekHolds
  <2>3. ASSUME HasTid(tok), tok.genuine, IssuerHolds(cfg, tok, ResolveVersion(cfg, tok))
        PROVE  FALSE
    <3>1. raw.kind = "microsoft"
      BY <1>4 DEF Sane, IsRawConfig
    <3>2. tok.tid \in TenantText
      BY <2>3, <3>1 DEF Signed, HasTid
    <3>3. /\ cfg.authority \in {Bare[x] : x \in HostText}
          /\ cfg.v1Host \in {Bare[x] : x \in HostText}
      BY <3>1 DEF Sane
    <3>4. ResolveExpectedIssuer(cfg, tok.tid, ResolveVersion(cfg, tok)) \in Issuer
      BY <3>2, <3>3 DEF ResolveExpectedIssuer, Issuer
    <3> QED BY <1>4, <2>1, <2>3, <3>4, PolicyAssumption DEF IssuerHolds
  <2> QED BY <1>4, <2>2, <2>3 DEF NodePeekHolds, NodeRestHolds
<1>5. CASE cfg.kind = "google"
  BY <1>1, <1>2, <1>3, <1>5 DEF NodePeekHolds, GoPeekHolds, NodeRestHolds, GoRestHolds
<1>6. CASE cfg.kind # "google" /\ GoResolveVersion(cfg, tok) = ResolveVersion(cfg, tok)
  BY <1>1, <1>2, <1>6 DEF NodePeekHolds, GoPeekHolds, NodeRestHolds, GoRestHolds
<1> QED BY <1>4, <1>5, <1>6

(* Who reads the same words in the sources of roles lets the same users by.*)
LEMMA SameUsers ==
  ASSUME case \in Case, NEW cfg, Sane(case.raw, cfg),
         case.opts.guard = "roles" =>
           \A name \in Names(Or(cfg.rolesFrom, Defaults(cfg).roles)) :
             case.token.claims[name].words["node"] = case.token.claims[name].words["go"]
  PROVE  Verdict(UserChecks(cfg, "node")) = Ok <=> Verdict(UserChecks(cfg, "go")) = Ok
<1> DEFINE claims  == case.token.claims
           sources == Or(cfg.rolesFrom, Defaults(cfg).roles)
           Of(package) == MapClaims(cfg, claims, package)
<1>1. "node" \in Package /\ "go" \in Package
  BY DEF Package
<1>2. Of("node") \in User /\ Of("go") \in User
  <2>1. UserRoles(cfg, "node") \in SUBSET STRING /\ UserRoles(cfg, "go") \in SUBSET STRING
    BY <1>1, UserRolesType
  <2>2. IdSource(cfg, claims) \in ClaimName \cup {Absent}
    BY IdSourceOk DEF Sane
  <2> QED BY <2>1, <2>2 DEF UserRoles, MapClaims, User
<1>3. Of("node") # Absent /\ Of("go") # Absent
  BY <1>2, CaseAssumption
<1>4. ASSUME case.opts.guard = "roles" PROVE Of("node") = Of("go")
  <2> DEFINE source == FirstSource(claims, sources, IsCollection)
  <2>1. source = Absent \/ source \in Names(sources)
    BY FirstIsNamed DEF Sane
  <2>2. ToSet(claims[source].words["node"]) = ToSet(claims[source].words["go"])
          \/ source = Absent
    BY <1>4, <2>1
  <2>3. StringArray(claims, sources, "node") = StringArray(claims, sources, "go")
    BY <2>2 DEF StringArray
  <2> QED BY <2>3 DEF MapClaims, SourcesFor
<1> HIDE DEF Of
<1>5. GuardHolds(case.opts, Of("node")) <=> GuardHolds(case.opts, Of("go"))
  BY <1>3, <1>4 DEF GuardHolds
<1> QED BY <1>5, UserOk DEF Of

(* Outside KnownDifference the packages refuse the same configurations and *)
(* the same requests, whatever the configuration, the guards and the token.*)
THEOREM SameDecisionTheorem == Spec => []SameDecision
<1> DEFINE raw == case.raw
           tok == case.token
<1>1. ASSUME Inv, ~KnownDifference
      PROVE  /\ AllGiven(raw) /\ IsRawConfig(raw) /\ IsToken(tok) /\ Signed(raw, tok)
             /\ NodeCfg = GoCfg /\ (NodeRejects(raw) <=> GoRejects(raw))
             /\ NodeCarriesToken(case.header) <=> GoCarriesToken(case.header)
             /\ case \in Case
  <2>1. case \in Case
    BY <1>1 DEF Inv
  <2>2. AllGiven(raw)
    BY <1>1 DEF KnownDifference, AllGiven
  <2>3. NodeCarriesToken(case.header) <=> GoCarriesToken(case.header)
    BY <1>1 DEF KnownDifference, NodeCarriesToken, GoCarriesToken
  <2> QED BY <2>1, <2>2, <2>3, CaseIsToken, SignedToken, SameConfig, SameRejection
          DEF NodeCfg, GoCfg
<1>2. ASSUME Inv, ~KnownDifference, node.stage # "down", go.stage # "down"
      PROVE  node.stage = "misconfigured" <=> go.stage = "misconfigured"
  BY <1>1, <1>2 DEF Inv, NodeInv, GoInv, Wired
<1>3. ASSUME Inv, ~KnownDifference, node.stage = "answered", go.stage = "answered",
             node.comparedAt = go.comparedAt
      PROVE  node.answer = "handled" <=> go.answer = "handled"
  <2>1. /\ Answered(node, NodeCarriesToken(case.header), NodeServes(node.comparedAt))
        /\ Answered(go, GoCarriesToken(case.header), GoServes(node.comparedAt))
        /\ Wired(node, NodeRejects(raw)) /\ node \in Server
    BY <1>3 DEF Inv, NodeInv, GoInv
  <2>2. CASE ~NodeCarriesToken(case.header)
    BY <1>1, <1>3, <2>1, <2>2 DEF Answered
  <2>3. CASE NodeCarriesToken(case.header)
    <3>1. ~NodeRejects(raw)
      BY <1>3, <2>1 DEF Wired
    <3>2. Sane(raw, NodeCfg)
      BY <1>1, <1>3, <3>1, NodeSane DEF NodeCfg
    <3>3. /\ ~(tok.kid = "none" /\ tok.keys = "one") /\ tok.exp # Absent
          /\ Malformed \notin {tok.nbf, tok.iat}
          /\ ~(Given(tok.exp) /\ node.comparedAt = tok.exp + NodeCfg.tolerance)
      BY <1>3 DEF KnownDifference, NodeCfg
    <3>4. node.comparedAt \in Nat
      BY <2>1 DEF Server
    <3>5. NodePeekHolds(NodeCfg, tok) /\ NodeRestHolds(NodeCfg, tok, node.comparedAt)
            <=> GoPeekHolds(NodeCfg, tok) /\ GoRestHolds(NodeCfg, tok, node.comparedAt)
      BY <1>1, <1>3, <3>2, <3>3, <3>4, SameChecks
    <3>6. Verdict(UserChecks(NodeCfg, "node")) = Ok <=> Verdict(UserChecks(GoCfg, "go")) = Ok
      <4>1. /\ case.opts.guard = "roles" =>
                 \A name \in Names(Or(NodeCfg.rolesFrom, Defaults(raw).roles)) :
                   tok.claims[name].words["node"] = tok.claims[name].words["go"]
            /\ Defaults(NodeCfg) = Defaults(raw)
        BY <1>3, <3>2 DEF KnownDifference, NodeCfg, Sane, Defaults
      <4>2. NodeCfg = GoCfg /\ case \in Case
        BY <1>1, <1>3
      <4>3. Verdict(UserChecks(NodeCfg, "node")) = Ok <=> Verdict(UserChecks(NodeCfg, "go")) = Ok
        BY <3>2, <4>1, <4>2, SameUsers
      <4> QED BY <4>2, <4>3
    <3>7. NodeServes(node.comparedAt) <=> GoServes(node.comparedAt)
      BY <1>1, <1>3, <3>5, <3>6, NodePeekOk, NodeRestOk, GoPeekOk, GoRestOk
         DEF NodeServes, GoServes
    <3> QED BY <1>1, <1>3, <2>1, <2>3, <3>7 DEF Answered
  <2> QED BY <2>2, <2>3
<1>4. Inv => SameDecision
  BY <1>2, <1>3 DEF SameDecision
<1> QED BY <1>4, Invariance, PTL
=============================================================================
