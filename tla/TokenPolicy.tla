---------------------------- MODULE TokenPolicy -----------------------------
(***************************************************************************)
(* What the validators ask of a token, for both providers and in both      *)
(* languages: issuer, version and tenant for Microsoft, hosted domain for  *)
(* Google, and the standard claims.                                        *)
(*                                                                         *)
(* A token is a record of claims and of how it was signed.  An iss claim   *)
(* is [host, tid, tail]: the host it names, the tenant text in its path    *)
(* and its last segment; Absent is a claim that is missing, or a text that *)
(* is not a string.  A time that is present but no number is Malformed.    *)
(* A check is a condition with the error code it raises when it fails, and *)
(* a validator is the sequence of its checks, in the order of the code.    *)
(***************************************************************************)
EXTENDS ProviderConfig, FiniteSetsExt

CONSTANTS Absent, Malformed,
          GoogleHost,      \* accounts.google.com
          Ok               \* the verdict of a token that passes every check

(* The issuers a Microsoft token is expected to come from. *)
Issuer == [host : {Bare[text] : text \in HostText}, tid : TenantText, tail : {"v2.0", "/"}]

(* The errors a request can be answered with. *)
Codes == {"authentication_error", "missing_token", "token_expired", "token_not_yet_valid",
          "invalid_audience", "invalid_issuer", "invalid_signature", "invalid_token",
          "authorization_error"}

ASSUME PolicyAssumption ==
  /\ Ok \notin Codes
  /\ GoogleHost # NoHost
  /\ Absent \notin TenantText \cup Issuer

(* kid "known" is in the key set, "rotated" only in the one that a refresh *)
(* brings, "unknown" in neither, and "none" is no kid.  Of the key set,    *)
(* "one" and "many" say how many keys it has; "none" could not be fetched, *)
(* with no cached one to stand in, and "once" only the first time.         *)
IsToken(tok) ==
  /\ {tok.wellFormed, tok.genuine} \subseteq BOOLEAN
  /\ tok.kid \in {"known", "rotated", "unknown", "none"}
  /\ tok.keys \in {"one", "many", "none", "once"}
  /\ {tok.exp, tok.nbf, tok.iat} \subseteq Int \cup {Absent, Malformed}

Check(holds, code) == [holds |-> holds, code |-> code]

(* The code of the first check that fails. *)
Verdict(checks) ==
  LET failing == {i \in DOMAIN checks : ~checks[i].holds}
  IN IF failing = {} THEN Ok ELSE checks[Min(failing)].code
-----------------------------------------------------------------------------
(* Microsoft: the version and the issuer a token implies. *)

EndsWithV2(iss)     == iss # Absent /\ iss.tail = "v2.0"
(* A text includes the empty host, too. *)
Includes(iss, host) == host = NoHost \/ (iss # Absent /\ iss.host = host)

(* The v2.0 tail wins over the v1 host, whatever ver said if it is unknown.*)
ResolveVersion(cfg, tok) ==
  CASE tok.ver \in Versions                               -> tok.ver
    [] tok.ver \notin Versions /\ EndsWithV2(tok.iss)     -> "2.0"
    [] tok.ver \notin Versions /\ ~EndsWithV2(tok.iss)
         /\ Includes(tok.iss, cfg.v1Host)                 -> "1.0"
    [] OTHER                                              -> "unknown"

(* Go asks for an issuer before it looks for the v1 host in it.  Without   *)
(* the inference (OnlyKnownVer), tokens without ver would be lost.         *)
OnlyKnownVer(cfg, tok) == IF tok.ver \in Versions THEN tok.ver ELSE "unknown"
GoResolveVersion(cfg, tok) ==
  IF tok.ver \notin Versions /\ tok.iss = Absent THEN "unknown"
  ELSE ResolveVersion(cfg, tok)

HasTid(tok) == tok.tid # Absent

(* The issuer of a v1.0 token ends in a slash. *)
ResolveExpectedIssuer(cfg, tid, version) ==
  IF version = "2.0" THEN [host |-> cfg.authority, tid |-> tid, tail |-> "v2.0"]
  ELSE [host |-> cfg.v1Host, tid |-> tid, tail |-> "/"]

(* The tenant mode, and the allow-list in addition to it.  A GUID mode that*)
(* only compares the allow-list (AllowListOnly) would admit everyone when  *)
(* the list is empty.                                                      *)
AllowListOnly(cfg, tid) ==
  cfg.allowed = {} \/ \E t \in cfg.allowed : GuidOf[t] = GuidOf[tid]
TenantAllowed(cfg, tid) ==
  /\ IsTenantGuid(cfg.tenant) => GuidOf[tid] = GuidOf[cfg.tenant]
  /\ cfg.tenant = "consumers" => GuidOf[tid] = MSA
  /\ cfg.tenant = "organizations" => GuidOf[tid] # MSA
  /\ cfg.allowed # {} => \E t \in cfg.allowed : GuidOf[t] = GuidOf[tid]

VersionAccepted(cfg, version) == version \in cfg.versions

(* Google emits its issuer with and without the protocol. *)
GoogleIssuer(iss) == iss # Absent /\ iss.host = GoogleHost

HostedDomainAllowed(cfg, hd) ==
  cfg.domains = {} \/ (hd # Absent /\ hd \in cfg.domains)
-----------------------------------------------------------------------------
(* The standard claims.  Node leaves them to jose, which finds a token     *)
(* expired at exp + tolerance itself, lets one without exp pass and wants  *)
(* numbers; Go checks them itself, wants an exp, finds it expired only     *)
(* after exp + tolerance, takes an nbf that is no number for none and does *)
(* not look at iat.                                                        *)

Given(time) == time \notin {Absent, Malformed}

AudienceMatches(cfg, tok) == tok.aud \cap cfg.audiences # {}

(* The tolerance applies once, on one side only (TwiceTolerant: on both).  *)
TwiceTolerant(cfg, tok, at) ==
  Given(tok.nbf) => at + cfg.tolerance >= tok.nbf - cfg.tolerance
GoNotTooEarly(cfg, tok, at) == Given(tok.nbf) => at >= tok.nbf - cfg.tolerance
JoseNotTooEarly(cfg, tok, at) ==
  tok.nbf # Absent => Given(tok.nbf) /\ at >= tok.nbf - cfg.tolerance

JoseNotExpired(cfg, tok, at) == Given(tok.exp) => at < tok.exp + cfg.tolerance
GoNotExpired(cfg, tok, at)   == Given(tok.exp) => at <= tok.exp + cfg.tolerance

KeysObtained(tok) == tok.keys # "none"

(* A kid the first key set does not have: the set is fetched once more.    *)
(* Neither package gets as far with another algorithm.                     *)
KidMissing(tok)      == tok.kid \in {"rotated", "unknown"}
NeedsRefresh(tok)    == tok.wellFormed /\ tok.alg = "RS256" /\ KeysObtained(tok) /\ KidMissing(tok)
RefreshObtained(tok) == KidMissing(tok) => tok.keys # "once"

(* The local key set of jose takes the only key when the token names none. *)
JoseKeyIsClear(tok) == tok.kid # "none" \/ tok.keys = "one"

JwtVerify(cfg, tok, at, issuerHolds) ==
  << Check(tok.wellFormed, "invalid_token"),
     Check(tok.alg = "RS256", "authentication_error"),
     Check(JoseKeyIsClear(tok), "authentication_error"),
     Check(RefreshObtained(tok), "authentication_error"),
     Check(tok.kid # "unknown", "invalid_signature"),
     Check(tok.genuine, "invalid_signature"),
     Check(issuerHolds, "invalid_issuer"),
     Check(AudienceMatches(cfg, tok), "invalid_audience"),
     Check(tok.iat # Malformed, "authentication_error"),
     Check(JoseNotTooEarly(cfg, tok, at), "token_not_yet_valid"),
     Check(tok.exp # Malformed, "authentication_error"),
     Check(JoseNotExpired(cfg, tok, at), "token_expired") >>

VerifySignature(tok) ==
  << Check(tok.alg = "RS256", "invalid_signature"),
     Check(tok.kid # "none", "invalid_signature"),
     Check(KeysObtained(tok), "authentication_error"),
     Check(RefreshObtained(tok), "authentication_error"),
     Check(tok.kid # "unknown", "invalid_signature"),
     Check(tok.genuine, "invalid_signature") >>

VerifyStandardClaims(cfg, tok, at, issuerHolds) ==
  << Check(issuerHolds, "invalid_issuer"),
     Check(AudienceMatches(cfg, tok), "invalid_audience"),
     Check(Given(tok.exp), "invalid_token"),
     Check(GoNotExpired(cfg, tok, at), "token_expired"),
     Check(GoNotTooEarly(cfg, tok, at), "token_not_yet_valid") >>
-----------------------------------------------------------------------------
(* The validators.  What a validator does before it awaits the key set is  *)
(* its Peek; the rest is its Rest, the second try of a missing kid         *)
(* included.  NodeRest compares the clock read at peekedAt, before the     *)
(* first await, in both tries; GoRest reads the clock when it compares.    *)

(* The unverified claims of a Microsoft token say which issuer to expect.  *)
MicrosoftPeek(tok, version) ==
  << Check(tok.wellFormed, "invalid_token"),
     Check(version # "unknown", "invalid_token"),
     Check(HasTid(tok), "invalid_issuer") >>

IssuerHolds(cfg, tok, version) ==
  IF cfg.kind = "google" THEN GoogleIssuer(tok.iss)
  ELSE tok.iss = ResolveExpectedIssuer(cfg, tok.tid, version)

Policy(cfg, tok, version) ==
  IF cfg.kind = "google"
  THEN << Check(HostedDomainAllowed(cfg, tok.hd), "invalid_issuer") >>
  ELSE << Check(TenantAllowed(cfg, tok.tid), "invalid_issuer"),
          Check(VersionAccepted(cfg, version), "invalid_token") >>

(* For Google, Node leaves even the decoding to jose. *)
NodePeek(cfg, tok) ==
  IF cfg.kind = "google" THEN <<>> ELSE MicrosoftPeek(tok, ResolveVersion(cfg, tok))

NodeRest(cfg, tok, peekedAt) ==
  LET version == ResolveVersion(cfg, tok) IN
    << Check(KeysObtained(tok), "authentication_error") >>
      \o JwtVerify(cfg, tok, peekedAt, IssuerHolds(cfg, tok, version))
      \o Policy(cfg, tok, version)

GoPeek(cfg, tok) ==
  IF cfg.kind = "google" THEN << Check(tok.wellFormed, "invalid_token") >>
  ELSE MicrosoftPeek(tok, GoResolveVersion(cfg, tok))

GoRest(cfg, tok, at) ==
  LET version == GoResolveVersion(cfg, tok) IN
    VerifySignature(tok)
      \o VerifyStandardClaims(cfg, tok, at, IssuerHolds(cfg, tok, version))
      \o Policy(cfg, tok, version)
=============================================================================
