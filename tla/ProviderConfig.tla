--------------------------- MODULE ProviderConfig ---------------------------
(***************************************************************************)
(* Construction-time configuration of the two built-in providers, in both  *)
(* languages: what the application wrote (a raw record) is either refused  *)
(* with a ConfigurationError or normalised.                                *)
(*                                                                         *)
(* Texts are model values.  GuidOf folds the case of a tenant text and     *)
(* Bare strips the protocol and the slashes of a host text, as the code    *)
(* does with regular expressions.  Blank stands for the empty text, Junk   *)
(* for a text that is none of those the code knows.                        *)
(* Undefined is a field left out; in Go, which has no undefined, it is the *)
(* zero value of the field's type.                                         *)
(***************************************************************************)
EXTENDS Integers, Sequences

CONSTANTS Undefined, Blank, Junk,
          NaN,                  \* JavaScript's NaN
          Guid,                 \* tenants
          MSA,                  \* the tenant of personal accounts
          TenantText, GuidOf,   \* tenant GUIDs as written, and the tenant they name
          HostText, Bare,       \* hosts as written, and the host they name
          NoHost,               \* the host of an empty host text
          ClaimName,            \* the names of the claims a token may carry
          DefaultAuthority, DefaultV1Host, \* login.microsoftonline.com, sts.windows.net
          DefaultTolerance, DefaultTTL

ASSUME ConfigAssumption ==
  /\ MSA \in Guid
  /\ GuidOf \in [TenantText -> Guid]
  /\ {DefaultAuthority, DefaultV1Host} \subseteq HostText
  /\ Bare[DefaultAuthority] # NoHost
  /\ DefaultTolerance \in Nat
  /\ DefaultTTL \in Nat \ {0}
  /\ NaN \notin Int

Modes    == {"common", "organizations", "consumers"}
Versions == {"1.0", "2.0"}

(* No mode is the GUID of a tenant, and a field that is left out or blank  *)
(* is neither.                                                             *)
ASSUME TextAssumption ==
  /\ (Modes \cup {Undefined, Blank}) \cap TenantText = {}
  /\ {Undefined, Blank} \cap Modes = {}

(* What the types of the configuration ask of its fields, those left out   *)
(* included; of the others any value is taken.                             *)
IsRawConfig(raw) ==
  /\ raw.kind \in {"microsoft", "google"}
  /\ {raw.tolerance, raw.ttl, raw.refresh} \subseteq Int \cup {Undefined, NaN}
  /\ {raw.authority, raw.v1Host} \subseteq HostText \cup {Undefined}
  /\ {raw.idFrom, raw.rolesFrom} \subseteq Seq(ClaimName \cup {Blank}) \cup {Undefined}

IsTenantGuid(text)    == text \in TenantText
IsValidTenantId(text) == text \in Modes \/ IsTenantGuid(text)

Or(value, default) == IF value = Undefined THEN default ELSE value

(* A number that JavaScript's comparison finds at most 0, or below 0: none *)
(* holds of NaN.                                                           *)
AtMostZero(x) == x # NaN /\ x <= 0
Negative(x)   == x # NaN /\ x < 0

(* A claim mapping field is a list of claim names, or Undefined. *)
Names(list) == {list[i] : i \in DOMAIN list}

(* Checked in Node before the defaults are known to be good. *)
NodeNumbersRejected(raw) ==
  \/ Or(raw.tolerance, DefaultTolerance) = NaN
  \/ Negative(Or(raw.tolerance, DefaultTolerance))
  \/ AtMostZero(Or(raw.ttl, DefaultTTL))
  \/ raw.refresh # Undefined /\ AtMostZero(raw.refresh)

NodeAudienceRejected(raw) ==
  raw.audience # Undefined /\ (raw.audience = {} \/ Blank \in raw.audience)

NodeMappingRejected(list) ==
  list # Undefined /\ (list = <<>> \/ Blank \in Names(list))

NodeMicrosoftRejected(raw) ==
  \/ ~IsValidTenantId(Or(raw.tenant, "common"))
  \/ \E text \in Or(raw.allowed, {}) : ~IsTenantGuid(text)
  \/ Or(raw.versions, Versions) = {}
  \/ ~(Or(raw.versions, Versions) \subseteq Versions)
  \/ Bare[Or(raw.authority, DefaultAuthority)] = NoHost

NodeGoogleRejected(raw) == Blank \in Or(raw.domains, {})

NodeRejects(raw) ==
  \/ raw.clientId = Blank
  \/ raw.kind = "microsoft" /\ NodeMicrosoftRejected(raw)
  \/ raw.kind = "google" /\ NodeGoogleRejected(raw)
  \/ NodeNumbersRejected(raw)
  \/ NodeAudienceRejected(raw)
  \/ NodeMappingRejected(raw.idFrom) \/ NodeMappingRejected(raw.rolesFrom)

(* The clientId is an audience of its own, and for Microsoft so is its     *)
(* api:// form.                                                            *)
DefaultAudiences(raw) ==
  IF raw.kind = "microsoft" THEN {raw.clientId, <<"api", raw.clientId>>}
  ELSE {raw.clientId}

NodeConfig(raw) ==
  [kind      |-> raw.kind,
   tenant    |-> Or(raw.tenant, "common"),
   allowed   |-> Or(raw.allowed, {}),
   versions  |-> Or(raw.versions, Versions),
   domains   |-> Or(raw.domains, {}),
   audiences |-> Or(raw.audience, DefaultAudiences(raw)),
   tolerance |-> Or(raw.tolerance, DefaultTolerance),
   ttl       |-> Or(raw.ttl, DefaultTTL),
   refresh   |-> raw.refresh,
   authority |-> Bare[Or(raw.authority, DefaultAuthority)],
   v1Host    |-> Bare[Or(raw.v1Host, DefaultV1Host)],
   idFrom    |-> raw.idFrom,
   rolesFrom |-> raw.rolesFrom]
-----------------------------------------------------------------------------
(* Go: an empty list, an empty text and a zero stand for "not given".      *)
OrDefault(value, zero, default) == IF value \in {Undefined, zero} THEN default ELSE value

(* time.Duration has no NaN. *)
GoCanExpress(raw) == NaN \notin {raw.tolerance, raw.ttl, raw.refresh}

GoNumbersRejected(raw) ==
  \/ OrDefault(raw.tolerance, 0, DefaultTolerance) < 0
  \/ OrDefault(raw.ttl, 0, DefaultTTL) <= 0
  \/ OrDefault(raw.refresh, 0, 0) < 0

GoMicrosoftRejected(raw) ==
  \/ ~IsValidTenantId(OrDefault(raw.tenant, Blank, "common"))
  \/ \E text \in Or(raw.allowed, {}) : ~IsTenantGuid(text)
  \/ ~(OrDefault(raw.versions, {}, Versions) \subseteq Versions)
  \/ Bare[OrDefault(raw.authority, Blank, DefaultAuthority)] = NoHost

GoMappingRejected(list) == Blank \in Names(OrDefault(list, <<>>, <<>>))

GoGoogleRejected(raw) == Blank \in Or(raw.domains, {})

GoRejects(raw) ==
  \/ raw.clientId = Blank
  \/ raw.kind = "microsoft" /\ GoMicrosoftRejected(raw)
  \/ raw.kind = "google" /\ GoGoogleRejected(raw)
  \/ GoNumbersRejected(raw)
  \/ Blank \in Or(raw.audience, {})
  \/ GoMappingRejected(raw.idFrom) \/ GoMappingRejected(raw.rolesFrom)

GoConfig(raw) ==
  [kind      |-> raw.kind,
   tenant    |-> OrDefault(raw.tenant, Blank, "common"),
   allowed   |-> Or(raw.allowed, {}),
   versions  |-> OrDefault(raw.versions, {}, Versions),
   domains   |-> Or(raw.domains, {}),
   audiences |-> OrDefault(raw.audience, {}, DefaultAudiences(raw)),
   tolerance |-> OrDefault(raw.tolerance, 0, DefaultTolerance),
   ttl       |-> OrDefault(raw.ttl, 0, DefaultTTL),
   refresh   |-> OrDefault(raw.refresh, 0, Undefined),
   authority |-> Bare[OrDefault(raw.authority, Blank, DefaultAuthority)],
   v1Host    |-> Bare[OrDefault(raw.v1Host, Blank, DefaultV1Host)],
   idFrom    |-> OrDefault(raw.idFrom, <<>>, Undefined),
   rolesFrom |-> OrDefault(raw.rolesFrom, <<>>, Undefined)]
=============================================================================
