--------------------------- MODULE ClaimsMapping ----------------------------
(***************************************************************************)
(* From verified claims to the provider-neutral AuthUser, in both          *)
(* languages.  Of the user's fields the model keeps id, the one that is    *)
(* required, and roles, the one that authorises; email, name and tenantId  *)
(* are read like id (but may be missing) and scopes like roles.            *)
(*                                                                         *)
(* A claim value is [kind, words], words[p] the words package p reads in   *)
(* it.  Kind "text" is a string: Node splits it at the blanks, Go at white *)
(* space of any sort.  Kind "list" is an array, its words the entries,     *)
(* Junk for an entry that is empty or not a string; kind "blank" is the    *)
(* empty string; kind "absent" is a claim of any other type, or none.      *)
(***************************************************************************)
EXTENDS TokenPolicy, SequencesExt

(* The first source whose claim the test accepts, or Absent.               *)
FirstSource(claims, sources, Test(_)) ==
  LET found == SelectInSeq(sources, LAMBDA name : Test(claims[name]))
  IN IF found = 0 THEN Absent ELSE sources[found]

IsText(value)       == value.kind = "text"
IsCollection(value) == value.kind \in {"text", "list"}

(* The user's id is identified with the claim it comes from. *)
FirstString(claims, sources) == FirstSource(claims, sources, IsText)

(* An array is taken even if nothing usable is in it; a text gives words.  *)
(* As a set: nobody asks a user's roles for their order.                   *)
StringArray(claims, sources, package) ==
  LET source == FirstSource(claims, sources, IsCollection)
  IN IF source = Absent THEN {} ELSE ToSet(claims[source].words[package]) \ {Junk}

MicrosoftDefaults == [id |-> <<"oid", "sub">>, roles |-> <<"roles">>]
GoogleDefaults    == [id |-> <<"sub">>, roles |-> <<>>]

Defaults(cfg) == IF cfg.kind = "microsoft" THEN MicrosoftDefaults ELSE GoogleDefaults

ASSUME MappingAssumption ==
  /\ {"oid", "sub", "roles"} \subseteq ClaimName
  /\ Absent \notin ClaimName

Package == {"node", "go"}

(* Only a text is read differently. *)
ClaimValue ==
  {value \in [kind  : {"text", "blank", "list", "absent"},
              words : [Package -> Seq(STRING \cup {Junk})]] :
     value.kind # "text" => value.words["node"] = value.words["go"]}

(* What the mapping names, or else the provider's defaults. *)
SourcesFor(custom, default) == Or(custom, default)

IdSource(cfg, claims) == FirstString(claims, SourcesFor(cfg.idFrom, Defaults(cfg).id))

MapClaims(cfg, claims, package) ==
  [id    |-> IdSource(cfg, claims),
   roles |-> StringArray(claims, SourcesFor(cfg.rolesFrom, Defaults(cfg).roles), package)]

User == [id : ClaimName \cup {Absent}, roles : SUBSET STRING]

(* A token nobody can be identified by is refused. *)
Mapped(cfg, claims) ==
  << Check(IdSource(cfg, claims) # Absent, "authentication_error") >>
=============================================================================
