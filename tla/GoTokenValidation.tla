------------------------- MODULE GoTokenValidation --------------------------
(***************************************************************************)
(* Signature verification over a rotating key set in the Go package:       *)
(* JWKSClient (internal/oidc/jwks.go) on top of the Go key cache, and      *)
(* VerifySignature (internal/oidc/jwt.go), which looks a token's key up in *)
(* the cached set and, when it is missing, refreshes once and looks again. *)
(*                                                                         *)
(* Version v of the endpoint publishes the usable RSA keys KeysOf[v].  A   *)
(* document without any is an error to this client, so that the set it     *)
(* holds may stand in; the Node client (TokenValidation) caches it.        *)
(***************************************************************************)
EXTENDS Naturals

CONSTANTS Request,  \* goroutines that authenticate requests
          Refresher, \* the goroutine of refreshLoop
          Kid,      \* signing key ids
          KeysOf,   \* the key set of each version of the endpoint
          Uri,      \* JWKSClientOptions.URI, the only cache key
          Latency,  \* the longest a load takes
          TTL, Background, MaxTime, MaxVersion, None, Failed, Refused

VARIABLES now, origin, entries, inflight, disposed, stopped, proc, loop, todo, newest,
          auth,     \* [Request -> where its authentication is]
          retired   \* history: when each key id was last withdrawn, or None

cacheVars == <<now, origin, entries, inflight, disposed, stopped, proc, loop, todo, newest>>
vars      == <<cacheVars, auth, retired>>

(* NewJWKSClient sets no StaleIfError; its loader does not panic.          *)
Cache == INSTANCE GoKeyCache WITH
           Key <- {Uri}, Caller <- Request, StaleOption <- 0, MayPanic <- FALSE

ASSUME GoValidationAssumption ==
  /\ KeysOf \in [1 .. MaxVersion -> SUBSET Kid]
  /\ Latency \in Nat
  /\ None \notin Nat
  /\ TTL \in Nat \ {0} /\ MaxVersion \in Nat \ {0}
  /\ Background \in BOOLEAN
  /\ Refresher \notin Request
  /\ None \notin {Uri, Refresher} \cup Request
  /\ None # Failed /\ None # Refused /\ Failed # Refused
  /\ \A x \in {None, Failed, Refused} : x \notin [ver : Nat, expiresAt : Nat]
  /\ None \notin [since : Nat, out : {None}]

Stage == {"idle", "priming", "first", "retry", "accepted", "rejected", "unavailable"}

(* began: when the authentication began.  due: whether it must succeed.    *)
(* until: when the set that was held at the beginning stops standing in,   *)
(* if that set and all later ones have the key; None otherwise.            *)
Auth == [stage : Stage, kid : Kid \cup {None}, began : Nat, due : BOOLEAN,
         until : Nat \cup {None}]

TypeOK ==
  /\ Cache!TypeOK
  /\ auth \in [Request -> Auth]
  /\ retired \in [Kid -> Nat \cup {None}]
  /\ \A r \in Request : Cache!IsValue(proc[r].out) => KeysOf[proc[r].out.ver] # {}

Published(kid) == kid \in KeysOf[origin]
Pending(r)     == auth[r].stage \in {"priming", "first", "retry"}
Returned(r)    == proc[r].pc = "idle"
Obtained(r)    == Cache!IsValue(proc[r].out)
Matches(r)     == auth[r].kid \in KeysOf[proc[r].out.ver]

(* Version v takes the key away; one without keys takes nothing away.      *)
Withdraws(v, kid) == KeysOf[v] # {} /\ kid \notin KeysOf[v]

StandsInUntil(kid) ==
  LET e == entries[Uri] IN
    IF e = None \/ disposed THEN None
    ELSE IF \E v \in e.ver .. origin : Withdraws(v, kid) THEN None
    ELSE e.expiresAt + Cache!Grace

At(stage) == [stage |-> stage, kid |-> None, began |-> 0, due |-> FALSE, until |-> None]

Init ==
  /\ Cache!Init
  /\ auth = [r \in Request |-> At("idle")]
  /\ retired = [kid \in Kid |-> None]

Becomes(r, stage) ==
  auth' = [auth EXCEPT ![r] = IF stage = "retry" THEN [@ EXCEPT !.stage = stage] ELSE At(stage)]

(* Initialize -> Prime: Get, and the set is dropped. *)
Prime(r) ==
  /\ ~Pending(r)
  /\ Cache!Get(r, Uri)
  /\ Becomes(r, "priming")
  /\ UNCHANGED retired

Primed(r) ==
  /\ auth[r].stage = "priming"
  /\ Returned(r)
  /\ Becomes(r, "idle")
  /\ UNCHANGED <<cacheVars, retired>>

(* VerifySignature: GetKey. *)
Authenticate(r, kid) ==
  /\ ~Pending(r)
  /\ Cache!Get(r, Uri)
  /\ auth' = [auth EXCEPT ![r] =
       [stage |-> "first", kid |-> kid, began |-> now,
        due |-> Published(kid) /\ ~disposed /\ inflight[Uri] = None,
        until |-> StandsInUntil(kid)]]
  /\ UNCHANGED retired

(* An unmatched token calls RefreshKey once.  RetryFromCache would look    *)
(* into the cache again instead.                                           *)
RetryFromCache(r)    == Cache!Get(r, Uri)
RetryAfterRefresh(r) == Cache!Refresh(r, Uri)

CheckFirst(r) ==
  /\ auth[r].stage = "first"
  /\ Returned(r)
  /\ \/ /\ ~Obtained(r)
        /\ Becomes(r, "unavailable")
        /\ UNCHANGED cacheVars
     \/ /\ Obtained(r) /\ Matches(r)
        /\ Becomes(r, "accepted")
        /\ UNCHANGED cacheVars
     \/ /\ Obtained(r) /\ ~Matches(r)
        /\ RetryAfterRefresh(r)
        /\ Becomes(r, "retry")
  /\ UNCHANGED retired

CheckRetry(r) ==
  /\ auth[r].stage = "retry"
  /\ Returned(r)
  /\ Becomes(r, IF ~Obtained(r) THEN "unavailable"
                ELSE IF Matches(r) THEN "accepted" ELSE "rejected")
  /\ UNCHANGED <<cacheVars, retired>>

(* fetch: whatever fails on the way is an error, and so is a document with *)
(* no usable key.  AnyDocument would cache that one, too.                  *)
AnyDocument(v) == TRUE
HasKeys(v)     == KeysOf[v] # {}

FetchAnswers(p) ==
  /\ HasKeys(origin)
  /\ Cache!LoaderAnswers(p)
  /\ UNCHANGED <<auth, retired>>

FetchFails(p) ==
  /\ Cache!LoaderFails(p)
  /\ auth' = [r \in Request |-> [auth[r] EXCEPT !.due = FALSE]]
  /\ UNCHANGED retired

LoadGoesOn(p) ==
  /\ Cache!LoadAfterMiss(p) \/ Cache!Publish(p) \/ Cache!Done(p)
  /\ UNCHANGED <<auth, retired>>

LoopGoesOn ==
  /\ Cache!RoundGoesOn
  /\ UNCHANGED <<auth, retired>>

LoopTurns ==
  /\ Cache!RoundStarts \/ Cache!LoopStops
  /\ UNCHANGED <<auth, retired>>

(* Provider.Dispose -> JWKSClient.Dispose -> Dispose of the cache. *)
Dispose ==
  /\ Cache!Dispose
  /\ auth' = [r \in Request |-> [auth[r] EXCEPT !.due = FALSE, !.until = None]]
  /\ UNCHANGED retired

CloseStop ==
  /\ Cache!CloseStop
  /\ UNCHANGED <<auth, retired>>

(* The endpoint publishes its next key set, withdrawing some keys. *)
RotateKeys ==
  /\ Cache!Rotate
  /\ LET withdrawn == KeysOf[origin] \ KeysOf[origin + 1] IN
       /\ retired' = [kid \in Kid |-> IF kid \in withdrawn THEN now ELSE retired[kid]]
       /\ auth' = [r \in Request |->
            [auth[r] EXCEPT
              !.due = @ /\ auth[r].kid \notin withdrawn,
              !.until = IF Withdraws(origin + 1, auth[r].kid) THEN None ELSE @]]

(* Time passes, but no load takes longer than Latency. *)
Tick ==
  /\ \A p \in Cache!Proc : proc[p].pc \in Cache!Leading \cup {"published"}
                             => now < proc[p].startedAt + Latency
  /\ Cache!Tick
  /\ UNCHANGED <<auth, retired>>

Handles(r) == Primed(r) \/ CheckFirst(r) \/ CheckRetry(r)
Runs(p)    == FetchAnswers(p) \/ FetchFails(p) \/ LoadGoesOn(p)

Next ==
  \/ \E r \in Request : Prime(r) \/ (\E kid \in Kid : Authenticate(r, kid)) \/ Handles(r)
  \/ \E p \in Cache!Proc : Runs(p)
  \/ LoopGoesOn
  \/ LoopTurns
  \/ Dispose
  \/ CloseStop
  \/ RotateKeys
  \/ Tick

Spec == Init /\ [][Next]_vars
-----------------------------------------------------------------------------
Decides(r, stages) ==
  auth[r].stage \in {"first", "retry"} /\ auth'[r].stage \in stages

(* An authentication that accepts a key which is no longer published began *)
(* less than two TTLs (the value's and the stand-in's) and one load after  *)
(* the withdrawal, be it that the endpoint lost all its keys: a load leaves*)
(* c.inflight where its outcome is decided.                                *)
RevocationBound ==
  [][\A r \in Request :
       Decides(r, {"accepted"}) /\ ~Published(auth[r].kid) =>
         /\ retired[auth[r].kid] # None
         /\ auth[r].began < retired[auth[r].kid] + TTL + TTL + Latency]_vars

(* A token whose key is published from the beginning to the end of its     *)
(* authentication is accepted, if no fetch fails meanwhile and none was    *)
(* under way when it began.                                                *)
RotationPickedUp ==
  [][\A r \in Request : Decides(r, {"rejected", "unavailable"}) => ~auth[r].due]_vars

(* An outage is tolerated: while fetches fail, or bring documents without  *)
(* keys, a token whose key the held set has is turned down only once that  *)
(* set may not stand in any more.                                          *)
OutageTolerated ==
  [][\A r \in Request : Decides(r, {"rejected", "unavailable"})
                        => auth[r].until = None \/ now >= auth[r].until]_vars
=============================================================================
