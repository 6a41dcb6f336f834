-------------------------- MODULE TokenValidation ---------------------------
(***************************************************************************)
(* Signature verification over a rotating key set in the Node package:     *)
(* JwksClient (src/jwks/jwks-client.ts) on top of MemoryKeyCache, and the  *)
(* two validators' verifySignatureAndClaims, which look a token's key up   *)
(* in the cached set and, when it is missing, refresh once and look again. *)
(*                                                                         *)
(* The source of the cache is the identity provider's JWKS endpoint: its   *)
(* version v publishes the key ids KeysOf[v].  A token is abstracted to the*)
(* key id that signed it; what the claims then say is TokenPolicy's part.  *)
(***************************************************************************)
EXTENDS Naturals

CONSTANTS Request,  \* requests being authenticated
          Kid,      \* signing key ids
          KeysOf,   \* the key set of each version of the endpoint
          Uri,      \* config.jwksUri, the only cache key JwksClient uses
          Latency,  \* the longest a fetch takes to settle
          Slot, TTL, BackgroundRefresh, MaxTime, MaxVersion, None, Failed, Refused

VARIABLES now, origin, entries, inFlight, loads, disposed, task, newest,
          auth,     \* [Request -> where its authentication is]
          retired   \* history: when each key id was last withdrawn, or None

cacheVars == <<now, origin, entries, inFlight, loads, disposed, task, newest>>
vars      == <<cacheVars, auth, retired>>

(* JwksClient gives its cache no staleIfErrorMs: it defaults to the TTL.   *)
Cache == INSTANCE MemoryKeyCache WITH
           Key <- {Uri}, Caller <- Request, StaleIfError <- TTL

ASSUME ValidationAssumption ==
  /\ KeysOf \in [1 .. MaxVersion -> SUBSET Kid]
  /\ Latency \in Nat
  /\ None \notin Nat
  /\ TTL \in Nat \ {0} /\ MaxVersion \in Nat \ {0}
  /\ BackgroundRefresh \in BOOLEAN
  /\ None \notin {Uri} \cup Slot
  /\ None # Failed /\ None # Refused /\ Failed # Refused
  /\ \A x \in {None, Failed, Refused} : x \notin Cache!Entry
  /\ None \notin [since : Nat, out : Cache!Outcome]

Stage == {"idle", "priming", "first", "retry", "accepted", "rejected", "unavailable"}

(* began: when the authentication began.  due: whether it must succeed,    *)
(* because its key was published all along, no fetch failed and no older   *)
(* fetch was under way when it began.  until: when the set that was held at*)
(* the beginning stops standing in, if that set and all later ones have the*)
(* key; None otherwise.                                                    *)
Auth == [stage : Stage, kid : Kid \cup {None}, began : Nat, due : BOOLEAN,
         until : Nat \cup {None}]

TypeOK ==
  /\ Cache!TypeOK
  /\ auth \in [Request -> Auth]
  /\ retired \in [Kid -> Nat \cup {None}]

Published(kid) == kid \in KeysOf[origin]
Pending(r)     == auth[r].stage \in {"priming", "first", "retry"}
Answered(r)    == task[r].pc = "idle"
Obtained(r)    == Cache!IsValue(task[r].out)
(* The key id is in the set the request was given. *)
Matches(r)     == auth[r].kid \in KeysOf[task[r].out.ver]

StandsInUntil(kid) ==
  LET e == entries[Uri] IN
    IF e = None \/ disposed THEN None
    ELSE IF \E v \in e.ver .. origin : kid \notin KeysOf[v] THEN None
    ELSE e.expiresAt + TTL

At(stage) == [stage |-> stage, kid |-> None, began |-> 0, due |-> FALSE, until |-> None]

Init ==
  /\ Cache!Init
  /\ auth = [r \in Request |-> At("idle")]
  /\ retired = [kid \in Kid |-> None]

Becomes(r, stage) ==
  auth' = [auth EXCEPT ![r] = IF stage = "retry" THEN [@ EXCEPT !.stage = stage] ELSE At(stage)]

(* initialize() primes the cache and drops the value. *)
Prime(r) ==
  /\ ~Pending(r)
  /\ Cache!Get(r, Uri)
  /\ Becomes(r, "priming")
  /\ UNCHANGED retired

Primed(r) ==
  /\ auth[r].stage = "priming"
  /\ Answered(r)
  /\ Becomes(r, "idle")
  /\ UNCHANGED <<cacheVars, retired>>

(* validate(): the first await is getKeyResolver(), that is, cache.get.    *)
Authenticate(r, kid) ==
  /\ ~Pending(r)
  /\ Cache!Get(r, Uri)
  /\ auth' = [auth EXCEPT ![r] =
       [stage |-> "first", kid |-> kid, began |-> now,
        due |-> Published(kid) /\ ~disposed /\ inFlight[Uri] = None,
        until |-> StandsInUntil(kid)]]
  /\ UNCHANGED retired

(* What an unmatched token does once: force a refresh.  RetryFromCache asks*)
(* the cache again without forcing one.                                    *)
RetryFromCache(r)     == Cache!Get(r, Uri)
RetryAfterRefresh(r)  == Cache!Refresh(r, Uri)

CheckFirst(r) ==
  /\ auth[r].stage = "first"
  /\ Answered(r)
  /\ \/ /\ ~Obtained(r)
        /\ Becomes(r, "unavailable")
        /\ UNCHANGED cacheVars
     \/ /\ Obtained(r) /\ Matches(r)
        /\ Becomes(r, "accepted")
        /\ UNCHANGED cacheVars
     \/ /\ Obtained(r) /\ ~Matches(r)
        /\ RetryAfterRefresh(r)
        /\ Becomes(r, "retry")
  /\ UNCHANGED retired

CheckRetry(r) ==
  /\ auth[r].stage = "retry"
  /\ Answered(r)
  /\ Becomes(r, IF ~Obtained(r) THEN "unavailable"
                ELSE IF Matches(r) THEN "accepted" ELSE "rejected")
  /\ UNCHANGED <<cacheVars, retired>>

FetchFails(s) ==
  /\ Cache!LoaderFails(Uri, s)
  /\ auth' = [r \in Request |-> [auth[r] EXCEPT !.due = FALSE]]
  /\ UNCHANGED retired

FetchGoesOn(s) ==
  /\ \/ Cache!LoaderAnswers(Uri, s) \/ Cache!Then(Uri, s)
     \/ Cache!Catch(Uri, s) \/ Cache!Finally(Uri, s)
  /\ UNCHANGED <<auth, retired>>

BackgroundTimer ==
  /\ Cache!RefreshAll
  /\ UNCHANGED <<auth, retired>>

(* provider.dispose() -> jwksClient.dispose() -> cache.dispose(). *)
Dispose ==
  /\ Cache!Dispose
  /\ auth' = [r \in Request |-> [auth[r] EXCEPT !.due = FALSE, !.until = None]]
  /\ UNCHANGED retired

(* The endpoint publishes its next key set, withdrawing some keys. *)
RotateKeys ==
  /\ Cache!Rotate
  /\ LET withdrawn == KeysOf[origin] \ KeysOf[origin + 1] IN
       /\ retired' = [kid \in Kid |-> IF kid \in withdrawn THEN now ELSE retired[kid]]
       /\ auth' = [r \in Request |->
            IF auth[r].kid \in withdrawn
            THEN [auth[r] EXCEPT !.due = FALSE, !.until = None] ELSE auth[r]]

(* Time passes, but no fetch takes longer than Latency. *)
Tick ==
  /\ \A s \in Slot : Cache!Running(loads[Uri][s]) => now < loads[Uri][s].startedAt + Latency
  /\ Cache!Tick
  /\ UNCHANGED <<auth, retired>>

Handles(r) == Primed(r) \/ CheckFirst(r) \/ CheckRetry(r)

Next ==
  \/ \E r \in Request : Prime(r) \/ (\E kid \in Kid : Authenticate(r, kid)) \/ Handles(r)
  \/ \E s \in Slot : FetchFails(s) \/ FetchGoesOn(s)
  \/ BackgroundTimer
  \/ Dispose
  \/ RotateKeys
  \/ Tick

Spec == Init /\ [][Next]_vars

(* Microtasks run and fetches settle; requests need not be made. *)
FairSpec == /\ Spec
            /\ \A r \in Request : WF_vars(Handles(r))
            /\ \A s \in Slot : WF_vars(FetchFails(s) \/ FetchGoesOn(s))
-----------------------------------------------------------------------------
Decides(r, stages) ==
  auth[r].stage \in {"first", "retry"} /\ auth'[r].stage \in stages

(* How long a withdrawn key goes on being accepted: an authentication that *)
(* accepts a key which is no longer published began less than two TTLs (the*)
(* value's and the stand-in's) and two fetches after the withdrawal: the   *)
(* outcome of a load may still be shared a moment after it was decided.    *)
RevocationBound ==
  [][\A r \in Request :
       Decides(r, {"accepted"}) /\ ~Published(auth[r].kid) =>
         /\ retired[auth[r].kid] # None
         /\ auth[r].began < retired[auth[r].kid] + TTL + TTL + 2 * Latency]_vars

(* Key rotation is picked up: a token whose key is published from the      *)
(* beginning to the end of its authentication is accepted, if no fetch     *)
(* fails meanwhile and none was already under way when it began.  So a set *)
(* without keys, which this client caches, is dropped by the first token   *)
(* to come when the endpoint has its keys again.                           *)
RotationPickedUp ==
  [][\A r \in Request : Decides(r, {"rejected", "unavailable"}) => ~auth[r].due]_vars

(* An outage is tolerated: while fetches fail, a token whose key the held  *)
(* set has is turned down only once that set may not stand in any more.    *)
OutageTolerated ==
  [][\A r \in Request : Decides(r, {"rejected", "unavailable"})
                        => auth[r].until = None \/ now >= auth[r].until]_vars

(* Every authentication is decided. *)
EveryRequestDecided == \A r \in Request : Pending(r) ~> ~Pending(r)
=============================================================================
