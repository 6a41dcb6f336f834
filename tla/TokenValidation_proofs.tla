----------------------- MODULE TokenValidation_proofs -----------------------
(***************************************************************************)
(* TokenValidation: the cache inside it keeps what MemoryKeyCache_proofs   *)
(* proves of a cache, and a withdrawn key is not accepted for long.        *)
(***************************************************************************)
EXTENDS TokenValidation, TLAPS

(* The cache of TokenValidation again, with its theorems. *)
Proved == INSTANCE MemoryKeyCache_proofs WITH
            Key <- {Uri}, Caller <- Request, StaleIfError <- TTL

LEMMA CacheConstants == Proved!CacheAssumption
  BY ValidationAssumption DEF Cache!Entry, Cache!Outcome, Proved!Entry, Proved!Outcome
-----------------------------------------------------------------------------
(* Every step of TokenValidation is a step of its cache, or leaves it.     *)

LEMMA CacheInit == Init => Proved!Init
  BY DEF Init, Proved!Init, Cache!Init, Proved!NoLoad, Proved!NoTask, Cache!NoLoad,
         Cache!NoTask

LEMMA GetSame == ASSUME NEW r, Cache!Get(r, Uri) PROVE Proved!Get(r, Uri)
  BY DEF Proved!Get, Cache!Get, Proved!Answers, Cache!Answers, Proved!Awaits, Cache!Awaits,
         Proved!Called, Cache!Called, Proved!Shares, Cache!Shares, Proved!Started,
         Cache!Started, Proved!LoadFor, Cache!LoadFor, Proved!Peek, Cache!Peek,
         Proved!IsExpired, Cache!IsExpired, Proved!Running, Cache!Running

LEMMA RefreshSame == ASSUME NEW r, Cache!Refresh(r, Uri) PROVE Proved!Refresh(r, Uri)
  BY DEF Proved!Refresh, Cache!Refresh, Proved!Answers, Cache!Answers, Proved!Awaits,
         Cache!Awaits, Proved!Called, Cache!Called, Proved!Shares, Cache!Shares,
         Proved!Started, Cache!Started, Proved!LoadFor, Cache!LoadFor, Proved!Running,
         Cache!Running

LEMMA RefreshAllSame == Cache!RefreshAll => Proved!RefreshAll
  BY DEF Proved!RefreshAll, Cache!RefreshAll, Proved!Shares, Cache!Shares, Proved!Started,
         Cache!Started, Proved!Running, Cache!Running, Proved!Tracked, Cache!Tracked

LEMMA ChainSame ==
  ASSUME NEW s \in Slot, Cache!Chain(Uri, s)
  PROVE  Proved!Chain(Uri, s)
<1>1. Cache!LoaderFails(Uri, s) => Proved!LoaderFails(Uri, s)
  BY DEF Proved!LoaderFails, Cache!LoaderFails, Proved!Advances, Cache!Advances
<1>2. Cache!LoaderAnswers(Uri, s) => Proved!LoaderAnswers(Uri, s)
  BY DEF Proved!LoaderAnswers, Cache!LoaderAnswers, Proved!Advances, Cache!Advances
<1>3. Cache!Then(Uri, s) => Proved!Then(Uri, s)
  BY DEF Proved!Then, Cache!Then, Proved!Advances, Cache!Advances, Proved!Landing,
         Cache!Landing
<1>4. Cache!Catch(Uri, s) => Proved!Catch(Uri, s)
  BY DEF Proved!Catch, Cache!Catch, Proved!Advances, Cache!Advances, Proved!StandIn,
         Cache!StandIn, Proved!InGrace, Cache!InGrace
<1>5. Cache!Finally(Uri, s) => Proved!Finally(Uri, s)
  BY DEF Proved!Finally, Cache!Finally, Proved!Unregistered, Cache!Unregistered,
         Proved!Resumed, Cache!Resumed, Proved!NoLoad, Cache!NoLoad
<1> QED BY <1>1, <1>2, <1>3, <1>4, <1>5 DEF Cache!Chain, Proved!Chain

LEMMA CacheStep == [Next]_vars => [Proved!Next]_(Proved!vars)
<1> SUFFICES ASSUME [Next]_vars PROVE [Proved!Next]_(Proved!vars) OBVIOUS
<1>a. ASSUME UNCHANGED cacheVars PROVE [Proved!Next]_(Proved!vars)
  BY <1>a DEF cacheVars, Proved!vars
<1>b. ASSUME NEW r \in Request, Cache!Get(r, Uri) \/ Cache!Refresh(r, Uri) PROVE Proved!Next
  BY <1>b, GetSame, RefreshSame DEF Proved!Next
<1>c. ASSUME NEW s \in Slot, Cache!Chain(Uri, s) PROVE Proved!Next
  BY <1>c, ChainSame DEF Proved!Next
<1>1. ASSUME NEW r \in Request,
             Prime(r) \/ (\E kid \in Kid : Authenticate(r, kid)) \/ Handles(r)
      PROVE  [Proved!Next]_(Proved!vars)
  BY <1>1, <1>a, <1>b
     DEF Prime, Authenticate, Handles, Primed, CheckFirst, CheckRetry, RetryAfterRefresh
<1>2. ASSUME NEW s \in Slot, FetchFails(s) \/ FetchGoesOn(s) PROVE Proved!Next
  BY <1>2, <1>c DEF FetchFails, FetchGoesOn, Cache!Chain
<1>3. CASE BackgroundTimer BY <1>3, RefreshAllSame DEF BackgroundTimer, Proved!Next
<1>4. CASE Dispose BY <1>4 DEF Dispose, Cache!Dispose, Proved!Dispose, Proved!Next
<1>5. CASE RotateKeys BY <1>5 DEF RotateKeys, Cache!Rotate, Proved!Rotate, Proved!Next
<1>6. CASE Tick BY <1>6 DEF Tick, Cache!Tick, Proved!Tick, Proved!Next
<1>7. CASE UNCHANGED vars BY <1>7, <1>a DEF vars
<1> QED BY <1>1, <1>2, <1>3, <1>4, <1>5, <1>6, <1>7 DEF Next

(* The cache of a running client behaves like the cache on its own, so that*)
(* each theorem of MemoryKeyCache_proofs holds of it.                      *)
THEOREM CacheBehaves == Spec => Proved!Spec
  BY CacheInit, CacheStep, PTL DEF Spec, Proved!Spec

(* Whatever requests, retries and key rotations do to the client's cache,  *)
(* it keeps what KeyCache promises its callers of the one key.             *)
THEOREM ClientKeepsKeyCache == Spec => Proved!ImplementsKeyCache
<1>1. Proved!Spec => Proved!ImplementsKeyCache BY CacheConstants, Proved!Refinement
<1> QED BY CacheBehaves, <1>1, PTL

CacheInv == Cache!TypeOK /\ Cache!NoOrphanWait

LEMMA CacheInvHolds == Spec => []CacheInv
<1>1. Proved!Spec => []Proved!TypeOK BY CacheConstants, Proved!TypeCorrect, PTL
<1>2. Proved!Spec => []Proved!NoOrphanWait
  BY CacheConstants, Proved!NoOrphanWaitTheorem, PTL
<1>3. Proved!TypeOK => Cache!TypeOK
  BY DEF Proved!TypeOK, Cache!TypeOK, Proved!Entry, Cache!Entry, Proved!Outcome,
         Cache!Outcome, Proved!Phase, Cache!Phase, Proved!Load, Cache!Load, Proved!Task,
         Cache!Task
<1>4. Proved!NoOrphanWait => Cache!NoOrphanWait
  BY DEF Proved!NoOrphanWait, Cache!NoOrphanWait, Proved!Shares, Cache!Shares,
         Proved!Running, Cache!Running
<1> QED BY CacheBehaves, <1>1, <1>2, <1>3, <1>4, PTL DEF CacheInv
-----------------------------------------------------------------------------
(* Types. *)

LEMMA BecomesType ==
  ASSUME auth \in [Request -> Auth], NEW r \in Request, NEW stage \in Stage, Becomes(r, stage)
  PROVE  auth' \in [Request -> Auth]
<1>1. At(stage) \in Auth BY DEF At, Auth
<1>2. [auth[r] EXCEPT !.stage = stage] \in Auth BY DEF Auth
<1> QED BY <1>1, <1>2 DEF Becomes

AuthInv ==
  /\ auth \in [Request -> Auth]
  /\ retired \in [Kid -> Nat \cup {None}]
  /\ origin \in 1 .. MaxVersion

LEMMA StandsInType == ASSUME CacheInv, NEW kid PROVE StandsInUntil(kid) \in Nat \cup {None}
  BY ValidationAssumption DEF StandsInUntil, CacheInv, Cache!TypeOK, Cache!Entry

LEMMA AuthInvStep == CacheInv /\ AuthInv /\ [Next]_vars => AuthInv'
<1> SUFFICES ASSUME CacheInv, AuthInv, [Next]_vars PROVE AuthInv' OBVIOUS
<1>0. now \in Nat BY DEF CacheInv, Cache!TypeOK
<1>a. ASSUME UNCHANGED <<retired, origin>>, auth' \in [Request -> Auth] PROVE AuthInv'
  BY <1>a DEF AuthInv
<1>b. ASSUME NEW r \in Request, Cache!Get(r, Uri) \/ Cache!Refresh(r, Uri)
      PROVE  UNCHANGED origin
  BY <1>b DEF Cache!Get, Cache!Refresh
<1>1. ASSUME NEW r \in Request, Prime(r) PROVE AuthInv'
  BY <1>1, <1>a, <1>b, BecomesType DEF Prime, AuthInv, Stage
<1>2. ASSUME NEW r \in Request, NEW kid \in Kid, Authenticate(r, kid) PROVE AuthInv'
  <2>1. [stage |-> "first", kid |-> kid, began |-> now,
         due |-> Published(kid) /\ ~disposed /\ inFlight[Uri] = None,
         until |-> StandsInUntil(kid)] \in Auth
    BY <1>0, StandsInType DEF Auth, Stage
  <2> QED BY <1>2, <1>a, <1>b, <2>1 DEF Authenticate, AuthInv
<1>3. ASSUME NEW r \in Request, Handles(r) PROVE AuthInv'
  <2>1. \E stage \in Stage : Becomes(r, stage)
    BY <1>3 DEF Handles, Primed, CheckFirst, CheckRetry, Stage
  <2>2. auth' \in [Request -> Auth] BY <2>1, BecomesType DEF AuthInv
  <2> QED BY <1>3, <1>a, <1>b, <2>2
          DEF Handles, Primed, CheckFirst, CheckRetry, RetryAfterRefresh, cacheVars
<1>4. ASSUME NEW s \in Slot, FetchFails(s) PROVE AuthInv'
  BY <1>4, <1>a DEF FetchFails, AuthInv, Auth, Cache!LoaderFails
<1>5. ASSUME NEW s \in Slot, FetchGoesOn(s) PROVE AuthInv'
  BY <1>5, <1>a DEF FetchGoesOn, AuthInv, Cache!LoaderAnswers, Cache!Then, Cache!Catch,
                    Cache!Finally
<1>6. CASE BackgroundTimer BY <1>6, <1>a DEF BackgroundTimer, AuthInv, Cache!RefreshAll
<1>7. CASE Dispose
  <2>1. auth' \in [Request -> Auth] BY <1>7 DEF Dispose, AuthInv, Auth
  <2> QED BY <1>7, <1>a, <2>1 DEF Dispose, Cache!Dispose
<1>8. CASE RotateKeys
  <2>1. auth' \in [Request -> Auth] BY <1>8 DEF RotateKeys, AuthInv, Auth
  <2>2. retired' \in [Kid -> Nat \cup {None}] BY <1>8, <1>0 DEF RotateKeys, AuthInv
  <2>a. origin < MaxVersion /\ origin' = origin + 1
    BY <1>8 DEF RotateKeys, Cache!Rotate
  <2>b. origin \in 1 .. MaxVersion /\ MaxVersion \in Nat
    BY ValidationAssumption DEF AuthInv
  <2>3. origin' \in 1 .. MaxVersion BY ONLY <2>a, <2>b
  <2> QED BY <2>1, <2>2, <2>3 DEF AuthInv
<1>9. CASE Tick BY <1>9, <1>a DEF Tick, AuthInv, Cache!Tick
<1>10. CASE UNCHANGED vars BY <1>10 DEF vars, cacheVars, AuthInv
<1> QED BY <1>1, <1>2, <1>3, <1>4, <1>5, <1>6, <1>7, <1>8, <1>9, <1>10 DEF Next

LEMMA AuthInvHolds == Spec => []AuthInv
<1>1. Init => AuthInv
  BY ValidationAssumption DEF Init, AuthInv, Cache!Init, At, Auth, Stage
<1> QED BY <1>1, AuthInvStep, CacheInvHolds, PTL DEF Spec

(* Every reachable state of the client and the validators over it is well  *)
(* typed.                                                                  *)
THEOREM TypeCorrect == Spec => []TypeOK
<1>1. CacheInv /\ AuthInv => TypeOK BY DEF CacheInv, AuthInv, TypeOK
<1> QED BY <1>1, CacheInvHolds, AuthInvHolds, PTL
-----------------------------------------------------------------------------
(* The revocation bound.  What was read of the endpoint stays tied to the  *)
(* withdrawals that came after the reading: an entry to its expiry, a load *)
(* to its start, a call to when its authentication began.  The predicates  *)
(* take the clock t, the endpoint's version v and the withdrawals gone, so *)
(* that one lemma moves them over any step of the world.                   *)

(* Whatever version ver had and v has not was withdrawn, at most slack     *)
(* before w.                                                               *)
Trails(ver, w, slack, v, gone) ==
  \A kid \in Kid : kid \in KeysOf[ver] /\ kid \notin KeysOf[v] =>
    gone[kid] # None /\ w <= gone[kid] + slack

Lawful(e, t, v, gone) ==
  /\ e.expiresAt <= t + TTL
  /\ Trails(e.ver, e.expiresAt, TTL + Latency, v, gone)

InTime(l, t, v, gone) ==
  /\ l.startedAt <= t
  /\ t <= l.startedAt + Latency
  /\ l.phase = "answered" => Trails(l.ver, l.startedAt, 0, v, gone)
  /\ l.phase = "landed" /\ Cache!IsValue(l.out) =>
       /\ Lawful(l.out, t, v, gone)
       /\ l.startedAt < l.out.expiresAt + TTL

(* A call of an authentication that began at b. *)
Keeps(b, call, t, v, gone) ==
  /\ b <= t
  /\ call.pc = "idle" /\ Cache!IsValue(call.out) =>
       /\ Lawful(call.out, t, v, gone)
       /\ b < call.out.expiresAt + TTL + Latency

Asking(r) == auth[r].stage \in {"first", "retry"}

EntryLawful == entries[Uri] # None => Lawful(entries[Uri], now, origin, retired)
LoadsInTime == \A s \in Slot : Cache!Running(loads[Uri][s]) =>
                 InTime(loads[Uri][s], now, origin, retired)
CallsKept   == \A r \in Request : Asking(r) =>
                 /\ auth[r].kid \in Kid
                 /\ Keeps(auth[r].began, task[r], now, origin, retired)

RevocationInv == EntryLawful /\ LoadsInTime /\ CallsKept

(* How a step moves the world. *)
WorldStays == now' = now /\ origin' = origin /\ retired' = retired
WorldMoves == WorldStays \/ Tick \/ RotateKeys

LEMMA TrailsOn ==
  ASSUME CacheInv, AuthInv, WorldMoves, NEW ver, NEW w \in Nat, NEW slack \in Nat,
         w <= now + slack, Trails(ver, w, slack, origin, retired)
  PROVE  Trails(ver, w, slack, origin', retired')
<1>0. now \in Nat BY DEF CacheInv, Cache!TypeOK
<1>1. CASE WorldStays BY <1>1 DEF WorldStays
<1>2. CASE Tick BY <1>2 DEF Tick, Cache!Tick
<1>3. CASE RotateKeys
  <2>1. /\ origin' = origin + 1
        /\ retired' = [kid \in Kid |-> IF kid \in KeysOf[origin] \ KeysOf[origin + 1]
                                       THEN now ELSE retired[kid]]
    BY <1>3 DEF RotateKeys, Cache!Rotate
  <2> SUFFICES ASSUME NEW kid \in Kid, kid \in KeysOf[ver], kid \notin KeysOf[origin + 1]
               PROVE  retired'[kid] # None /\ w <= retired'[kid] + slack
    BY <2>1 DEF Trails
  <2>2. CASE kid \in KeysOf[origin] BY <2>2, <2>1, <1>0, ValidationAssumption
  <2>3. CASE kid \notin KeysOf[origin] BY <2>3, <2>1 DEF Trails
  <2> QED BY <2>2, <2>3
<1> QED BY <1>1, <1>2, <1>3 DEF WorldMoves

LEMMA LawfulOn ==
  ASSUME CacheInv, AuthInv, WorldMoves, NEW e \in Cache!Entry,
         Lawful(e, now, origin, retired)
  PROVE  Lawful(e, now', origin', retired')
<1>0. now \in Nat /\ TTL \in Nat /\ Latency \in Nat
  BY ValidationAssumption DEF CacheInv, Cache!TypeOK
<1>1. e.expiresAt \in Nat BY DEF Cache!Entry
<1>2. now' = now \/ now' = now + 1
  BY DEF WorldMoves, WorldStays, Tick, Cache!Tick, RotateKeys, Cache!Rotate
<1>3. e.expiresAt <= now + (TTL + Latency) BY <1>0, <1>1 DEF Lawful
<1>4. Trails(e.ver, e.expiresAt, TTL + Latency, origin', retired')
  BY <1>0, <1>1, <1>3, TrailsOn DEF Lawful
<1>5. e.expiresAt <= now' + TTL BY <1>0, <1>1, <1>2 DEF Lawful
<1> QED BY <1>4, <1>5 DEF Lawful

(* Each step, seen by the world. *)
LEMMA WorldStep == [Next]_vars => WorldMoves
<1> SUFFICES ASSUME [Next]_vars PROVE WorldMoves OBVIOUS
<1>a. ASSUME NEW r \in Request, Cache!Get(r, Uri) \/ Cache!Refresh(r, Uri)
      PROVE  now' = now /\ origin' = origin
  BY <1>a DEF Cache!Get, Cache!Refresh
<1>1. ASSUME NEW r \in Request,
             Prime(r) \/ (\E kid \in Kid : Authenticate(r, kid)) \/ Handles(r)
      PROVE  WorldStays
  BY <1>1, <1>a DEF Prime, Authenticate, Handles, Primed, CheckFirst, CheckRetry,
                    RetryAfterRefresh, WorldStays, cacheVars
<1>2. ASSUME NEW s \in Slot, FetchFails(s) \/ FetchGoesOn(s) PROVE WorldStays
  BY <1>2 DEF FetchFails, FetchGoesOn, WorldStays, Cache!LoaderFails, Cache!LoaderAnswers,
              Cache!Then, Cache!Catch, Cache!Finally
<1>3. CASE BackgroundTimer
  BY <1>3 DEF BackgroundTimer, Cache!RefreshAll, WorldStays, WorldMoves
<1>4. CASE Dispose BY <1>4 DEF Dispose, Cache!Dispose, WorldStays, WorldMoves
<1>5. CASE UNCHANGED vars BY <1>5 DEF vars, cacheVars, WorldStays, WorldMoves
<1> QED BY <1>1, <1>2, <1>3, <1>4, <1>5 DEF Next, WorldMoves

(* The value a request or a load has is an entry. *)
LEMMA ValueIsEntry ==
  ASSUME NEW o \in Cache!Outcome, Cache!IsValue(o)
  PROVE  o \in Cache!Entry
  BY DEF Cache!Outcome, Cache!IsValue

(* The lawful entry: it stays, is dropped, or is the one that lands.       *)
LEMMA EntryStep ==
  CacheInv /\ [Next]_vars =>
    \/ entries'[Uri] = entries[Uri]
    \/ Dispose /\ entries'[Uri] = None
    \/ /\ WorldStays
       /\ \E s \in Slot : /\ loads[Uri][s].phase = "answered"
                          /\ entries'[Uri] = Cache!Landing(Uri, s)
<1> SUFFICES ASSUME CacheInv, [Next]_vars
             PROVE  \/ entries'[Uri] = entries[Uri]
                    \/ Dispose /\ entries'[Uri] = None
                    \/ /\ WorldStays
                       /\ \E s \in Slot : /\ loads[Uri][s].phase = "answered"
                                          /\ entries'[Uri] = Cache!Landing(Uri, s)
  OBVIOUS
<1>a. ASSUME NEW r \in Request, Cache!Get(r, Uri) \/ Cache!Refresh(r, Uri)
      PROVE  entries' = entries
  BY <1>a DEF Cache!Get, Cache!Refresh
<1>1. ASSUME NEW r \in Request,
             Prime(r) \/ (\E kid \in Kid : Authenticate(r, kid)) \/ Handles(r)
      PROVE  entries' = entries
  BY <1>1, <1>a DEF Prime, Authenticate, Handles, Primed, CheckFirst, CheckRetry,
                    RetryAfterRefresh, cacheVars
<1>2. ASSUME NEW s \in Slot, FetchFails(s) \/ FetchGoesOn(s), ~Cache!Then(Uri, s)
      PROVE  entries' = entries
  BY <1>2 DEF FetchFails, FetchGoesOn, Cache!LoaderFails, Cache!LoaderAnswers,
              Cache!Catch, Cache!Finally
<1>3. ASSUME NEW s \in Slot, FetchGoesOn(s), Cache!Then(Uri, s)
      PROVE  /\ WorldStays
             /\ loads[Uri][s].phase = "answered"
             /\ entries'[Uri] = Cache!Landing(Uri, s)
  <2>1. entries \in [{Uri} -> Cache!Entry \cup {None}] BY DEF CacheInv, Cache!TypeOK
  <2> QED BY <1>3, <2>1 DEF FetchGoesOn, Cache!Then, WorldStays
<1>4. CASE BackgroundTimer BY <1>4 DEF BackgroundTimer, Cache!RefreshAll
<1>5. CASE Dispose BY <1>5 DEF Dispose, Cache!Dispose
<1>6. CASE RotateKeys BY <1>6 DEF RotateKeys, Cache!Rotate
<1>7. CASE Tick BY <1>7 DEF Tick, Cache!Tick
<1>8. CASE UNCHANGED vars BY <1>8 DEF vars, cacheVars
<1>9. ASSUME NEW s \in Slot, FetchFails(s) PROVE ~Cache!Then(Uri, s)
  <2>1. loads[Uri][s].phase = "loading" BY <1>9 DEF FetchFails, Cache!LoaderFails
  <2> QED BY <2>1 DEF Cache!Then
<1> QED BY <1>1, <1>2, <1>3, <1>4, <1>5, <1>6, <1>7, <1>8, <1>9 DEF Next

(* What lands was read while the load ran, so it is lawful. *)
LEMMA LandingLawful ==
  ASSUME CacheInv, AuthInv, LoadsInTime, NEW s \in Slot, loads[Uri][s].phase = "answered"
  PROVE  /\ Lawful(Cache!Landing(Uri, s), now, origin, retired)
         /\ loads[Uri][s].startedAt <= now
         /\ Cache!Landing(Uri, s).expiresAt = now + TTL
<1> DEFINE l == loads[Uri][s]
<1>0. /\ now \in Nat /\ TTL \in Nat /\ Latency \in Nat
      /\ l \in Cache!Load
      /\ None \notin Nat /\ retired \in [Kid -> Nat \cup {None}]
  BY ValidationAssumption DEF CacheInv, Cache!TypeOK, AuthInv
<1>1. l.startedAt \in Nat BY <1>0 DEF Cache!Load
<1>2. InTime(l, now, origin, retired) BY DEF LoadsInTime, Cache!Running
<1>3. /\ l.startedAt <= now /\ now <= l.startedAt + Latency
      /\ Trails(l.ver, l.startedAt, 0, origin, retired)
  BY <1>2 DEF InTime
<1>4. Cache!Landing(Uri, s).ver = l.ver /\ Cache!Landing(Uri, s).expiresAt = now + TTL
  BY DEF Cache!Landing
<1>5. Trails(l.ver, now + TTL, TTL + Latency, origin, retired)
  <2> SUFFICES ASSUME NEW kid \in Kid, kid \in KeysOf[l.ver], kid \notin KeysOf[origin]
               PROVE  retired[kid] # None /\ now + TTL <= retired[kid] + (TTL + Latency)
    BY DEF Trails
  <2>1. retired[kid] # None /\ l.startedAt <= retired[kid] + 0 BY <1>3 DEF Trails
  <2>2. retired[kid] \in Nat BY <1>0, <2>1
  <2> HIDE DEF l
  <2> QED BY <1>0, <1>1, <1>3, <2>1, <2>2
<1> QED BY <1>0, <1>3, <1>4, <1>5 DEF Lawful

LEMMA EntryLawfulStep ==
  CacheInv /\ CacheInv' /\ AuthInv /\ RevocationInv /\ [Next]_vars => EntryLawful'
<1> SUFFICES ASSUME CacheInv, CacheInv', AuthInv, RevocationInv, [Next]_vars,
                    entries'[Uri] # None
             PROVE  Lawful(entries'[Uri], now', origin', retired')
  BY DEF EntryLawful
<1>1. WorldMoves BY WorldStep
<1>2. CASE entries'[Uri] = entries[Uri]
  <2>1. entries[Uri] \in Cache!Entry BY <1>2 DEF CacheInv, Cache!TypeOK
  <2> QED BY <1>1, <1>2, <2>1, LawfulOn DEF RevocationInv, EntryLawful
<1>3. ASSUME WorldStays, NEW s \in Slot, loads[Uri][s].phase = "answered",
             entries'[Uri] = Cache!Landing(Uri, s)
      PROVE  Lawful(entries'[Uri], now', origin', retired')
  BY <1>3, LandingLawful DEF RevocationInv, WorldStays
<1> QED BY <1>2, <1>3, EntryStep
-----------------------------------------------------------------------------
(* What a step does to the load in slot s. *)
Turned(s, ph, v, o) ==
  loads'[Uri][s] = [phase |-> ph, since |-> loads[Uri][s].since,
                    startedAt |-> loads[Uri][s].startedAt, ver |-> v, out |-> o]

LoadMoves(s) ==
  \/ loads'[Uri][s] = loads[Uri][s]
  \/ loads'[Uri][s] = Cache!NoLoad
  \/ loads'[Uri][s] = Cache!Started
  \/ loads[Uri][s].phase = "loading"
       /\ (Turned(s, "answered", origin, None) \/ Turned(s, "failed", 0, None))
  \/ loads[Uri][s].phase = "answered"
       /\ Turned(s, "landed", loads[Uri][s].ver, Cache!Landing(Uri, s))
  \/ loads[Uri][s].phase = "failed" /\ Turned(s, "landed", 0, Cache!StandIn(Uri))

LEMMA AdvancesOne ==
  ASSUME CacheInv, NEW s \in Slot, NEW ph, NEW v, NEW o, Cache!Advances(Uri, s, ph, v, o)
  PROVE  \A t \in Slot : IF t = s THEN Turned(s, ph, v, o)
                         ELSE loads'[Uri][t] = loads[Uri][t]
<1>1. loads \in [{Uri} -> [Slot -> Cache!Load]] BY DEF CacheInv, Cache!TypeOK
<1> QED BY <1>1 DEF Cache!Advances, Turned

LEMMA CallLoads ==
  ASSUME CacheInv, NEW r \in Request, Cache!Get(r, Uri) \/ Cache!Refresh(r, Uri), NEW s \in Slot
  PROVE  loads'[Uri][s] = loads[Uri][s] \/ loads'[Uri][s] = Cache!Started
<1>1. loads \in [{Uri} -> [Slot -> Cache!Load]] BY DEF CacheInv, Cache!TypeOK
<1>2. UNCHANGED loads \/ \E t \in Slot : loads' = [loads EXCEPT ![Uri][t] = Cache!Started]
  BY DEF Cache!Get, Cache!Refresh, Cache!LoadFor
<1> QED BY <1>1, <1>2

LEMMA LoadStep == ASSUME CacheInv, [Next]_vars, NEW s \in Slot PROVE LoadMoves(s)
<1>0. loads \in [{Uri} -> [Slot -> Cache!Load]] BY DEF CacheInv, Cache!TypeOK
<1>a. ASSUME UNCHANGED loads PROVE LoadMoves(s) BY <1>a DEF LoadMoves
<1>b. ASSUME NEW r \in Request, Cache!Get(r, Uri) \/ Cache!Refresh(r, Uri) PROVE LoadMoves(s)
  BY <1>b, CallLoads DEF LoadMoves
<1>1. ASSUME NEW r \in Request,
             Prime(r) \/ (\E kid \in Kid : Authenticate(r, kid)) \/ Handles(r)
      PROVE  LoadMoves(s)
  BY <1>1, <1>a, <1>b DEF Prime, Authenticate, Handles, Primed, CheckFirst, CheckRetry,
                          RetryAfterRefresh, cacheVars
<1>2. ASSUME NEW t \in Slot, FetchFails(t) PROVE LoadMoves(s)
  BY <1>2, AdvancesOne DEF FetchFails, Cache!LoaderFails, LoadMoves
<1>3. ASSUME NEW t \in Slot, FetchGoesOn(t) PROVE LoadMoves(s)
  <2>1. CASE Cache!LoaderAnswers(Uri, t)
    BY <2>1, AdvancesOne DEF Cache!LoaderAnswers, LoadMoves
  <2>2. CASE Cache!Then(Uri, t) BY <2>2, AdvancesOne DEF Cache!Then, LoadMoves
  <2>3. CASE Cache!Catch(Uri, t) BY <2>3, AdvancesOne DEF Cache!Catch, LoadMoves
  <2>4. CASE Cache!Finally(Uri, t) BY <2>4, <1>0 DEF Cache!Finally, LoadMoves
  <2> QED BY <1>3, <2>1, <2>2, <2>3, <2>4 DEF FetchGoesOn
<1>4. CASE BackgroundTimer
  <2>1. PICK slot : loads'[Uri] = loads[Uri]
                    \/ loads'[Uri] = [loads[Uri] EXCEPT ![slot[Uri]] = Cache!Started]
    BY <1>4 DEF BackgroundTimer, Cache!RefreshAll
  <2> QED BY <2>1, <1>0 DEF LoadMoves
<1>5. CASE Dispose BY <1>5, <1>a DEF Dispose, Cache!Dispose
<1>6. CASE RotateKeys BY <1>6, <1>a DEF RotateKeys, Cache!Rotate
<1>7. CASE Tick BY <1>7, <1>a DEF Tick, Cache!Tick
<1>8. CASE UNCHANGED vars BY <1>8, <1>a DEF vars, cacheVars
<1> QED BY <1>1, <1>2, <1>3, <1>4, <1>5, <1>6, <1>7, <1>8 DEF Next

(* A load runs no longer than Latency. *)
LEMMA TimeLeft ==
  ASSUME CacheInv, RevocationInv, WorldMoves, NEW s \in Slot, Cache!Running(loads[Uri][s])
  PROVE  loads[Uri][s].startedAt <= now' /\ now' <= loads[Uri][s].startedAt + Latency
<1>0. /\ now \in Nat /\ Latency \in Nat
      /\ loads[Uri][s] \in Cache!Load
  BY ValidationAssumption DEF CacheInv, Cache!TypeOK
<1>1. loads[Uri][s].startedAt \in Nat BY <1>0 DEF Cache!Load
<1>2. loads[Uri][s].startedAt <= now /\ now <= loads[Uri][s].startedAt + Latency
  BY DEF RevocationInv, LoadsInTime, InTime
<1>3. CASE now' = now BY <1>2, <1>3
<1>4. CASE Tick
  <2>1. now' = now + 1 /\ now < loads[Uri][s].startedAt + Latency
    BY <1>4 DEF Tick, Cache!Tick
  <2> QED BY <2>1, <1>0, <1>1, <1>2
<1> QED BY <1>3, <1>4 DEF WorldMoves, WorldStays, RotateKeys, Cache!Rotate

LEMMA LoadStaysInTime ==
  ASSUME CacheInv, AuthInv, RevocationInv, WorldMoves, NEW s \in Slot,
         Cache!Running(loads[Uri][s])
  PROVE  InTime(loads[Uri][s], now', origin', retired')
<1> DEFINE l == loads[Uri][s]
<1>0. l \in Cache!Load /\ now \in Nat BY DEF CacheInv, Cache!TypeOK
<1>1. l.startedAt \in Nat /\ l.out \in Cache!Outcome BY <1>0 DEF Cache!Load
<1>2. InTime(l, now, origin, retired) BY DEF RevocationInv, LoadsInTime
<1>3. l.startedAt <= now' /\ now' <= l.startedAt + Latency BY TimeLeft
<1>4. ASSUME l.phase = "answered" PROVE Trails(l.ver, l.startedAt, 0, origin', retired')
  <2>1. l.startedAt <= now + 0 /\ Trails(l.ver, l.startedAt, 0, origin, retired)
    BY <1>0, <1>1, <1>2, <1>4 DEF InTime
  <2> HIDE DEF l
  <2> QED BY <1>1, <2>1, TrailsOn
<1>5. ASSUME l.phase = "landed", Cache!IsValue(l.out)
      PROVE  Lawful(l.out, now', origin', retired') /\ l.startedAt < l.out.expiresAt + TTL
  <2>1. l.out \in Cache!Entry BY <1>1, <1>5, ValueIsEntry
  <2> QED BY <2>1, <1>2, <1>5, LawfulOn DEF InTime
<1> QED BY <1>3, <1>4, <1>5 DEF InTime

(* Before it lands, a load has no value. *)
LEMMA StandInLawful ==
  ASSUME CacheInv, RevocationInv, Cache!IsValue(Cache!StandIn(Uri))
  PROVE  /\ Lawful(Cache!StandIn(Uri), now, origin, retired)
         /\ now < Cache!StandIn(Uri).expiresAt + TTL
<1>1. ~Cache!IsValue(Failed) BY DEF Cache!IsValue
<1>2. /\ entries[Uri] # None /\ Cache!StandIn(Uri) = entries[Uri]
      /\ now < entries[Uri].expiresAt + TTL
  BY <1>1 DEF Cache!StandIn, Cache!InGrace
<1> QED BY <1>2 DEF RevocationInv, EntryLawful

LEMMA LoadsInTimeStep ==
  CacheInv /\ CacheInv' /\ AuthInv /\ RevocationInv /\ [Next]_vars => LoadsInTime'
<1> SUFFICES ASSUME CacheInv, CacheInv', AuthInv, RevocationInv, [Next]_vars, NEW s \in Slot,
                    Cache!Running(loads'[Uri][s])
             PROVE  InTime(loads'[Uri][s], now', origin', retired')
  BY DEF LoadsInTime, Cache!Running
<1> DEFINE l == loads[Uri][s]
           n == loads'[Uri][s]
<1>0. /\ now \in Nat /\ TTL \in Nat \ {0} /\ Latency \in Nat
      /\ l \in Cache!Load
  BY ValidationAssumption DEF CacheInv, Cache!TypeOK
<1>b. l.startedAt \in Nat BY <1>0 DEF Cache!Load
<1>1. WorldMoves BY WorldStep
<1>2. CASE n = l BY <1>1, <1>2, LoadStaysInTime
<1>3. CASE n # l
  <2>1. WorldStays
    BY <1>1, <1>3 DEF WorldMoves, Tick, Cache!Tick, RotateKeys, Cache!Rotate
  <2> SUFFICES InTime(n, now, origin, retired) BY <2>1 DEF WorldStays
  <2>2. CASE n = Cache!Started BY <2>2, <1>0 DEF Cache!Started, InTime
  <2>3. ASSUME l.phase # "idle" PROVE l.startedAt <= now /\ now <= l.startedAt + Latency
    BY <2>3 DEF RevocationInv, LoadsInTime, InTime, Cache!Running
  <2>4. CASE l.phase = "loading" /\ Turned(s, "answered", origin, None)
    BY <2>3, <2>4 DEF Turned, InTime, Trails
  <2>5. CASE l.phase = "loading" /\ Turned(s, "failed", 0, None)
    BY <2>3, <2>5 DEF Turned, InTime
  <2>6. CASE l.phase = "answered" /\ Turned(s, "landed", l.ver, Cache!Landing(Uri, s))
    <3>1. /\ Lawful(Cache!Landing(Uri, s), now, origin, retired)
          /\ Cache!Landing(Uri, s).expiresAt = now + TTL
      BY <2>6, LandingLawful DEF RevocationInv
    <3>2. l.startedAt < Cache!Landing(Uri, s).expiresAt + TTL
      BY <3>1, <2>3, <2>6, <1>0, <1>b
    <3>3. n.phase = "landed" /\ n.startedAt = l.startedAt /\ n.out = Cache!Landing(Uri, s)
      BY <2>6 DEF Turned
    <3> QED BY <3>1, <3>2, <3>3, <2>3, <2>6 DEF InTime
  <2>7. CASE l.phase = "failed" /\ Turned(s, "landed", 0, Cache!StandIn(Uri))
    <3>1. n.phase = "landed" /\ n.startedAt = l.startedAt /\ n.out = Cache!StandIn(Uri)
      BY <2>7 DEF Turned
    <3>2. ASSUME Cache!IsValue(n.out)
          PROVE  Lawful(n.out, now, origin, retired) /\ n.startedAt < n.out.expiresAt + TTL
      <4>1. Lawful(n.out, now, origin, retired) /\ now < n.out.expiresAt + TTL
        BY <3>1, <3>2, StandInLawful
      <4>2. n.out \in Cache!Entry
        BY <3>1, <3>2 DEF Cache!StandIn, Cache!IsValue, CacheInv, Cache!TypeOK
      <4>3. n.out.expiresAt \in Nat BY <4>2 DEF Cache!Entry
      <4>4. l.startedAt <= now BY <2>3, <2>7
      <4> HIDE DEF l, n
      <4> QED BY <4>1, <4>3, <4>4, <3>1, <1>0, <1>b
    <3> QED BY <3>1, <3>2, <2>3, <2>7 DEF InTime
  <2>8. CASE n = Cache!NoLoad BY <2>8 DEF Cache!NoLoad, Cache!Running
  <2> QED BY <1>3, <2>2, <2>4, <2>5, <2>6, <2>7, <2>8, LoadStep DEF LoadMoves
<1> QED BY <1>2, <1>3
-----------------------------------------------------------------------------
(* A call that answers at once answers with a fresh entry or without value.*)
LEMMA CallMakes ==
  ASSUME CacheInv, NEW r \in Request, Cache!Get(r, Uri) \/ Cache!Refresh(r, Uri)
  PROVE  \/ task'[r].pc = "waiting"
         \/ disposed /\ task'[r].pc = "idle" /\ task'[r].out = Refused
         \/ /\ task'[r].pc = "idle" /\ entries[Uri] # None
            /\ task'[r].out = entries[Uri] /\ now < entries[Uri].expiresAt
<1>0. /\ task \in [Request -> Cache!Task] /\ now \in Nat
      /\ entries[Uri] # None => entries[Uri].expiresAt \in Nat
  BY DEF CacheInv, Cache!TypeOK, Cache!Entry
<1>1. ASSUME NEW op, NEW o, Cache!Answers(r, op, Uri, o)
      PROVE  task'[r].pc = "idle" /\ task'[r].out = o
  BY <1>0, <1>1 DEF Cache!Answers, Cache!Called
<1>2. ASSUME NEW op, NEW s \in Slot, Cache!Awaits(r, op, Uri, s)
      PROVE  task'[r].pc = "waiting"
  BY <1>0, <1>2, ValidationAssumption DEF Cache!Awaits, Cache!Called
<1>3. ASSUME NEW op, Cache!LoadFor(r, op, Uri) PROVE task'[r].pc = "waiting"
  BY <1>2, <1>3 DEF Cache!LoadFor, Cache!Shares, CacheInv, Cache!TypeOK
<1>4. ASSUME Cache!Peek(Uri) # None
      PROVE  /\ entries[Uri] # None /\ Cache!Peek(Uri) = entries[Uri]
             /\ now < entries[Uri].expiresAt
  BY <1>0, <1>4 DEF Cache!Peek, Cache!IsExpired
<1>5. CASE Cache!Get(r, Uri)
  <2>1. CASE disposed /\ Cache!Answers(r, "get", Uri, Refused) BY <2>1, <1>1
  <2>2. CASE Cache!Peek(Uri) # None /\ Cache!Answers(r, "get", Uri, Cache!Peek(Uri))
    BY <2>2, <1>1, <1>4
  <2>3. CASE Cache!LoadFor(r, "get", Uri) BY <2>3, <1>3
  <2> QED BY <1>5, <2>1, <2>2, <2>3 DEF Cache!Get
<1>6. CASE Cache!Refresh(r, Uri) BY <1>6, <1>1, <1>3 DEF Cache!Refresh
<1> QED BY <1>5, <1>6

LEMMA CallKept ==
  ASSUME CacheInv, RevocationInv, WorldStays, NEW r \in Request,
         Cache!Get(r, Uri) \/ Cache!Refresh(r, Uri), NEW b \in Nat, b <= now
  PROVE  Keeps(b, task'[r], now', origin', retired')
<1>0. now \in Nat /\ TTL \in Nat /\ Latency \in Nat
  BY ValidationAssumption DEF CacheInv, Cache!TypeOK
<1>1. ASSUME entries[Uri] # None, now < entries[Uri].expiresAt
      PROVE  /\ Lawful(entries[Uri], now, origin, retired)
             /\ b < entries[Uri].expiresAt + TTL + Latency
  <2>1. entries[Uri].expiresAt \in Nat
    BY <1>1 DEF CacheInv, Cache!TypeOK, Cache!Entry
  <2> QED BY <1>0, <1>1, <2>1 DEF RevocationInv, EntryLawful
<1>2. ~Cache!IsValue(Refused) BY DEF Cache!IsValue
<1> QED BY <1>1, <1>2, CallMakes DEF Keeps, WorldStays

LEMMA CallStaysKept ==
  ASSUME CacheInv, AuthInv, WorldMoves, NEW r \in Request, NEW b \in Nat,
         Keeps(b, task[r], now, origin, retired)
  PROVE  Keeps(b, task[r], now', origin', retired')
<1>0. now \in Nat /\ task[r].out \in Cache!Outcome
  BY DEF CacheInv, Cache!TypeOK, Cache!Task
<1>1. now' = now \/ now' = now + 1
  BY DEF WorldMoves, WorldStays, Tick, Cache!Tick, RotateKeys, Cache!Rotate
<1>2. b <= now' BY <1>0, <1>1 DEF Keeps
<1>3. ASSUME Cache!IsValue(task[r].out), Lawful(task[r].out, now, origin, retired)
      PROVE  Lawful(task[r].out, now', origin', retired')
  BY <1>0, <1>3, ValueIsEntry, LawfulOn
<1> QED BY <1>2, <1>3 DEF Keeps

(* The waiters resume with an outcome their load decided in time. *)
LEMMA CallResumesKept ==
  ASSUME CacheInv, AuthInv, RevocationInv, WorldStays, NEW s \in Slot, Cache!Finally(Uri, s),
         NEW r \in Request, NEW b \in Nat, Keeps(b, task[r], now, origin, retired)
  PROVE  Keeps(b, task'[r], now', origin', retired')
<1> DEFINE l == loads[Uri][s]
<1>0. /\ now \in Nat /\ TTL \in Nat /\ Latency \in Nat
      /\ l \in Cache!Load
  BY ValidationAssumption DEF CacheInv, Cache!TypeOK
<1>1. l.startedAt \in Nat /\ l.out \in Cache!Outcome BY <1>0 DEF Cache!Load
<1>2. CASE task'[r] = task[r] BY <1>2, CallStaysKept DEF WorldMoves
<1>3. CASE task'[r] = Cache!Resumed(task[r], l.out)
  <2>1. l.phase = "landed" BY DEF Cache!Finally
  <2>2. InTime(l, now, origin, retired)
    BY <2>1 DEF RevocationInv, LoadsInTime, Cache!Running
  <2>3. b <= now BY DEF Keeps
  <2>4. task'[r].out = l.out BY <1>3 DEF Cache!Resumed
  <2>5. ASSUME Cache!IsValue(l.out)
        PROVE  /\ Lawful(l.out, now, origin, retired)
               /\ b < l.out.expiresAt + TTL + Latency
    <3>1. l.out.expiresAt \in Nat BY <1>1, <2>5, ValueIsEntry DEF Cache!Entry
    <3>2. /\ Lawful(l.out, now, origin, retired)
          /\ l.startedAt < l.out.expiresAt + TTL /\ now <= l.startedAt + Latency
      BY <2>1, <2>2, <2>5 DEF InTime
    <3> HIDE DEF l
    <3> QED BY <1>0, <1>1, <2>3, <3>1, <3>2
  <2> QED BY <2>3, <2>4, <2>5 DEF Keeps, WorldStays
<1> QED BY <1>2, <1>3 DEF Cache!Finally

(* What the steps that are not a request's own leave of it.                *)
LEMMA HistoryOnly ==
  ASSUME NEW a \in Auth,
         NEW b \in {a, [a EXCEPT !.due = FALSE], [a EXCEPT !.due = FALSE, !.until = None]}
  PROVE  /\ b.stage = a.stage /\ b.kid = a.kid /\ b.began = a.began
         /\ b.due => a.due
         /\ b.until # None => b.until = a.until
  BY DEF Auth

SameAuth(r) ==
  LET a == auth[r]
      b == auth'[r]
  IN /\ b.stage = a.stage /\ b.kid = a.kid /\ b.began = a.began
     /\ b.due => a.due
     /\ b.until # None => b.until = a.until

Quiet(r) ==
  /\ SameAuth(r)
  /\ \/ task'[r] = task[r]
     \/ \E s \in Slot : /\ Cache!Finally(Uri, s)
                        /\ task'[r] = Cache!Resumed(task[r], loads[Uri][s].out)

(* A step is quiet for a request, or one of the actions it takes itself.   *)
LEMMA RequestStep ==
  ASSUME CacheInv, AuthInv, [Next]_vars, NEW r \in Request
  PROVE  \/ Quiet(r)
         \/ Prime(r) \/ (\E kid \in Kid : Authenticate(r, kid)) \/ Handles(r)
<1>0. auth \in [Request -> Auth] /\ task \in [Request -> Cache!Task]
  BY DEF CacheInv, Cache!TypeOK, AuthInv
<1>a. ASSUME auth'[r] \in {auth[r], [auth[r] EXCEPT !.due = FALSE],
                           [auth[r] EXCEPT !.due = FALSE, !.until = None]}
      PROVE  SameAuth(r)
  <2>1. auth[r] \in Auth BY <1>0
  <2> QED BY <1>a, <2>1, HistoryOnly DEF SameAuth
<1>b. ASSUME NEW q \in Request, q # r, Cache!Get(q, Uri) \/ Cache!Refresh(q, Uri)
      PROVE  task'[r] = task[r]
  BY <1>0, <1>b DEF Cache!Get, Cache!Refresh, Cache!LoadFor, Cache!Answers, Cache!Awaits,
                    Cache!Called
<1>c. ASSUME NEW q \in Request, NEW stage, Becomes(q, stage), q # r
      PROVE  auth'[r] = auth[r]
  BY <1>0, <1>c DEF Becomes
<1>1. ASSUME NEW q \in Request, q # r,
             Prime(q) \/ (\E kid \in Kid : Authenticate(q, kid)) \/ Handles(q)
      PROVE  auth'[r] = auth[r] /\ task'[r] = task[r]
  <2>1. CASE Prime(q) BY <1>1, <2>1, <1>b, <1>c DEF Prime
  <2>2. ASSUME NEW kid \in Kid, Authenticate(q, kid)
        PROVE  auth'[r] = auth[r] /\ task'[r] = task[r]
    BY <1>0, <1>1, <2>2, <1>b DEF Authenticate
  <2>3. CASE Primed(q) BY <1>1, <2>3, <1>c DEF Primed, cacheVars
  <2>4. CASE CheckFirst(q)
    BY <1>1, <2>4, <1>b, <1>c DEF CheckFirst, RetryAfterRefresh, cacheVars
  <2>5. CASE CheckRetry(q) BY <1>1, <2>5, <1>c DEF CheckRetry, cacheVars
  <2> QED BY <1>1, <2>1, <2>2, <2>3, <2>4, <2>5 DEF Handles
<1>2. ASSUME NEW s \in Slot, FetchFails(s) \/ FetchGoesOn(s) PROVE Quiet(r)
  <2>1. auth'[r] \in {auth[r], [auth[r] EXCEPT !.due = FALSE]}
    BY <1>2 DEF FetchFails, FetchGoesOn
  <2>2. SameAuth(r) BY <2>1, <1>a
  <2>3. CASE Cache!Finally(Uri, s)
    <3>1. task'[r] = task[r] \/ task'[r] = Cache!Resumed(task[r], loads[Uri][s].out)
      BY <2>3 DEF Cache!Finally
    <3> QED BY <2>2, <2>3, <3>1 DEF Quiet
  <2>4. CASE ~Cache!Finally(Uri, s)
    BY <1>2, <2>2, <2>4 DEF Quiet, FetchFails, FetchGoesOn, Cache!LoaderFails,
                            Cache!LoaderAnswers, Cache!Then, Cache!Catch
  <2> QED BY <2>3, <2>4
<1>3. CASE BackgroundTimer BY <1>3, <1>a DEF BackgroundTimer, Cache!RefreshAll, Quiet
<1>4. CASE Dispose
  <2>1. auth'[r] = [auth[r] EXCEPT !.due = FALSE, !.until = None] BY <1>4 DEF Dispose
  <2> QED BY <1>4, <2>1, <1>a DEF Dispose, Cache!Dispose, Quiet
<1>5. CASE RotateKeys
  <2>1. auth'[r] \in {auth[r], [auth[r] EXCEPT !.due = FALSE, !.until = None]}
    BY <1>5 DEF RotateKeys
  <2> QED BY <1>5, <2>1, <1>a DEF RotateKeys, Cache!Rotate, Quiet
<1>6. CASE Tick BY <1>6, <1>a DEF Tick, Cache!Tick, Quiet
<1>7. CASE UNCHANGED vars BY <1>7, <1>a DEF vars, cacheVars, Quiet
<1>8. ASSUME NEW q \in Request, q # r,
             Prime(q) \/ (\E kid \in Kid : Authenticate(q, kid)) \/ Handles(q)
      PROVE  Quiet(r)
  BY <1>8, <1>1, <1>a DEF Quiet
<1> QED BY <1>2, <1>3, <1>4, <1>5, <1>6, <1>7, <1>8 DEF Next

(* Whoever is asking goes on asking by one of three steps. *)
Retries(r) == CheckFirst(r) /\ Asking(r) /\ Becomes(r, "retry") /\ RetryAfterRefresh(r)

LEMMA AskingStep ==
  ASSUME CacheInv, AuthInv, [Next]_vars, NEW r \in Request, Asking(r)'
  PROVE  \/ Quiet(r) /\ Asking(r)
         \/ \E kid \in Kid : Authenticate(r, kid)
         \/ Retries(r)
<1>0. auth \in [Request -> Auth] BY DEF AuthInv
<1>1. ASSUME NEW stage \in Stage, Becomes(r, stage)
      PROVE  stage \in {"first", "retry"}
  BY <1>0, <1>1 DEF Becomes, At, Asking
<1>2. ASSUME Quiet(r) PROVE Asking(r) BY <1>2 DEF Quiet, SameAuth, Asking
<1>3. ~Prime(r) /\ ~Primed(r) /\ ~CheckRetry(r)
  BY <1>1 DEF Prime, Primed, CheckRetry, Stage
<1>4. CheckFirst(r) => Retries(r) BY <1>1 DEF CheckFirst, Retries, Asking, Stage
<1> QED BY <1>2, <1>3, <1>4, RequestStep DEF Handles

LEMMA CallsKeptStep ==
  CacheInv /\ CacheInv' /\ AuthInv /\ RevocationInv /\ [Next]_vars => CallsKept'
<1> SUFFICES ASSUME CacheInv, CacheInv', AuthInv, RevocationInv, [Next]_vars,
                    NEW r \in Request, Asking(r)'
             PROVE  /\ auth'[r].kid \in Kid
                    /\ Keeps(auth'[r].began, task'[r], now', origin', retired')
  BY DEF CallsKept, Asking
<1>0. /\ now \in Nat /\ auth \in [Request -> Auth]
      /\ auth[r].began \in Nat
  BY DEF CacheInv, Cache!TypeOK, AuthInv, Auth
<1>1. WorldMoves BY WorldStep
<1>2. ASSUME Asking(r)
      PROVE  auth[r].kid \in Kid /\ Keeps(auth[r].began, task[r], now, origin, retired)
  BY <1>2 DEF RevocationInv, CallsKept
<1>3. CASE Quiet(r) /\ Asking(r)
  <2>1. auth'[r].kid = auth[r].kid /\ auth'[r].began = auth[r].began
    BY <1>3 DEF Quiet, SameAuth
  <2>2. CASE task'[r] = task[r] BY <1>0, <1>1, <1>2, <1>3, <2>1, <2>2, CallStaysKept
  <2>3. ASSUME NEW s \in Slot, Cache!Finally(Uri, s),
               task'[r] = Cache!Resumed(task[r], loads[Uri][s].out)
        PROVE  Keeps(auth[r].began, task'[r], now', origin', retired')
    <3>a. now' = now /\ origin' = origin BY <2>3 DEF Cache!Finally
    <3>b. now \in Nat /\ origin \in Nat BY DEF CacheInv, Cache!TypeOK
    <3>c. (Tick => now' = now + 1) /\ (RotateKeys => origin' = origin + 1)
      BY DEF Tick, Cache!Tick, RotateKeys, Cache!Rotate
    <3>1. WorldStays BY <1>1, <3>a, <3>b, <3>c DEF WorldMoves
    <3> QED BY <1>0, <1>2, <1>3, <2>3, <3>1, CallResumesKept
  <2> QED BY <1>2, <1>3, <2>1, <2>2, <2>3 DEF Quiet
<1>4. ASSUME NEW kid \in Kid, Authenticate(r, kid)
      PROVE  /\ auth'[r].kid \in Kid
             /\ Keeps(auth'[r].began, task'[r], now', origin', retired')
  <2>1. auth'[r].kid = kid /\ auth'[r].began = now BY <1>0, <1>4 DEF Authenticate
  <2>2. WorldStays BY <1>4 DEF Authenticate, Cache!Get, WorldStays
  <2> QED BY <1>0, <1>4, <2>1, <2>2, CallKept DEF Authenticate
<1>5. CASE Retries(r)
  <2>1. auth'[r].kid = auth[r].kid /\ auth'[r].began = auth[r].began
    BY <1>0, <1>5 DEF Retries, Becomes
  <2>2. WorldStays
    BY <1>5 DEF Retries, CheckFirst, RetryAfterRefresh, Cache!Refresh, WorldStays
  <2>3. auth[r].began <= now BY <1>2, <1>5 DEF Keeps, Retries
  <2> QED BY <1>0, <1>2, <1>5, <2>1, <2>2, <2>3, CallKept DEF Retries, RetryAfterRefresh
<1> QED BY <1>3, <1>4, <1>5, AskingStep

LEMMA RevocationInvHolds == Spec => []RevocationInv
<1>1. Init => RevocationInv
  BY DEF Init, RevocationInv, EntryLawful, LoadsInTime, CallsKept, Cache!Init, At, Asking,
         Cache!NoLoad, Cache!Running
<1>2. CacheInv /\ CacheInv' /\ AuthInv /\ RevocationInv /\ [Next]_vars => RevocationInv'
  BY EntryLawfulStep, LoadsInTimeStep, CallsKeptStep DEF RevocationInv
<1> QED BY <1>1, <1>2, CacheInvHolds, AuthInvHolds, PTL DEF Spec

(* A step that decides a request checks what its call answered. *)
LEMMA DecideStep ==
  ASSUME CacheInv, AuthInv, [Next]_vars, NEW r \in Request, NEW stages \in SUBSET Stage,
         stages \cap {"first", "retry"} = {}, Decides(r, stages)
  PROVE  CheckFirst(r) \/ CheckRetry(r)
<1>1. Asking(r) /\ auth'[r].stage \in stages BY DEF Decides, Asking
<1>2. ~Quiet(r) BY <1>1 DEF Quiet, SameAuth, Asking
<1>3. ~Prime(r) /\ ~Primed(r) /\ \A kid \in Kid : ~Authenticate(r, kid)
  BY <1>1 DEF Asking, Prime, Primed, Authenticate, Pending
<1> QED BY <1>2, <1>3, RequestStep DEF Handles

LEMMA BecomesStage ==
  ASSUME AuthInv, NEW r \in Request, NEW stage \in Stage, Becomes(r, stage)
  PROVE  auth'[r].stage = stage
  BY DEF AuthInv, Becomes, At, Auth

LEMMA AcceptStep ==
  ASSUME CacheInv, AuthInv, [Next]_vars, NEW r \in Request, Decides(r, {"accepted"})
  PROVE  Asking(r) /\ Answered(r) /\ Obtained(r) /\ Matches(r)
<1>1. Asking(r) /\ auth'[r].stage = "accepted" BY DEF Decides, Asking
<1>2. CheckFirst(r) \/ CheckRetry(r) BY DecideStep DEF Stage
<1>3. CASE CheckFirst(r) BY <1>1, <1>3, BecomesStage DEF CheckFirst, Stage
<1>4. CASE CheckRetry(r) BY <1>1, <1>4, BecomesStage DEF CheckRetry, Stage
<1> QED BY <1>2, <1>3, <1>4

(* However long the client runs and whatever else happens, a key that was  *)
(* withdrawn is accepted only by an authentication that began less than    *)
(* two TTLs and two fetches after the withdrawal.                          *)
THEOREM RevocationBoundTheorem == Spec => RevocationBound
<1>1. ASSUME CacheInv, AuthInv, RevocationInv, [Next]_vars, NEW r \in Request,
             Decides(r, {"accepted"}), ~Published(auth[r].kid)
      PROVE  /\ retired[auth[r].kid] # None
             /\ auth[r].began < retired[auth[r].kid] + TTL + TTL + 2 * Latency
  <2> DEFINE kid == auth[r].kid
             e   == task[r].out
  <2>1. Asking(r) /\ task[r].pc = "idle" /\ Cache!IsValue(e) /\ kid \in KeysOf[e.ver]
    BY <1>1, AcceptStep DEF Answered, Obtained, Matches
  <2>2. /\ kid \in Kid
        /\ Lawful(e, now, origin, retired) /\ auth[r].began < e.expiresAt + TTL + Latency
    BY <1>1, <2>1 DEF RevocationInv, CallsKept, Keeps
  <2>3. retired[kid] # None /\ e.expiresAt <= retired[kid] + (TTL + Latency)
    BY <1>1, <2>1, <2>2 DEF Lawful, Trails, Published
  <2>4. e.expiresAt \in Nat
    BY <1>1, <2>1, ValueIsEntry DEF CacheInv, Cache!TypeOK, Cache!Task, Cache!Entry
  <2>5. retired[kid] \in Nat /\ auth[r].began \in Nat /\ TTL \in Nat /\ Latency \in Nat
    BY <1>1, <2>2, <2>3, ValidationAssumption DEF AuthInv, Auth
  <2> HIDE DEF kid, e
  <2>6. auth[r].began < retired[kid] + TTL + TTL + 2 * Latency
    BY <2>2, <2>3, <2>4, <2>5
  <2> QED BY <2>3, <2>6 DEF kid
<1>2. CacheInv /\ AuthInv /\ RevocationInv /\ [Next]_vars
        => [\A r \in Request :
              Decides(r, {"accepted"}) /\ ~Published(auth[r].kid) =>
                /\ retired[auth[r].kid] # None
                /\ auth[r].began < retired[auth[r].kid] + TTL + TTL + 2 * Latency]_vars
  BY <1>1
<1> QED BY <1>2, CacheInvHolds, AuthInvHolds, RevocationInvHolds, PTL
        DEF Spec, RevocationBound
-----------------------------------------------------------------------------
(***************************************************************************)
(* Which tokens are never turned down.  A token whose key stays published  *)
(* is accepted while no fetch fails, and one whose key is in the held set  *)
(* is accepted while that set may stand in.                                *)
(***************************************************************************)

(* Until it is disposed of, the client has one load at most, which brings  *)
(* nothing older than what is held, and a load that has landed brings what *)
(* is held, or failed when that could not stand in any more.               *)
LoadInOrder(l, e, t, v) ==
  /\ l.phase = "answered" => l.ver <= v /\ (e # None => e.ver <= l.ver)
  /\ l.phase = "landed" =>
       \/ e # None /\ l.out = e
       \/ l.out = Failed /\ (e # None => t >= e.expiresAt + TTL)

OneLoad == \A s \in Slot : Cache!Running(loads[Uri][s]) => inFlight[Uri] = s

LoadsInOrder == \A s \in Slot : Cache!Running(loads[Uri][s]) =>
                  LoadInOrder(loads[Uri][s], entries[Uri], now, origin)

HeldIsRead == entries[Uri] # None => entries[Uri].ver <= origin

OrderInv == ~disposed => OneLoad /\ LoadsInOrder /\ HeldIsRead

(* The steps of the cache that leave the entry, the clock and the endpoint *)
(* alone: they keep the loads, or open the one there is.                   *)
Opens ==
  /\ inFlight[Uri] = None
  /\ \E s \in Slot : /\ loads' = [loads EXCEPT ![Uri][s] = Cache!Started]
                     /\ inFlight' = [inFlight EXCEPT ![Uri] = s]

Calls == /\ UNCHANGED <<now, origin, entries, disposed>>
         /\ UNCHANGED <<loads, inFlight>> \/ Opens

LEMMA CallCalls ==
  ASSUME NEW r \in Request, Cache!Get(r, Uri) \/ Cache!Refresh(r, Uri)
  PROVE  Calls
<1>1. ASSUME NEW op, Cache!LoadFor(r, op, Uri) PROVE UNCHANGED <<loads, inFlight>> \/ Opens
  BY <1>1 DEF Cache!LoadFor, Cache!Shares, Opens
<1> QED BY <1>1 DEF Cache!Get, Cache!Refresh, Calls

LEMMA RefreshAllCalls == CacheInv /\ Cache!RefreshAll => Calls
<1> SUFFICES ASSUME CacheInv, Cache!RefreshAll PROVE Calls OBVIOUS
<1>0. /\ loads \in [{Uri} -> [Slot -> Cache!Load]]
      /\ inFlight \in [{Uri} -> Slot \cup {None}]
  BY DEF CacheInv, Cache!TypeOK
<1> DEFINE opened == {k \in Cache!Tracked : ~Cache!Shares(k)}
<1>1. PICK slot \in [opened -> Slot] :
        /\ loads' = [k \in {Uri} |-> IF k \in opened
                                     THEN [loads[k] EXCEPT ![slot[k]] = Cache!Started]
                                     ELSE loads[k]]
        /\ inFlight' = [k \in {Uri} |-> IF k \in opened THEN slot[k] ELSE inFlight[k]]
  BY DEF Cache!RefreshAll
<1>2. CASE Uri \in opened
  <2>1. slot[Uri] \in Slot BY <1>1, <1>2
  <2>2. inFlight[Uri] = None BY <1>2 DEF Cache!Shares
  <2>3. loads' = [loads EXCEPT ![Uri][slot[Uri]] = Cache!Started]
    <3> HIDE DEF opened
    <3> QED BY <1>0, <1>1, <1>2
  <2>4. inFlight' = [inFlight EXCEPT ![Uri] = slot[Uri]]
    <3> HIDE DEF opened
    <3> QED BY <1>0, <1>1, <1>2
  <2> QED BY <2>1, <2>2, <2>3, <2>4 DEF Opens, Calls, Cache!RefreshAll
<1>3. CASE Uri \notin opened
  <2>1. loads' = loads
    <3> HIDE DEF opened
    <3> QED BY <1>0, <1>1, <1>3
  <2>2. inFlight' = inFlight
    <3> HIDE DEF opened
    <3> QED BY <1>0, <1>1, <1>3
  <2> QED BY <2>1, <2>2 DEF Calls, Cache!RefreshAll
<1> QED BY <1>2, <1>3

LEMMA FetchIsChain ==
  ASSUME NEW s \in Slot, FetchFails(s) \/ FetchGoesOn(s)
  PROVE  Cache!Chain(Uri, s)
  BY DEF FetchFails, FetchGoesOn, Cache!Chain

(* A request that is not the subject of a step may make a call. *)
LEMMA CallsOrNot ==
  ASSUME CacheInv, [Next]_vars
  PROVE  \/ Calls
         \/ \E s \in Slot : FetchFails(s) \/ FetchGoesOn(s)
         \/ Dispose \/ RotateKeys \/ Tick
<1>a. ASSUME UNCHANGED cacheVars PROVE Calls BY <1>a DEF cacheVars, Calls
<1>1. ASSUME NEW r \in Request,
             Prime(r) \/ (\E kid \in Kid : Authenticate(r, kid)) \/ Handles(r)
      PROVE  Calls
  BY <1>1, <1>a, CallCalls DEF Prime, Authenticate, Handles, Primed, CheckFirst, CheckRetry,
                               RetryAfterRefresh
<1>3. CASE BackgroundTimer BY <1>3, RefreshAllCalls DEF BackgroundTimer
<1>4. CASE UNCHANGED vars BY <1>4, <1>a DEF vars
<1> QED BY <1>1, <1>3, <1>4 DEF Next

(* After a step that opens a load, it is the only one and has only begun. *)
LEMMA OpensFirst ==
  ASSUME CacheInv, OneLoad, Opens, NEW t \in Slot, Cache!Running(loads'[Uri][t])
  PROVE  loads'[Uri][t] = Cache!Started /\ inFlight'[Uri] = t
<1>0. /\ loads \in [{Uri} -> [Slot -> Cache!Load]]
      /\ inFlight \in [{Uri} -> Slot \cup {None}]
  BY DEF CacheInv, Cache!TypeOK
<1>1. PICK s \in Slot : /\ loads' = [loads EXCEPT ![Uri][s] = Cache!Started]
                        /\ inFlight' = [inFlight EXCEPT ![Uri] = s]
  BY DEF Opens
<1>2. t # s => loads'[Uri][t] = loads[Uri][t] BY <1>0, <1>1
<1>3. t = s BY <1>0, <1>2, ValidationAssumption DEF OneLoad, Opens
<1> QED BY <1>0, <1>1, <1>3

(* A step of the chain in slot s works on the one load there is. *)
LEMMA ChainAlone ==
  ASSUME CacheInv, OneLoad, NEW s \in Slot, Cache!Chain(Uri, s)
  PROVE  /\ now' = now /\ origin' = origin /\ disposed' = disposed
         /\ \A t \in Slot : Cache!Running(loads'[Uri][t]) => t = s /\ inFlight'[Uri] = s
<1>0. /\ loads \in [{Uri} -> [Slot -> Cache!Load]]
      /\ inFlight \in [{Uri} -> Slot \cup {None}]
  BY DEF CacheInv, Cache!TypeOK
<1>1. Cache!Running(loads[Uri][s])
  BY DEF Cache!Chain, Cache!LoaderAnswers, Cache!LoaderFails, Cache!Then, Cache!Catch,
         Cache!Finally, Cache!Running
<1>2. now' = now /\ origin' = origin /\ disposed' = disposed
  BY DEF Cache!Chain, Cache!LoaderAnswers, Cache!LoaderFails, Cache!Then, Cache!Catch,
         Cache!Finally
<1>3. ASSUME NEW ph, NEW v, NEW o, Cache!Advances(Uri, s, ph, v, o), inFlight' = inFlight
      PROVE  \A t \in Slot : Cache!Running(loads'[Uri][t]) => t = s /\ inFlight'[Uri] = s
  BY <1>1, <1>3, AdvancesOne DEF OneLoad
<1>4. CASE Cache!Finally(Uri, s)
  <2>1. \A t \in Slot : loads'[Uri][t] = IF t = s THEN Cache!NoLoad ELSE loads[Uri][t]
    BY <1>0, <1>4 DEF Cache!Finally
  <2>2. ~Cache!Running(Cache!NoLoad) BY DEF Cache!Running, Cache!NoLoad
  <2>3. ASSUME NEW t \in Slot, Cache!Running(loads'[Uri][t]) PROVE FALSE
    <3>1. t # s /\ Cache!Running(loads[Uri][t]) BY <2>1, <2>2, <2>3
    <3> QED BY <1>1, <3>1 DEF OneLoad
  <2> QED BY <1>2, <2>3
<1>5. CASE ~Cache!Finally(Uri, s)
  <2>1. inFlight' = inFlight
    BY <1>5 DEF Cache!Chain, Cache!LoaderAnswers, Cache!LoaderFails, Cache!Then, Cache!Catch
  <2> QED BY <1>5, <1>3, <2>1
          DEF Cache!Chain, Cache!LoaderAnswers, Cache!LoaderFails, Cache!Then, Cache!Catch
<1> QED BY <1>2, <1>4, <1>5

(* What the chain has brought stays in order. *)
LEMMA ChainInOrder ==
  ASSUME CacheInv, AuthInv, OneLoad, LoadsInOrder, HeldIsRead,
         NEW s \in Slot, Cache!Chain(Uri, s), Cache!Running(loads'[Uri][s])
  PROVE  LoadInOrder(loads'[Uri][s], entries'[Uri], now, origin)
<1> DEFINE l == loads[Uri][s]
           n == loads'[Uri][s]
<1>0. /\ entries \in [{Uri} -> Cache!Entry \cup {None}]
      /\ loads \in [{Uri} -> [Slot -> Cache!Load]]
      /\ now \in Nat /\ TTL \in Nat
  BY ValidationAssumption DEF CacheInv, Cache!TypeOK
<1>1. CASE Cache!LoaderAnswers(Uri, s)
  <2>a. Turned(s, "answered", origin, None) BY <1>1, AdvancesOne DEF Cache!LoaderAnswers
  <2>1. n.phase = "answered" /\ n.ver = origin BY <2>a DEF Turned
  <2> QED BY <2>1, <1>1 DEF LoadInOrder, HeldIsRead, Cache!LoaderAnswers, AuthInv
<1>2. CASE Cache!LoaderFails(Uri, s)
  <2>a. Turned(s, "failed", 0, None) BY <1>2, AdvancesOne DEF Cache!LoaderFails
  <2>1. n.phase = "failed" BY <2>a DEF Turned
  <2> QED BY <2>1 DEF LoadInOrder
<1>3. CASE Cache!Then(Uri, s)
  <2>a. Turned(s, "landed", l.ver, Cache!Landing(Uri, s))
    BY <1>3, AdvancesOne DEF Cache!Then
  <2>1. n.phase = "landed" /\ n.out = Cache!Landing(Uri, s) BY <2>a DEF Turned
  <2>2. entries'[Uri] = Cache!Landing(Uri, s) BY <1>0, <1>3 DEF Cache!Then
  <2>3. Cache!Landing(Uri, s) # None
    <3>1. Cache!Landing(Uri, s) \in Cache!Entry
      BY <1>0 DEF Cache!Landing, Cache!Entry, Cache!Load
    <3> QED BY <3>1, ValidationAssumption
  <2> QED BY <2>1, <2>2, <2>3 DEF LoadInOrder
<1>4. CASE Cache!Catch(Uri, s)
  <2>a. Turned(s, "landed", 0, Cache!StandIn(Uri)) /\ entries' = entries
    BY <1>4, AdvancesOne DEF Cache!Catch
  <2>1. n.phase = "landed" /\ n.out = Cache!StandIn(Uri) /\ entries' = entries
    BY <2>a DEF Turned
  <2>2. entries[Uri] # None => entries[Uri].expiresAt \in Nat BY <1>0 DEF Cache!Entry
  <2> QED BY <2>1, <2>2, <1>0 DEF LoadInOrder, Cache!StandIn, Cache!InGrace
<1>5. CASE Cache!Finally(Uri, s)
  <2>1. n = Cache!NoLoad BY <1>0, <1>5 DEF Cache!Finally
  <2> QED BY <2>1 DEF Cache!Running, Cache!NoLoad
<1> QED BY <1>1, <1>2, <1>3, <1>4, <1>5 DEF Cache!Chain

LEMMA HeldStaysRead ==
  ASSUME CacheInv, AuthInv, OneLoad, LoadsInOrder, HeldIsRead, [Next]_vars, ~disposed'
  PROVE  HeldIsRead'
<1>1. origin \in Nat /\ entries \in [{Uri} -> Cache!Entry \cup {None}]
  BY DEF CacheInv, Cache!TypeOK
<1>2. origin' = origin \/ origin' = origin + 1
  BY WorldStep DEF WorldMoves, WorldStays, Tick, Cache!Tick, RotateKeys, Cache!Rotate
<1>3. CASE entries'[Uri] = entries[Uri]
  <2>1. entries[Uri] # None => entries[Uri].ver \in Nat BY <1>1 DEF Cache!Entry
  <2> QED BY <1>1, <1>2, <1>3, <2>1 DEF HeldIsRead
<1>4. CASE entries'[Uri] = None BY <1>4 DEF HeldIsRead
<1>5. ASSUME WorldStays, NEW s \in Slot, loads[Uri][s].phase = "answered",
             entries'[Uri] = Cache!Landing(Uri, s)
      PROVE  HeldIsRead'
  <2>1. loads[Uri][s].ver <= origin
    BY <1>5 DEF LoadsInOrder, LoadInOrder, Cache!Running
  <2>2. entries'[Uri].ver = loads[Uri][s].ver BY <1>5 DEF Cache!Landing
  <2> QED BY <1>5, <2>1, <2>2 DEF HeldIsRead, WorldStays
<1> QED BY <1>3, <1>4, <1>5, EntryStep

LEMMA OrderStep == CacheInv /\ AuthInv /\ OrderInv /\ [Next]_vars => OrderInv'
<1> SUFFICES ASSUME CacheInv, AuthInv, OrderInv, [Next]_vars, ~disposed'
             PROVE  OneLoad' /\ LoadsInOrder' /\ HeldIsRead'
  BY DEF OrderInv
<1>0. now \in Nat /\ origin \in Nat /\ loads \in [{Uri} -> [Slot -> Cache!Load]]
  BY DEF CacheInv, Cache!TypeOK
<1>1. ~disposed /\ ~Dispose
  <2>1. Calls \/ RotateKeys \/ Tick => disposed' = disposed
    BY DEF Calls, RotateKeys, Cache!Rotate, Tick, Cache!Tick
  <2>2. \A s \in Slot : Cache!Chain(Uri, s) => disposed' = disposed
    BY DEF Cache!Chain, Cache!LoaderAnswers, Cache!LoaderFails, Cache!Then, Cache!Catch,
           Cache!Finally
  <2>3. ~Dispose BY DEF Dispose, Cache!Dispose
  <2> QED BY <2>1, <2>2, <2>3, CallsOrNot, FetchIsChain
<1>2. OneLoad /\ LoadsInOrder /\ HeldIsRead BY <1>1 DEF OrderInv
<1>3. HeldIsRead' BY <1>2, HeldStaysRead
<1>4. CASE Calls /\ Opens
  <2>1. ASSUME NEW t \in Slot, Cache!Running(loads'[Uri][t])
        PROVE  /\ inFlight'[Uri] = t
               /\ LoadInOrder(loads'[Uri][t], entries'[Uri], now', origin')
    BY <1>2, <1>4, <2>1, OpensFirst DEF LoadInOrder, Cache!Started
  <2> QED BY <1>3, <2>1 DEF OneLoad, LoadsInOrder, Cache!Running
<1>5. CASE Calls /\ UNCHANGED <<loads, inFlight>>
  BY <1>2, <1>3, <1>5 DEF Calls, OneLoad, LoadsInOrder, Cache!Running
<1>6. ASSUME NEW s \in Slot, Cache!Chain(Uri, s) PROVE OneLoad' /\ LoadsInOrder'
  <2>1. ASSUME NEW t \in Slot, Cache!Running(loads'[Uri][t])
        PROVE  /\ inFlight'[Uri] = t
               /\ LoadInOrder(loads'[Uri][t], entries'[Uri], now', origin')
    BY <1>2, <1>6, <2>1, ChainAlone, ChainInOrder
  <2> QED BY <2>1 DEF OneLoad, LoadsInOrder, Cache!Running
<1>7. CASE RotateKeys \/ Tick
  <2>1. /\ entries' = entries /\ loads' = loads /\ inFlight' = inFlight
        /\ now' \in {now, now + 1} /\ origin' \in {origin, origin + 1}
    BY <1>7 DEF RotateKeys, Cache!Rotate, Tick, Cache!Tick
  <2>2. OneLoad' BY <1>2, <2>1 DEF OneLoad, Cache!Running
  <2>3. ASSUME NEW s \in Slot, Cache!Running(loads[Uri][s])
        PROVE  LoadInOrder(loads[Uri][s], entries[Uri], now', origin')
    <3>1. LoadInOrder(loads[Uri][s], entries[Uri], now, origin)
      BY <1>2, <2>3 DEF LoadsInOrder
    <3>2. loads[Uri][s].ver \in Nat BY <1>0 DEF Cache!Load
    <3>3. entries[Uri] # None => entries[Uri].expiresAt \in Nat /\ TTL \in Nat
      BY ValidationAssumption DEF CacheInv, Cache!TypeOK, Cache!Entry
    <3> QED BY <1>0, <2>1, <3>1, <3>2, <3>3 DEF LoadInOrder
  <2>4. ASSUME NEW s \in Slot, Cache!Running(loads'[Uri][s])
        PROVE  LoadInOrder(loads'[Uri][s], entries'[Uri], now', origin')
    BY <2>1, <2>3, <2>4
  <2>5. LoadsInOrder' BY <2>4 DEF LoadsInOrder, Cache!Running
  <2> QED BY <1>3, <2>2, <2>5
<1> QED BY <1>1, <1>3, <1>4, <1>5, <1>6, <1>7, CallsOrNot, FetchIsChain DEF Calls

LEMMA OrderInvHolds == Spec => []OrderInv
<1>1. Init => OrderInv
  BY DEF Init, Cache!Init, OrderInv, OneLoad, LoadsInOrder, HeldIsRead, Cache!NoLoad,
         Cache!Running
<1> QED BY <1>1, OrderStep, CacheInvHolds, AuthInvHolds, PTL DEF Spec
-----------------------------------------------------------------------------
(* A token that must be accepted. *)

(* The load is going to bring a set with the key. *)
Brings(l, kid) ==
  /\ l.phase # "failed"
  /\ l.phase = "answered" => kid \in KeysOf[l.ver]
  /\ l.phase = "landed" => Cache!IsValue(l.out) /\ kid \in KeysOf[l.out.ver]

DueKept(r) == Asking(r) /\ auth[r].due =>
  /\ ~disposed
  /\ Published(auth[r].kid)
  /\ \A s \in Slot : Cache!Running(loads[Uri][s]) => Brings(loads[Uri][s], auth[r].kid)
  /\ task[r].pc = "idle" =>
       Cache!IsValue(task[r].out) /\ (auth[r].stage = "retry" => Matches(r))

DueInv == \A r \in Request : DueKept(r)

(* What ends it. *)
LEMMA DueSurvives ==
  ASSUME AuthInv, NEW r \in Request, auth'[r].due
  PROVE  /\ ~Dispose
         /\ \A s \in Slot : ~FetchFails(s)
         /\ RotateKeys /\ Published(auth[r].kid) => auth[r].kid \in KeysOf[origin']
<1>0. auth \in [Request -> Auth] BY DEF AuthInv
<1>1. auth[r] \in Auth BY <1>0
<1>2. [auth[r] EXCEPT !.due = FALSE].due = FALSE
  BY <1>1 DEF Auth
<1>3. [auth[r] EXCEPT !.due = FALSE, !.until = None].due = FALSE
  BY <1>1 DEF Auth
<1>4. ~Dispose BY <1>3 DEF Dispose
<1>5. \A s \in Slot : ~FetchFails(s) BY <1>2 DEF FetchFails
<1>6. RotateKeys => auth[r].kid \notin KeysOf[origin] \ KeysOf[origin + 1]
  BY <1>3 DEF RotateKeys
<1>7. RotateKeys => origin' = origin + 1 BY DEF RotateKeys, Cache!Rotate
<1> QED BY <1>4, <1>5, <1>6, <1>7 DEF Published

(* The loads of a due request, over a step that is not its first. *)
LEMMA DueLoads ==
  ASSUME CacheInv, AuthInv, OrderInv, [Next]_vars, NEW r \in Request, DueKept(r), Asking(r),
         auth[r].due, auth'[r].due,
         NEW s \in Slot, Cache!Running(loads'[Uri][s])
  PROVE  Brings(loads'[Uri][s], auth[r].kid)
<1> DEFINE l == loads[Uri][s]
           n == loads'[Uri][s]
           kid == auth[r].kid
<1>1. ~disposed /\ kid \in KeysOf[origin] /\ (Cache!Running(l) => Brings(l, kid))
  BY DEF DueKept, Published
<1>2. OneLoad /\ LoadsInOrder BY <1>1 DEF OrderInv
<1>3. CASE n = l BY <1>1, <1>3
<1>4. CASE n = Cache!Started BY <1>4 DEF Brings, Cache!Started
<1>5. CASE n = Cache!NoLoad BY <1>5 DEF Cache!Running, Cache!NoLoad
<1>6. CASE Turned(s, "answered", origin, None) BY <1>1, <1>6 DEF Turned, Brings
<1>7. CASE l.phase = "answered" /\ Turned(s, "landed", l.ver, Cache!Landing(Uri, s))
  <2>1. kid \in KeysOf[l.ver] BY <1>1, <1>7 DEF Brings, Cache!Running
  <2>2. n.phase = "landed" /\ n.out = Cache!Landing(Uri, s) BY <1>7 DEF Turned
  <2>3. Cache!Landing(Uri, s).ver = l.ver /\ Cache!Landing(Uri, s) \in Cache!Entry
    BY ValidationAssumption
       DEF Cache!Landing, Cache!Entry, CacheInv, Cache!TypeOK, Cache!Load
  <2>4. Cache!IsValue(n.out) BY <2>2, <2>3, ValidationAssumption DEF Cache!IsValue
  <2> QED BY <2>1, <2>2, <2>3, <2>4 DEF Brings
<1>8. CASE l.phase = "failed" BY <1>1, <1>8 DEF Brings, Cache!Running
<1>9. CASE l.phase = "loading" /\ Turned(s, "failed", 0, None)
  <2>1. ASSUME NEW t \in Slot, FetchGoesOn(t) PROVE FALSE
    <3>1. t = s BY <1>2, <2>1, ChainAlone, FetchIsChain
    <3>2. Turned(s, "answered", origin, None)
      BY <1>9, <2>1, <3>1, AdvancesOne DEF FetchGoesOn, Cache!LoaderAnswers, Cache!Then,
                                           Cache!Catch, Cache!Finally
    <3> QED BY <1>9, <3>2 DEF Turned
  <2>2. n # l BY <1>9 DEF Turned
  <2>3. ASSUME Calls PROVE FALSE
    <3>1. n = Cache!Started BY <1>2, <2>2, <2>3, OpensFirst DEF Calls
    <3> QED BY <1>9, <3>1 DEF Turned, Cache!Started
  <2>4. ~RotateKeys /\ ~Tick BY <2>2 DEF RotateKeys, Cache!Rotate, Tick, Cache!Tick
  <2> QED BY <2>1, <2>3, <2>4, CallsOrNot, DueSurvives
<1> QED BY <1>3, <1>4, <1>5, <1>6, <1>7, <1>8, <1>9, LoadStep DEF LoadMoves

LEMMA NotDisposed ==
  ASSUME CacheInv, [Next]_vars, ~disposed, ~Dispose
  PROVE  ~disposed'
<1>1. ASSUME NEW s \in Slot, Cache!Chain(Uri, s) PROVE ~disposed'
  BY <1>1 DEF Cache!Chain, Cache!LoaderAnswers, Cache!LoaderFails, Cache!Then, Cache!Catch,
              Cache!Finally
<1> QED BY <1>1, CallsOrNot, FetchIsChain
        DEF Calls, RotateKeys, Cache!Rotate, Tick, Cache!Tick

LEMMA RefreshWaits ==
  ASSUME CacheInv, NEW r \in Request, Cache!Refresh(r, Uri), ~disposed
  PROVE  task'[r].pc = "waiting"
<1>0. task \in [Request -> Cache!Task] BY DEF CacheInv, Cache!TypeOK
<1>1. ASSUME NEW s \in Slot, Cache!Awaits(r, "refresh", Uri, s)
      PROVE  task'[r].pc = "waiting"
  BY <1>0, <1>1, ValidationAssumption DEF Cache!Awaits, Cache!Called
<1> QED BY <1>1 DEF Cache!Refresh, Cache!LoadFor, Cache!Shares, CacheInv, Cache!TypeOK

LEMMA EntryIsValue == ASSUME NEW e \in Cache!Entry PROVE Cache!IsValue(e)
  BY ValidationAssumption DEF Cache!IsValue

LEMMA RetryKeeps ==
  ASSUME AuthInv, NEW r \in Request, Becomes(r, "retry")
  PROVE  /\ auth'[r].kid = auth[r].kid
         /\ auth'[r].due => auth[r].due
         /\ auth'[r].until = auth[r].until
<1>0. auth \in [Request -> Auth] BY DEF AuthInv
<1>1. auth'[r] = [auth[r] EXCEPT !.stage = "retry"] BY <1>0 DEF Becomes
<1>2. ASSUME NEW a \in Auth, NEW b, b = [a EXCEPT !.stage = "retry"]
      PROVE  b.kid = a.kid /\ (b.due => a.due) /\ b.until = a.until
  BY <1>2 DEF Auth
<1> QED BY <1>0, <1>1, <1>2

LEMMA DueStep == CacheInv /\ AuthInv /\ OrderInv /\ DueInv /\ [Next]_vars => DueInv'
<1> SUFFICES ASSUME CacheInv, AuthInv, OrderInv, DueInv, [Next]_vars,
                    NEW r \in Request, Asking(r)', auth'[r].due
             PROVE  /\ ~disposed'
                    /\ auth'[r].kid \in KeysOf[origin']
                    /\ \A s \in Slot : Cache!Running(loads'[Uri][s]) =>
                         Brings(loads'[Uri][s], auth'[r].kid)
                    /\ task'[r].pc = "idle" =>
                         /\ Cache!IsValue(task'[r].out)
                         /\ auth'[r].stage = "retry" =>
                              auth'[r].kid \in KeysOf[task'[r].out.ver]
  BY DEF DueInv, DueKept, Asking, Published, Matches, Cache!Running, Cache!IsValue
<1>0. auth \in [Request -> Auth] BY DEF AuthInv
<1>1. DueKept(r) BY DEF DueInv
<1>2. ~Dispose BY DueSurvives
<1>3. ASSUME auth[r].due, Asking(r), auth'[r].kid = auth[r].kid
      PROVE  /\ ~disposed' /\ auth'[r].kid \in KeysOf[origin']
             /\ \A s \in Slot : Cache!Running(loads'[Uri][s]) =>
                  Brings(loads'[Uri][s], auth'[r].kid)
  <2>1. ~disposed /\ Published(auth[r].kid) BY <1>1, <1>3 DEF DueKept
  <2>2. ~disposed' BY <1>2, <2>1, NotDisposed
  <2>3. origin' = origin \/ RotateKeys
    BY WorldStep DEF WorldMoves, WorldStays, Tick, Cache!Tick
  <2>4. auth'[r].kid \in KeysOf[origin'] BY <1>3, <2>1, <2>3, DueSurvives DEF Published
  <2> QED BY <1>1, <1>3, <2>2, <2>4, DueLoads
<1>4. CASE Quiet(r) /\ Asking(r)
  <2>1. /\ auth[r].due /\ auth'[r].kid = auth[r].kid /\ auth'[r].stage = auth[r].stage
    BY <1>4 DEF Quiet, SameAuth
  <2>2. CASE task'[r] = task[r]
    BY <1>1, <1>3, <1>4, <2>1, <2>2 DEF DueKept, Matches
  <2>3. ASSUME NEW s \in Slot, Cache!Finally(Uri, s),
               task'[r] = Cache!Resumed(task[r], loads[Uri][s].out)
        PROVE  /\ Cache!IsValue(task'[r].out)
               /\ auth'[r].kid \in KeysOf[task'[r].out.ver]
    <3>1. loads[Uri][s].phase = "landed" BY <2>3 DEF Cache!Finally
    <3>2. Brings(loads[Uri][s], auth[r].kid)
      BY <1>1, <1>4, <2>1, <3>1 DEF DueKept, Cache!Running
    <3>3. task'[r].out = loads[Uri][s].out BY <2>3 DEF Cache!Resumed
    <3> QED BY <2>1, <3>1, <3>2, <3>3 DEF Brings
  <2> QED BY <1>3, <1>4, <2>1, <2>2, <2>3 DEF Quiet
<1>5. ASSUME NEW kid \in Kid, Authenticate(r, kid)
      PROVE  /\ ~disposed' /\ auth'[r].kid \in KeysOf[origin']
             /\ \A s \in Slot : Cache!Running(loads'[Uri][s]) =>
                  Brings(loads'[Uri][s], auth'[r].kid)
             /\ task'[r].pc = "idle" => Cache!IsValue(task'[r].out)
             /\ auth'[r].stage = "first"
  <2>1. /\ auth'[r].kid = kid /\ auth'[r].stage = "first"
        /\ Published(kid) /\ ~disposed /\ inFlight[Uri] = None
    BY <1>0, <1>5 DEF Authenticate
  <2>2. Calls BY <1>5, CallCalls DEF Authenticate
  <2>3. \A s \in Slot : ~Cache!Running(loads[Uri][s])
    BY <2>1, ValidationAssumption DEF OrderInv, OneLoad
  <2>4. ASSUME NEW s \in Slot, Cache!Running(loads'[Uri][s])
        PROVE  Brings(loads'[Uri][s], kid)
    <3>1. Opens /\ OneLoad BY <2>1, <2>2, <2>3, <2>4 DEF Calls, OrderInv
    <3>2. loads'[Uri][s] = Cache!Started BY <2>4, <3>1, OpensFirst
    <3> QED BY <3>2 DEF Brings, Cache!Started
  <2>5. task'[r].pc = "idle" => Cache!IsValue(task'[r].out)
    <3>1. entries[Uri] # None => Cache!IsValue(entries[Uri])
      BY EntryIsValue DEF CacheInv, Cache!TypeOK
    <3> QED BY <1>5, <2>1, <3>1, CallMakes DEF Authenticate
  <2> QED BY <2>1, <2>2, <2>4, <2>5 DEF Calls, Published
<1>6. CASE Retries(r)
  <2>1. auth'[r].kid = auth[r].kid /\ auth[r].due /\ Asking(r)
    BY <1>6, RetryKeeps DEF Retries
  <2>2. ~disposed BY <1>1, <2>1 DEF DueKept
  <2>3. task'[r].pc = "waiting"
    BY <1>6, <2>2, RefreshWaits DEF Retries, RetryAfterRefresh
  <2> QED BY <1>3, <2>1, <2>3
<1> QED BY <1>4, <1>5, <1>6, AskingStep

LEMMA DueInvHolds == Spec => []DueInv
<1>1. Init => DueInv BY DEF Init, DueInv, DueKept, Asking, At
<1> QED BY <1>1, DueStep, CacheInvHolds, AuthInvHolds, OrderInvHolds, PTL DEF Spec

(* Turning a request down is the check of what its call answered, too.     *)
LEMMA TurnDownStep ==
  ASSUME CacheInv, AuthInv, [Next]_vars, NEW r \in Request,
         Decides(r, {"rejected", "unavailable"})
  PROVE  /\ Asking(r) /\ Answered(r)
         /\ ~Obtained(r) \/ (auth[r].stage = "retry" /\ ~Matches(r))
<1>1. Asking(r) /\ auth'[r].stage \in {"rejected", "unavailable"} BY DEF Decides, Asking
<1>2. CheckFirst(r) \/ CheckRetry(r) BY DecideStep DEF Stage
<1>3. CASE CheckFirst(r) BY <1>1, <1>3, BecomesStage DEF CheckFirst, Stage
<1>4. CASE CheckRetry(r) BY <1>1, <1>4, BecomesStage DEF CheckRetry, Stage
<1> QED BY <1>2, <1>3, <1>4

(* Key rotation is picked up, however often the key set changes and however*)
(* many requests and loads there are: a token whose key stays published is *)
(* not turned down unless a fetch failed or an older one was under way.    *)
THEOREM RotationPickedUpTheorem == Spec => RotationPickedUp
<1>1. ASSUME CacheInv, AuthInv, DueInv, [Next]_vars, NEW r \in Request,
             Decides(r, {"rejected", "unavailable"})
      PROVE  ~auth[r].due
  BY <1>1, TurnDownStep DEF DueInv, DueKept, Answered, Obtained
<1>2. CacheInv /\ AuthInv /\ DueInv /\ [Next]_vars
        => [\A r \in Request : Decides(r, {"rejected", "unavailable"}) => ~auth[r].due]_vars
  BY <1>1
<1> QED BY <1>2, CacheInvHolds, AuthInvHolds, DueInvHolds, PTL DEF Spec, RotationPickedUp
-----------------------------------------------------------------------------
(* A token the held set stands in for. *)

Covers(e, kid, v) == \A u \in e.ver .. v : kid \in KeysOf[u]

Stands(r) ==
  /\ ~disposed
  /\ entries[Uri] # None
  /\ auth[r].until <= entries[Uri].expiresAt + TTL
  /\ Covers(entries[Uri], auth[r].kid, origin)

SparedKept(r) == Asking(r) /\ auth[r].until # None =>
  \/ now >= auth[r].until
  \/ /\ Stands(r)
     /\ task[r].pc = "idle" => Cache!IsValue(task[r].out) /\ Matches(r)

SparedInv == \A r \in Request : SparedKept(r)

LEMMA UntilSurvives ==
  ASSUME AuthInv, NEW r \in Request, auth'[r].until # None
  PROVE  /\ ~Dispose
         /\ RotateKeys /\ Published(auth[r].kid) => auth[r].kid \in KeysOf[origin']
<1>0. auth \in [Request -> Auth] BY DEF AuthInv
<1>1. auth[r] \in Auth BY <1>0
<1>2. [auth[r] EXCEPT !.due = FALSE, !.until = None].until = None BY <1>1 DEF Auth
<1>3. ~Dispose BY <1>2 DEF Dispose
<1>4. RotateKeys => auth[r].kid \notin KeysOf[origin] \ KeysOf[origin + 1]
  BY <1>2 DEF RotateKeys
<1>5. RotateKeys => origin' = origin + 1 BY DEF RotateKeys, Cache!Rotate
<1> QED BY <1>3, <1>4, <1>5 DEF Published

(* What is held goes on standing in, or what lands instead. *)
LEMMA StandsOn ==
  ASSUME CacheInv, AuthInv, RevocationInv, OrderInv, [Next]_vars, NEW r \in Request,
         auth[r].until \in Nat, auth'[r].until = auth[r].until, auth'[r].kid = auth[r].kid,
         ~(auth'[r].until = None), Stands(r)
  PROVE  Stands(r)'
<1> DEFINE e == entries[Uri]
           n == entries'[Uri]
           kid == auth[r].kid
           until == auth[r].until
<1>0. /\ now \in Nat /\ TTL \in Nat /\ origin \in Nat
      /\ e \in Cache!Entry
  BY ValidationAssumption DEF CacheInv, Cache!TypeOK, Stands
<1>1. e.ver \in Nat /\ e.expiresAt \in Nat BY <1>0 DEF Cache!Entry
<1>2. /\ ~disposed /\ until <= e.expiresAt + TTL
      /\ \A u \in e.ver .. origin : kid \in KeysOf[u]
  BY DEF Stands, Covers
<1>3. ~Dispose /\ ~disposed' BY <1>2, NotDisposed, UntilSurvives
<1>4. e.ver <= origin /\ LoadsInOrder BY <1>2 DEF OrderInv, HeldIsRead, Stands
<1>5. CASE n = e
  <2>1. \A u \in e.ver .. origin' : kid \in KeysOf[u]
    <3>1. CASE origin' = origin BY <1>2, <3>1
    <3>2. CASE RotateKeys
      <4>1. origin' = origin + 1 BY <3>2 DEF RotateKeys, Cache!Rotate
      <4>2. kid \in KeysOf[origin] BY <1>0, <1>1, <1>2, <1>4
      <4>3. kid \in KeysOf[origin'] BY <3>2, <4>2, UntilSurvives DEF Published
      <4> HIDE DEF kid, e
      <4> QED BY <1>0, <1>1, <1>2, <4>1, <4>3
    <3> QED BY <3>1, <3>2, WorldStep DEF WorldMoves, WorldStays, Tick, Cache!Tick
  <2>2. n # None BY <1>5 DEF Stands
  <2> QED BY <1>2, <1>3, <1>5, <2>1, <2>2 DEF Stands, Covers
<1>6. ASSUME WorldStays, NEW s \in Slot, loads[Uri][s].phase = "answered",
             n = Cache!Landing(Uri, s)
      PROVE  Stands(r)'
  <2> DEFINE l == loads[Uri][s]
  <2>1. /\ l.ver \in Nat
        /\ e.ver <= l.ver
    BY <1>4, <1>6
       DEF LoadsInOrder, LoadInOrder, Cache!Running, Stands, CacheInv, Cache!TypeOK, Cache!Load
  <2>2. n.ver = l.ver /\ n.expiresAt = now + TTL BY <1>6 DEF Cache!Landing
  <2>3. n # None
    <3>1. n \in Cache!Entry BY <1>0, <1>6, <2>1 DEF Cache!Landing, Cache!Entry
    <3> QED BY <3>1, ValidationAssumption
  <2>4. e.expiresAt <= now + TTL BY DEF RevocationInv, EntryLawful, Lawful, Stands
  <2>5. until <= n.expiresAt + TTL
    <3>1. until \in Nat OBVIOUS
    <3>2. until <= e.expiresAt + TTL BY <1>2
    <3> HIDE DEF e, n, until
    <3> QED BY <1>0, <1>1, <2>2, <2>4, <3>1, <3>2
  <2>6. \A u \in n.ver .. origin : kid \in KeysOf[u]
    <3> HIDE DEF e, n, kid, l
    <3> QED BY <1>0, <1>1, <1>2, <2>1, <2>2
  <2> QED BY <1>3, <1>6, <2>3, <2>5, <2>6 DEF Stands, Covers, WorldStays
<1> QED BY <1>3, <1>5, <1>6, EntryStep

LEMMA SparedStep ==
  CacheInv /\ AuthInv /\ RevocationInv /\ OrderInv /\ SparedInv /\ [Next]_vars => SparedInv'
<1> SUFFICES ASSUME CacheInv, AuthInv, RevocationInv, OrderInv, SparedInv, [Next]_vars,
                    NEW r \in Request, Asking(r)', auth'[r].until # None
             PROVE  \/ now' >= auth'[r].until
                    \/ /\ Stands(r)'
                       /\ task'[r].pc = "idle" =>
                            /\ Cache!IsValue(task'[r].out)
                            /\ auth'[r].kid \in KeysOf[task'[r].out.ver]
  BY DEF SparedInv, SparedKept, Asking, Matches, Cache!IsValue
<1>0. /\ auth \in [Request -> Auth]
      /\ now \in Nat /\ now' \in {now, now + 1}
  BY WorldStep DEF CacheInv, Cache!TypeOK, AuthInv, WorldMoves, WorldStays, Tick, Cache!Tick,
                   RotateKeys, Cache!Rotate
<1>1. SparedKept(r) BY DEF SparedInv
<1>2. CASE Quiet(r) /\ Asking(r)
  <2>1. auth'[r].until = auth[r].until /\ auth'[r].kid = auth[r].kid
    BY <1>2 DEF Quiet, SameAuth
  <2>2. auth[r].until \in Nat BY <1>0, <2>1 DEF Auth
  <2>3. CASE now >= auth[r].until BY <1>0, <2>1, <2>2, <2>3
  <2>4. CASE /\ Stands(r)
             /\ task[r].pc = "idle" => Cache!IsValue(task[r].out) /\ Matches(r)
    <3>1. Stands(r)' BY <2>1, <2>2, <2>4, StandsOn
    <3>2. CASE task'[r] = task[r] BY <2>1, <2>4, <3>1, <3>2 DEF Matches
    <3>3. ASSUME NEW s \in Slot, Cache!Finally(Uri, s),
                 task'[r] = Cache!Resumed(task[r], loads[Uri][s].out)
          PROVE  \/ now >= auth[r].until
                 \/ /\ Cache!IsValue(task'[r].out)
                    /\ auth[r].kid \in KeysOf[task'[r].out.ver]
      <4> DEFINE e == entries[Uri]
      <4>1. e \in Cache!Entry /\ origin \in Nat /\ TTL \in Nat
        BY <2>4, ValidationAssumption DEF Stands, CacheInv, Cache!TypeOK
      <4>2. e.ver \in Nat /\ e.expiresAt \in Nat BY <4>1 DEF Cache!Entry
      <4>3. loads[Uri][s].phase = "landed" /\ task'[r].out = loads[Uri][s].out
        BY <3>3 DEF Cache!Finally, Cache!Resumed
      <4>4. LoadInOrder(loads[Uri][s], e, now, origin) /\ e.ver <= origin
        BY <2>4, <4>3 DEF Stands, OrderInv, LoadsInOrder, HeldIsRead, Cache!Running
      <4>5. CASE task'[r].out = e
        <5>1. auth[r].kid \in KeysOf[e.ver]
          BY <2>4, <4>1, <4>2, <4>4 DEF Stands, Covers
        <5> QED BY <4>1, <4>5, <5>1, EntryIsValue
      <4>6. CASE now >= e.expiresAt + TTL
        <5>1. auth[r].until <= e.expiresAt + TTL BY <2>4 DEF Stands
        <5> HIDE DEF e
        <5> QED BY <1>0, <2>2, <4>1, <4>2, <4>6, <5>1
      <4> QED BY <2>4, <4>3, <4>4, <4>5, <4>6 DEF LoadInOrder, Stands
    <3>4. now >= auth[r].until => now' >= auth'[r].until BY <1>0, <2>1, <2>2
    <3> QED BY <1>2, <2>1, <3>1, <3>2, <3>3, <3>4 DEF Quiet
  <2> QED BY <1>1, <1>2, <2>1, <2>3, <2>4 DEF SparedKept
<1>3. ASSUME NEW kid \in Kid, Authenticate(r, kid)
      PROVE  /\ Stands(r)'
             /\ task'[r].pc = "idle" =>
                  /\ Cache!IsValue(task'[r].out)
                  /\ auth'[r].kid \in KeysOf[task'[r].out.ver]
  <2> DEFINE e == entries[Uri]
  <2>1. auth'[r].kid = kid /\ auth'[r].until = StandsInUntil(kid)
    BY <1>0, <1>3 DEF Authenticate
  <2>2. /\ ~disposed /\ e # None
        /\ \A u \in e.ver .. origin : kid \in KeysOf[u]
        /\ auth'[r].until = e.expiresAt + TTL
    BY <2>1 DEF StandsInUntil
  <2>3. e \in Cache!Entry /\ origin \in Nat /\ TTL \in Nat
    BY <2>2, ValidationAssumption DEF CacheInv, Cache!TypeOK
  <2>4. e.ver \in Nat /\ e.expiresAt \in Nat BY <2>3 DEF Cache!Entry
  <2>5. UNCHANGED <<origin, entries, disposed>> BY <1>3 DEF Authenticate, Cache!Get
  <2>6. Stands(r)' BY <2>1, <2>2, <2>3, <2>4, <2>5 DEF Stands, Covers
  <2>7. e.ver <= origin BY <2>2 DEF OrderInv, HeldIsRead
  <2>8. kid \in KeysOf[e.ver] BY <2>2, <2>3, <2>4, <2>7
  <2> QED BY <1>3, <2>1, <2>2, <2>3, <2>6, <2>8, CallMakes, EntryIsValue DEF Authenticate
<1>4. CASE Retries(r)
  <2>1. auth'[r].until = auth[r].until /\ Asking(r) BY <1>4, RetryKeeps DEF Retries
  <2>2. task[r].pc = "idle" /\ ~(Obtained(r) /\ Matches(r))
    <3>1. ASSUME NEW stage \in Stage, Becomes(r, stage) PROVE stage = "retry"
      <4>1. auth'[r].stage = stage /\ auth'[r].stage = "retry"
        BY <3>1, <1>4, BecomesStage DEF Retries, Stage
      <4> QED BY <4>1
    <3> QED BY <1>4, <3>1 DEF Retries, CheckFirst, Answered, Stage
  <2>3. now >= auth[r].until BY <1>1, <2>1, <2>2 DEF SparedKept, Obtained
  <2>4. now' = now BY <1>4 DEF Retries, RetryAfterRefresh, Cache!Refresh
  <2> QED BY <2>1, <2>3, <2>4
<1> QED BY <1>2, <1>3, <1>4, AskingStep

LEMMA SparedInvHolds == Spec => []SparedInv
<1>1. Init => SparedInv BY DEF Init, SparedInv, SparedKept, Asking, At
<1> QED BY <1>1, SparedStep, CacheInvHolds, AuthInvHolds, RevocationInvHolds, OrderInvHolds,
           PTL DEF Spec

(* An outage of the endpoint is tolerated, however long it lasts: a token  *)
(* whose key the held set has is turned down only once that set may not    *)
(* stand in any more.                                                      *)
THEOREM OutageToleratedTheorem == Spec => OutageTolerated
<1>1. ASSUME CacheInv, AuthInv, SparedInv, [Next]_vars, NEW r \in Request,
             Decides(r, {"rejected", "unavailable"})
      PROVE  auth[r].until = None \/ now >= auth[r].until
  BY <1>1, TurnDownStep DEF SparedInv, SparedKept, Answered, Obtained
<1>2. CacheInv /\ AuthInv /\ SparedInv /\ [Next]_vars
        => [\A r \in Request : Decides(r, {"rejected", "unavailable"})
                               => auth[r].until = None \/ now >= auth[r].until]_vars
  BY <1>1
<1> QED BY <1>2, CacheInvHolds, AuthInvHolds, SparedInvHolds, PTL DEF Spec, OutageTolerated
=============================================================================
